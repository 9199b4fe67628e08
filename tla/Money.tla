------------------------------- MODULE Money -------------------------------
(* packages/shared-utils (money.ts): amounts in minor units, and in major  *)
(* units, which are counted in thousandths here. A currency has as many    *)
(* decimals as Intl says. Bound: one currency with none, one with two and  *)
(* one with three; two is also what a malformed code falls back to.        *)
EXTENDS Integers

CurrencyCodes == {"JPY", "USD", "KWD"}
MinorUnitFactor(currency) ==
    CASE currency = "JPY" -> 1 [] currency = "USD" -> 100 [] currency = "KWD" -> 1000

(* Math.round takes a half up; the quotient of minorToMajor is exact.      *)
MinorToMajor(minor, currency) == minor * (1000 \div MinorUnitFactor(currency))
MajorToMinor(major, currency) == (major * MinorUnitFactor(currency) + 500) \div 1000
=============================================================================
