----------------------------- MODULE MinorUnits -----------------------------
(***************************************************************************)
(* Amounts of money in minor units (cents): the signed 32-bit INT columns  *)
(* of schema.prisma and their bounds in common/validation/constants.ts.    *)
(***************************************************************************)
EXTENDS Integers, FiniteSets

CONSTANT MaxMinor   \* MAX_MINOR_AMOUNT, the largest value of the INT column

ASSUME MinorAssumption == MaxMinor \in Nat \ {0}

MinMinor == -MaxMinor - 1
Minor == MinMinor..MaxMinor

(* Sums of minor units.  Total(f) adds up a function whose values are in   *)
(* 0..MaxMinor by counting its units, so no recursion is needed.           *)

Units(f) == {u \in (DOMAIN f) \X (1..MaxMinor) : u[2] <= f[u[1]]}
Total(f) == Cardinality(Units(f))

=============================================================================
