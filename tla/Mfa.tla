-------------------------------- MODULE Mfa --------------------------------
(***************************************************************************)
(* The second factor of one user (modules/account-security): the TOTP      *)
(* secret and switch in the user's row, and the rows of his recovery       *)
(* codes.                                                                  *)
(*                                                                         *)
(* No handler of mfa.service.ts opens a transaction: a request moves on    *)
(* from one await to the next, and between them other requests move. A     *)
(* TOTP code is named by the secret it is computed from; secrets and sets  *)
(* of codes are drawn at random, so they are numbered as they are drawn.   *)
(***************************************************************************)
EXTENDS Integers, FiniteSets

CONSTANTS
    MfaRequests,    \* requests served at the same time
    MaxSecrets,     \* bound: secrets drawn
    MaxSets,        \* bound: sets of recovery codes drawn
    RecoveryCodeCount

ASSUME MfaAssumption ==
    MaxSecrets \in Nat /\ MaxSets \in Nat /\ RecoveryCodeCount \in Nat \ {0}

VARIABLES
    mfaUser,        \* mfaSecret (0: null) and mfaEnabled
    codes,          \* rows of mfa_recovery_codes
    mfaReq,         \* what each request is about to do
    drawn,          \* how many secrets and sets of codes have been drawn
    history         \* what has happened; no step reads it

mfaVars == <<mfaUser, codes, mfaReq, drawn, history>>

Secrets == 1..MaxSecrets
Codes == [set : 1..MaxSets, n : 1..RecoveryCodeCount]
NoCode == [set |-> 0, n |-> 0]
CodeRow == [code : Codes, used : BOOLEAN]
Unused(code) == [code |-> code, used |-> FALSE]
Used(code) == [code |-> code, used |-> TRUE]

Quiet == [op |-> "quiet"]
Pcs == {"delete", "create", "switchOn", "verify", "lookup", "burn", "clear", "switchOff"}
MfaRequest ==
    [op : {"enable", "disable", "verify"}, pc : Pcs,
     secret : Secrets \cup {0}, code : Codes \cup {NoCode}]

(* proven: secrets an enable has seen a code of; redeemed: how often a     *)
(* code was accepted; events: what may have gone wrong since.              *)
Events == {"enables overlap", "factor replaced", "half done"}

(* A code is presented as a recovery code or as a TOTP code, never both.   *)
MfaTypeOK ==
    /\ mfaUser \in [secret : Secrets \cup {0}, enabled : BOOLEAN]
    /\ codes \subseteq CodeRow
    /\ mfaReq \in [MfaRequests -> MfaRequest \cup {Quiet}]
    /\ \A r \in MfaRequests : mfaReq[r] # Quiet =>
          (mfaReq[r].secret = 0 <=> mfaReq[r].code # NoCode)
    /\ drawn \in [secrets : 0..MaxSecrets, sets : 0..MaxSets]
    /\ history \in [proven : SUBSET Secrets, redeemed : [Codes -> Nat],
                    contested : SUBSET Codes, events : SUBSET Events]

-----------------------------------------------------------------------------
Serving(r) == mfaReq[r] # Quiet
AtPc(r, pc) == Serving(r) /\ mfaReq[r].pc = pc
Proceed(r, pc) == mfaReq' = [mfaReq EXCEPT ![r].pc = pc]
Answer(r) == mfaReq' = [mfaReq EXCEPT ![r] = Quiet]

(* An enable that has checked its code and not yet switched MFA on.        *)
Enabling(r) == Serving(r) /\ mfaReq[r].op = "enable"
Note(event, happened) ==
    history' = [history EXCEPT !.events = IF happened THEN @ \cup {event} ELSE @]

(* setup: a new secret is pending, and MFA off until a code proves it.     *)
SetupKeepingSwitch(s) == [secret |-> s, enabled |-> mfaUser.enabled]   \* mutant
PendingSecret(s) == [secret |-> s, enabled |-> FALSE]

Setup ==
    /\ drawn.secrets < MaxSecrets
    /\ drawn' = [drawn EXCEPT !.secrets = @ + 1]
    /\ mfaUser' = PendingSecret(drawn'.secrets)
    /\ Note("factor replaced", \E r \in MfaRequests : Enabling(r))
    /\ UNCHANGED <<codes, mfaReq>>

(* enable: the code is checked against the secret read, and the recovery   *)
(* codes are replaced and MFA switched on one statement after another.     *)
StartEnable(r, s) ==
    /\ ~Serving(r)
    /\ mfaUser.secret = s
    /\ mfaReq' = [mfaReq EXCEPT ![r] =
          [op |-> "enable", pc |-> "delete", secret |-> s, code |-> NoCode]]
    /\ history' = [history EXCEPT !.proven = @ \cup {s}]
    /\ UNCHANGED <<mfaUser, codes, drawn>>

RowsAfterDelete == {}           \* deleteByUser

DeleteOldCodes(r) ==
    /\ AtPc(r, "delete")
    /\ codes' = RowsAfterDelete
    /\ Proceed(r, "create")
    /\ Note("enables overlap", \E q \in MfaRequests : AtPc(q, "create"))
    /\ UNCHANGED <<mfaUser, drawn>>

CreateCodes(r) ==
    /\ AtPc(r, "create")
    /\ drawn.sets < MaxSets
    /\ drawn' = [drawn EXCEPT !.sets = @ + 1]
    /\ codes' = codes \cup {Unused(c) : c \in {c \in Codes : c.set = drawn'.sets}}
    /\ Proceed(r, "switchOn")
    /\ UNCHANGED <<mfaUser, history>>

SwitchOn(r) ==
    /\ AtPc(r, "switchOn")
    /\ mfaUser' = [mfaUser EXCEPT !.enabled = TRUE]
    /\ Answer(r)
    /\ UNCHANGED <<codes, drawn, history>>

(* disable, and the two handlers that only call verify: the challenge of a *)
(* login, whose token any login that met MFA switched on has handed out,   *)
(* and the check of a code. The code is one the user has been given.       *)
Admitted(op) == op = "disable" => mfaUser.enabled /\ mfaUser.secret # 0

StartVerify(r, op, s, c) ==
    /\ ~Serving(r)
    /\ Admitted(op)
    /\ mfaReq' = [mfaReq EXCEPT ![r] = [op |-> op, pc |-> "verify", secret |-> s, code |-> c]]
    /\ UNCHANGED <<mfaUser, codes, drawn, history>>

Given == {c \in Codes : c.set <= drawn.sets}

(* verify answers true: the disable that called it goes on.                *)
Accept(r) == IF mfaReq[r].op = "disable" THEN Proceed(r, "clear") ELSE Answer(r)

VerifyTotp(r) ==
    /\ AtPc(r, "verify")
    /\ \/ mfaUser.secret = 0 /\ Answer(r)
       \/ mfaUser.secret # 0 /\ mfaUser.secret = mfaReq[r].secret /\ Accept(r)
       \/ mfaUser.secret # 0 /\ mfaUser.secret # mfaReq[r].secret /\ Proceed(r, "lookup")
    /\ UNCHANGED <<mfaUser, codes, drawn, history>>

FoundEvenUsed(code) == \E row \in codes : row.code = code   \* mutant: no filter on usedAt
FoundUnused(code) == Unused(code) \in codes

LookUpCode(r) ==
    /\ AtPc(r, "lookup")
    /\ IF FoundUnused(mfaReq[r].code)
       THEN /\ Proceed(r, "burn")
            /\ history' = [history EXCEPT !.contested =
                  IF \E q \in MfaRequests \ {r} : AtPc(q, "burn") /\ mfaReq[q].code = mfaReq[r].code
                  THEN @ \cup {mfaReq[r].code} ELSE @]
       ELSE Answer(r) /\ UNCHANGED history
    /\ UNCHANGED <<mfaUser, codes, drawn>>

(* markUsed: by id, whatever the row says; without a row it throws.        *)
Marked(code) == (codes \ {Unused(code)}) \cup {Used(code)}
BurnCode(r) ==
    LET code == mfaReq[r].code
    IN  /\ AtPc(r, "burn")
        /\ IF {Unused(code), Used(code)} \cap codes = {}
           THEN Answer(r) /\ UNCHANGED <<codes, history>>
           ELSE /\ codes' = Marked(code)
                /\ Accept(r)
                /\ history' = [history EXCEPT !.redeemed[code] = @ + 1]
        /\ UNCHANGED <<mfaUser, drawn>>

ClearCodes(r) ==
    /\ AtPc(r, "clear")
    /\ codes' = RowsAfterDelete
    /\ Proceed(r, "switchOff")
    /\ UNCHANGED <<mfaUser, drawn, history>>

SwitchOff(r) ==
    /\ AtPc(r, "switchOff")
    /\ mfaUser' = [secret |-> 0, enabled |-> FALSE]
    /\ Answer(r)
    /\ Note("factor replaced", \E q \in MfaRequests : Enabling(q))
    /\ UNCHANGED <<codes, drawn>>

(* A statement fails: the request stops where it is.                       *)
MfaFails(r) ==
    /\ Serving(r)
    /\ Answer(r)
    /\ Note("half done", mfaReq[r].pc \in {"create", "switchOff"})
    /\ UNCHANGED <<mfaUser, codes, drawn>>

-----------------------------------------------------------------------------
MfaInit ==
    /\ mfaUser = [secret |-> 0, enabled |-> FALSE]
    /\ codes = {}
    /\ mfaReq = [r \in MfaRequests |-> Quiet]
    /\ drawn = [secrets |-> 0, sets |-> 0]
    /\ history = [proven |-> {}, redeemed |-> [c \in Codes |-> 0],
                  contested |-> {}, events |-> {}]

EnableStep(r) ==
    \/ \E s \in Secrets : StartEnable(r, s)
    \/ DeleteOldCodes(r) \/ CreateCodes(r) \/ SwitchOn(r)

VerifyStep(r) ==
    \/ \E op \in {"disable", "verify"} :
          \/ \E s \in 1..drawn.secrets : StartVerify(r, op, s, NoCode)
          \/ \E c \in Given : StartVerify(r, op, 0, c)
    \/ VerifyTotp(r) \/ LookUpCode(r) \/ BurnCode(r)
    \/ ClearCodes(r) \/ SwitchOff(r)

MfaNext ==
    \/ Setup
    \/ \E r \in MfaRequests : EnableStep(r) \/ VerifyStep(r) \/ MfaFails(r)

MfaSpec == MfaInit /\ [][MfaNext]_mfaVars

-----------------------------------------------------------------------------
(* A recovery code is accepted once (mfa-recovery-code.repository.ts 35),  *)
(* in whatever order logins, checks, enables and disables use and replace  *)
(* codes, unless two requests look it up before either burns it.           *)
AcceptedOnce == \A c \in Codes : history.redeemed[c] <= 1 \/ c \in history.contested

(* The codes that still work are those of one set, the one shown last,     *)
(* unless two enables replace them at the same time.                       *)
OneSetOfCodes ==
    "enables overlap" \notin history.events =>
        \A row \in codes : row.code.set = drawn.sets

(* What a recovery code is worth: one login, until it is replaced.         *)
RecoveryCodesHold == AcceptedOnce /\ OneSetOfCodes

(* Whoever has MFA on can pass the gate: there is a secret, it is one he   *)
(* has proved to hold ("leaving MFA disabled until the user proves         *)
(* possession", mfa.service.ts 55), and he has been left a set of recovery *)
(* codes. Only a setup or disable that overtakes an enable, or an enable   *)
(* or disable that fails between its statements, breaks that.              *)
FactorIntact ==
    mfaUser.enabled =>
        /\ "factor replaced" \notin history.events => mfaUser.secret \in history.proven
        /\ history.events = {} => codes # {} \/ \E r \in MfaRequests : AtPc(r, "create") \/ AtPc(r, "switchOff")
=============================================================================
