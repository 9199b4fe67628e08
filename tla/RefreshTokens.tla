--------------------------- MODULE RefreshTokens ---------------------------
(* The refresh-token rows of the API and the requests that work on them:   *)
(* auth.controller.ts, auth.service.ts, token.service.ts. One step of a    *)
(* request is what runs between two awaits; no transaction spans them.     *)
(* A token drawn by randomBytes is a member of Tokens; a family is named   *)
(* by its first token. Only issued tokens are ever in a cookie, so the     *)
(* lookup by hash always finds its row.                                    *)
EXTENDS FiniteSets, Naturals

CONSTANTS Tokens,   \* the tokens that can be drawn
          Calls,    \* the requests the API can have under way
          None,     \* no cookie, no token
          Faults    \* a subset of AllFaults

AllFaults == {"server", "expiry", "lost", "reload", "retry"}

ASSUME TokenAssumption == None \notin Tokens /\ Faults \subseteq AllFaults

VARIABLES token,    \* the rows of refresh_tokens
          call      \* the requests the API is serving or has answered

rows == <<token, call>>

Unissued == [state |-> "unissued"]
Row == [state : {"live", "expired", "revoked"}, family : Tokens]

Idle == [pc |-> "idle"]
Working == {"find", "reuse", "revoke", "issue", "mark", "load"}
Answers == {"granted", "refused", "cleared", "failed"}
Call == [pc : Working \cup Answers, op : {"login", "refresh", "logout"},
         cookie : Tokens \cup {None}, new : Tokens \cup {None}]

Issued(i) == token[i] # Unissued
Live(i) == Issued(i) /\ token[i].state = "live"
Answered(c) == call[c].pc \in Answers

(* A request presents an issued token, and holds the one it has issued.    *)
RowsTypeOK ==
    /\ token \in [Tokens -> Row \cup {Unissued}]
    /\ call \in [Calls -> Call \cup {Idle}]
    /\ \A c \in Calls : call[c] # Idle =>
          /\ call[c].cookie # None => Issued(call[c].cookie)
          /\ call[c].new # None => Issued(call[c].new)
          /\ call[c].pc \in {"find", "reuse", "revoke", "mark", "load"} => call[c].cookie # None
          /\ call[c].pc = "issue" =>
                call[c].op = "login" \/ (call[c].op = "refresh" /\ call[c].cookie # None)
          /\ call[c].pc \in {"granted", "mark", "load"} => call[c].new # None

RowsInit ==
    /\ token = [i \in Tokens |-> Unissued]
    /\ call = [c \in Calls |-> Idle]

-----------------------------------------------------------------------------
(* Bound: a request that will draw a token starts only when one is left    *)
(* for it.                                                                 *)
Draws(c) == call[c] # Idle /\ call[c].op # "logout" /\ call[c].pc \in {"find", "issue"}
TokenLeft ==
    Cardinality({c \in Calls : Draws(c)}) < Cardinality({i \in Tokens : ~Issued(i)})

(* The request reaches the API with the cookie the browser had: without    *)
(* one a refresh is refused and a logout has nothing to revoke.            *)
FirstStep(op, cookie) ==
    IF op = "login" THEN "issue"
    ELSE IF cookie # None THEN "find"
    ELSE IF op = "refresh" THEN "refused" ELSE "cleared"

Arrive(c, op, cookie) ==
    /\ call[c] = Idle
    /\ FirstStep(op, cookie) \in {"find", "issue"} /\ op # "logout" => TokenLeft
    /\ call' = [call EXCEPT ![c] =
          [pc |-> FirstStep(op, cookie), op |-> op, cookie |-> cookie, new |-> None]]
    /\ UNCHANGED token

Goto(c, pc) == call' = [call EXCEPT ![c].pc = pc]
RevokedFirst(i) == [token EXCEPT ![token[i].family].state = "revoked"]    \* mutant
Revoked(i) == [token EXCEPT ![i].state = "revoked"]

(* Login, registration and the MFA challenge issue a session when the      *)
(* credentials are right.                                                  *)
Refuse(c) ==
    /\ call[c].pc = "issue"
    /\ call[c].op = "login"
    /\ Goto(c, "refused")
    /\ UNCHANGED token

(* findByHash in rotateRefreshToken and in revoke.                         *)
CheckedExpiryOnly(row) == IF row.state = "expired" THEN "revoke" ELSE "issue"  \* mutant
Checked(row) ==
    CASE row.state = "revoked" -> "reuse"
      [] row.state = "expired" -> "revoke"
      [] row.state = "live"    -> "issue"

Find(c) ==
    LET row == token[call[c].cookie]
    IN  /\ call[c].pc = "find"
        /\ \/ call[c].op = "refresh" /\ Goto(c, Checked(row))
           \/ call[c].op = "logout" /\ Goto(c, IF row.state = "revoked" THEN "cleared" ELSE "revoke")
        /\ UNCHANGED token

(* A revoked token was presented: revokeFamily.                            *)
FamilyRevoked(f) ==
    [i \in Tokens |-> IF Issued(i) /\ token[i].family = f
                      THEN [token[i] EXCEPT !.state = "revoked"] ELSE token[i]]

RevokeFamily(c) ==
    /\ call[c].pc = "reuse"
    /\ token' = FamilyRevoked(token[call[c].cookie].family)
    /\ Goto(c, "refused")

(* The logout's token, or one that has expired.                            *)
Revoke(c) ==
    /\ call[c].pc = "revoke"
    /\ token' = Revoked(call[c].cookie)
    /\ Goto(c, IF call[c].op = "logout" THEN "cleared" ELSE "refused")

(* issueRefreshToken: a login opens a family, a rotation stays in its own. *)
Issue(c) ==
    /\ call[c].pc = "issue"
    /\ \E i \in Tokens :
          /\ ~Issued(i)
          /\ token' = [token EXCEPT ![i] = [state |-> "live",
                family |-> IF call[c].op = "login" THEN i ELSE token[call[c].cookie].family]]
          /\ call' = [call EXCEPT ![c].new = i,
                                  ![c].pc = IF call[c].op = "login" THEN "granted" ELSE "mark"]

MarkRotated(c) ==
    /\ call[c].pc = "mark"
    /\ token' = Revoked(call[c].cookie)
    /\ Goto(c, "load")

(* AuthService.refresh reads the user and signs the access token.          *)
Load(c) ==
    /\ call[c].pc = "load"
    /\ Goto(c, "granted")
    /\ UNCHANGED token

(* An awaited call throws: the answer is an error and sets no cookie.      *)
Fail(c) ==
    /\ "server" \in Faults
    /\ call[c].pc \in Working
    /\ call' = [call EXCEPT ![c].pc = "failed", ![c].new = None]
    /\ UNCHANGED token

Expire(i) ==
    /\ "expiry" \in Faults
    /\ Live(i)
    /\ token' = [token EXCEPT ![i].state = "expired"]
    /\ UNCHANGED call

ServerStep(c) ==
    \/ Refuse(c) \/ Find(c) \/ RevokeFamily(c) \/ Revoke(c)
    \/ Issue(c) \/ MarkRotated(c) \/ Load(c)

(* The response leaves; cookies it sets are the browser's business.        *)
Close(c) == call' = [call EXCEPT ![c] = Idle] /\ UNCHANGED token

-----------------------------------------------------------------------------
(* No token of the family can be used to refresh any more.                 *)
Closed(f) == \A i \in Tokens : Issued(i) /\ token[i].family = f => ~Live(i)

(* A rotation that has found a token of the family good and not yet        *)
(* replaced it.                                                            *)
Rotating(f) ==
    \E c \in Calls :
        /\ call[c].pc = "issue"
        /\ call[c].op = "refresh"
        /\ token[call[c].cookie].family = f

(* A session that has been logged out, or revoked because a token was      *)
(* presented twice, never comes back: no later request can open its family *)
(* again, only a rotation that was already past its check.                 *)
ClosedFamilyStaysClosed ==
    [][\A f \in Tokens : Issued(f) /\ Closed(f) /\ ~Rotating(f) => Closed(f)' /\ ~Rotating(f)']_rows
=============================================================================
