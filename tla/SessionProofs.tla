--------------------------- MODULE SessionProofs ---------------------------
(* What is proved of the refresh tokens and of the web session, for any    *)
(* number of tokens, requests and tabs and under every fault.              *)
EXTENDS MCWebSession, TLAPS

(* What RowsTypeOK says of a request under way, beside the rows "tk".      *)
WellFormed(tk, b) ==
    /\ b \in Call
    /\ b.cookie # None => tk[b.cookie] # Unissued
    /\ b.new # None => tk[b.new] # Unissued
    /\ b.pc \in {"find", "reuse", "revoke", "mark", "load"} => b.cookie # None
    /\ b.pc = "issue" => b.op = "login" \/ (b.op = "refresh" /\ b.cookie # None)
    /\ b.pc \in {"granted", "mark", "load"} => b.new # None

-----------------------------------------------------------------------------
(* The rows and the requests keep their types.                             *)

LEMMA RowsShape ==
  RowsTypeOK <=>
    /\ token \in [Tokens -> Row \cup {Unissued}]
    /\ call \in [Calls -> Call \cup {Idle}]
    /\ \A c \in Calls : call[c] # Idle => WellFormed(token, call[c])
BY DEF RowsTypeOK, WellFormed, Issued

LEMMA RowsShapeNext ==
  RowsTypeOK' <=>
    /\ token' \in [Tokens -> Row \cup {Unissued}]
    /\ call' \in [Calls -> Call \cup {Idle}]
    /\ \A c \in Calls : call'[c] # Idle => WellFormed(token', call'[c])
BY DEF RowsTypeOK, WellFormed, Issued

LEMMA BusyCall ==
  ASSUME RowsTypeOK, NEW c \in Calls, call[c] # Idle
  PROVE  /\ call[c] \in Call
         /\ call[c].cookie # None => call[c].cookie \in Tokens /\ token[call[c].cookie] \in Row
         /\ call[c].new # None => call[c].new \in Tokens
<1>1. call[c] \in Call /\ (call[c].cookie # None => token[call[c].cookie] # Unissued)
  BY RowsShape DEF WellFormed
<1>2. call[c].cookie \in Tokens \cup {None} /\ call[c].new \in Tokens \cup {None}
  BY <1>1 DEF Call
<1> QED
  BY <1>1, <1>2 DEF RowsTypeOK

\* A request keeps its shape when no row is forgotten.
LEMMA StillWellFormed ==
  ASSUME NEW b, NEW tk, NEW tl, WellFormed(tk, b),
         \A i \in Tokens : tk[i] # Unissued => tl[i] # Unissued
  PROVE  WellFormed(tl, b)
<1>1. b \in Call /\ b.cookie \in Tokens \cup {None} /\ b.new \in Tokens \cup {None}
  BY DEF WellFormed, Call
<1> QED
  BY <1>1 DEF WellFormed

\* A step that moves one request and forgets no row keeps the types.
LEMMA RowsStep ==
  ASSUME RowsTypeOK, NEW c \in Calls, NEW b, b = Idle \/ WellFormed(token', b),
         call' = [call EXCEPT ![c] = b],
         token' \in [Tokens -> Row \cup {Unissued}],
         \A i \in Tokens : token[i] # Unissued => token'[i] # Unissued
  PROVE  RowsTypeOK'
<1>1. call' \in [Calls -> Call \cup {Idle}]
  BY RowsShape DEF WellFormed
<1>2. ASSUME NEW d \in Calls, call'[d] # Idle
      PROVE  WellFormed(token', call'[d])
  <2>1. CASE d = c
    BY <1>2, <2>1, RowsShape
  <2>2. CASE d # c
    <3>1. call'[d] = call[d]
      BY <2>2, RowsShape
    <3>2. WellFormed(token, call[d])
      BY <1>2, <3>1, RowsShape
    <3> QED
      BY <3>1, <3>2, StillWellFormed
  <2> QED
    BY <2>1, <2>2
<1> QED
  BY <1>1, <1>2, RowsShapeNext

LEMMA ArriveRows ==
  ASSUME RowsTypeOK, NEW c \in Calls, NEW op \in {"login", "refresh", "logout"},
         NEW k \in Tokens \cup {None}, k # None => Issued(k), Arrive(c, op, k)
  PROVE  RowsTypeOK'
<1> DEFINE b == [pc |-> FirstStep(op, k), op |-> op, cookie |-> k, new |-> None]
<1>1. call' = [call EXCEPT ![c] = b] /\ token' = token
  BY DEF Arrive
<1>2. WellFormed(token', b)
  BY <1>1 DEF WellFormed, FirstStep, Call, Working, Answers, Issued
<1> QED
  BY <1>1, <1>2, RowsStep, RowsShape

LEMMA CloseRows ==
  ASSUME RowsTypeOK, NEW c \in Calls, Close(c)
  PROVE  RowsTypeOK'
BY RowsStep, RowsShape DEF Close

\* A row is not the mark of an unissued token.
LEMMA RowsIssued == \A r \in Row : r # Unissued
BY DEF Row, Unissued

\* Changing the state of a row makes a row of the same family.
LEMMA StateSet ==
  ASSUME NEW r \in Row, NEW s \in {"live", "expired", "revoked"}
  PROVE  /\ [r EXCEPT !.state = s] \in Row
         /\ [r EXCEPT !.state = s].state = s
         /\ [r EXCEPT !.state = s].family = r.family
BY DEF Row

LEMMA ExpireRows ==
  ASSUME RowsTypeOK, NEW i \in Tokens, Expire(i)
  PROVE  RowsTypeOK' /\ (\A j \in Tokens : Issued(j) => Issued(j)')
<1>1. token[i] \in Row
  BY DEF Expire, Live, Issued, RowsTypeOK
<1>2. PICK r \in Row : r = [token[i] EXCEPT !.state = "expired"]
  BY <1>1, StateSet
<1>3. token' = [token EXCEPT ![i] = r] /\ call' = call
  BY <1>2 DEF Expire
<1>4. /\ token' \in [Tokens -> Row \cup {Unissued}]
      /\ \A j \in Tokens : token[j] # Unissued => token'[j] # Unissued
  BY <1>2, <1>3, RowsIssued DEF RowsTypeOK
<1>5. \A c \in Calls : call[c] # Idle => WellFormed(token', call[c])
  BY <1>4, RowsShape, StillWellFormed
<1> QED
  BY <1>3, <1>4, <1>5, RowsShape, RowsShapeNext DEF Issued

\* The effect of a step of the API on the request it serves: b is the
\* request afterwards.
Serves(c, b) ==
    /\ WellFormed(token', b)
    /\ b.op = call[c].op
    /\ call' = [call EXCEPT ![c] = b]
    /\ token' \in [Tokens -> Row \cup {Unissued}]
    /\ \A i \in Tokens : Issued(i) => token'[i] # Unissued

\* A request that works is a request under way.
LEMMA WorkingBusy ==
  ASSUME NEW c \in Calls, call[c].pc \in Working
  PROVE  call[c] # Idle
BY DEF Working, Idle

\* Rows whose tokens stay in their families and do not come back to life.
Fades(tl) ==
    /\ tl \in [Tokens -> Row \cup {Unissued}]
    /\ \A i \in Tokens : ~Issued(i) => tl[i] = Unissued
    /\ \A i \in Tokens : Issued(i) =>
          /\ tl[i] # Unissued
          /\ tl[i].family = token[i].family
          /\ tl[i].state = "live" => token[i].state = "live"

LEMMA RevokedFades ==
  ASSUME RowsTypeOK, NEW k \in Tokens, token[k] \in Row
  PROVE  Fades(Revoked(k))
<1>1. PICK r \in Row : r = [token[k] EXCEPT !.state = "revoked"] /\ r.state = "revoked"
                        /\ r.family = token[k].family
  BY StateSet
<1>2. Revoked(k) = [token EXCEPT ![k] = r]
  BY <1>1 DEF Revoked
<1> QED
  BY <1>1, <1>2, RowsIssued DEF RowsTypeOK, Issued, Fades

LEMMA FamilyRevokedFades ==
  ASSUME RowsTypeOK, NEW f \in Tokens
  PROVE  Fades(FamilyRevoked(f))
<1>1. ASSUME NEW i \in Tokens
      PROVE  /\ FamilyRevoked(f)[i] \in Row \cup {Unissued}
             /\ ~Issued(i) => FamilyRevoked(f)[i] = Unissued
             /\ Issued(i) =>
                   /\ FamilyRevoked(f)[i] \in Row
                   /\ FamilyRevoked(f)[i].family = token[i].family
                   /\ FamilyRevoked(f)[i].state = "live" => token[i].state = "live"
  <2>1. CASE Issued(i) /\ token[i].family = f
    <3>1. token[i] \in Row
      BY <2>1 DEF RowsTypeOK, Issued
    <3>2. PICK r \in Row : r = [token[i] EXCEPT !.state = "revoked"] /\ r.state = "revoked"
                            /\ r.family = token[i].family
      BY <3>1, StateSet
    <3>3. FamilyRevoked(f)[i] = r
      BY <2>1, <3>2 DEF FamilyRevoked
    <3> QED
      BY <2>1, <3>2, <3>3
  <2>2. CASE ~(Issued(i) /\ token[i].family = f)
    <3>1. FamilyRevoked(f)[i] = token[i]
      BY <2>2 DEF FamilyRevoked
    <3> QED
      BY <3>1 DEF RowsTypeOK, Issued
  <2> QED
    BY <2>1, <2>2
<1>2. FamilyRevoked(f) = [i \in Tokens |-> FamilyRevoked(f)[i]]
  BY DEF FamilyRevoked
<1> QED
  BY <1>1, <1>2, RowsIssued DEF Fades

LEMMA SameFades ==
  ASSUME RowsTypeOK
  PROVE  Fades(token)
BY DEF RowsTypeOK, Issued, Fades

\* Going on with the same tokens keeps a request well formed.
LEMMA GotoServes ==
  ASSUME RowsTypeOK, NEW c \in Calls, call[c] # Idle, NEW pc, Goto(c, pc),
         Fades(token'),
         \/ pc \in {"refused", "cleared"}
         \/ pc \in {"reuse", "revoke"} /\ call[c].cookie # None
         \/ pc = "issue" /\ call[c].op = "refresh" /\ call[c].cookie # None
         \/ pc \in {"load", "granted"} /\ call[c].cookie # None /\ call[c].new # None
  PROVE  \E b : Serves(c, b) /\ b.pc = pc /\ b.cookie = call[c].cookie
<1>1. PICK b : b = [call[c] EXCEPT !.pc = pc]
  OBVIOUS
<1>2. WellFormed(token', call[c])
  BY RowsShape, StillWellFormed DEF Issued, Fades
<1>3. /\ b \in Call /\ b.pc = pc /\ b.op = call[c].op
      /\ b.cookie = call[c].cookie /\ b.new = call[c].new
  BY <1>1, <1>2 DEF WellFormed, Call, Working, Answers
<1>4. WellFormed(token', b)
  BY <1>2, <1>3 DEF WellFormed
<1>5. call' = [call EXCEPT ![c] = b]
  BY <1>1 DEF Goto
<1> QED
  BY <1>3, <1>4, <1>5 DEF Serves, Fades

\* The row a request has drawn.
LEMMA IssuedRows ==
  ASSUME RowsTypeOK, NEW i \in Tokens, ~Issued(i), NEW f \in Tokens,
         token' = [token EXCEPT ![i] = [state |-> "live", family |-> f]]
  PROVE  /\ token' \in [Tokens -> Row \cup {Unissued}]
         /\ \A j \in Tokens : Issued(j) => token'[j] # Unissued
         /\ token'[i] # Unissued /\ token'[i].family = f
         /\ \A j \in Tokens : j # i => token'[j] = token[j]
<1>1. PICK r : r = [state |-> "live", family |-> f]
  OBVIOUS
<1>2. r \in Row /\ r.family = f
  BY <1>1 DEF Row
<1> QED
  BY <1>1, <1>2, RowsIssued DEF RowsTypeOK, Issued

-----------------------------------------------------------------------------
(* What each step of the API does to its request and to the rows.          *)

\* Every step but Issue lets the rows fade, and moves its request on.
LEMMA FadingStep ==
  ASSUME RowsTypeOK, NEW c \in Calls, ServerStep(c), ~Issue(c)
  PROVE  /\ Fades(token')
         /\ \E b : /\ Serves(c, b)
                   /\ b.pc = "issue" => /\ call[c].op = "refresh" /\ token' = token
                                        /\ token[call[c].cookie].state = "live"
                                        /\ b.cookie = call[c].cookie
<1>1. call[c] # Idle /\ call[c] \in Call
  BY WorkingBusy, BusyCall DEF ServerStep, Refuse, Find, RevokeFamily, Revoke, Issue,
     MarkRotated, Load, Working
<1>2. WellFormed(token, call[c])
  BY <1>1, RowsShape
<1>3. call[c].cookie # None => call[c].cookie \in Tokens /\ token[call[c].cookie] \in Row
  BY <1>1, BusyCall
<1>5. CASE Refuse(c)
  <2>1. Goto(c, "refused") /\ token' = token
    BY <1>5 DEF Refuse
  <2> QED
    BY <1>1, <2>1, GotoServes, SameFades
<1>6. CASE Find(c)
  <2> DEFINE row == token[call[c].cookie]
  <2>1. call[c].cookie # None /\ row \in Row /\ token' = token
    BY <1>2, <1>3, <1>6 DEF Find, WellFormed
  <2>2. row.state \in {"live", "expired", "revoked"}
    BY <2>1 DEF Row
  <2>3. PICK pc \in {"cleared", "revoke", "reuse", "issue"} :
          Goto(c, pc) /\ (pc = "issue" => call[c].op = "refresh" /\ row.state = "live")
    BY <1>6, <2>2 DEF Find, Checked
  <2> QED
    BY <1>1, <2>1, <2>3, GotoServes, SameFades
<1>7. CASE RevokeFamily(c)
  <2>1. Goto(c, "refused") /\ token' = FamilyRevoked(token[call[c].cookie].family)
        /\ token[call[c].cookie].family \in Tokens
    BY <1>2, <1>3, <1>7 DEF RevokeFamily, WellFormed, Row
  <2>2. Fades(token')
    BY <2>1, FamilyRevokedFades
  <2> QED
    BY <1>1, <2>1, <2>2, GotoServes
<1>8. CASE Revoke(c)
  <2>1. PICK pc \in {"refused", "cleared"} : Goto(c, pc)
    BY <1>8 DEF Revoke
  <2>2. Fades(token')
    BY <1>2, <1>3, <1>8, RevokedFades DEF Revoke, WellFormed
  <2> QED
    BY <1>1, <2>1, <2>2, GotoServes
<1>9. CASE MarkRotated(c)
  <2>1. Goto(c, "load") /\ call[c].cookie # None /\ call[c].new # None
    BY <1>2, <1>9 DEF MarkRotated, WellFormed
  <2>2. Fades(token')
    BY <1>2, <1>3, <1>9, RevokedFades DEF MarkRotated, WellFormed
  <2> QED
    BY <1>1, <2>1, <2>2, GotoServes
<1>10. CASE Load(c)
  <2>1. Goto(c, "granted") /\ call[c].cookie # None /\ call[c].new # None /\ token' = token
    BY <1>2, <1>10 DEF Load, WellFormed
  <2> QED
    BY <1>1, <2>1, GotoServes, SameFades
<1> QED
  BY <1>5, <1>6, <1>7, <1>8, <1>9, <1>10 DEF ServerStep

\* Issue adds one live row: of a new family for a login, of the family of
\* the presented token for a rotation.
LEMMA IssueStep ==
  ASSUME RowsTypeOK, NEW c \in Calls, Issue(c)
  PROVE  \E i \in Tokens : \E b :
            /\ Serves(c, b) /\ b.pc # "issue"
            /\ ~Issued(i)
            /\ \A j \in Tokens : j # i => token'[j] = token[j]
            /\ \/ token'[i].family = i
               \/ /\ call[c].op = "refresh"
                  /\ token'[i].family = token[call[c].cookie].family
<1>1. call[c] # Idle /\ call[c].pc = "issue" /\ WellFormed(token, call[c])
  BY WorkingBusy, RowsShape DEF Issue, Working
<1>2. call[c].cookie # None => call[c].cookie \in Tokens /\ token[call[c].cookie] \in Row
  BY <1>1, BusyCall
<1>3. PICK i \in Tokens :
        /\ ~Issued(i)
        /\ token' = [token EXCEPT ![i] = [state |-> "live",
              family |-> IF call[c].op = "login" THEN i ELSE token[call[c].cookie].family]]
        /\ call' = [call EXCEPT ![c].new = i,
                                ![c].pc = IF call[c].op = "login" THEN "granted" ELSE "mark"]
  BY DEF Issue
<1>4. PICK f : f = IF call[c].op = "login" THEN i ELSE token[call[c].cookie].family
  OBVIOUS
<1>5. f \in Tokens /\ (f = i \/ (call[c].op = "refresh" /\ f = token[call[c].cookie].family))
  BY <1>1, <1>2, <1>4 DEF WellFormed, Row
<1>6. token' = [token EXCEPT ![i] = [state |-> "live", family |-> f]]
  BY <1>3, <1>4
<1>7. /\ token' \in [Tokens -> Row \cup {Unissued}]
      /\ \A j \in Tokens : Issued(j) => token'[j] # Unissued
      /\ token'[i] # Unissued /\ token'[i].family = f
      /\ \A j \in Tokens : j # i => token'[j] = token[j]
  BY <1>3, <1>5, <1>6, IssuedRows
<1>8. PICK b : b = [call[c] EXCEPT !.new = i,
                      !.pc = IF call[c].op = "login" THEN "granted" ELSE "mark"]
  OBVIOUS
<1>9. call' = [call EXCEPT ![c] = b]
  BY <1>3, <1>8
<1>10. WellFormed(token', call[c])
  BY <1>1, <1>7, StillWellFormed DEF Issued
<1>11. /\ b \in Call /\ b.new = i /\ b.op = call[c].op /\ b.cookie = call[c].cookie
       /\ b.pc = IF call[c].op = "login" THEN "granted" ELSE "mark"
  BY <1>8, <1>10 DEF WellFormed, Call, Working, Answers
<1>12. call[c].op = "login" \/ call[c].cookie # None
  BY <1>1 DEF WellFormed
<1>13. WellFormed(token', b)
  BY <1>7, <1>10, <1>11, <1>12, TokenAssumption DEF WellFormed
<1>14. Serves(c, b) /\ b.pc # "issue"
  BY <1>7, <1>9, <1>11, <1>13 DEF Serves
<1> QED
  BY <1>3, <1>5, <1>7, <1>14

\* The API never forgets a row or a request, and keeps the types.
LEMMA ServesRows ==
  ASSUME RowsTypeOK, NEW c \in Calls, call[c] # Idle, NEW b, Serves(c, b)
  PROVE  /\ RowsTypeOK'
         /\ \A i \in Tokens : Issued(i) => Issued(i)'
         /\ \A d \in Calls : /\ (call'[d] = Idle) <=> (call[d] = Idle)
                             /\ call[d] # Idle => call'[d].op = call[d].op
<1>1. RowsTypeOK'
  BY RowsStep DEF Serves, Issued
<1>2. b \in Call /\ b # Idle
  BY DEF Serves, WellFormed, Call, Idle, Working, Answers
<1> QED
  BY <1>1, <1>2, RowsShape DEF Serves, Issued

LEMMA FailServes ==
  ASSUME RowsTypeOK, NEW c \in Calls, Fail(c)
  PROVE  call[c] # Idle /\ token' = token /\ \E b : Serves(c, b) /\ b.pc = "failed"
<1>1. call[c] # Idle /\ WellFormed(token, call[c])
  BY WorkingBusy, RowsShape DEF Fail
<1>2. PICK b : b = [call[c] EXCEPT !.pc = "failed", !.new = None]
  OBVIOUS
<1>3. b \in Call /\ b.pc = "failed" /\ b.new = None /\ b.op = call[c].op
      /\ b.cookie = call[c].cookie
  BY <1>1, <1>2 DEF WellFormed, Call, Working, Answers
<1>4. WellFormed(token, b)
  BY <1>1, <1>3 DEF WellFormed
<1>5. call' = [call EXCEPT ![c] = b] /\ token' = token
  BY <1>2 DEF Fail
<1> QED
  BY <1>1, <1>3, <1>4, <1>5, RowsShape DEF Serves, Issued

LEMMA ServerRows ==
  ASSUME RowsTypeOK, NEW c \in Calls, ServerStep(c) \/ Fail(c)
  PROVE  /\ RowsTypeOK'
         /\ \A i \in Tokens : Issued(i) => Issued(i)'
         /\ \A d \in Calls : /\ (call'[d] = Idle) <=> (call[d] = Idle)
                             /\ call[d] # Idle => call'[d].op = call[d].op
<1>1. call[c] # Idle
  BY WorkingBusy DEF ServerStep, Refuse, Find, RevokeFamily, Revoke, Issue, MarkRotated,
     Load, Fail, Working
<1>2. \E b : Serves(c, b)
  BY FadingStep, IssueStep, FailServes
<1> QED
  BY <1>1, <1>2, ServesRows

-----------------------------------------------------------------------------
(* A closed family stays closed.                                           *)

\* When the tokens of a family fade and no request starts to rotate one of
\* them, the family stays closed.
LEMMA FadingStaysClosed ==
  ASSUME RowsTypeOK, Fades(token'), NEW f \in Tokens, Closed(f), ~Rotating(f),
         \A d \in Calls : call'[d].pc = "issue" /\ call'[d].op = "refresh" =>
            call'[d].cookie \in Tokens /\ token[call'[d].cookie] # Unissued
            /\ (call'[d] = call[d] \/ token[call'[d].cookie].family # f)
  PROVE  Closed(f)' /\ ~Rotating(f)'
<1>1. ASSUME NEW i \in Tokens, token'[i] # Unissued, token'[i].family = f,
             token'[i].state = "live"
      PROVE  FALSE
  BY <1>1 DEF Fades, Closed, Live, Issued
<1>2. ASSUME NEW d \in Calls, call'[d].pc = "issue", call'[d].op = "refresh",
             token'[call'[d].cookie].family = f
      PROVE  FALSE
  BY <1>2 DEF Fades, Rotating, Issued
<1> QED
  BY <1>1, <1>2 DEF Closed, Live, Issued, Rotating

\* A rotation that has passed its check holds an issued token.
LEMMA RotationHolds ==
  ASSUME RowsTypeOK, NEW d \in Calls, call[d].pc = "issue", call[d].op = "refresh"
  PROVE  call[d].cookie \in Tokens /\ token[call[d].cookie] # Unissued
<1>1. call[d] # Idle
  BY WorkingBusy DEF Working
<1> QED
  BY <1>1, BusyCall, RowsShape DEF WellFormed

LEMMA ServerStaysClosed ==
  ASSUME RowsTypeOK, NEW c \in Calls, ServerStep(c), NEW f \in Tokens,
         Issued(f), Closed(f), ~Rotating(f)
  PROVE  Closed(f)' /\ ~Rotating(f)'
<1>1. CASE Issue(c)
  <2>1. PICK i \in Tokens : \E b :
            /\ Serves(c, b) /\ b.pc # "issue"
            /\ ~Issued(i)
            /\ \A j \in Tokens : j # i => token'[j] = token[j]
            /\ \/ token'[i].family = i
               \/ /\ call[c].op = "refresh"
                  /\ token'[i].family = token[call[c].cookie].family
    BY <1>1, IssueStep
  <2>2. token'[i].family # f
    BY <1>1, <2>1 DEF Issue, Rotating
  <2>3. \A d \in Calls : call'[d].pc = "issue" => call'[d] = call[d]
    BY <2>1 DEF Serves, RowsTypeOK
  <2>4. \A d \in Calls : call'[d].pc = "issue" /\ call'[d].op = "refresh" =>
           token'[call'[d].cookie] = token[call'[d].cookie]
    BY <2>1, <2>3, RotationHolds DEF Issued
  <2> QED
    BY <2>1, <2>2, <2>3, <2>4 DEF Closed, Live, Issued, Rotating
<1>2. CASE ~Issue(c)
  <2>1. Fades(token')
    BY <1>2, FadingStep
  <2>2. PICK b : /\ Serves(c, b)
                 /\ b.pc = "issue" => /\ call[c].op = "refresh" /\ token' = token
                                      /\ token[call[c].cookie].state = "live"
                                      /\ b.cookie = call[c].cookie
    BY <1>2, FadingStep
  <2>3. ASSUME NEW d \in Calls, call'[d].pc = "issue", call'[d].op = "refresh"
        PROVE  /\ call'[d].cookie \in Tokens /\ token[call'[d].cookie] # Unissued
               /\ call'[d] = call[d] \/ token[call'[d].cookie].family # f
    <3>1. CASE d # c
      BY <2>2, <2>3, <3>1, RotationHolds DEF Serves, RowsTypeOK
    <3>2. CASE d = c
      <4>1. call'[c] = b /\ b.pc = "issue" /\ b.op = "refresh"
        BY <2>2, <2>3, <3>2 DEF Serves, RowsTypeOK
      <4>2. b.cookie \in Tokens /\ token[b.cookie] # Unissued
        BY <2>2, <4>1 DEF Serves, WellFormed, Call
      <4>3. token[b.cookie].family # f
        BY <2>2, <4>1, <4>2 DEF Closed, Live, Issued
      <4> QED
        BY <3>2, <4>1, <4>2, <4>3
    <3> QED
      BY <3>1, <3>2
  <2> QED
    BY <2>1, <2>3, FadingStaysClosed
<1> QED
  BY <1>1, <1>2

-----------------------------------------------------------------------------
(* The browser's side keeps its types.                                     *)

\* The refresh a tab has in flight is a request of its own under way.
LEMMA FlightBusy ==
  ASSUME TypeOK, NEW t \in Tabs, tab[t].flight # None
  PROVE  /\ tab[t].flight \in Calls /\ call[tab[t].flight] # Idle
         /\ sender[tab[t].flight] = t /\ call[tab[t].flight].op = "refresh"
<1>1. tab[t].flight \in Calls /\ sender[tab[t].flight] = t
      /\ call[tab[t].flight].op = "refresh"
  BY DEF TypeOK, Tab
<1> QED
  BY <1>1, TabAssumption DEF TypeOK

\* What a step of the API leaves to the browser.
LEMMA ApiKeepsTypes ==
  ASSUME TypeOK, RowsTypeOK', UNCHANGED <<jar, tab, sender, request>>,
         \A i \in Tokens : Issued(i) => Issued(i)',
         \A d \in Calls : /\ (call'[d] = Idle) <=> (call[d] = Idle)
                          /\ call[d] # Idle => call'[d].op = call[d].op
  PROVE  TypeOK'
<1>1. \A t \in Tabs : tab[t].flight # None =>
         sender[tab[t].flight] = t /\ call'[tab[t].flight].op = "refresh"
  BY FlightBusy
<1>2. /\ jar' \in Tokens \cup {None}
      /\ jar' # None => Issued(jar)'
  BY DEF TypeOK
<1>3. /\ tab' \in [Tabs -> Tab] /\ sender' \in [Calls -> Tabs \cup {None}]
      /\ request' \in [Requests -> Request \cup {NoRequest}]
      /\ \A d \in Calls : call'[d] = Idle => sender'[d] = None
  BY DEF TypeOK
<1> QED
  BY <1>1, <1>2, <1>3 DEF TypeOK

\* A tab sends an auth call: no other call and no flight is touched.
LEMMA CallStarts ==
  ASSUME TypeOK, NEW c \in Calls, NEW t \in Tabs, NEW op \in {"login", "refresh", "logout"},
         NEW k \in Tokens \cup {None}, k # None => Issued(k), Arrive(c, op, k),
         sender' = [sender EXCEPT ![c] = t]
  PROVE  /\ RowsTypeOK' /\ token' = token
         /\ sender' \in [Calls -> Tabs \cup {None}]
         /\ \A d \in Calls : call'[d] = Idle => sender'[d] = None
         /\ sender'[c] = t /\ call'[c].op = op
         /\ \A u \in Tabs : tab[u].flight # None =>
               sender'[tab[u].flight] = u /\ call'[tab[u].flight].op = "refresh"
<1>1. RowsTypeOK' /\ token' = token
  BY ArriveRows DEF TypeOK, Arrive
<1>2. call[c] = Idle /\ sender \in [Calls -> Tabs \cup {None}] /\ call \in [Calls -> Call \cup {Idle}]
  BY DEF Arrive, TypeOK, RowsTypeOK
<1>3. call'[c].op = op /\ \A d \in Calls : d # c => call'[d] = call[d]
  BY <1>2 DEF Arrive
<1>4. call'[c] # Idle
  BY <1>2 DEF Arrive, FirstStep, Idle
<1>5. \A u \in Tabs : tab[u].flight # None => tab[u].flight # c
  BY <1>2, FlightBusy
<1>6. \A u \in Tabs : tab[u].flight # None =>
         sender'[tab[u].flight] = u /\ call'[tab[u].flight].op = "refresh"
  BY <1>2, <1>3, <1>5, FlightBusy
<1>7. \A d \in Calls : call'[d] = Idle => sender'[d] = None
  BY <1>2, <1>3, <1>4 DEF TypeOK
<1> QED
  BY <1>1, <1>2, <1>3, <1>6, <1>7

LEMMA AuthCallTypes ==
  ASSUME TypeOK, NEW c \in Calls, NEW t \in Tabs, NEW op \in {"login", "logout"},
         NEW k \in Tokens \cup {None}, k # None => Issued(k), Arrive(c, op, k),
         sender' = [sender EXCEPT ![c] = t], UNCHANGED <<jar, tab, request>>
  PROVE  TypeOK'
BY CallStarts DEF TypeOK, Issued

LEMMA RefreshTypes ==
  ASSUME TypeOK, NEW t \in Tabs, NEW waiting \in SUBSET Requests, Refresh(t, waiting)
  PROVE  TypeOK'
<1>1. PICK c \in Calls : AwaitRefresh(t, c, waiting) /\
          \/ /\ tab[t].flight = c
             /\ UNCHANGED <<token, call, sender>>
          \/ Arrive(c, "refresh", jar) /\ sender' = [sender EXCEPT ![c] = t]
  BY FlightBusy DEF Refresh, Joins
<1>2. jar \in Tokens \cup {None} /\ (jar # None => Issued(jar)) /\ jar' = jar
  BY <1>1 DEF TypeOK, AwaitRefresh
<1>3. /\ RowsTypeOK' /\ token' = token
      /\ sender' \in [Calls -> Tabs \cup {None}]
      /\ \A d \in Calls : call'[d] = Idle => sender'[d] = None
      /\ sender'[c] = t /\ call'[c].op = "refresh"
      /\ \A u \in Tabs : tab[u].flight # None =>
            sender'[tab[u].flight] = u /\ call'[tab[u].flight].op = "refresh"
  <2>1. CASE tab[t].flight = c /\ UNCHANGED <<token, call, sender>>
    <3>1. c # None
      BY TabAssumption
    <3>2. RowsTypeOK'
      BY <2>1 DEF TypeOK, RowsTypeOK, Issued
    <3> QED
      BY <2>1, <3>1, <3>2, FlightBusy DEF TypeOK
  <2>2. CASE Arrive(c, "refresh", jar) /\ sender' = [sender EXCEPT ![c] = t]
    BY <1>2, <2>2, CallStarts
  <2> QED
    BY <1>1, <2>1, <2>2
<1>4. [tab[t] EXCEPT !.flight = c] \in Tab /\ [tab[t] EXCEPT !.flight = c].flight = c
  BY DEF TypeOK, Tab
<1>5. /\ tab' \in [Tabs -> Tab]
      /\ tab'[t].flight = c /\ \A u \in Tabs : u # t => tab'[u] = tab[u]
  BY <1>1, <1>4 DEF TypeOK, AwaitRefresh
<1>6. [at |-> "waiting", tab |-> t, on |-> c] \in Request
  BY DEF Request
<1>7. request' \in [Requests -> Request \cup {NoRequest}]
  BY <1>1, <1>6 DEF TypeOK, AwaitRefresh
<1>8. \A u \in Tabs : tab'[u].flight # None =>
         sender'[tab'[u].flight] = u /\ call'[tab'[u].flight].op = "refresh"
  BY <1>3, <1>5
<1> QED
  BY <1>2, <1>3, <1>5, <1>7, <1>8 DEF TypeOK, Issued

\* What an answer leaves of the AuthService that receives it: it is not in
\* flight for that call any more.
LEMMA AfterTypes ==
  ASSUME TypeOK, NEW c \in Calls, NEW t \in Tabs, sender[c] = t, call[c] # Idle,
         NEW ok \in BOOLEAN
  PROVE  /\ After(tab[t], c, ok) \in Tab
         /\ After(tab[t], c, ok).flight # None =>
               After(tab[t], c, ok).flight = tab[t].flight /\ call[c].op # "refresh"
<1>1. tab[t] \in Tab /\ call[c].op \in {"login", "refresh", "logout"}
  BY BusyCall DEF TypeOK, Call
<1>2. PICK own \in Tab : own = tab[t]
  BY <1>1
<1>3. /\ Cleared(own) \in Tab /\ Cleared(own).flight = None
      /\ ForcedOut(own) \in Tab /\ ForcedOut(own).flight = None
      /\ Accepted(own) \in Tab /\ Accepted(own).flight = own.flight
  BY DEF Cleared, ForcedOut, Accepted, Tab
<1>4. RefreshFailed(own, c) \in Tab /\ RefreshFailed(own, c).flight = None
  <2>1. [own EXCEPT !.flight = None, !.ready = TRUE] \in Tab
        /\ [own EXCEPT !.flight = None, !.ready = TRUE].flight = None
    BY DEF Tab
  <2> QED
    BY <1>3, <2>1 DEF RefreshFailed
<1>5. [Accepted(own) EXCEPT !.flight = None] \in Tab
      /\ [Accepted(own) EXCEPT !.flight = None].flight = None
  BY <1>3 DEF Tab
<1>6. CASE call[c].op = "login"
  BY <1>2, <1>3, <1>6 DEF After
<1>7. CASE call[c].op = "logout"
  BY <1>2, <1>3, <1>7 DEF After
<1>8. CASE call[c].op = "refresh"
  BY <1>2, <1>4, <1>5, <1>8 DEF After
<1> QED
  BY <1>1, <1>6, <1>7, <1>8

\* The tab that awaits a call learns its result.
LEMMA TabLearnsTypes ==
  ASSUME TypeOK, NEW c \in Calls, sender[c] # None, NEW ok \in BOOLEAN, TabLearns(c, ok),
         call' = call \/ call' = [call EXCEPT ![c] = Idle]
  PROVE  /\ tab' \in [Tabs -> Tab]
         /\ sender' \in [Calls -> Tabs \cup {None}]
         /\ request' \in [Requests -> Request \cup {NoRequest}]
         /\ \A d \in Calls : call'[d] = Idle => sender'[d] = None
         /\ \A u \in Tabs : tab'[u].flight # None =>
               sender'[tab'[u].flight] = u /\ call'[tab'[u].flight].op = "refresh"
<1>1. PICK t \in Tabs : sender[c] = t
  BY DEF TypeOK
<1>2. call[c] # Idle
  BY DEF TypeOK
<1>3. PICK own \in Tab : /\ own = After(tab[t], c, ok)
                         /\ own.flight # None =>
                               own.flight = tab[t].flight /\ call[c].op # "refresh"
  BY <1>1, <1>2, AfterTypes
<1>4. tab' = [tab EXCEPT ![t] = own]
  BY <1>1, <1>3 DEF TabLearns
<1>5. tab' \in [Tabs -> Tab] /\ tab'[t] = own /\ \A u \in Tabs : u # t => tab'[u] = tab[u]
  BY <1>3, <1>4 DEF TypeOK
<1>6. /\ sender' \in [Calls -> Tabs \cup {None}]
      /\ sender'[c] = None /\ \A d \in Calls : d # c => sender'[d] = sender[d]
  BY DEF TabLearns, TypeOK
<1>7. \A d \in Calls : d # c => call'[d] = call[d]
  BY DEF TypeOK, RowsTypeOK
<1>8. \A d \in Calls : call'[d] = Idle => sender'[d] = None
  BY <1>6, <1>7 DEF TypeOK
<1>9. ASSUME NEW u \in Tabs, tab'[u].flight # None
      PROVE  sender'[tab'[u].flight] = u /\ call'[tab'[u].flight].op = "refresh"
  <2>1. tab'[u].flight = tab[u].flight /\ tab[u].flight # c
    BY <1>1, <1>3, <1>5, <1>9, FlightBusy
  <2> QED
    BY <1>6, <1>7, <1>9, <2>1, FlightBusy
<1>10. request' \in [Requests -> Request \cup {NoRequest}]
  <2>1. ASSUME NEW r \in Waiting(c)
        PROVE  [request[r] EXCEPT !.at = "retried", !.on = None] \in Request
    <3>1. request[r] \in Request
      BY <2>1 DEF Waiting, TypeOK, NoRequest
    <3> QED
      BY <3>1 DEF Request
  <2> QED
    BY <2>1 DEF TabLearns, TypeOK
<1> QED
  BY <1>5, <1>6, <1>8, <1>9, <1>10

LEMMA DeliverTypes ==
  ASSUME TypeOK, NEW c \in Calls, Deliver(c)
  PROVE  TypeOK'
<1>1. RowsTypeOK' /\ call' = [call EXCEPT ![c] = Idle] /\ token' = token
  BY CloseRows DEF Deliver, TypeOK, Close
<1> DEFINE ok == call[c].pc \in {"granted", "cleared"}
<1>2. ok \in BOOLEAN
  OBVIOUS
<1>3. TabLearns(c, ok) /\ sender[c] # None
  BY DEF Deliver
<1>4. call[c] # Idle
  BY <1>3 DEF TypeOK
<1>5. jar' \in Tokens \cup {None} /\ (jar' # None => Issued(jar)')
  <2>1. CASE call[c].pc = "granted"
    <3>1. WellFormed(token, call[c])
      BY <1>4, RowsShape DEF TypeOK
    <3>2. call[c].new \in Tokens /\ token[call[c].new] # Unissued
      BY <2>1, <3>1 DEF WellFormed, Call
    <3> QED
      BY <1>1, <2>1, <3>2 DEF Deliver, CookieAfter, Issued
  <2>2. CASE call[c].pc = "cleared"
    BY <2>2 DEF Deliver, CookieAfter
  <2>3. CASE call[c].pc \notin {"granted", "cleared"}
    BY <1>1, <2>3 DEF Deliver, CookieAfter, TypeOK, Issued
  <2> QED
    BY <2>1, <2>2, <2>3
<1> HIDE DEF ok
<1> QED
  BY <1>1, <1>2, <1>3, <1>5, TabLearnsTypes DEF TypeOK

LEMMA LoseTypes ==
  ASSUME TypeOK, NEW c \in Calls, Lose(c)
  PROVE  TypeOK'
<1>1. RowsTypeOK' /\ jar' \in Tokens \cup {None} /\ (jar' # None => Issued(jar)')
  BY DEF Lose, TypeOK, RowsTypeOK, Issued
<1>2. TabLearns(c, FALSE) /\ sender[c] # None /\ call' = call
  BY DEF Lose
<1> QED
  BY <1>1, <1>2, TabLearnsTypes DEF TypeOK

LEMMA DiscardTypes ==
  ASSUME TypeOK, NEW c \in Calls, Discard(c)
  PROVE  TypeOK'
<1>1. RowsTypeOK' /\ call' = [call EXCEPT ![c] = Idle] /\ token' = token
      /\ sender[c] = None /\ UNCHANGED <<jar, tab, sender, request>>
  BY CloseRows DEF Discard, TypeOK, Close
<1>2. \A d \in Calls : d # c => call'[d] = call[d]
  BY <1>1 DEF TypeOK, RowsTypeOK
<1>3. \A d \in Calls : call'[d] = Idle => sender'[d] = None
  BY <1>1, <1>2 DEF TypeOK
<1>4. \A u \in Tabs : tab'[u].flight # None =>
         sender'[tab'[u].flight] = u /\ call'[tab'[u].flight].op = "refresh"
  BY <1>1, <1>2, FlightBusy, TabAssumption
<1> QED
  BY <1>1, <1>3, <1>4 DEF TypeOK, Issued

LEMMA ReloadTypes ==
  ASSUME TypeOK, NEW t \in Tabs, Reload(t)
  PROVE  TypeOK'
<1>1. Fresh \in Tab /\ Fresh.flight = None
  BY DEF Fresh, Tab
<1>2. tab' \in [Tabs -> Tab] /\ tab'[t].flight = None
      /\ \A u \in Tabs : u # t => tab'[u] = tab[u]
  BY <1>1 DEF Reload, TypeOK
<1>3. \A d \in Calls : sender'[d] = IF sender[d] = t THEN None ELSE sender[d]
  BY DEF Reload
<1>4. sender' \in [Calls -> Tabs \cup {None}]
      /\ \A d \in Calls : call'[d] = Idle => sender'[d] = None
  BY <1>3 DEF Reload, TypeOK
<1>5. request' \in [Requests -> Request \cup {NoRequest}]
  BY DEF Reload, TypeOK
<1>6. \A u \in Tabs : tab'[u].flight # None =>
         sender'[tab'[u].flight] = u /\ call'[tab'[u].flight].op = "refresh"
  BY <1>2, <1>3, FlightBusy DEF Reload
<1>7. RowsTypeOK' /\ jar' \in Tokens \cup {None} /\ (jar' # None => Issued(jar)')
  BY DEF Reload, TypeOK, RowsTypeOK, Issued
<1> QED
  BY <1>2, <1>4, <1>5, <1>6, <1>7 DEF TypeOK

LEMMA TabStepTypes ==
  ASSUME TypeOK, NEW t \in Tabs, TabStep(t)
  PROVE  TypeOK'
<1> USE DEF TabStep
<1>1. CASE Restore(t)
  <2>1. Refresh(t, {}) /\ {} \in SUBSET Requests
    BY <1>1 DEF Restore
  <2> QED
    BY <2>1, RefreshTypes
<1>2. CASE AccessExpires(t)
  <2>1. [tab[t] EXCEPT !.session = "stale"] \in Tab
        /\ [tab[t] EXCEPT !.session = "stale"].flight = tab[t].flight
    BY DEF TypeOK, Tab
  <2>2. tab' \in [Tabs -> Tab] /\ \A u \in Tabs : tab'[u].flight = tab[u].flight
    BY <1>2, <2>1 DEF AccessExpires, TypeOK
  <2> QED
    BY <1>2, <2>2 DEF AccessExpires, TypeOK, RowsTypeOK, Issued
<1>3. CASE Login(t)
  <2>1. PICK c \in Calls : Arrive(c, "login", None) /\ sender' = [sender EXCEPT ![c] = t]
    BY <1>3 DEF Login
  <2> QED
    BY <1>3, <2>1, AuthCallTypes DEF Login
<1>4. CASE Logout(t)
  <2>1. PICK c \in Calls : Arrive(c, "logout", jar) /\ sender' = [sender EXCEPT ![c] = t]
    BY <1>4 DEF Logout
  <2> QED
    BY <1>4, <2>1, AuthCallTypes DEF Logout, TypeOK
<1>5. CASE Reload(t)
  BY <1>5, ReloadTypes
<1>6. ASSUME NEW r \in Requests, Send(t, r)
      PROVE  TypeOK'
  <2>1. [at |-> "sent", tab |-> t, on |-> None] \in Request
    BY DEF Request
  <2>2. request' \in [Requests -> Request \cup {NoRequest}]
    BY <1>6, <2>1 DEF Send, TypeOK
  <2> QED
    BY <1>6, <2>2 DEF Send, TypeOK, RowsTypeOK, Issued
<1> QED
  BY <1>1, <1>2, <1>3, <1>4, <1>5, <1>6

LEMMA RequestStepTypes ==
  ASSUME TypeOK, NEW r \in Requests, RequestStep(r)
  PROVE  TypeOK'
<1>1. CASE Unauthorized(r)
  <2>1. request[r].tab \in Tabs
    BY <1>1 DEF Unauthorized, TypeOK, Request, NoRequest
  <2>2. Refresh(request[r].tab, {r}) /\ {r} \in SUBSET Requests
    BY <1>1 DEF Unauthorized
  <2> QED
    BY <2>1, <2>2, RefreshTypes
<1>2. CASE RetryAnswered(r)
  BY <1>2 DEF RetryAnswered, TypeOK, RowsTypeOK, Issued
<1>3. CASE RetryFails(r)
  <2>1. PICK t \in Tabs : t = request[r].tab
    BY <1>3 DEF RetryFails, TypeOK, Request, NoRequest
  <2>2. PICK own \in Tab : own = ForcedOut(tab[t]) /\ own.flight = None
    <3>1. PICK old \in Tab : old = tab[t]
      BY DEF TypeOK
    <3>2. ForcedOut(old) \in Tab /\ ForcedOut(old).flight = None
      BY DEF ForcedOut, Tab
    <3> QED
      BY <3>1, <3>2
  <2>3. tab' = [tab EXCEPT ![t] = own]
    BY <1>3, <2>1, <2>2 DEF RetryFails
  <2>4. tab' \in [Tabs -> Tab] /\ \A u \in Tabs :
           tab'[u].flight # None => tab'[u].flight = tab[u].flight
    BY <2>2, <2>3 DEF TypeOK
  <2>5. request' \in [Requests -> Request \cup {NoRequest}]
    BY <1>3 DEF RetryFails, TypeOK
  <2>6. \A u \in Tabs : tab'[u].flight # None =>
           sender'[tab'[u].flight] = u /\ call'[tab'[u].flight].op = "refresh"
    BY <1>3, <2>4, FlightBusy DEF RetryFails
  <2> QED
    BY <1>3, <2>4, <2>5, <2>6 DEF RetryFails, TypeOK, RowsTypeOK, Issued
<1> QED
  BY <1>1, <1>2, <1>3 DEF RequestStep

LEMMA InitTypes == Init => TypeOK
<1> SUFFICES ASSUME Init PROVE TypeOK
  OBVIOUS
<1>1. Fresh \in Tab
  BY DEF Fresh, Tab
<1> QED
  BY <1>1, TabAssumption DEF Init, RowsInit, TypeOK, RowsTypeOK, Fresh

LEMMA NextTypes ==
  ASSUME TypeOK, [Next]_vars
  PROVE  TypeOK'
<1>1. CASE \E t \in Tabs : TabStep(t)
  BY <1>1, TabStepTypes
<1>2. CASE \E r \in Requests : RequestStep(r)
  BY <1>2, RequestStepTypes
<1>3. ASSUME NEW c \in Calls,
             \/ ApiStep(c)
             \/ Fail(c) /\ UNCHANGED <<jar, tab, sender, request>>
      PROVE  TypeOK'
  <2>1. (ServerStep(c) \/ Fail(c)) /\ UNCHANGED <<jar, tab, sender, request>>
    BY <1>3 DEF ApiStep
  <2>2. RowsTypeOK
    BY DEF TypeOK
  <2> QED
    BY <2>1, <2>2, ServerRows, ApiKeepsTypes
<1>4. ASSUME NEW c \in Calls, Deliver(c) \/ Lose(c) \/ Discard(c)
      PROVE  TypeOK'
  BY <1>4, DeliverTypes, LoseTypes, DiscardTypes
<1>5. ASSUME NEW i \in Tokens, Expire(i) /\ UNCHANGED <<jar, tab, sender, request>>
      PROVE  TypeOK'
  <2>1. RowsTypeOK' /\ (\A j \in Tokens : Issued(j) => Issued(j)') /\ call' = call
    BY <1>5, ExpireRows DEF TypeOK, Expire
  <2> QED
    BY <1>5, <2>1, ApiKeepsTypes
<1>6. CASE CookieExpires
  BY <1>6 DEF CookieExpires, TypeOK, RowsTypeOK, Issued
<1>7. CASE UNCHANGED vars
  BY <1>7 DEF vars, TypeOK, RowsTypeOK, Issued
<1> QED
  BY <1>1, <1>2, <1>3, <1>4, <1>5, <1>6, <1>7 DEF Next

(* Type correctness of both sides: every cookie under way, and the one in  *)
(* the jar, is a token the API has issued; a request of the API that waits *)
(* to rotate holds one; and the refresh a tab has in flight is a refresh   *)
(* that this tab itself awaits (refreshInFlight, auth.service.ts).         *)
THEOREM TypeCorrect == Spec => []TypeOK
<1>1. Init => TypeOK
  BY InitTypes
<1>2. TypeOK /\ [Next]_vars => TypeOK'
  BY NextTypes
<1> QED
  BY <1>1, <1>2, PTL DEF Spec

-----------------------------------------------------------------------------
(* Closed families, in the steps the API does not take by itself.          *)

LEMMA ArriveStaysClosed ==
  ASSUME RowsTypeOK, NEW c \in Calls, NEW op \in {"login", "refresh", "logout"}, NEW k,
         Arrive(c, op, k), NEW f \in Tokens, Closed(f), ~Rotating(f)
  PROVE  Closed(f)' /\ ~Rotating(f)'
<1>1. token' = token /\ Fades(token')
  BY SameFades DEF Arrive
<1>2. \A d \in Calls : call'[d].pc = "issue" /\ call'[d].op = "refresh" => call'[d] = call[d]
  <2>1. \A d \in Calls : d # c => call'[d] = call[d]
    BY DEF Arrive, RowsTypeOK
  <2>2. call'[c].op = op /\ (call'[c].pc = "issue" => op = "login")
    BY DEF Arrive, RowsTypeOK, FirstStep
  <2> QED
    BY <2>1, <2>2
<1>3. \A d \in Calls : call'[d].pc = "issue" /\ call'[d].op = "refresh" =>
         call'[d].cookie \in Tokens /\ token[call'[d].cookie] # Unissued
  BY <1>2, RotationHolds
<1> QED
  BY <1>1, <1>2, <1>3, FadingStaysClosed

\* The other steps let rows fade and start no rotation.
LEMMA IdleStaysClosed ==
  ASSUME RowsTypeOK, Fades(token'), NEW f \in Tokens, Closed(f), ~Rotating(f),
         \A d \in Calls : call'[d] = call[d] \/ call'[d].pc # "issue"
  PROVE  Closed(f)' /\ ~Rotating(f)'
BY RotationHolds, FadingStaysClosed

LEMMA ExpireFades ==
  ASSUME RowsTypeOK, NEW i \in Tokens, Expire(i)
  PROVE  Fades(token')
<1>1. token[i] \in Row
  BY DEF Expire, Live, Issued, RowsTypeOK
<1>2. PICK r \in Row : /\ r = [token[i] EXCEPT !.state = "expired"] /\ r.state = "expired"
                       /\ r.family = token[i].family
  BY <1>1, StateSet
<1>3. token' = [token EXCEPT ![i] = r]
  BY <1>2 DEF Expire
<1> QED
  BY <1>1, <1>2, <1>3, RowsIssued DEF RowsTypeOK, Issued, Fades

LEMMA CloseIdles ==
  ASSUME RowsTypeOK, NEW c \in Calls, Close(c)
  PROVE  token' = token /\ \A d \in Calls : call'[d] = call[d] \/ call'[d].pc # "issue"
BY DEF Close, Idle, RowsTypeOK

LEMMA NextStaysClosed ==
  ASSUME TypeOK, [Next]_vars, NEW f \in Tokens, Issued(f), Closed(f), ~Rotating(f)
  PROVE  Closed(f)' /\ ~Rotating(f)'
<1> USE DEF Next
<1>1. RowsTypeOK /\ Fades(token)
  BY SameFades DEF TypeOK
<1>2. CASE UNCHANGED <<token, call>>
  BY <1>1, <1>2, IdleStaysClosed
<1>3. ASSUME NEW t \in Tabs, NEW waiting, Refresh(t, waiting)
      PROVE  Closed(f)' /\ ~Rotating(f)'
  BY <1>1, <1>2, <1>3, ArriveStaysClosed DEF Refresh
<1>4. ASSUME NEW t \in Tabs, TabStep(t)
      PROVE  Closed(f)' /\ ~Rotating(f)'
  <2>1. CASE Restore(t)
    BY <2>1, <1>3 DEF Restore
  <2>2. CASE Login(t) \/ Logout(t)
    BY <1>1, <2>2, ArriveStaysClosed DEF Login, Logout
  <2>3. CASE AccessExpires(t) \/ Reload(t) \/ \E r \in Requests : Send(t, r)
    BY <1>2, <2>3 DEF AccessExpires, Reload, Send
  <2> QED
    BY <1>4, <2>1, <2>2, <2>3 DEF TabStep
<1>5. ASSUME NEW r \in Requests, RequestStep(r)
      PROVE  Closed(f)' /\ ~Rotating(f)'
  <2>1. CASE Unauthorized(r)
    <3>1. request[r].tab \in Tabs
      BY <2>1 DEF Unauthorized, TypeOK, Request, NoRequest
    <3> QED
      BY <2>1, <3>1, <1>3 DEF Unauthorized
  <2>2. CASE RetryAnswered(r) \/ RetryFails(r)
    BY <1>2, <2>2 DEF RetryAnswered, RetryFails
  <2> QED
    BY <1>5, <2>1, <2>2 DEF RequestStep
<1>6. ASSUME NEW c \in Calls, ApiStep(c)
      PROVE  Closed(f)' /\ ~Rotating(f)'
  BY <1>1, <1>6, ServerStaysClosed DEF ApiStep
<1>7. ASSUME NEW c \in Calls, Fail(c)
      PROVE  Closed(f)' /\ ~Rotating(f)'
  <2>1. PICK b : Serves(c, b) /\ b.pc = "failed" /\ token' = token
    BY <1>1, <1>7, FailServes
  <2>2. \A d \in Calls : call'[d] = call[d] \/ call'[d].pc # "issue"
    BY <1>1, <2>1 DEF Serves, RowsTypeOK
  <2> QED
    BY <1>1, <2>1, <2>2, IdleStaysClosed
<1>8. ASSUME NEW c \in Calls, Deliver(c) \/ Discard(c)
      PROVE  Closed(f)' /\ ~Rotating(f)'
  <2>1. Close(c)
    BY <1>8 DEF Deliver, Discard
  <2> QED
    BY <1>1, <2>1, CloseIdles, IdleStaysClosed
<1>9. ASSUME NEW c \in Calls, Lose(c)
      PROVE  Closed(f)' /\ ~Rotating(f)'
  BY <1>2, <1>9 DEF Lose
<1>10. ASSUME NEW i \in Tokens, Expire(i)
       PROVE  Closed(f)' /\ ~Rotating(f)'
  BY <1>1, <1>10, ExpireFades, IdleStaysClosed DEF Expire
<1>11. CASE CookieExpires
  BY <1>2, <1>11 DEF CookieExpires
<1>12. CASE UNCHANGED vars
  BY <1>2, <1>12 DEF vars
<1> QED
  BY <1>4, <1>5, <1>6, <1>7, <1>8, <1>9, <1>10, <1>11, <1>12

(* A family of refresh tokens in which no token is good, and none is in    *)
(* the middle of a rotation, stays so: a session that was logged out or    *)
(* revoked by reuse detection is never signed in again by a refresh, under *)
(* any interleaving, fault and number of tabs (rotateRefreshToken,         *)
(* revokeFamily).                                                          *)
THEOREM ClosedStaysClosed == Spec => ClosedFamilyStaysClosed
<1>1. TypeOK /\ [Next]_vars =>
        [\A f \in Tokens : Issued(f) /\ Closed(f) /\ ~Rotating(f) =>
            Closed(f)' /\ ~Rotating(f)']_rows
  BY NextStaysClosed
<1>2. Spec => []TypeOK
  BY TypeCorrect
<1> QED
  BY <1>1, <1>2, PTL DEF Spec, ClosedFamilyStaysClosed

-----------------------------------------------------------------------------
(* A browser that no answer is lost to. "tk" are the rows and "b" is a     *)
(* request under way in them.                                              *)
Good(tk, i, f) == tk[i] # Unissued /\ tk[i].family = f /\ tk[i].state = "live"

\* A login that has been granted holds the only token of its family.
LoginCalm(tk, b) ==
    /\ b.cookie = None
    /\ b.pc \in {"issue", "granted", "refused", "failed"}
    /\ b.new # None =>
          /\ b.pc = "granted"
          /\ Good(tk, b.new, b.new)
          /\ \A i \in Tokens : tk[i] # Unissued /\ tk[i].family = b.new => i = b.new

LogoutCalm(b) == b.new = None /\ b.pc \in {"find", "revoke", "cleared"}

\* A rotation and its successor are all that is good of their family. One
\* that met a revoked token finds nothing good in it.
RotationCalm(tk, b) ==
    /\ b.cookie = None => b.pc = "refused" /\ b.new = None
    /\ b.cookie # None =>
          /\ b.pc \in {"find", "reuse", "issue", "mark", "load", "granted", "refused"}
          /\ b.pc \in {"reuse", "load", "granted"} => tk[b.cookie].state # "live"
          /\ b.new # None <=> b.pc \in {"mark", "load", "granted"}
          /\ b.new # None => Good(tk, b.new, tk[b.cookie].family)
          /\ \A i \in Tokens : Good(tk, i, tk[b.cookie].family) => i \in {b.cookie, b.new}

CallCalm(tk, b) ==
    /\ b.op = "login" => LoginCalm(tk, b)
    /\ b.op = "logout" => LogoutCalm(b)
    /\ b.op = "refresh" => RotationCalm(tk, b)

CallsCalm == \A c \in Calls : call[c] # Idle => CallCalm(token, call[c])

\* Nobody else has the token that a request is about to hand out.
NewApart ==
    \A c \in Calls : call[c] # Idle /\ call[c].new # None =>
       /\ jar # call[c].new
       /\ \A d \in Calls : call[d] # Idle =>
             /\ call[d].cookie # call[c].new
             /\ d # c => call[d].new # call[c].new

\* A session has one rotation under way.
FamilyOf(c) == token[call[c].cookie].family
OneRotation ==
    \A c, d \in Calls : Rotation(c) /\ Rotation(d) /\ FamilyOf(c) = FamilyOf(d) => c = d

RowsCalm ==
    \A i \in Tokens : Issued(i) => token[i].state # "expired" /\ Issued(token[i].family)

\* The answer to a cookie is awaited, and a tab remembers its refresh.
Kept ==
    \A c \in Calls :
       /\ Presents(c) => sender[c] # None
       /\ call[c] # Idle /\ call[c].op = "refresh" /\ sender[c] # None =>
             tab[sender[c]].flight = c

\* What the jar holds is what its session's rotation was sent with, or the
\* session's only good token. It is not good only while the answer to the
\* request that has used it up is on its way.
UsesUp(c) ==
    /\ Presents(c) /\ call[c].cookie = jar
    /\ call[c].op = "logout" \/ (call[c].op = "refresh" /\ call[c].pc \in {"load", "granted"})
JarCalm ==
    jar # None =>
       /\ \A c \in Calls : Rotation(c) /\ FamilyOf(c) = token[jar].family => call[c].cookie = jar
       /\ (\E c \in Calls : Rotation(c) /\ FamilyOf(c) = token[jar].family)
          \/ \A i \in Tokens : Good(token, i, token[jar].family) => i = jar
       /\ Live(jar) \/ \E c \in Calls : UsesUp(c)

Calm == CallsCalm /\ NewApart /\ OneRotation /\ RowsCalm /\ Kept /\ JarCalm
SessionInv == TypeOK /\ (~disturbed => Calm)

-----------------------------------------------------------------------------
\* A request stays calm when its own tokens stay, and its family gains none.
LEMMA StaysCalm ==
  ASSUME NEW tk, NEW tl, NEW b, CallCalm(tk, b),
         b.cookie # None => /\ tl[b.cookie].family = tk[b.cookie].family
                            /\ tl[b.cookie].state = "live" => tk[b.cookie].state = "live",
         b.new # None => tl[b.new] = tk[b.new],
         \A i \in Tokens : b.op = "refresh" /\ b.cookie # None
                           /\ Good(tl, i, tk[b.cookie].family) => Good(tk, i, tk[b.cookie].family),
         \A i \in Tokens : b.op = "login" /\ b.new # None /\ tl[i] # Unissued
                           /\ tl[i].family = b.new => tk[i] # Unissued /\ tk[i].family = b.new
  PROVE  CallCalm(tl, b)
<1>1. CASE b.op = "login"
  BY <1>1 DEF CallCalm, LoginCalm, Good
<1>2. CASE b.op = "refresh"
  BY <1>2 DEF CallCalm, RotationCalm, Good
<1> QED
  BY <1>1, <1>2 DEF CallCalm

\* What the requests under way present, in the types that make it usable.
LEMMA Presented ==
  ASSUME TypeOK, NEW d \in Calls, call[d] # Idle
  PROVE  /\ call[d] \in Call
         /\ call[d].cookie # None => call[d].cookie \in Tokens /\ Issued(call[d].cookie)
         /\ call[d].new # None => call[d].new \in Tokens /\ Issued(call[d].new)
<1>1. RowsTypeOK
  BY DEF TypeOK
<1> QED
  BY <1>1, BusyCall, RowsShape DEF WellFormed, Issued

\* A request moves on with the cookie it came with, and at most uses it up.
LEMMA MovesOnCalm ==
  ASSUME TypeOK, Calm, UNCHANGED <<jar, tab, sender>>,
         NEW c \in Calls, call[c] # Idle, NEW b \in Call,
         call' = [call EXCEPT ![c] = b],
         b.op = call[c].op, b.cookie = call[c].cookie, b.new \in {call[c].new, None},
         b.op = "refresh" /\ call[c].pc \in {"load", "granted"} => b.pc \in {"load", "granted"},
         \A j \in Tokens :
            \/ token'[j] = token[j]
            \/ /\ j = b.cookie /\ token'[j] # Unissued
               /\ token'[j].state = "revoked" /\ token'[j].family = token[j].family
               /\ b.op = "logout" \/ (b.op = "refresh" /\ b.pc = "load"),
         CallCalm(token', b)
  PROVE  Calm'
<1>1. /\ call'[c] = b /\ b # Idle
      /\ \A d \in Calls : d # c => call'[d] = call[d]
  BY DEF TypeOK, RowsTypeOK, Call, Idle, Working, Answers
<1>2. \A d \in Calls :
         /\ (call'[d] = Idle) <=> (call[d] = Idle)
         /\ call[d] # Idle => /\ call'[d].op = call[d].op /\ call'[d].cookie = call[d].cookie
                              /\ call'[d].new # None => call'[d].new = call[d].new
  BY <1>1
<1>3. b.cookie # None => b.cookie \in Tokens /\ Issued(b.cookie)
  BY Presented
<1>4. \A j \in Tokens :
         /\ (token'[j] # Unissued) <=> (token[j] # Unissued)
         /\ token'[j].family = token[j].family
         /\ token'[j].state = "live" => token[j].state = "live"
         /\ j # b.cookie => token'[j] = token[j]
  BY <1>3, TokenAssumption DEF Issued
<1>5. CallsCalm'
  <2> SUFFICES ASSUME NEW d \in Calls, call'[d] # Idle
               PROVE  CallCalm(token', call'[d])
    BY DEF CallsCalm
  <2>1. CASE d = c
    BY <1>1, <2>1
  <2>2. CASE d # c
    <3>1. call'[d] = call[d] /\ call[d] # Idle /\ CallCalm(token, call[d])
      BY <1>1, <2>2 DEF Calm, CallsCalm
    <3>2. call[d].new # None => token'[call[d].new] = token[call[d].new]
      BY <1>4, <3>1, Presented DEF Calm, NewApart
    <3>3. call[d].cookie # None =>
            /\ token'[call[d].cookie].family = token[call[d].cookie].family
            /\ token'[call[d].cookie].state = "live" => token[call[d].cookie].state = "live"
      BY <1>4, <3>1, Presented
    <3>4. \A i \in Tokens : \A f : Good(token', i, f) => Good(token, i, f)
      BY <1>4 DEF Good
    <3>5. CallCalm(token', call[d])
      BY <1>4, <3>1, <3>2, <3>3, <3>4, StaysCalm
    <3> QED
      BY <3>1, <3>5
  <2> QED
    BY <2>1, <2>2
<1>6. NewApart'
  BY <1>2 DEF Calm, NewApart
<1>7. \A d \in Calls : /\ Presents(d)' <=> Presents(d)
                       /\ Rotation(d)' <=> Rotation(d)
  BY <1>2 DEF Rotation, Presents
<1>8. \A d \in Calls : Rotation(d) => FamilyOf(d)' = FamilyOf(d)
  BY <1>2, <1>4, Presented DEF Rotation, Presents, FamilyOf
<1>9. OneRotation'
  BY <1>7, <1>8 DEF Calm, OneRotation
<1>10. RowsCalm'
  <2> SUFFICES ASSUME NEW i \in Tokens, token'[i] # Unissued
               PROVE  token'[i].state # "expired" /\ token'[token'[i].family] # Unissued
    BY DEF RowsCalm, Issued
  <2>1. token[i].state # "expired" /\ token[token[i].family] # Unissued
        /\ token[i].family \in Tokens
    BY <1>4 DEF Calm, RowsCalm, Issued, TypeOK, RowsTypeOK, Row
  <2> QED
    BY <1>4, <2>1
<1>11. Kept'
  BY <1>2, <1>7 DEF Calm, Kept
<1>12. JarCalm'
  <2> SUFFICES ASSUME jar # None
               PROVE  JarCalm'
    BY DEF JarCalm
  <2>1. jar' = jar /\ jar \in Tokens /\ Issued(jar) /\ token'[jar].family = token[jar].family
    BY <1>4 DEF TypeOK
  <2>2. \A d \in Calls : Rotation(d)' /\ FamilyOf(d)' = token'[jar].family =>
           Rotation(d) /\ FamilyOf(d) = token[jar].family /\ call'[d].cookie = call[d].cookie
    BY <1>2, <1>7, <1>8, <2>1 DEF Rotation, Presents
  <2>3. \A d \in Calls : Rotation(d) /\ FamilyOf(d) = token[jar].family =>
           Rotation(d)' /\ FamilyOf(d)' = token'[jar].family
    BY <1>7, <1>8, <2>1
  <2>4. \A i \in Tokens : Good(token', i, token[jar].family) => Good(token, i, token[jar].family)
    BY <1>4 DEF Good
  <2>5. Live(jar)' \/ \E d \in Calls : UsesUp(d)'
    <3>1. CASE \E d \in Calls : UsesUp(d)
      <4>1. PICK d \in Calls : UsesUp(d)
        BY <3>1
      <4>2. UsesUp(d)'
        BY <1>1, <1>2, <2>1, <4>1 DEF UsesUp, Presents
      <4> QED
        BY <4>2
    <3>2. CASE Live(jar) /\ token'[jar] = token[jar]
      BY <2>1, <3>2 DEF Live, Issued
    <3>3. CASE token'[jar] # token[jar]
      <4>1. jar = b.cookie /\ (b.op = "logout" \/ (b.op = "refresh" /\ b.pc = "load"))
        BY <2>1, <3>3
      <4>2. UsesUp(c)'
        BY <1>1, <2>1, <4>1 DEF UsesUp, Presents
      <4> QED
        BY <4>2
    <3> QED
      BY <3>1, <3>2, <3>3 DEF Calm, JarCalm
  <2> QED
    BY <2>1, <2>2, <2>3, <2>4, <2>5 DEF Calm, JarCalm
<1> QED
  BY <1>5, <1>6, <1>9, <1>10, <1>11, <1>12 DEF Calm

\* A token is drawn: it is in no cookie and in no request, and its family
\* has no other token, or is that of the only rotation of it.
LEMMA IssueCalm ==
  ASSUME TypeOK, Calm, NEW c \in Calls, Issue(c), UNCHANGED <<jar, tab, sender>>
  PROVE  Calm'
<1>1. call[c] # Idle /\ call[c].pc = "issue"
  BY WorkingBusy DEF Issue, Working
<1> DEFINE old == call[c]
<1>2. PICK i \in Tokens :
        /\ ~Issued(i)
        /\ token' = [token EXCEPT ![i] = [state |-> "live",
              family |-> IF old.op = "login" THEN i ELSE token[old.cookie].family]]
        /\ call' = [call EXCEPT ![c].new = i,
                                ![c].pc = IF old.op = "login" THEN "granted" ELSE "mark"]
  BY DEF Issue
<1>3. PICK f : f = IF old.op = "login" THEN i ELSE token[old.cookie].family
  OBVIOUS
<1>4. PICK b : b = [old EXCEPT !.new = i, !.pc = IF old.op = "login" THEN "granted" ELSE "mark"]
  OBVIOUS
<1>5. old \in Call /\ CallCalm(token, old) /\ i # None
      /\ (old.cookie # None => old.cookie \in Tokens /\ Issued(old.cookie))
  BY <1>1, Presented, TokenAssumption DEF Calm, CallsCalm
<1>6. /\ b.new = i /\ b.op = old.op /\ b.cookie = old.cookie /\ b # Idle
      /\ b.pc = IF old.op = "login" THEN "granted" ELSE "mark"
  BY <1>4, <1>5 DEF Call, Idle
<1>7. /\ call'[c] = b
      /\ \A d \in Calls : d # c => call'[d] = call[d]
  BY <1>2, <1>4 DEF TypeOK, RowsTypeOK
<1>8. /\ token'[i] = [state |-> "live", family |-> f]
      /\ \A j \in Tokens : j # i => token'[j] = token[j]
  BY <1>2, <1>3 DEF TypeOK, RowsTypeOK
<1>9. token'[i] # Unissued /\ token'[i].state = "live" /\ token'[i].family = f
  BY <1>8 DEF Unissued
<1>10. \/ old.op = "login" /\ old.cookie = None /\ f = i
       \/ /\ old.op = "refresh" /\ Rotation(c) /\ f = FamilyOf(c) /\ old.new = None
          /\ old.cookie \in Tokens /\ Issued(old.cookie)
          /\ \A j \in Tokens : Good(token, j, f) => j = old.cookie
  <2>1. old.op \in {"login", "refresh", "logout"}
    BY <1>5 DEF Call
  <2>2. CASE old.op = "login"
    BY <1>3, <1>5, <2>2 DEF CallCalm, LoginCalm
  <2>3. CASE old.op = "refresh"
    <3>1. old.cookie # None /\ old.new = None
          /\ \A j \in Tokens : Good(token, j, token[old.cookie].family) => j \in {old.cookie, None}
      BY <1>1, <1>5, <2>3 DEF CallCalm, RotationCalm
    <3> QED
      BY <1>1, <1>3, <1>5, <2>3, <3>1, TokenAssumption DEF Rotation, Presents, FamilyOf
  <2>4. CASE old.op = "logout"
    BY <1>1, <1>5, <2>4 DEF CallCalm, LogoutCalm
  <2> QED
    BY <2>1, <2>2, <2>3, <2>4
<1>11. \A j \in Tokens : Issued(j) => j # i /\ token[j].family # i /\ token[j].family \in Tokens
  BY <1>2 DEF Calm, RowsCalm, Issued, TypeOK, RowsTypeOK, Row
<1>12. \A d \in Calls : call[d] # Idle =>
         /\ call[d].cookie # i /\ call[d].new # i
         /\ call'[d].op = call[d].op /\ call'[d].cookie = call[d].cookie
  BY <1>2, <1>5, <1>6, <1>7, Presented
<1>13. \A d \in Calls : call'[d] # Idle <=> call[d] # Idle
  BY <1>1, <1>6, <1>7
<1>14. \A d \in Calls : (Presents(d)' <=> Presents(d)) /\ (Rotation(d)' <=> Rotation(d))
  BY <1>12, <1>13 DEF Rotation, Presents
<1>15. \A d \in Calls : Rotation(d) => FamilyOf(d)' = FamilyOf(d) /\ FamilyOf(d) # i
  <2> SUFFICES ASSUME NEW d \in Calls, Rotation(d)
               PROVE  FamilyOf(d)' = FamilyOf(d) /\ FamilyOf(d) # i
    OBVIOUS
  <2>1. call[d] # Idle /\ call[d].cookie \in Tokens /\ Issued(call[d].cookie)
    BY Presented DEF Rotation, Presents
  <2> QED
    BY <1>8, <1>11, <1>12, <2>1 DEF FamilyOf
<1>16. CallsCalm'
  <2> SUFFICES ASSUME NEW d \in Calls, call'[d] # Idle
               PROVE  CallCalm(token', call'[d])
    BY DEF CallsCalm
  <2>1. CASE d = c
    <3>1. CASE old.op = "login"
      <4>1. f = i /\ old.cookie = None
        BY <1>10, <3>1
      <4>2. LoginCalm(token', b)
        BY <1>6, <1>8, <1>9, <1>11, <3>1, <4>1 DEF LoginCalm, Good, Issued
      <4> QED
        BY <1>6, <1>7, <2>1, <3>1, <4>2 DEF CallCalm
    <3>2. CASE old.op = "refresh"
      <4>1. /\ old.cookie \in Tokens /\ Issued(old.cookie) /\ f = token[old.cookie].family
            /\ \A j \in Tokens : Good(token, j, f) => j = old.cookie
        BY <1>10, <3>2 DEF FamilyOf
      <4>2. token'[old.cookie] = token[old.cookie] /\ old.cookie # None /\ b.pc = "mark"
        BY <1>6, <1>8, <1>11, <3>2, <4>1, TokenAssumption
      <4>3. \A j \in Tokens : Good(token', j, f) => j \in {old.cookie, i}
        BY <1>8, <4>1 DEF Good
      <4>4. RotationCalm(token', b)
        BY <1>5, <1>6, <1>9, <4>1, <4>2, <4>3 DEF RotationCalm, Good
      <4> QED
        BY <1>6, <1>7, <2>1, <3>2, <4>4 DEF CallCalm
    <3> QED
      BY <1>10, <3>1, <3>2
  <2>2. CASE d # c
    <3>1. call'[d] = call[d] /\ call[d] # Idle /\ CallCalm(token, call[d])
      BY <1>7, <2>2 DEF Calm, CallsCalm
    <3>2. /\ call[d].new # None => token'[call[d].new] = token[call[d].new]
          /\ call[d].cookie # None => token'[call[d].cookie] = token[call[d].cookie]
      BY <1>8, <1>12, <3>1, Presented
    <3>3. ASSUME call[d].op = "refresh", call[d].cookie # None
          PROVE  f # token[call[d].cookie].family
      <4>1. Rotation(d) /\ FamilyOf(d) = token[call[d].cookie].family
        BY <3>1, <3>3 DEF Rotation, Presents, FamilyOf
      <4> QED
        BY <1>10, <1>15, <2>2, <4>1 DEF Calm, OneRotation
    <3>4. \A j \in Tokens : call[d].op = "refresh" /\ call[d].cookie # None
             /\ Good(token', j, token[call[d].cookie].family)
               => Good(token, j, token[call[d].cookie].family)
      BY <1>8, <1>9, <3>3 DEF Good
    <3>5. ASSUME call[d].op = "login", call[d].new # None
          PROVE  f # call[d].new
      <4>1. \A j \in Tokens : Issued(j) /\ token[j].family = call[d].new => j = call[d].new
        BY <3>1, <3>5 DEF CallCalm, LoginCalm, Issued
      <4>2. old.cookie # call[d].new /\ i # call[d].new
        BY <1>1, <1>12, <3>1, <3>5 DEF Calm, NewApart
      <4> QED
        BY <1>10, <4>1, <4>2 DEF FamilyOf
    <3>6. \A j \in Tokens : call[d].op = "login" /\ call[d].new # None /\ token'[j] # Unissued
             /\ token'[j].family = call[d].new
               => token[j] # Unissued /\ token[j].family = call[d].new
      BY <1>8, <1>9, <3>5
    <3>7. CallCalm(token', call[d])
      BY <3>1, <3>2, <3>4, <3>6, StaysCalm
    <3> QED
      BY <3>1, <3>7
  <2> QED
    BY <2>1, <2>2
<1>17. NewApart'
  <2> SUFFICES ASSUME NEW d \in Calls, call'[d] # Idle, call'[d].new # None
               PROVE  /\ jar' # call'[d].new
                      /\ \A e \in Calls : call'[e] # Idle =>
                            /\ call'[e].cookie # call'[d].new
                            /\ e # d => call'[e].new # call'[d].new
    BY DEF NewApart
  <2>1. CASE d = c
    <3>1. call'[d].new = i /\ jar' # i
      BY <1>2, <1>5, <1>6, <1>7, <2>1 DEF TypeOK
    <3> QED
      BY <1>7, <1>12, <1>13, <2>1, <3>1
  <2>2. CASE d # c
    BY <1>6, <1>7, <1>12, <1>13, <2>2 DEF Calm, NewApart
  <2> QED
    BY <2>1, <2>2
<1>18. OneRotation'
  BY <1>14, <1>15 DEF Calm, OneRotation
<1>19. RowsCalm'
  <2> SUFFICES ASSUME NEW j \in Tokens, token'[j] # Unissued
               PROVE  token'[j].state # "expired" /\ token'[token'[j].family] # Unissued
    BY DEF RowsCalm, Issued
  <2>1. CASE j = i
    <3>1. CASE f = i
      BY <1>9, <2>1, <3>1
    <3>2. CASE f # i
      <4>1. f = token[old.cookie].family /\ old.cookie \in Tokens /\ Issued(old.cookie)
        BY <1>10, <3>2 DEF FamilyOf
      <4>2. token[f] # Unissued /\ f \in Tokens
        BY <1>11, <4>1 DEF Calm, RowsCalm, Issued
      <4> QED
        BY <1>8, <1>9, <2>1, <3>2, <4>2
    <3> QED
      BY <3>1, <3>2
  <2>2. CASE j # i
    BY <1>8, <1>11, <2>2 DEF Calm, RowsCalm, Issued
  <2> QED
    BY <2>1, <2>2
<1>20. Kept'
  BY <1>12, <1>13, <1>14 DEF Calm, Kept
<1>21. JarCalm'
  <2> SUFFICES ASSUME jar # None
               PROVE  JarCalm'
    BY DEF JarCalm
  <2>1. jar' = jar /\ jar \in Tokens /\ Issued(jar) /\ jar # i /\ token'[jar] = token[jar]
    BY <1>2, <1>8 DEF TypeOK
  <2>2. \A d \in Calls : Rotation(d)' /\ FamilyOf(d)' = token'[jar].family =>
           Rotation(d) /\ FamilyOf(d) = token[jar].family /\ call'[d].cookie = call[d].cookie
    BY <1>12, <1>14, <1>15, <2>1 DEF Rotation, Presents
  <2>3. \A d \in Calls : Rotation(d) /\ FamilyOf(d) = token[jar].family =>
           Rotation(d)' /\ FamilyOf(d)' = token'[jar].family
    BY <1>14, <1>15, <2>1
  <2>4. \/ \E d \in Calls : Rotation(d) /\ FamilyOf(d) = token[jar].family
        \/ \A j \in Tokens : Good(token', j, token'[jar].family) => j = jar
    <3>1. CASE f = token[jar].family
      <4>1. Rotation(c) /\ FamilyOf(c) = token[jar].family
        BY <1>10, <1>11, <2>1, <3>1
      <4> QED
        BY <4>1
    <3>2. CASE f # token[jar].family
      BY <1>8, <1>9, <2>1, <3>2 DEF Calm, JarCalm, Good
    <3> QED
      BY <3>1, <3>2
  <2>5. Live(jar)' \/ \E d \in Calls : UsesUp(d)'
    <3>1. CASE Live(jar)
      BY <2>1, <3>1 DEF Live, Issued
    <3>2. ASSUME NEW d \in Calls, UsesUp(d)
          PROVE  UsesUp(d)'
      <4>1. d # c
        BY <1>1, <1>10, <3>2 DEF UsesUp
      <4> QED
        BY <1>7, <2>1, <3>2, <4>1 DEF UsesUp, Presents
    <3> QED
      BY <3>1, <3>2 DEF Calm, JarCalm
  <2> QED
    BY <2>1, <2>2, <2>3, <2>4, <2>5 DEF Calm, JarCalm
<1> QED
  BY <1>16, <1>17, <1>18, <1>19, <1>20, <1>21 DEF Calm

\* A request arrives: a rotation is the first of its session, since two of
\* one tab are one, and two of different tabs overlap.
LEMMA ArriveCalm ==
  ASSUME TypeOK, Calm, NEW c \in Calls, NEW t \in Tabs, NEW op \in {"login", "refresh", "logout"},
         NEW k, k = IF op = "login" THEN None ELSE jar, Arrive(c, op, k), jar' = jar,
         sender' = [sender EXCEPT ![c] = t],
         op # "refresh" => tab' = tab,
         op = "refresh" => tab[t].flight = None /\ tab'[t].flight = c
                           /\ \A u \in Tabs : u # t => tab'[u] = tab[u],
         ~Overlapping
  PROVE  Calm'
<1>1. PICK b : b = [pc |-> FirstStep(op, k), op |-> op, cookie |-> k, new |-> None]
  OBVIOUS
<1>2. /\ b.pc = FirstStep(op, k) /\ b.op = op /\ b.cookie = k /\ b.new = None /\ b # Idle
      /\ k # None => k = jar /\ op # "login" /\ jar \in Tokens /\ Issued(jar)
  BY <1>1 DEF Idle, TypeOK
<1>3. /\ call[c] = Idle /\ token' = token /\ call'[c] = b
      /\ \A d \in Calls : d # c => call'[d] = call[d]
  BY <1>1 DEF Arrive, TypeOK, RowsTypeOK
<1>4. sender'[c] = t /\ \A d \in Calls : d # c => sender'[d] = sender[d]
  BY DEF TypeOK
<1>5. \A d \in Calls : d # c => /\ Presents(d)' <=> Presents(d)
                                /\ Rotation(d)' <=> Rotation(d)
                                /\ FamilyOf(d)' = FamilyOf(d)
  BY <1>3 DEF Rotation, Presents, FamilyOf
<1>6. /\ Presents(c)' <=> k # None
      /\ Rotation(c)' <=> k # None /\ op = "refresh"
      /\ ~Presents(c) /\ ~Rotation(c)
  BY <1>2, <1>3 DEF Rotation, Presents
\* The tab has no other refresh under way, and no other tab presents the jar's token.
<1>7. ASSUME op = "refresh", NEW d \in Calls, d # c, call[d] # Idle, call[d].op = "refresh"
      PROVE  sender[d] # t
  BY <1>7, TabAssumption DEF Calm, Kept
<1>8. ASSUME op = "refresh", k # None, NEW d \in Calls, Rotation(d)
      PROVE  FamilyOf(d) # token[jar].family
  <2> SUFFICES ASSUME FamilyOf(d) = token[jar].family
               PROVE  FALSE
    OBVIOUS
  <2>1. call[d].cookie = jar /\ d # c
    BY <1>2, <1>6, <1>8 DEF Calm, JarCalm
  <2>2. sender'[d] = t
    <3>1. Rotation(c)' /\ Rotation(d)' /\ call'[c].cookie = call'[d].cookie
      BY <1>2, <1>3, <1>5, <1>6, <1>8, <2>1
    <3> QED
      BY <1>4, <3>1 DEF Overlapping
  <2> QED
    BY <1>4, <1>7, <1>8, <2>1, <2>2 DEF Rotation, Presents
<1>9. CallsCalm'
  <2> SUFFICES ASSUME NEW d \in Calls, call'[d] # Idle
               PROVE  CallCalm(token, call'[d])
    BY <1>3 DEF CallsCalm
  <2>1. CASE d = c
    <3>1. CASE op = "login"
      BY <1>2, <1>3, <2>1, <3>1 DEF CallCalm, LoginCalm, FirstStep
    <3>2. CASE op = "logout"
      BY <1>2, <1>3, <2>1, <3>2 DEF CallCalm, LogoutCalm, FirstStep
    <3>3. CASE op = "refresh" /\ k = None
      BY <1>2, <1>3, <2>1, <3>3 DEF CallCalm, RotationCalm, FirstStep
    <3>4. CASE op = "refresh" /\ k # None
      <4>1. \A i \in Tokens : Good(token, i, token[jar].family) => i = jar
        BY <1>2, <1>8, <3>4 DEF Calm, JarCalm
      <4>2. b.pc = "find" /\ b.cookie = jar /\ jar # None
        BY <1>2, <3>4 DEF FirstStep
      <4>3. RotationCalm(token, b)
        BY <1>2, <4>1, <4>2 DEF RotationCalm
      <4> QED
        BY <1>2, <1>3, <2>1, <3>4, <4>3 DEF CallCalm
    <3> QED
      BY <3>1, <3>2, <3>3, <3>4
  <2>2. CASE d # c
    BY <1>3, <2>2 DEF Calm, CallsCalm
  <2> QED
    BY <2>1, <2>2
<1>10. NewApart'
  <2> SUFFICES ASSUME NEW d \in Calls, call'[d] # Idle, call'[d].new # None
               PROVE  /\ jar # call'[d].new
                      /\ \A e \in Calls : call'[e] # Idle =>
                            /\ call'[e].cookie # call'[d].new
                            /\ e # d => call'[e].new # call'[d].new
    BY DEF NewApart
  <2>1. d # c /\ call'[d] = call[d]
    BY <1>2, <1>3
  <2> QED
    BY <1>2, <1>3, <2>1 DEF Calm, NewApart
<1>11. OneRotation'
  <2> SUFFICES ASSUME NEW d \in Calls, NEW e \in Calls, Rotation(d)', Rotation(e)',
                      FamilyOf(d)' = FamilyOf(e)'
               PROVE  d = e
    BY DEF OneRotation
  <2>1. Rotation(c)' => FamilyOf(c)' = token[jar].family
    BY <1>2, <1>3, <1>6 DEF FamilyOf
  <2> QED
    BY <1>5, <1>6, <1>8, <2>1 DEF Calm, OneRotation
<1>12. RowsCalm'
  BY <1>3 DEF Calm, RowsCalm, Issued
<1>13. Kept'
  <2> SUFFICES ASSUME NEW d \in Calls
               PROVE  /\ Presents(d)' => sender'[d] # None
                      /\ call'[d] # Idle /\ call'[d].op = "refresh" /\ sender'[d] # None =>
                            tab'[sender'[d]].flight = d
    BY DEF Kept
  <2>1. CASE d = c
    BY <1>2, <1>3, <1>4, <2>1, TabAssumption
  <2>2. CASE d # c
    <3>1. Presents(d)' => sender'[d] # None
      BY <1>4, <1>5, <2>2 DEF Calm, Kept
    <3>2. ASSUME call'[d] # Idle, call'[d].op = "refresh", sender'[d] # None
          PROVE  tab'[sender'[d]].flight = d
      <4>1. /\ call[d] # Idle /\ call[d].op = "refresh" /\ sender'[d] = sender[d]
            /\ sender[d] \in Tabs /\ tab[sender[d]].flight = d
        BY <1>3, <1>4, <2>2, <3>2 DEF Calm, Kept, TypeOK
      <4>2. tab'[sender[d]] = tab[sender[d]]
        BY <1>7, <2>2, <4>1
      <4> QED
        BY <4>1, <4>2
    <3> QED
      BY <3>1, <3>2
  <2> QED
    BY <2>1, <2>2
<1>14. JarCalm'
  <2> SUFFICES ASSUME jar # None
               PROVE  JarCalm'
    BY DEF JarCalm
  <2>1. token' = token /\ jar' = jar
    BY <1>3
  <2>2. \A d \in Calls : Rotation(d)' /\ FamilyOf(d)' = token[jar].family =>
           call'[d].cookie = jar
    BY <1>2, <1>3, <1>5, <1>6 DEF Calm, JarCalm
  <2>3. \/ \E d \in Calls : Rotation(d)' /\ FamilyOf(d)' = token[jar].family
        \/ \A i \in Tokens : Good(token, i, token[jar].family) => i = jar
    BY <1>5, <1>6 DEF Calm, JarCalm
  <2>4. Live(jar)' \/ \E d \in Calls : UsesUp(d)'
    <3>1. ASSUME NEW d \in Calls, UsesUp(d)
          PROVE  UsesUp(d)'
      BY <1>3, <1>5, <1>6, <2>1, <3>1 DEF UsesUp
    <3> QED
      BY <2>1, <3>1 DEF Calm, JarCalm, Live, Issued
  <2> QED
    BY <2>1, <2>2, <2>3, <2>4 DEF JarCalm
<1> QED
  BY <1>9, <1>10, <1>11, <1>12, <1>13, <1>14 DEF Calm

\* An answered request is gone: what it handed out is now in the jar, or it
\* had nothing to hand out to the session in the jar.
LEMMA CloseCalm ==
  ASSUME TypeOK, Calm, NEW c \in Calls, call[c] # Idle, Answered(c), Close(c), Kept',
         jar' = CookieAfter(c) \/ (jar' = jar /\ ~Presents(c))
  PROVE  Calm'
<1> DEFINE old == call[c]
<1>1. /\ token' = token /\ call'[c] = Idle
      /\ \A d \in Calls : d # c => call'[d] = call[d]
  BY DEF Close, TypeOK, RowsTypeOK
<1>2. /\ CallCalm(token, old) /\ old.pc \in Answers /\ old.op \in {"login", "refresh", "logout"}
      /\ old.cookie # None => old.cookie \in Tokens /\ Issued(old.cookie)
      /\ old.new # None => old.new \in Tokens /\ Issued(old.new)
  BY Presented DEF Calm, CallsCalm, Answered, Call
<1>3. \A d \in Calls : /\ Presents(d)' <=> d # c /\ Presents(d)
                       /\ Rotation(d)' <=> d # c /\ Rotation(d)
                       /\ d # c => FamilyOf(d)' = FamilyOf(d)
  BY <1>1 DEF Rotation, Presents, FamilyOf
<1>4. CallsCalm' /\ RowsCalm' /\ OneRotation'
  BY <1>1, <1>3 DEF Calm, CallsCalm, RowsCalm, OneRotation, Issued
<1>5. \/ jar' = jar /\ (Presents(c) => old.pc \in {"refused", "failed"})
      \/ jar' = None
      \/ jar' = old.new /\ old.pc = "granted"
  BY <1>2 DEF CookieAfter, Answers
<1>6. NewApart'
  <2> SUFFICES ASSUME NEW d \in Calls, call'[d] # Idle, call'[d].new # None
               PROVE  /\ jar' # call'[d].new
                      /\ \A e \in Calls : call'[e] # Idle =>
                            /\ call'[e].cookie # call'[d].new
                            /\ e # d => call'[e].new # call'[d].new
    BY DEF NewApart
  <2>1. d # c /\ call'[d] = call[d]
    BY <1>1
  <2>2. jar # call[d].new /\ old.new # call[d].new
    BY <2>1 DEF Calm, NewApart
  <2> QED
    BY <1>1, <1>5, <2>1, <2>2 DEF Calm, NewApart
<1>7. JarCalm'
  <2>1. CASE jar' = None
    BY <2>1 DEF JarCalm
  <2>2. CASE jar' = jar /\ jar # None /\ (Presents(c) => old.pc \in {"refused", "failed"})
    <3>1. \A d \in Calls : Rotation(d)' /\ FamilyOf(d)' = token[jar].family =>
             call'[d].cookie = jar
      BY <1>1, <1>3, <2>2 DEF Calm, JarCalm
    <3>2. \/ \E d \in Calls : Rotation(d)' /\ FamilyOf(d)' = token[jar].family
          \/ \A i \in Tokens : Good(token, i, token[jar].family) => i = jar
      <4>1. CASE Rotation(c) /\ FamilyOf(c) = token[jar].family
        <5>1. old.cookie = jar /\ RotationCalm(token, old) /\ old.pc \in {"refused", "failed"}
          BY <1>2, <2>2, <4>1 DEF Calm, JarCalm, Rotation, CallCalm
        <5>2. old.new = None
              /\ \A i \in Tokens : Good(token, i, token[jar].family) => i \in {jar, old.new}
          BY <2>2, <5>1 DEF RotationCalm
        <5> QED
          BY <5>2, TokenAssumption
      <4>2. CASE ~(Rotation(c) /\ FamilyOf(c) = token[jar].family)
        BY <1>3, <2>2, <4>2 DEF Calm, JarCalm
      <4> QED
        BY <4>1, <4>2
    <3>3. Live(jar)' \/ \E d \in Calls : UsesUp(d)'
      <4>1. ~UsesUp(c)
        BY <1>2, <2>2 DEF UsesUp, CallCalm, LogoutCalm
      <4>2. ASSUME NEW d \in Calls, UsesUp(d)
            PROVE  UsesUp(d)'
        BY <1>1, <1>3, <2>2, <4>1, <4>2 DEF UsesUp
      <4> QED
        BY <1>1, <2>2, <4>2 DEF Calm, JarCalm, Live, Issued
    <3> QED
      BY <1>1, <2>2, <3>1, <3>2, <3>3 DEF JarCalm
  <2>3. CASE jar' = old.new /\ old.pc = "granted" /\ old.new # None
    <3> DEFINE f == token[old.new].family
    <3>1. /\ Good(token, old.new, f)
          /\ \A i \in Tokens : Good(token, i, f) => i = old.new
          /\ \A d \in Calls : Rotation(d) /\ FamilyOf(d) = f => d = c
      <4>1. CASE old.op = "login"
        <5>1. /\ Good(token, old.new, old.new)
              /\ \A i \in Tokens : token[i] # Unissued /\ token[i].family = old.new => i = old.new
          BY <1>2, <2>3, <4>1 DEF CallCalm, LoginCalm
        <5>2. f = old.new
          BY <5>1 DEF Good
        <5>3. ASSUME NEW d \in Calls, Rotation(d), FamilyOf(d) = f
              PROVE  FALSE
          <6>1. /\ call[d] # Idle /\ call[d].cookie # None
                /\ call[d].cookie \in Tokens /\ Issued(call[d].cookie)
            BY <5>3, Presented DEF Rotation, Presents
          <6>2. call[d].cookie = old.new
            BY <5>1, <5>2, <5>3, <6>1 DEF FamilyOf, Issued
          <6> QED
            BY <2>3, <6>1, <6>2 DEF Calm, NewApart
        <5> QED
          BY <5>1, <5>2, <5>3 DEF Good
      <4>2. CASE old.op = "refresh"
        <5>1. RotationCalm(token, old)
          BY <1>2, <4>2 DEF CallCalm
        <5>2. /\ old.cookie # None /\ token[old.cookie].state # "live"
              /\ Good(token, old.new, token[old.cookie].family)
              /\ \A i \in Tokens : Good(token, i, token[old.cookie].family)
                    => i \in {old.cookie, old.new}
          BY <2>3, <5>1 DEF RotationCalm
        <5>3. f = token[old.cookie].family
          BY <5>2 DEF Good
        <5>4. Rotation(c) /\ FamilyOf(c) = f
          BY <4>2, <5>2, <5>3 DEF Rotation, Presents, FamilyOf
        <5>5. \A d \in Calls : Rotation(d) /\ FamilyOf(d) = f => d = c
          BY <5>4 DEF Calm, OneRotation
        <5>6. \A i \in Tokens : Good(token, i, f) => i = old.new
          BY <5>2, <5>3 DEF Good
        <5> QED
          BY <5>2, <5>3, <5>5, <5>6
      <4>3. CASE old.op = "logout"
        BY <1>2, <2>3, <4>3 DEF CallCalm, LogoutCalm
      <4> QED
        BY <1>2, <4>1, <4>2, <4>3
    <3>2. ~\E d \in Calls : Rotation(d)' /\ FamilyOf(d)' = f
      BY <1>3, <3>1
    <3> HIDE DEF f
    <3>3. token[old.new].family = f /\ Live(old.new)
      BY <3>1 DEF Good, Live, Issued
    <3>4. Live(jar)' /\ token'[jar'].family = f
      BY <1>1, <2>3, <3>3 DEF Live, Issued
    <3> QED
      BY <1>1, <2>3, <3>1, <3>2, <3>4 DEF JarCalm
  <2> QED
    BY <1>5, <2>1, <2>2, <2>3
<1> QED
  BY <1>4, <1>6, <1>7 DEF Calm

-----------------------------------------------------------------------------
\* A step that leaves the API and the jar's token alone.
LEMMA TabCalm ==
  ASSUME Calm, UNCHANGED <<token, call>>, jar' = jar \/ jar' = None, Kept'
  PROVE  Calm'
<1>1. CallsCalm' /\ OneRotation' /\ RowsCalm'
  BY DEF Calm, CallsCalm, OneRotation, RowsCalm, Rotation, Presents, FamilyOf, Issued
<1>2. NewApart'
  BY DEF Calm, NewApart
<1>3. JarCalm'
  <2>1. CASE jar' = None
    BY <2>1 DEF JarCalm
  <2>2. CASE jar' = jar
    BY <2>2 DEF Calm, JarCalm, Rotation, Presents, FamilyOf, Live, Issued, UsesUp
  <2> QED
    BY <2>1, <2>2
<1> QED
  BY <1>1, <1>2, <1>3 DEF Calm

\* No tab forgets its refresh, and nobody stops waiting.
LEMMA FlightsKept ==
  ASSUME TypeOK, Kept, UNCHANGED <<call, sender>>,
         \A u \in Tabs : tab'[u].flight = tab[u].flight
  PROVE  Kept'
BY DEF Kept, Presents, TypeOK

LEMMA ReloadKept ==
  ASSUME TypeOK, Kept, NEW t \in Tabs, Reload(t), ~AnswerDropped
  PROVE  Kept'
<1>1. /\ call' = call
      /\ \A d \in Calls : sender'[d] = IF sender[d] = t THEN None ELSE sender[d]
      /\ \A u \in Tabs : u # t => tab'[u] = tab[u]
  BY DEF Reload, TypeOK
<1>2. ASSUME NEW d \in Calls, Presents(d)'
      PROVE  sender'[d] # None
  <2>1. Presents(d) /\ sender[d] # None /\ call'[d] # Idle
    BY <1>1, <1>2 DEF Kept, Presents
  <2> QED
    BY <2>1 DEF AnswerDropped
<1> QED
  BY <1>1, <1>2 DEF Kept, TypeOK

\* An answer that a tab learns of is that of its refresh, or leaves its
\* refresh in flight.
LEMMA LearnsKept ==
  ASSUME TypeOK, Kept, NEW c \in Calls, sender[c] # None, NEW ok \in BOOLEAN, TabLearns(c, ok),
         \/ call' = call /\ ~Presents(c)
         \/ call' = [call EXCEPT ![c] = Idle],
         ~Forgotten
  PROVE  Kept'
<1>1. PICK t \in Tabs : sender[c] = t
  BY DEF TypeOK
<1>2. call[c] # Idle
  BY DEF TypeOK
<1>3. PICK own \in Tab : /\ own = After(tab[t], c, ok)
                         /\ own.flight # None =>
                               own.flight = tab[t].flight /\ call[c].op # "refresh"
  BY <1>1, <1>2, AfterTypes
<1>4. tab'[t] = own /\ \A u \in Tabs : u # t => tab'[u] = tab[u]
  BY <1>1, <1>3 DEF TabLearns, TypeOK
<1>5. sender'[c] = None /\ \A d \in Calls : d # c => sender'[d] = sender[d] /\ call'[d] = call[d]
  BY DEF TabLearns, TypeOK, RowsTypeOK
<1>6. ~Presents(c)'
  BY DEF Presents, TypeOK, RowsTypeOK
<1>7. ASSUME NEW d \in Calls, call'[d] # Idle, call'[d].op = "refresh", sender'[d] # None
      PROVE  tab'[sender'[d]].flight = d
  <2>1. /\ d # c /\ sender'[d] = sender[d] /\ sender[d] \in Tabs
        /\ tab[sender[d]].flight = d
    BY <1>5, <1>7 DEF Kept, TypeOK
  <2>2. CASE sender[d] # t
    BY <1>4, <2>1, <2>2
  <2>3. CASE sender[d] = t
    <3>1. own.flight # None
      BY <1>4, <2>1, <2>3, TabAssumption DEF Forgotten
    <3> QED
      BY <1>3, <1>4, <2>1, <2>3, <3>1
  <2> QED
    BY <2>2, <2>3
<1>8. \A d \in Calls : Presents(d)' => sender'[d] # None
  BY <1>5, <1>6 DEF Kept, Presents
<1> QED
  BY <1>7, <1>8 DEF Kept

-----------------------------------------------------------------------------
\* Reuse detection finds nothing good to revoke.
LEMMA NothingToRevoke ==
  ASSUME TypeOK, RowsCalm, NEW f \in Tokens, \A i \in Tokens : ~Good(token, i, f)
  PROVE  FamilyRevoked(f) = token
<1>1. ASSUME NEW i \in Tokens
      PROVE  FamilyRevoked(f)[i] = token[i]
  <2>1. CASE Issued(i) /\ token[i].family = f
    <3>1. PICK r \in Row : r = token[i]
      BY <2>1 DEF TypeOK, RowsTypeOK, Issued
    <3>2. r.state = "revoked"
      BY <2>1, <3>1 DEF Good, RowsCalm, Issued, Row
    <3>3. [r EXCEPT !.state = "revoked"] = r
      BY <3>2 DEF Row
    <3> QED
      BY <2>1, <3>1, <3>3 DEF FamilyRevoked
  <2>2. CASE ~(Issued(i) /\ token[i].family = f)
    BY <2>2 DEF FamilyRevoked
  <2> QED
    BY <2>1, <2>2
<1>2. FamilyRevoked(f) = [i \in Tokens |-> FamilyRevoked(f)[i]]
  BY DEF FamilyRevoked
<1> QED
  BY <1>1, <1>2 DEF TypeOK, RowsTypeOK

\* Revoking the presented token changes its row only.
LEMMA RevokedRow ==
  ASSUME TypeOK, NEW k \in Tokens, Issued(k), token' = Revoked(k)
  PROVE  /\ token'[k] # Unissued /\ token'[k].state = "revoked"
         /\ token'[k].family = token[k].family
         /\ \A j \in Tokens : j # k => token'[j] = token[j]
<1>1. token[k] \in Row
  BY DEF TypeOK, RowsTypeOK, Issued
<1>2. PICK r \in Row : r = [token[k] EXCEPT !.state = "revoked"] /\ r.state = "revoked"
                        /\ r.family = token[k].family
  BY <1>1, StateSet
<1> QED
  BY <1>2, RowsIssued DEF Revoked, TypeOK, RowsTypeOK

LEMMA ServerCalm ==
  ASSUME TypeOK, Calm, NEW c \in Calls, ServerStep(c), UNCHANGED <<jar, tab, sender>>
  PROVE  Calm'
<1>1. call[c] # Idle
  BY WorkingBusy DEF ServerStep, Refuse, Find, RevokeFamily, Revoke, Issue, MarkRotated, Load, Working
<1> DEFINE old == call[c]
<1>2. /\ old \in Call /\ CallCalm(token, old)
      /\ old.cookie # None => old.cookie \in Tokens /\ Issued(old.cookie)
      /\ old.op \in {"login", "refresh", "logout"}
  BY <1>1, Presented DEF Calm, CallsCalm, Call
<1>3. WellFormed(token, old)
  BY <1>1, RowsShape DEF TypeOK
\* A request that goes on, with the row of its cookie as it was or revoked.
<1>4. ASSUME NEW pc \in Working \cup Answers, Goto(c, pc),
             old.op = "refresh" /\ old.pc \in {"load", "granted"} => pc \in {"load", "granted"},
             \A j \in Tokens :
                \/ token'[j] = token[j]
                \/ /\ j = old.cookie /\ token'[j] # Unissued
                   /\ token'[j].state = "revoked" /\ token'[j].family = token[j].family
                   /\ old.op = "logout" \/ (old.op = "refresh" /\ pc = "load"),
             \A b : b = [old EXCEPT !.pc = pc] => CallCalm(token', b)
      PROVE  Calm'
  <2>1. PICK b : b = [old EXCEPT !.pc = pc]
    OBVIOUS
  <2>2. b \in Call /\ b.pc = pc /\ b.op = old.op /\ b.cookie = old.cookie /\ b.new = old.new
    BY <1>2, <1>4, <2>1 DEF Call
  <2>3. call' = [call EXCEPT ![c] = b] /\ CallCalm(token', b)
    BY <1>4, <2>1 DEF Goto
  <2> HIDE DEF old
  <2>4. old = call[c]
    BY DEF old
  <2> QED
    BY <1>1, <1>4, <2>2, <2>3, <2>4, MovesOnCalm
<1>5. \A pc, b : b = [old EXCEPT !.pc = pc] =>
         b.pc = pc /\ b.op = old.op /\ b.cookie = old.cookie /\ b.new = old.new
  BY <1>2 DEF Call
<1>6. CASE Refuse(c)
  <2>1. old.op = "login" /\ old.pc = "issue" /\ token' = token /\ Goto(c, "refused")
    BY <1>6 DEF Refuse
  <2>2. \A b : b = [old EXCEPT !.pc = "refused"] => CallCalm(token', b)
    BY <1>2, <1>5, <2>1 DEF CallCalm, LoginCalm
  <2> QED
    BY <1>4, <2>1, <2>2 DEF Answers
<1>7. CASE Find(c)
  <2>1. old.pc = "find" /\ token' = token /\ old.cookie # None
    BY <1>3, <1>7 DEF Find, WellFormed
  <2>2. token[old.cookie].state \in {"live", "revoked"} /\ token[old.cookie] \in Row
    BY <1>2, <2>1 DEF Calm, RowsCalm, TypeOK, RowsTypeOK, Issued, Row
  <2>3. PICK pc \in {"reuse", "issue", "cleared", "revoke"} :
          /\ Goto(c, pc)
          /\ \/ old.op = "refresh" /\ pc \in {"reuse", "issue"}
                /\ (pc = "reuse" => token[old.cookie].state # "live")
             \/ old.op = "logout" /\ pc \in {"cleared", "revoke"}
    BY <1>7, <2>2 DEF Find, Checked
  <2>4. \A b : b = [old EXCEPT !.pc = pc] => CallCalm(token', b)
    <3>1. CASE old.op = "logout"
      BY <1>2, <1>5, <2>3, <3>1 DEF CallCalm, LogoutCalm
    <3>2. CASE old.op = "refresh"
      BY <1>2, <1>5, <2>1, <2>3, <3>2 DEF CallCalm, RotationCalm
    <3> QED
      BY <2>3, <3>1, <3>2
  <2> QED
    BY <1>4, <2>1, <2>3, <2>4 DEF Answers, Working
<1>8. CASE RevokeFamily(c)
  <2>1. /\ old.pc = "reuse" /\ old.cookie # None /\ Goto(c, "refused")
        /\ token' = FamilyRevoked(token[old.cookie].family)
    BY <1>3, <1>8 DEF RevokeFamily, WellFormed
  <2>2. old.op = "refresh" /\ RotationCalm(token, old)
    BY <1>2, <2>1 DEF CallCalm, LoginCalm, LogoutCalm
  <2>3. token[old.cookie].family \in Tokens
    BY <1>2, <2>1 DEF TypeOK, RowsTypeOK, Issued, Row
  <2>4. \A i \in Tokens : ~Good(token, i, token[old.cookie].family)
    BY <2>1, <2>2, TokenAssumption DEF RotationCalm, Good
  <2>5. token' = token
    BY <2>1, <2>3, <2>4, NothingToRevoke DEF Calm
  <2>6. \A b : b = [old EXCEPT !.pc = "refused"] => CallCalm(token', b)
    BY <1>2, <1>5, <2>1, <2>2, <2>5 DEF CallCalm, RotationCalm
  <2> QED
    BY <1>4, <2>1, <2>5, <2>6 DEF Answers
<1>9. CASE Revoke(c)
  <2>1. old.pc = "revoke" /\ old.cookie # None /\ token' = Revoked(old.cookie)
    BY <1>3, <1>9 DEF Revoke, WellFormed
  <2>2. old.op = "logout"
    BY <1>2, <2>1 DEF CallCalm, LoginCalm, RotationCalm
  <2>3. Goto(c, "cleared")
    BY <1>9, <2>2 DEF Revoke
  <2>4. \A b : b = [old EXCEPT !.pc = "cleared"] => CallCalm(token', b)
    BY <1>2, <1>5, <2>2 DEF CallCalm, LogoutCalm
  <2>5. /\ token'[old.cookie] # Unissued /\ token'[old.cookie].state = "revoked"
        /\ token'[old.cookie].family = token[old.cookie].family
        /\ \A j \in Tokens : j # old.cookie => token'[j] = token[j]
    BY <1>2, <2>1, RevokedRow
  <2> QED
    BY <1>4, <2>2, <2>3, <2>4, <2>5 DEF Answers
<1>10. CASE Issue(c)
  BY <1>10, IssueCalm
<1>11. CASE MarkRotated(c)
  <2>1. old.pc = "mark" /\ old.cookie # None /\ token' = Revoked(old.cookie) /\ Goto(c, "load")
    BY <1>3, <1>11 DEF MarkRotated, WellFormed
  <2>2. old.op = "refresh" /\ RotationCalm(token, old)
    BY <1>2, <2>1 DEF CallCalm, LoginCalm, LogoutCalm
  <2>3. /\ token'[old.cookie] # Unissued /\ token'[old.cookie].state = "revoked"
        /\ token'[old.cookie].family = token[old.cookie].family
        /\ \A j \in Tokens : j # old.cookie => token'[j] = token[j]
    BY <1>2, <2>1, RevokedRow
  <2>4. old.new \in Tokens /\ old.new # old.cookie
    BY <1>1, <2>1, <2>2, Presented DEF Calm, NewApart, RotationCalm
  <2>5. \A j \in Tokens : \A f : Good(token', j, f) => Good(token, j, f)
    BY <2>3 DEF Good
  <2>6. \A b : b = [old EXCEPT !.pc = "load"] => CallCalm(token', b)
    <3> SUFFICES ASSUME NEW b, b = [old EXCEPT !.pc = "load"]
                 PROVE  RotationCalm(token', b)
      BY <1>5, <2>2 DEF CallCalm
    <3>1. b.pc = "load" /\ b.cookie = old.cookie /\ b.new = old.new
      BY <1>5
    <3> HIDE DEF old
    <3>2. Good(token', old.new, token'[old.cookie].family) /\ old.new # None
      BY <2>1, <2>2, <2>3, <2>4, TokenAssumption DEF RotationCalm, Good
    <3>3. \A i \in Tokens : Good(token', i, token'[old.cookie].family) => i \in {old.cookie, old.new}
      BY <2>1, <2>2, <2>3, <2>5 DEF RotationCalm
    <3> QED
      BY <2>1, <2>3, <3>1, <3>2, <3>3 DEF RotationCalm
  <2> QED
    BY <1>4, <2>1, <2>2, <2>3, <2>6 DEF Working
<1>12. CASE Load(c)
  <2>1. old.pc = "load" /\ old.cookie # None /\ token' = token /\ Goto(c, "granted")
    BY <1>3, <1>12 DEF Load, WellFormed
  <2>2. old.op = "refresh" /\ RotationCalm(token, old)
    BY <1>2, <2>1 DEF CallCalm, LoginCalm, LogoutCalm
  <2>3. \A b : b = [old EXCEPT !.pc = "granted"] => CallCalm(token', b)
    BY <1>5, <2>1, <2>2 DEF CallCalm, RotationCalm
  <2> QED
    BY <1>4, <2>1, <2>2, <2>3 DEF Answers
<1> QED
  BY <1>6, <1>7, <1>8, <1>9, <1>10, <1>11, <1>12 DEF ServerStep

\* A call that throws is not one of those that present a cookie.
LEMMA FailCalm ==
  ASSUME TypeOK, Calm, NEW c \in Calls, Fail(c), UNCHANGED <<jar, tab, sender>>, ~AnswerDropped
  PROVE  Calm'
<1>1. call[c] # Idle /\ call[c].pc \in Working
  BY WorkingBusy DEF Fail
<1> DEFINE old == call[c]
<1>2. old \in Call /\ CallCalm(token, old)
  BY <1>1, Presented DEF Calm, CallsCalm
<1>3. PICK b : b = [old EXCEPT !.pc = "failed", !.new = None]
  OBVIOUS
<1>4. b \in Call /\ b.pc = "failed" /\ b.new = None /\ b.op = old.op /\ b.cookie = old.cookie
  BY <1>2, <1>3 DEF Call, Answers
<1>5. call' = [call EXCEPT ![c] = b] /\ token' = token
  BY <1>3 DEF Fail
<1>6. old.cookie = None
  <2>1. call'[c].pc = "failed"
    BY <1>4, <1>5 DEF TypeOK, RowsTypeOK
  <2> QED
    BY <1>1, <2>1 DEF AnswerDropped, Presents
<1>7. old.op = "login"
  <2>1. WellFormed(token, old)
    BY <1>1, RowsShape DEF TypeOK
  <2> QED
    BY <1>1, <1>6, <2>1 DEF WellFormed, Working
<1>8. CallCalm(token', b)
  BY <1>2, <1>4, <1>5, <1>6, <1>7 DEF CallCalm, LoginCalm
<1> HIDE DEF old
<1>9. old = call[c]
  BY DEF old
<1> QED
  BY <1>1, <1>4, <1>5, <1>7, <1>8, <1>9, MovesOnCalm

LEMMA RefreshCalm ==
  ASSUME TypeOK, Calm, NEW t \in Tabs, NEW waiting, Refresh(t, waiting), ~Overlapping
  PROVE  Calm'
<1>1. tab \in [Tabs -> Tab] /\ \A u \in Tabs : \A f : [tab[u] EXCEPT !.flight = f].flight = f
  BY DEF TypeOK, Tab
<1>2. CASE Joins(t) /\ AwaitRefresh(t, tab[t].flight, waiting) /\ UNCHANGED <<token, call, sender>>
  <2>1. \A u \in Tabs : tab'[u].flight = tab[u].flight
    BY <1>1, <1>2 DEF AwaitRefresh
  <2>2. Kept'
    BY <1>2, <2>1, FlightsKept DEF Calm
  <2> QED
    BY <1>2, <2>2, TabCalm DEF AwaitRefresh
<1>3. ASSUME ~Joins(t), NEW c \in Calls, Arrive(c, "refresh", jar),
             sender' = [sender EXCEPT ![c] = t], AwaitRefresh(t, c, waiting)
      PROVE  Calm'
  <2>1. /\ tab[t].flight = None /\ tab'[t].flight = c /\ jar' = jar
        /\ \A u \in Tabs : u # t => tab'[u] = tab[u]
    BY <1>1, <1>3 DEF Joins, AwaitRefresh
  <2> QED
    BY <1>3, <2>1, ArriveCalm
<1> QED
  BY <1>2, <1>3 DEF Refresh

LEMMA TabStepCalm ==
  ASSUME TypeOK, Calm, NEW t \in Tabs, TabStep(t), ~Overlapping, ~AnswerDropped
  PROVE  Calm'
<1>1. CASE Restore(t)
  BY <1>1, RefreshCalm DEF Restore
<1>2. CASE AccessExpires(t)
  <2>1. \A u \in Tabs : tab'[u].flight = tab[u].flight
    BY <1>2 DEF AccessExpires, TypeOK, Tab
  <2> QED
    BY <1>2, <2>1, FlightsKept, TabCalm DEF AccessExpires, Calm
<1>3. CASE Login(t)
  <2>1. PICK c \in Calls : Arrive(c, "login", None) /\ sender' = [sender EXCEPT ![c] = t]
    BY <1>3 DEF Login
  <2> QED
    BY <1>3, <2>1, ArriveCalm DEF Login
<1>4. CASE Logout(t)
  <2>1. PICK c \in Calls : Arrive(c, "logout", jar) /\ sender' = [sender EXCEPT ![c] = t]
    BY <1>4 DEF Logout
  <2> QED
    BY <1>4, <2>1, ArriveCalm DEF Logout
<1>5. CASE Reload(t)
  BY <1>5, ReloadKept, TabCalm DEF Reload, Calm
<1>6. ASSUME NEW r \in Requests, Send(t, r)
      PROVE  Calm'
  BY <1>6, FlightsKept, TabCalm DEF Send, Calm
<1> QED
  BY <1>1, <1>2, <1>3, <1>4, <1>5, <1>6 DEF TabStep

LEMMA RequestStepCalm ==
  ASSUME TypeOK, Calm, NEW r \in Requests, RequestStep(r), ~Overlapping, ~Forgotten
  PROVE  Calm'
<1>1. CASE Unauthorized(r)
  <2>1. request[r].tab \in Tabs
    BY <1>1 DEF Unauthorized, TypeOK, Request, NoRequest
  <2> QED
    BY <1>1, <2>1, RefreshCalm DEF Unauthorized
<1>2. CASE RetryAnswered(r)
  BY <1>2, FlightsKept, TabCalm DEF RetryAnswered, Calm
<1>3. CASE RetryFails(r)
  <2>1. PICK t \in Tabs : t = request[r].tab
    BY <1>3 DEF RetryFails, TypeOK, Request, NoRequest
  <2>2. tab'[t].flight = None /\ \A u \in Tabs : u # t => tab'[u] = tab[u]
    BY <1>3, <2>1 DEF RetryFails, ForcedOut, TypeOK, Tab
  <2>3. tab[t].flight = None
    BY <1>3, <2>2, FlightBusy DEF RetryFails, Forgotten
  <2>4. \A u \in Tabs : tab'[u].flight = tab[u].flight
    BY <2>2, <2>3
  <2> QED
    BY <1>3, <2>4, FlightsKept, TabCalm DEF RetryFails, Calm
<1> QED
  BY <1>1, <1>2, <1>3 DEF RequestStep

LEMMA AnswerCalm ==
  ASSUME TypeOK, Calm, NEW c \in Calls, Deliver(c) \/ Lose(c) \/ Discard(c),
         ~AnswerDropped, ~Forgotten
  PROVE  Calm'
<1>1. CASE Deliver(c)
  <2> DEFINE ok == call[c].pc \in {"granted", "cleared"}
  <2>1. /\ sender[c] # None /\ call[c] # Idle /\ ok \in BOOLEAN /\ TabLearns(c, ok)
        /\ Close(c) /\ Answered(c) /\ jar' = CookieAfter(c)
    BY <1>1 DEF Deliver, TypeOK
  <2> HIDE DEF ok
  <2>2. Kept'
    BY <2>1, LearnsKept DEF Close, Calm
  <2> QED
    BY <2>1, <2>2, CloseCalm
<1>2. CASE Lose(c)
  <2>1. /\ sender[c] # None /\ call[c] # Idle /\ TabLearns(c, FALSE)
        /\ call' = call /\ token' = token /\ jar' = jar
    BY <1>2 DEF Lose, TypeOK
  <2>2. sender'[c] = None
    BY <2>1 DEF TabLearns, TypeOK
  <2>3. ~Presents(c)
    BY <2>1, <2>2 DEF AnswerDropped
  <2>4. Kept'
    BY <2>1, <2>3, LearnsKept DEF Calm
  <2> QED
    BY <2>1, <2>4, TabCalm
<1>3. CASE Discard(c)
  <2>1. /\ sender[c] = None /\ Close(c) /\ Answered(c)
        /\ jar' = jar /\ tab' = tab /\ sender' = sender
    BY <1>3 DEF Discard
  <2>2. ~Presents(c) /\ call[c] # Idle
    BY <2>1 DEF Calm, Kept, Answered, Answers, Idle
  <2>3. call'[c] = Idle /\ \A d \in Calls : d # c => call'[d] = call[d]
    BY <2>1 DEF Close, TypeOK, RowsTypeOK
  <2>4. Kept'
    BY <2>1, <2>3 DEF Calm, Kept, Presents
  <2> QED
    BY <2>1, <2>2, <2>4, CloseCalm
<1> QED
  BY <1>1, <1>2, <1>3

LEMMA NextCalm ==
  ASSUME TypeOK, Calm, [Next]_vars, ~AnswerDropped, ~Overlapping, ~Forgotten, ~Expiring
  PROVE  Calm'
<1> USE DEF Next
<1>1. CASE \E t \in Tabs : TabStep(t)
  BY <1>1, TabStepCalm
<1>2. CASE \E r \in Requests : RequestStep(r)
  BY <1>2, RequestStepCalm
<1>3. ASSUME NEW c \in Calls, ApiStep(c)
      PROVE  Calm'
  BY <1>3, ServerCalm DEF ApiStep
<1>4. ASSUME NEW c \in Calls, Fail(c) /\ UNCHANGED <<jar, tab, sender, request>>
      PROVE  Calm'
  BY <1>4, FailCalm
<1>5. ASSUME NEW c \in Calls, Deliver(c) \/ Lose(c) \/ Discard(c)
      PROVE  Calm'
  BY <1>5, AnswerCalm
<1>6. ASSUME NEW i \in Tokens, Expire(i)
      PROVE  FALSE
  <2>1. token[i] \in Row
    BY <1>6 DEF Expire, Live, Issued, TypeOK, RowsTypeOK
  <2>2. token'[i].state = "expired"
    BY <1>6, <2>1, StateSet DEF Expire, TypeOK, RowsTypeOK
  <2> QED
    BY <2>2 DEF Expiring
<1>7. CASE CookieExpires
  <2>1. jar' = None /\ UNCHANGED <<token, call, tab, sender>>
    BY <1>7 DEF CookieExpires
  <2> QED
    BY <2>1, FlightsKept, TabCalm DEF Calm
<1>8. CASE UNCHANGED vars
  <2>1. UNCHANGED <<token, call, jar, tab, sender>>
    BY <1>8 DEF vars
  <2> QED
    BY <2>1, FlightsKept, TabCalm DEF Calm
<1> QED
  BY <1>1, <1>2, <1>3, <1>4, <1>5, <1>6, <1>7, <1>8

LEMMA InitCalm == MCInit => SessionInv
<1> SUFFICES ASSUME MCInit PROVE TypeOK /\ Calm
  BY DEF SessionInv
<1>1. TypeOK
  BY InitTypes DEF MCInit
<1>2. /\ \A c \in Calls : call[c] = Idle
      /\ \A i \in Tokens : ~Issued(i)
      /\ jar = None
  BY DEF MCInit, Init, RowsInit, Issued
<1> QED
  BY <1>1, <1>2 DEF Calm, CallsCalm, NewApart, OneRotation, RowsCalm, Kept, JarCalm, Rotation, Presents

LEMMA SessionStays ==
  ASSUME SessionInv, [MCNext]_<<vars, disturbed>>
  PROVE  SessionInv'
<1>1. [Next]_vars /\ TypeOK
  BY DEF MCNext, SessionInv
<1>2. TypeOK'
  BY <1>1, NextTypes
<1>3. ASSUME ~disturbed'
      PROVE  Calm'
  <2>1. CASE MCNext
    <3>1. ~disturbed /\ ~AnswerDropped /\ ~Overlapping /\ ~Forgotten /\ ~Expiring
      BY <1>3, <2>1 DEF MCNext
    <3> QED
      BY <1>1, <3>1, NextCalm DEF SessionInv
  <2>2. CASE UNCHANGED <<vars, disturbed>>
    <3>1. UNCHANGED <<token, call, jar, tab, sender>> /\ Calm
      BY <1>3, <2>2 DEF vars, SessionInv
    <3> QED
      BY <1>1, <3>1, FlightsKept, TabCalm DEF Calm
  <2> QED
    BY <2>1, <2>2
<1> QED
  BY <1>2, <1>3 DEF SessionInv

LEMMA SessionAlways == MCSpec => []SessionInv
<1>1. SessionInv /\ [MCNext]_<<vars, disturbed>> => SessionInv'
  BY SessionStays
<1> QED
  BY <1>1, InitCalm, PTL DEF MCSpec

(* As long as every rotation is answered, remembered and alone, and no     *)
(* token runs out, the refresh cookie of an idle browser is good, whatever *)
(* its tabs requested, retried, signed in and signed out meanwhile: reuse  *)
(* detection (rotateRefreshToken) never hits such a browser.               *)
THEOREM IdleJarIsGood == MCSpec => []JarStaysLive
<1>1. SessionInv => JarStaysLive
  BY DEF SessionInv, Calm, JarCalm, JarStaysLive, Quiet, UsesUp, Presents
<1> QED
  BY <1>1, SessionAlways, PTL

-----------------------------------------------------------------------------
\* Only the end of a logout turns its request to "cleared".
LEMMA ClearedBy ==
  ASSUME TypeOK, [Next]_vars, NEW c \in Calls, LogsOut(c), call'[c].pc = "cleared"
  PROVE  Find(c) \/ Revoke(c)
<1> USE DEF Next
<1>1. call[c] # Idle /\ call[c].pc # "cleared" /\ call[c].op = "logout"
      /\ RowsTypeOK /\ call \in [Calls -> Call \cup {Idle}]
  BY DEF LogsOut, Presents, TypeOK, RowsTypeOK
<1>2. CASE call' = call
  BY <1>1, <1>2
<1>3. ASSUME NEW d \in Calls, NEW op, NEW k, Arrive(d, op, k)
      PROVE  FALSE
  BY <1>1, <1>3 DEF Arrive
<1>4. ASSUME NEW t \in Tabs, NEW w, Refresh(t, w)
      PROVE  FALSE
  BY <1>1, <1>3, <1>4 DEF Refresh
<1>5. ASSUME NEW t \in Tabs, TabStep(t)
      PROVE  FALSE
  BY <1>1, <1>3, <1>4, <1>5 DEF TabStep, Restore, AccessExpires, Login, Logout, Reload, Send
<1>6. ASSUME NEW r \in Requests, RequestStep(r)
      PROVE  FALSE
  <2>1. Unauthorized(r) => request[r].tab \in Tabs
    BY DEF Unauthorized, TypeOK, Request, NoRequest
  <2> QED
    BY <1>1, <1>4, <1>6, <2>1 DEF RequestStep, Unauthorized, RetryAnswered, RetryFails
<1>7. ASSUME NEW d \in Calls, Close(d) \/ Fail(d)
      PROVE  FALSE
  <2>1. d = c => call'[c] = Idle \/ call'[c] = [call[c] EXCEPT !.pc = "failed", !.new = None]
    BY <1>1, <1>7 DEF Close, Fail
  <2>2. call[c] \in Call
    BY <1>1
  <2> QED
    BY <1>1, <1>7, <2>1, <2>2 DEF Close, Fail, Idle, Call
<1>8. ASSUME NEW d \in Calls, ServerStep(d)
      PROVE  Find(c) \/ Revoke(c)
  <2>1. CASE d # c
    BY <1>1, <1>8, <2>1 DEF ServerStep, Refuse, Find, RevokeFamily, Revoke, Issue, MarkRotated,
       Load, Goto
  <2>2. CASE d = c
    <3>1. \A pc : Goto(c, pc) => call'[c].pc = pc
      BY <1>1 DEF Goto, Call
    <3>2. ~Issue(c)
      BY <1>1, RowsShape DEF Issue, WellFormed
    <3> QED
      BY <1>1, <1>8, <2>2, <3>1, <3>2 DEF ServerStep, Refuse, RevokeFamily, MarkRotated, Load
  <2> QED
    BY <2>1, <2>2
<1> QED
  BY <1>2, <1>5, <1>6, <1>7, <1>8 DEF ApiStep, Deliver, Lose, Discard, Expire, CookieExpires, vars

LEMMA LogoutStep ==
  ASSUME SessionInv, [Next]_vars, NEW c \in Calls, LogsOut(c), call'[c].pc = "cleared",
         ~disturbed, ~RotatedMeanwhile(c)
  PROVE  Closed(token[call[c].cookie].family)'
<1> DEFINE k == call[c].cookie
<1>1. TypeOK /\ Calm /\ call[c] # Idle /\ call[c].op = "logout" /\ jar = k /\ k # None
  BY DEF SessionInv, LogsOut, Presents, RotatedMeanwhile
<1>2. k \in Tokens /\ Issued(k) /\ token[k] \in Row
  BY <1>1, Presented DEF TypeOK, RowsTypeOK, Issued
<1>3. \A i \in Tokens : Good(token, i, token[k].family) => i = k
  BY <1>1 DEF Calm, JarCalm, RotatedMeanwhile, FamilyOf
<1>4. call[c] \in Call /\ call'[c].cookie = k /\ token'[k].family = token[k].family
      /\ \A i \in Tokens : ~Good(token', i, token[k].family)
  <2>1. call[c] \in Call /\ \A pc : Goto(c, pc) => call'[c].cookie = k /\ call'[c].pc = pc
    BY <1>1, Presented DEF Goto, Call, TypeOK, RowsTypeOK
  <2>2. CASE Find(c)
    <3>1. token' = token /\ call'[c].cookie = k /\ token[k].state = "revoked"
      BY <1>1, <2>1, <2>2 DEF Find
    <3> QED
      BY <1>3, <2>1, <3>1 DEF Good
  <2>3. CASE Revoke(c)
    <3>1. token' = Revoked(k) /\ call'[c].cookie = k
      BY <1>1, <2>1, <2>3 DEF Revoke
    <3>2. /\ token'[k].state = "revoked" /\ token'[k].family = token[k].family
          /\ \A j \in Tokens : j # k => token'[j] = token[j]
      BY <1>1, <1>2, <3>1, RevokedRow
    <3> QED
      BY <1>3, <2>1, <3>1, <3>2 DEF Good
  <2> QED
    BY <1>1, <2>2, <2>3, ClearedBy
<1> QED
  BY <1>4 DEF Closed, Live, Issued, Good

(* A logout that is answered in such a browser, and that no rotation of    *)
(* its session has crossed, leaves no token of the session with which to   *)
(* refresh (revoke in token.service.ts revokes a single row).              *)
THEOREM LogoutCloses == MCSpec => LogoutClosesSession
<1>1. SessionInv /\ [MCNext]_<<vars, disturbed>> =>
        [\A c \in Calls :
            LogsOut(c) /\ call'[c].pc = "cleared" /\ ~disturbed /\ ~RotatedMeanwhile(c) =>
               Closed(token[call[c].cookie].family)']_vars
  BY LogoutStep DEF MCNext
<1> QED
  BY <1>1, SessionAlways, PTL DEF MCSpec, LogoutClosesSession
=============================================================================
