----------------------------- MODULE WebSession -----------------------------
(* The web client's session, composed with the API's refresh tokens: tabs  *)
(* of one browser (auth.service.ts, auth.interceptor.ts and auth.guard.ts  *)
(* of apps/web), each with an access token in memory, and the cookie jar   *)
(* they share. Answers arrive in any order, late or not at all.            *)
EXTENDS RefreshTokens

CONSTANTS Tabs,
          Requests  \* bound: the API requests the tabs have under way at once

ASSUME TabAssumption == None \notin Tabs \cup Calls

VARIABLES jar,      \* the fh_refresh cookie
          tab,      \* AuthService of each tab
          sender,   \* the tab that awaits the answer of an auth call
          request   \* requests to the rest of the API that met an expired access token

vars == <<token, call, jar, tab, sender, request>>

Fresh == [session |-> "out", ready |-> FALSE, flight |-> None]
Tab == [session : {"out", "valid", "stale"}, ready : BOOLEAN, flight : Calls \cup {None}]

NoRequest == [at |-> "none"]
Request == [at : {"sent", "waiting", "retried"}, tab : Tabs, on : Calls \cup {None}]

TypeOK ==
    /\ RowsTypeOK
    /\ jar \in Tokens \cup {None}
    /\ jar # None => Issued(jar)
    /\ tab \in [Tabs -> Tab]
    /\ sender \in [Calls -> Tabs \cup {None}]
    /\ request \in [Requests -> Request \cup {NoRequest}]
    /\ \A c \in Calls : call[c] = Idle => sender[c] = None
    /\ \A t \in Tabs : tab[t].flight # None =>
          sender[tab[t].flight] = t /\ call[tab[t].flight].op = "refresh"

Waiting(c) == {r \in Requests : request[r].at = "waiting" /\ request[r].on = c}
SignedIn(t) == tab[t].session # "out"

-----------------------------------------------------------------------------
(* refresh(): joins the refresh in flight, or starts one. "waiting" are    *)
(* the requests that await it.                                             *)
NeverJoins(t) == tab[t].flight \in {}        \* mutant: no single flight
Joins(t) == tab[t].flight # None

AwaitRefresh(t, c, waiting) ==
    /\ tab' = [tab EXCEPT ![t].flight = c]
    /\ request' = [r \in Requests |-> IF r \in waiting
                     THEN [at |-> "waiting", tab |-> t, on |-> c] ELSE request[r]]
    /\ UNCHANGED jar

Refresh(t, waiting) ==
    \/ /\ Joins(t)
       /\ AwaitRefresh(t, tab[t].flight, waiting)
       /\ UNCHANGED <<token, call, sender>>
    \/ /\ ~Joins(t)
       /\ \E c \in Calls :
             /\ Arrive(c, "refresh", jar)
             /\ sender' = [sender EXCEPT ![c] = t]
             /\ AwaitRefresh(t, c, waiting)

(* The guards of a page that has just been loaded: restoreSession.         *)
Restore(t) ==
    /\ ~tab[t].ready
    /\ ~Joins(t)
    /\ Refresh(t, {})

AccessExpires(t) ==
    /\ tab[t].session = "valid"
    /\ tab' = [tab EXCEPT ![t].session = "stale"]
    /\ UNCHANGED <<token, call, jar, sender, request>>

(* A request that will be answered 401; the tab learns it later.           *)
Send(t, r) ==
    /\ tab[t].session = "stale"
    /\ request[r] = NoRequest
    /\ request' = [request EXCEPT ![r] = [at |-> "sent", tab |-> t, on |-> None]]
    /\ UNCHANGED <<token, call, jar, tab, sender>>

(* authInterceptor, on a 401.                                              *)
Unauthorized(r) ==
    /\ request[r].at = "sent"
    /\ Refresh(request[r].tab, {r})

(* forceLogout and clearSession also forget the refresh in flight.         *)
Cleared(own) == [own EXCEPT !.session = "out", !.flight = None]
ForcedOut(own) == [own EXCEPT !.session = "out", !.flight = None, !.ready = TRUE]
Accepted(own) == [own EXCEPT !.session = "valid", !.ready = TRUE]

RetryAnswered(r) ==
    /\ request[r].at = "retried"
    /\ request' = [request EXCEPT ![r] = NoRequest]
    /\ UNCHANGED <<token, call, jar, tab, sender>>

(* The interceptor's catchError also sees an error of the retried request. *)
RetryFails(r) ==
    /\ "retry" \in Faults
    /\ request[r].at = "retried"
    /\ request' = [request EXCEPT ![r] = NoRequest]
    /\ tab' = [tab EXCEPT ![request[r].tab] = ForcedOut(@)]
    /\ UNCHANGED <<token, call, jar, sender>>

(* The login page, or registration; the API does not look at the cookie    *)
(* these requests carry.                                                   *)
Login(t) ==
    /\ tab[t].ready
    /\ ~SignedIn(t)
    /\ \A c \in Calls : sender[c] = t => call[c].op # "login"
    /\ \E c \in Calls :
          /\ Arrive(c, "login", None)
          /\ sender' = [sender EXCEPT ![c] = t]
    /\ UNCHANGED <<jar, tab, request>>

Logout(t) ==
    /\ SignedIn(t)
    /\ \A c \in Calls : sender[c] = t => call[c].op # "logout"
    /\ \E c \in Calls :
          /\ Arrive(c, "logout", jar)
          /\ sender' = [sender EXCEPT ![c] = t]
    /\ UNCHANGED <<jar, tab, request>>

-----------------------------------------------------------------------------
(* What an auth call's answer does to the tab that awaits it. finalize     *)
(* resets refreshInFlight whichever refresh it belongs to; every request   *)
(* that waits is retried, or signs the tab out.                            *)
RefreshFailedUnfinished(own, c) ==          \* mutant: without finalize
    IF Waiting(c) # {} THEN ForcedOut(own) ELSE [own EXCEPT !.ready = TRUE]
RefreshFailed(own, c) ==
    IF Waiting(c) # {} THEN ForcedOut(own) ELSE [own EXCEPT !.flight = None, !.ready = TRUE]

After(own, c, ok) ==
    CASE call[c].op = "login"   -> IF ok THEN Accepted(own) ELSE own
      [] call[c].op = "logout"  -> IF ok THEN Cleared(own) ELSE own
      [] call[c].op = "refresh" -> IF ok THEN [Accepted(own) EXCEPT !.flight = None]
                                   ELSE RefreshFailed(own, c)

TabLearns(c, ok) ==
    /\ tab' = [tab EXCEPT ![sender[c]] = After(@, c, ok)]
    /\ request' = [r \in Requests |->
          IF r \in Waiting(c)
          THEN IF ok THEN [request[r] EXCEPT !.at = "retried", !.on = None] ELSE NoRequest
          ELSE request[r]]
    /\ sender' = [sender EXCEPT ![c] = None]

(* The answer arrives; the browser first does what Set-Cookie says.        *)
CookieAfter(c) ==
    CASE call[c].pc = "granted" -> call[c].new
      [] call[c].pc = "cleared" -> None
      [] OTHER                  -> jar

Deliver(c) ==
    /\ Answered(c)
    /\ sender[c] # None
    /\ jar' = CookieAfter(c)
    /\ TabLearns(c, call[c].pc \in {"granted", "cleared"})
    /\ Close(c)

(* The connection breaks: the tab gets an error, the API goes on.          *)
Lose(c) ==
    /\ "lost" \in Faults
    /\ sender[c] # None
    /\ TabLearns(c, FALSE)
    /\ UNCHANGED <<token, call, jar>>

(* Nobody is left to receive the answer.                                   *)
Discard(c) ==
    /\ Answered(c)
    /\ sender[c] = None
    /\ Close(c)
    /\ UNCHANGED <<jar, tab, sender, request>>

(* The page is loaded again (or its tab closed and opened): its memory is  *)
(* gone, and the browser drops what it was waiting for.                    *)
Reload(t) ==
    /\ "reload" \in Faults
    /\ tab[t] # Fresh
    /\ tab' = [tab EXCEPT ![t] = Fresh]
    /\ sender' = [c \in Calls |-> IF sender[c] = t THEN None ELSE sender[c]]
    /\ request' = [r \in Requests |->
          IF request[r] # NoRequest /\ request[r].tab = t THEN NoRequest ELSE request[r]]
    /\ UNCHANGED <<token, call, jar>>

(* The cookie's "expires" is that of its token, revoked or not.            *)
CookieExpires ==
    /\ "expiry" \in Faults
    /\ jar # None
    /\ ~Live(jar)
    /\ jar' = None
    /\ UNCHANGED <<token, call, tab, sender, request>>
-----------------------------------------------------------------------------
Init ==
    /\ RowsInit
    /\ jar = None
    /\ tab = [t \in Tabs |-> Fresh]
    /\ sender = [c \in Calls |-> None]
    /\ request = [r \in Requests |-> NoRequest]

TabStep(t) ==
    \/ Restore(t) \/ AccessExpires(t) \/ Login(t) \/ Logout(t) \/ Reload(t)
    \/ \E r \in Requests : Send(t, r)

RequestStep(r) == Unauthorized(r) \/ RetryAnswered(r) \/ RetryFails(r)

ApiStep(c) == ServerStep(c) /\ UNCHANGED <<jar, tab, sender, request>>

Next ==
    \/ \E t \in Tabs : TabStep(t)
    \/ \E r \in Requests : RequestStep(r)
    \/ \E c \in Calls :
          \/ ApiStep(c)
          \/ Fail(c) /\ UNCHANGED <<jar, tab, sender, request>>
          \/ Deliver(c) \/ Lose(c) \/ Discard(c)
    \/ \E i \in Tokens : Expire(i) /\ UNCHANGED <<jar, tab, sender, request>>
    \/ CookieExpires

Spec == Init /\ [][Next]_vars

-----------------------------------------------------------------------------
(* A tab signs out without a logout only when its browser has no session   *)
(* left: "The refresh itself failed: the session is gone for good"         *)
(* (auth.interceptor.ts 38).                                               *)
ForcedOutOnlyWhenGone ==
    [][\A t \in Tabs : SignedIn(t) /\ ~SignedIn(t)' => jar' = None \/ ~Live(jar)']_vars
=============================================================================
