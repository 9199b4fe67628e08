---------------------------- MODULE MCWebSession ----------------------------
(* WebSession with a history variable: whether one of the browser's        *)
(* rotations has been disturbed.                                           *)
EXTENDS WebSession

VARIABLE disturbed

Presents(c) == call[c] # Idle /\ call[c].cookie # None
Rotation(c) == Presents(c) /\ call[c].op = "refresh"

(* The answer to a cookie will not reach the jar: it is an error, or no    *)
(* tab waits for it any more.                                              *)
AnswerDropped ==
    \E c \in Calls :
        /\ Presents(c)
        /\ \/ call'[c].pc = "failed"
           \/ sender[c] # None /\ sender'[c] = None /\ call'[c] # Idle

(* Two tabs have one cookie rotated at once.                               *)
Overlapping ==
    \E c, d \in Calls :
        /\ Rotation(c)' /\ Rotation(d)' /\ call'[c].cookie = call'[d].cookie
        /\ sender'[c] # sender'[d]

(* A tab forgets a refresh it still awaits, so that its next 401 starts    *)
(* another: clearSession sets refreshInFlight to null whatever is under    *)
(* way, and finalize of a refresh that was so forgotten does it again to   *)
(* the next one.                                                           *)
Forgotten ==
    \E t \in Tabs :
        tab[t].flight # None /\ tab'[t].flight = None /\ sender'[tab[t].flight] = t

Expiring == \E i \in Tokens : token'[i].state = "expired"

MCInit == Init /\ disturbed = FALSE
(* Bound: once disturbed, a behaviour drops no further answer.             *)
MCNext ==
    /\ Next
    /\ disturbed' = (disturbed \/ AnswerDropped \/ Overlapping \/ Forgotten \/ Expiring)
    /\ disturbed => ~AnswerDropped
MCSpec == MCInit /\ [][MCNext]_<<vars, disturbed>>

(* The browser's token is good whenever nothing is under way, whatever was *)
(* requested, retried, logged out and signed in meanwhile: reuse detection *)
(* only ever hits a browser whose rotation was lost, failed, forgotten, or *)
(* overlapped another tab's of the same token. As long as a tab remembers  *)
(* its refresh, its own 401s do not overlap: they share one rotation (the  *)
(* comment on refreshInFlight in auth.service.ts).                         *)
Quiet == \A c \in Calls : call[c] = Idle
JarStaysLive == Quiet /\ ~disturbed /\ jar # None => Live(jar)

(* A logout that is answered has closed the session of the cookie it came  *)
(* with: nobody who kept a token of it can refresh. The exceptions are a   *)
(* rotation of the same session under way, which issues a token that the   *)
(* logout does not know of (auth.service.ts 102 of the web client forgets  *)
(* such a refresh and signs the tab in again when it is answered), and one *)
(* that has replaced the cookie since the logout was sent.                 *)
LogsOut(c) == Presents(c) /\ call[c].op = "logout" /\ call[c].pc # "cleared"
RotatedMeanwhile(c) ==
    \/ jar # call[c].cookie
    \/ \E d \in Calls : Rotation(d) /\ token[call[d].cookie].family = token[call[c].cookie].family
LogoutClosesSession ==
    [][\A c \in Calls :
          LogsOut(c) /\ call'[c].pc = "cleared" /\ ~disturbed /\ ~RotatedMeanwhile(c) =>
             Closed(token[call[c].cookie].family)']_vars
=============================================================================
