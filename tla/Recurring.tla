------------------------------ MODULE Recurring ------------------------------
(***************************************************************************)
(* Recurring-transaction templates and the pass that turns them into       *)
(* ledger rows (modules/recurring), guarded by the Redis lock of           *)
(* infrastructure/redis.                                                    *)
(*                                                                         *)
(* A pass (runDue) holds a lock with a TTL, reads the templates that are   *)
(* due ONCE, and then works from those images: for every occurrence it     *)
(* commits a ledger row and, in a second commit, the advanced schedule.    *)
(* Users edit the templates meanwhile.  Faults that the deployment may     *)
(* meet are named by the constant Faults.                                  *)
(*                                                                         *)
(* Dates are days 0..Horizon; a template's frequency and interval are the  *)
(* number of days between two occurrences.                                 *)
(***************************************************************************)
EXTENDS Integers, FiniteSets

CONSTANTS
    Templates,      \* ids of recurring-transaction templates
    Passes,         \* calls of runDue that the API processes may be executing
    Scopes,         \* lock keys: one user's, and the one of an unscoped pass
    Horizon,        \* the last day of the clock
    Periods,        \* days between two occurrences of a template
    Ends,           \* endDates the clients send, and Never
    Never,          \* an absent endDate
    MaxCatchUp,     \* MAX_CATCHUP_RUNS
    MaxRows,        \* rows of one occurrence are counted up to this bound
    Edits,          \* the fields a client's PATCH changes, and "delete"
    Faults,         \* what may go wrong
    Keep            \* a field the PATCH body leaves out

AllEdits == {"category", "period", "end", "active", "delete"}
AllFaults == {"create",   \* the ledger transaction of an occurrence rolls back
              "advance",  \* the update of the schedule fails
              "crash",    \* an API process dies between the two commits of an occurrence
              "stop",     \* it dies elsewhere in a pass
              "expire",   \* a pass outlives the TTL of its lock
              "release"}  \* Redis does not answer the release, or the process dies before it

ASSUME RecurringAssumption ==
    /\ Horizon \in Nat
    /\ Periods \subseteq Nat \ {0}
    /\ MaxCatchUp \in Nat \ {0}
    /\ MaxRows \in Nat \ {0}
    /\ Never \notin Int
    /\ Ends \subseteq Nat \cup {Never}
    /\ Edits \subseteq AllEdits /\ Faults \subseteq AllFaults
    /\ Keep \notin BOOLEAN \cup {Never}
    /\ "free" \notin Passes

VARIABLES
    today,      \* the clock
    templates,  \* template id -> row, Unborn or Gone
    lock,       \* lock key -> the pass whose token Redis holds, or Free
    pass,       \* what each call of runDue is doing
    rows        \* template, date -> ledger rows committed for that occurrence

vars == <<today, templates, lock, pass, rows>>

Days == 0..Horizon
Unborn == [status |-> "unborn"]
Gone == [status |-> "gone"]
NotDue == [status |-> "not due"]
NothingDue == [t \in Templates |-> NotDue]
Free == "free"
Idle == [pc |-> "idle"]

(* fits: is the template's category, if it has one, of the template's type? *)
(* Nobody asks when a template is saved; every occurrence is asked.        *)
Template == [fits : BOOLEAN, period : Periods, next : Nat,
             end : Nat \cup {Never}, active : BOOLEAN]

Rounds == 0..(MaxCatchUp - 1)   \* occurrences a pass generates before the current one

(* A pass: the lock key it took, the clock it read, the images it still has *)
(* to process, and the loop variables of the template it is at.            *)
BusyPass == [pc : {"find", "pick", "create", "advance", "release"},
             scope : Scopes, now : Days,
             todo : [Templates -> Template \cup {NotDue}],
             at : Templates \cup {Never}, next : Nat, runs : Rounds]

Batch(p) == {t \in Templates : pass[p].todo[t] # NotDue}    \* still to process

TypeOK ==
    /\ today \in Days
    /\ templates \in [Templates -> Template \cup {Unborn, Gone}]
    /\ lock \in [Scopes -> Passes \cup {Free}]
    /\ pass \in [Passes -> {Idle} \cup BusyPass]
    /\ \A p \in Passes : pass[p].pc \in {"create", "advance"} => pass[p].at \in Batch(p)
    /\ rows \in [Templates -> [Days -> 0..MaxRows]]

-----------------------------------------------------------------------------
Live(t) == templates[t] \notin {Unborn, Gone}
InEnd(d, end) == end = Never \/ d <= end
Busy(p) == pass[p] # Idle
Count(n) == IF n < MaxRows THEN n + 1 ELSE n

-----------------------------------------------------------------------------
(* The user's requests: recurring.service.ts create, update, delete.       *)
(* Each handler ends in a single-row write whose values do not depend on   *)
(* what it read, so it is one step.                                        *)

CreateTemplate(t, fits, n, start, e) ==
    /\ templates[t] = Unborn
    /\ templates' = [templates EXCEPT ![t] =
          [fits |-> fits, period |-> n, next |-> start, end |-> e, active |-> TRUE]]
    /\ UNCHANGED <<today, lock, pass, rows>>

(* A PATCH sets the fields it has; an endDate can be set, never cleared.   *)
SetOr(value, old) == IF value = Keep THEN old ELSE value

UpdateTemplate(t, dto) ==
    /\ Live(t)
    /\ templates' = [templates EXCEPT ![t] =
          [fits |-> SetOr(dto.fits, @.fits), period |-> SetOr(dto.period, @.period),
           end |-> SetOr(dto.end, @.end), active |-> SetOr(dto.active, @.active),
           next |-> @.next]]
    /\ UNCHANGED <<today, lock, pass, rows>>

DeleteTemplate(t) ==
    /\ "delete" \in Edits
    /\ Live(t)
    /\ templates' = [templates EXCEPT ![t] = Gone]
    /\ UNCHANGED <<today, lock, pass, rows>>

-----------------------------------------------------------------------------
(* The Redis lock: redis.service.ts acquireLock and the unlock it returns. *)

GrantAnyway(k) == k \in Scopes              \* mutant: without NX
Grantable(k) == lock[k] = Free              \* SET key token EX ttl NX
UnlockedBlindly(k, p) == [lock EXCEPT ![k] = Free]    \* mutant: no token check
Unlocked(k, p) == [lock EXCEPT ![k] = IF @ = p THEN Free ELSE @]
Granted(k, p) == [lock EXCEPT ![k] = p]

(* A key outlives the pass that set it when its process died or its        *)
(* release was lost; then only the TTL removes it.                         *)
Orphaned(k) == lock[k] # Free /\ ~(Busy(lock[k]) /\ pass[lock[k]].scope = k)
TtlRuns(k) == Orphaned(k) \/ "expire" \in Faults

LockExpires(k) ==
    /\ lock[k] # Free
    /\ TtlRuns(k)
    /\ lock' = [lock EXCEPT ![k] = Free]
    /\ UNCHANGED <<today, templates, pass, rows>>

-----------------------------------------------------------------------------
(* A pass: recurring.service.ts runDue.  A call that finds the lock taken  *)
(* answers zeros and changes nothing.                                      *)

StartPass(p, k) ==
    /\ ~Busy(p)
    /\ Grantable(k)
    /\ lock' = Granted(k, p)
    /\ pass' = [pass EXCEPT ![p] = [pc |-> "find", scope |-> k, now |-> today,
                  todo |-> NothingDue, at |-> Never, next |-> 0, runs |-> 0]]
    /\ UNCHANGED <<today, templates, rows>>

(* recurring.repository.ts findDue *)
Due(t, now) ==
    /\ Live(t)
    /\ templates[t].active
    /\ templates[t].next <= now
    /\ InEnd(now, templates[t].end)

FindDue(p) ==
    /\ pass[p].pc = "find"
    /\ pass' = [pass EXCEPT ![p].pc = "pick", ![p].todo =
          [t \in Templates |-> IF Due(t, pass[p].now) THEN templates[t] ELSE NotDue]]
    /\ UNCHANGED <<today, templates, lock, rows>>

(* The images are processed in the order of their nextRunDate.             *)
PickTemplate(p) ==
    LET todo == pass[p].todo
    IN  /\ pass[p].pc = "pick"
        /\ \E t \in Batch(p) :
              /\ \A u \in Batch(p) : todo[t].next <= todo[u].next
              /\ pass' = [pass EXCEPT ![p].pc = "create", ![p].at = t,
                                      ![p].next = todo[t].next, ![p].runs = 0]
        /\ UNCHANGED <<today, templates, lock, rows>>

BatchDone(p) ==
    /\ pass[p].pc = "pick"
    /\ Batch(p) = {}
    /\ pass' = [pass EXCEPT ![p].pc = "release"]
    /\ UNCHANGED <<today, templates, lock, rows>>

(* The pass leaves its template, at the end of its loop or after an error. *)
Left(b) == [b EXCEPT !.pc = "pick", !.at = Never, !.next = 0, !.runs = 0,
                     !.todo[b.at] = NotDue]
BatchAborted(b) == [b EXCEPT !.pc = "release", !.todo = NothingDue, !.at = Never,
                             !.next = 0, !.runs = 0]          \* mutant: no try per template
Failed(b) == Left(b)

(* transactions.create asks that the category takes the type of the image  *)
(* (assertCategoryCompatible); it may fail for reasons that pass, too.     *)
CreateOccurrence(p) ==
    LET img == pass[p].todo[pass[p].at]
    IN  /\ pass[p].pc = "create"
        /\ img.fits
        /\ rows' = [rows EXCEPT ![pass[p].at][pass[p].next] = Count(@)]
        /\ pass' = [pass EXCEPT ![p].pc = "advance"]
        /\ UNCHANGED <<today, templates, lock>>

CreateFails(p) ==
    LET img == pass[p].todo[pass[p].at]
    IN  /\ pass[p].pc = "create"
        /\ ~img.fits \/ "create" \in Faults
        /\ pass' = [pass EXCEPT ![p] = Failed(@)]
        /\ UNCHANGED <<today, templates, lock, rows>>

(* advance(): the occurrence after the one the pass has just generated.    *)
AdvancedFromToday(b) == b.now + b.todo[b.at].period     \* mutant: re-anchored at now
Advanced(b) == b.next + b.todo[b.at].period

LoopGoesOn(b, next, runs) ==
    /\ next <= b.now
    /\ InEnd(next, b.todo[b.at].end)
    /\ runs < MaxCatchUp

(* recurring.update: no row to update when the template has been deleted.  *)
AdvanceSchedule(p) ==
    LET b == pass[p]
        next == Advanced(b)
    IN  /\ b.pc = "advance"
        /\ Live(b.at)
        /\ templates' = [templates EXCEPT ![b.at].next = next]
        /\ pass' = [pass EXCEPT ![p] =
              IF LoopGoesOn(b, next, b.runs + 1)
              THEN [b EXCEPT !.pc = "create", !.next = next, !.runs = @ + 1]
              ELSE Left(b)]
        /\ UNCHANGED <<today, lock, rows>>

AdvanceFails(p) ==
    /\ pass[p].pc = "advance"
    /\ ~Live(pass[p].at) \/ "advance" \in Faults
    /\ pass' = [pass EXCEPT ![p] = Failed(@)]
    /\ UNCHANGED <<today, templates, lock, rows>>

(* The finally block; an unlock that Redis does not answer is only logged. *)
EndPass(p) ==
    /\ pass[p].pc = "release"
    /\ pass' = [pass EXCEPT ![p] = Idle]
    /\ lock' = Unlocked(pass[p].scope, p)
    /\ UNCHANGED <<today, templates, rows>>

(* A pass ends without the finally block, or in spite of it, and its lock  *)
(* stays: what has to go wrong depends on how far the pass has come.       *)
FaultAt == [find |-> "stop", pick |-> "stop", create |-> "stop",
            advance |-> "crash", release |-> "release"]
LeaveLocked(p) ==
    /\ Busy(p)
    /\ FaultAt[pass[p].pc] \in Faults
    /\ pass' = [pass EXCEPT ![p] = Idle]
    /\ UNCHANGED <<today, templates, lock, rows>>

-----------------------------------------------------------------------------
Midnight ==
    /\ today < Horizon
    /\ today' = today + 1
    /\ UNCHANGED <<templates, lock, pass, rows>>

(* The PATCH bodies of the clients, limited to the fields in Edits.        *)
UpdateDto ==
    LET Sent(f, values) == IF f \in Edits THEN values \cup {Keep} ELSE {Keep}
    IN  [fits : Sent("category", BOOLEAN), period : Sent("period", Periods),
         end : Sent("end", Ends \ {Never}), active : Sent("active", BOOLEAN)]

Init ==
    /\ today = 0
    /\ templates = [t \in Templates |-> Unborn]
    /\ lock = [k \in Scopes |-> Free]
    /\ pass = [p \in Passes |-> Idle]
    /\ rows = [t \in Templates |-> [d \in Days |-> 0]]

UserStep ==
    \E t \in Templates :
        \/ \E fits \in BOOLEAN, n \in Periods, d \in Days, e \in Ends :
              CreateTemplate(t, fits, n, d, e)
        \/ \E dto \in UpdateDto : UpdateTemplate(t, dto)
        \/ DeleteTemplate(t)

(* The next step of a pass that has begun. *)
PassStep(p) ==
    \/ FindDue(p) \/ PickTemplate(p) \/ BatchDone(p)
    \/ CreateOccurrence(p) \/ CreateFails(p)
    \/ AdvanceSchedule(p) \/ AdvanceFails(p)
    \/ EndPass(p)

Next ==
    \/ UserStep
    \/ Midnight
    \/ \E k \in Scopes : LockExpires(k)
    \/ \E p \in Passes : PassStep(p) \/ LeaveLocked(p) \/ \E k \in Scopes : StartPass(p, k)

Spec == Init /\ [][Next]_vars

(* A pass that has begun goes on unless its process dies (the awaited      *)
(* calls answer or throw); Redis removes an orphaned key when its TTL is   *)
(* over; and somebody calls runDue again and again (there is no scheduler: *)
(* recurring.service.ts 112-113 leaves that to a cron or to the client).   *)
Fairness ==
    /\ \A p \in Passes : WF_vars(PassStep(p))
    /\ \A k \in Scopes : WF_vars(Orphaned(k) /\ LockExpires(k))
    /\ WF_vars(\E p \in Passes, k \in Scopes : StartPass(p, k))

FairSpec == Spec /\ Fairness

-----------------------------------------------------------------------------
(* No occurrence is booked twice, as long as no pass dies or fails between *)
(* its two commits, outlives its lock, or runs under another key: whatever *)
(* the users edit meanwhile and however often runDue is called.            *)
AtMostOnce == \A t \in Templates : \A d \in Days : rows[t][d] <= 1

(* A schedule only advances past occurrences that are in the ledger, under *)
(* every fault: a crash or a failed commit repeats an occurrence, it never *)
(* loses one (the comment in runDue on the order of its two commits).      *)
(* Not so if a client changes the frequency while a pass is at work: that  *)
(* pass advances by the frequency of its image.                            *)
NothingSteppedOver ==
    [][\A t \in Templates : Live(t) /\ Live(t)' =>
          LET was == templates[t]
              is == templates'[t]
          IN  \A d \in Days :
                 /\ was.next <= d /\ d < is.next
                 /\ (d - was.next) % was.period = 0
                 => rows[t][d] > 0]_vars

(* A pass whose lock expired and was taken by another pass does not free   *)
(* the other's lock when it ends (the token check of the unlock script).   *)
EndingFreesOnlyOwnLock ==
    [][\A p, q \in Passes, k \in Scopes :
          Busy(p) /\ ~Busy(p)' /\ q # p /\ lock[k] = q => lock'[k] = q]_vars

(* An open-ended template that can be booked is eventually up to date,     *)
(* however far behind it is, although another template fails in every pass *)
(* (its category does not take its type) and unlocks are lost: failures    *)
(* are isolated and locks expire.                                          *)
Owed(t) ==
    /\ Live(t)
    /\ templates[t].active
    /\ templates[t].fits
    /\ templates[t].next <= today
OpenEndedCaughtUp ==
    \A t \in Templates :
        LET behind == Owed(t) /\ templates[t].end = Never
        IN  behind ~> ~behind

(* recurring.service.ts 112-115: "a template can be overdue by several     *)
(* periods and every missed occurrence is generated in one pass": so an    *)
(* occurrence that is not after its template's endDate does not stay       *)
(* missing for ever.                                                       *)
MissedOccurrencesGenerated ==
    \A t \in Templates :
        LET missed == Owed(t) /\ InEnd(templates[t].next, templates[t].end)
        IN  missed ~> ~missed
=============================================================================
