-------------------------- MODULE RecurringProofs --------------------------
(* What is proved of recurring templates, for every value of the constants. *)
EXTENDS Recurring, TLAPS

-----------------------------------------------------------------------------
(* The setting in which an occurrence is booked once: every pass takes the *)
(* same lock, none outlives it, and none dies or fails between the two     *)
(* commits of an occurrence (it may die anywhere else).                    *)
OrderlyPasses ==
    /\ \A j, k \in Scopes : j = k
    /\ Faults \cap {"advance", "crash", "expire"} = {}

(* A pass that is under way holds the lock.                                *)
Holding == \A p \in Passes : Busy(p) => lock[pass[p].scope] = p

(* No row is booked for day n or a later one.                              *)
Fresh(t, n) == \A d \in Days : d >= n => rows[t][d] = 0

(* The day from which a template that pass p is at has no rows yet.        *)
FreshFrom(p) == IF pass[p].pc = "advance" THEN pass[p].next + 1 ELSE pass[p].next

(* Template u and its image, or the loop variable, agree: day n is due and *)
(* unbooked from day m on, and the stored schedule is at n while u lives.  *)
Agrees(p, u, n, m) ==
    /\ n <= pass[p].now
    /\ Fresh(u, m)
    /\ templates[u] # Unborn
    /\ Live(u) => templates[u].next = n

(* The template a pass is at: its loop variable is the stored schedule.    *)
AtTemplate ==
    \A p \in Passes : pass[p].pc \in {"create", "advance"} =>
        Agrees(p, pass[p].at, pass[p].next, FreshFrom(p))

(* The images a pass has still to process are those of the stored rows.    *)
Waiting ==
    \A p \in Passes : pass[p].pc \in {"pick", "create", "advance"} =>
        \A t \in Batch(p) : pass[p].pc = "pick" \/ t # pass[p].at =>
            Agrees(p, t, pass[p].todo[t].next, pass[p].todo[t].next)

(* A stored schedule points at the first day without a row, except between *)
(* the two commits of an occurrence.                                       *)
Scheduled ==
    \A t \in Templates :
        /\ templates[t] = Unborn => Fresh(t, 0)
        /\ Live(t) => \/ Fresh(t, templates[t].next)
                      \/ \E p \in Passes : pass[p].pc = "advance" /\ pass[p].at = t

IInv == TypeOK /\ Holding /\ AtTemplate /\ Waiting /\ Scheduled /\ AtMostOnce

-----------------------------------------------------------------------------
(* Type correctness. *)

\* A pass that is at a known point of its work is a well-typed record.
LEMMA BusyType ==
  ASSUME TypeOK, NEW p \in Passes, Busy(p)
  PROVE  pass[p] \in BusyPass
BY DEF TypeOK, Busy, Idle, BusyPass

\* A template in a pass's batch is a well-typed image.
LEMMA ImageType ==
  ASSUME TypeOK, NEW p \in Passes, pass[p] \in BusyPass, NEW t \in Batch(p)
  PROVE  t \in Templates /\ pass[p].todo[t] \in Template
BY DEF TypeOK, BusyPass, Batch

\* The loop counts its rounds up to the cap.
LEMMA FirstRound == 0 \in Rounds
BY RecurringAssumption DEF Rounds

LEMMA NextRound ==
  ASSUME NEW b \in BusyPass, NEW n, LoopGoesOn(b, n, b.runs + 1)
  PROVE  b.runs + 1 \in Rounds
<1>1. b.runs \in Rounds
  BY DEF BusyPass
<1> QED
  BY <1>1, RecurringAssumption DEF Rounds, LoopGoesOn

\* Leaving a template, at the end of its loop or after an error.
LEMMA LeftType ==
  ASSUME NEW b \in BusyPass, b.at \in Templates
  PROVE  /\ Left(b) \in BusyPass
         /\ Left(b).pc = "pick"
         /\ Left(b).scope = b.scope /\ Left(b).now = b.now
         /\ Left(b).todo = [b.todo EXCEPT ![b.at] = NotDue]
BY RecurringAssumption, FirstRound DEF BusyPass, Left

\* The schedule moves forward.
LEMMA AdvancedType ==
  ASSUME NEW b \in BusyPass, b.at \in Templates, b.todo[b.at] \in Template
  PROVE  Advanced(b) \in Nat /\ Advanced(b) > b.next
<1>1. b.next \in Nat
  BY DEF BusyPass
<1>2. b.todo[b.at].period \in Nat \ {0}
  BY RecurringAssumption DEF Template
<1> QED
  BY <1>1, <1>2 DEF Advanced

\* The initial state and every step are well typed.
LEMMA TypeInit == Init => TypeOK
BY RecurringAssumption DEF Init, TypeOK, Days, Idle

LEMMA TypeUser ==
  ASSUME TypeOK, UserStep
  PROVE  TypeOK'
<1>1. CASE \E t \in Templates, fits \in BOOLEAN, n \in Periods, d \in Days, e \in Ends :
              CreateTemplate(t, fits, n, d, e)
  <2>1. PICK t \in Templates, fits \in BOOLEAN, n \in Periods, d \in Days, e \in Ends :
              CreateTemplate(t, fits, n, d, e)
    BY <1>1
  <2>2. [fits |-> fits, period |-> n, next |-> d, end |-> e, active |-> TRUE] \in Template
    BY RecurringAssumption DEF Template, Days
  <2> QED
    BY <2>1, <2>2 DEF CreateTemplate, TypeOK, Batch
<1>2. CASE \E t \in Templates : \E dto \in UpdateDto : UpdateTemplate(t, dto)
  <2>1. PICK t \in Templates, dto \in UpdateDto : UpdateTemplate(t, dto)
    BY <1>2
  <2>2. templates[t] \in Template
    BY <2>1 DEF UpdateTemplate, Live, TypeOK
  <2>3. /\ SetOr(dto.fits, templates[t].fits) \in BOOLEAN
        /\ SetOr(dto.period, templates[t].period) \in Periods
        /\ SetOr(dto.end, templates[t].end) \in Nat \cup {Never}
        /\ SetOr(dto.active, templates[t].active) \in BOOLEAN
    BY <2>2, RecurringAssumption DEF UpdateDto, SetOr, Template
  <2> QED
    BY <2>1, <2>2, <2>3 DEF UpdateTemplate, TypeOK, Template, Batch
<1>3. CASE \E t \in Templates : DeleteTemplate(t)
  BY <1>3 DEF DeleteTemplate, TypeOK, Batch
<1> QED
  BY <1>1, <1>2, <1>3 DEF UserStep

\* Only a pass that is under way takes a step.
LEMMA PassStepBusy ==
  ASSUME TypeOK, NEW p \in Passes, PassStep(p)
  PROVE  pass[p] \in BusyPass
<1>1. pass[p].pc \in {"find", "pick", "create", "advance", "release"}
  BY DEF PassStep, FindDue, PickTemplate, BatchDone, CreateOccurrence,
     CreateFails, AdvanceSchedule, AdvanceFails, EndPass
<1>2. Busy(p)
  BY <1>1 DEF Busy, Idle
<1> QED
  BY <1>2, BusyType

LEMMA TypePass ==
  ASSUME TypeOK, NEW p \in Passes, PassStep(p)
  PROVE  TypeOK'
<1>1. pass[p] \in BusyPass
  BY PassStepBusy
<1>2. CASE FindDue(p)
  BY <1>1, <1>2 DEF FindDue, TypeOK, BusyPass, Batch, Due, Live
<1>3. CASE PickTemplate(p)
  <2>1. PICK t \in Batch(p) :
          pass' = [pass EXCEPT ![p].pc = "create", ![p].at = t,
                               ![p].next = pass[p].todo[t].next, ![p].runs = 0]
    BY <1>3 DEF PickTemplate
  <2>2. t \in Templates /\ pass[p].todo[t].next \in Nat
    BY <1>1, ImageType DEF Template
  <2> QED
    BY <1>1, <1>3, <2>1, <2>2, FirstRound DEF PickTemplate, TypeOK, BusyPass, Batch
<1>4. CASE BatchDone(p)
  BY <1>1, <1>4 DEF BatchDone, TypeOK, BusyPass, Batch
<1>5. CASE CreateOccurrence(p)
  <2>1. \A n \in 0..MaxRows : Count(n) \in 0..MaxRows
    BY RecurringAssumption DEF Count
  <2>2. rows' \in [Templates -> [Days -> 0..MaxRows]]
    BY <1>5, <2>1 DEF CreateOccurrence, TypeOK
  <2>3. PICK b : b = [pass[p] EXCEPT !.pc = "advance"]
    OBVIOUS
  <2>4. /\ pass[p].pc = "create"
        /\ pass' = [pass EXCEPT ![p] = b]
        /\ UNCHANGED <<today, templates, lock>>
    BY <1>5, <2>3 DEF CreateOccurrence
  <2>5. b \in BusyPass /\ b.at = pass[p].at /\ b.todo = pass[p].todo
    BY <1>1, <2>3 DEF BusyPass
  <2> QED
    BY <2>2, <2>4, <2>5 DEF TypeOK, Batch
<1>6. CASE CreateFails(p) \/ AdvanceFails(p)
  <2>1. /\ pass[p].at \in Batch(p)
        /\ pass' = [pass EXCEPT ![p] = Left(@)]
        /\ UNCHANGED <<today, templates, lock, rows>>
    BY <1>6 DEF CreateFails, AdvanceFails, Failed, TypeOK
  <2>2. Left(pass[p]) \in BusyPass /\ Left(pass[p]).pc = "pick"
    BY <1>1, <2>1, ImageType, LeftType
  <2> QED
    BY <2>1, <2>2 DEF TypeOK, Batch
<1>7. CASE AdvanceSchedule(p)
  <2> DEFINE b == pass[p]
             n == Advanced(b)
             c == IF LoopGoesOn(b, n, b.runs + 1)
                  THEN [b EXCEPT !.pc = "create", !.next = n, !.runs = @ + 1]
                  ELSE Left(b)
  <2>1. /\ b.at \in Batch(p) /\ Live(b.at)
        /\ templates' = [templates EXCEPT ![b.at].next = n]
        /\ pass' = [pass EXCEPT ![p] = c]
        /\ UNCHANGED <<today, lock, rows>>
    BY <1>7 DEF AdvanceSchedule, TypeOK
  <2>2. b.at \in Templates /\ b.todo[b.at] \in Template
    BY <1>1, <2>1, ImageType
  <2>3. n \in Nat
    BY <1>1, <2>2, AdvancedType
  <2>4. templates' \in [Templates -> Template \cup {Unborn, Gone}]
    BY <2>1, <2>2, <2>3 DEF TypeOK, Live, Template
  <2>5. c \in BusyPass /\ (c.pc = "create" => c.at = b.at /\ c.todo = b.todo)
                       /\ c.pc \in {"create", "pick"}
    <3> SUFFICES ASSUME LoopGoesOn(b, n, b.runs + 1)
                 PROVE  c \in BusyPass /\ c.pc = "create" /\ c.at = b.at /\ c.todo = b.todo
      BY <1>1, <2>2, LeftType
    <3> PICK m \in Rounds : m = b.runs + 1
      BY <1>1, NextRound
    <3> HIDE DEF n
    <3>1. PICK d : d = [b EXCEPT !.pc = "create", !.next = n, !.runs = m]
      OBVIOUS
    <3>2. d \in BusyPass /\ d.pc = "create" /\ d.at = b.at /\ d.todo = b.todo
      BY <1>1, <2>3, <3>1 DEF BusyPass
    <3>3. Left(b) \in BusyPass /\ Left(b).pc = "pick"
      BY <1>1, <2>2, LeftType
    <3> QED
      BY <3>1, <3>2, <3>3
  <2> QED
    BY <2>1, <2>4, <2>5 DEF TypeOK, Batch
<1>8. CASE EndPass(p)
  <2>1. lock' \in [Scopes -> Passes \cup {Free}]
    BY <1>8 DEF EndPass, Unlocked, TypeOK
  <2>2. /\ pass' = [pass EXCEPT ![p] = Idle]
        /\ UNCHANGED <<today, templates, rows>>
    BY <1>8 DEF EndPass
  <2> QED
    BY <2>1, <2>2 DEF TypeOK, Batch, Idle
<1> QED
  BY <1>2, <1>3, <1>4, <1>5, <1>6, <1>7, <1>8 DEF PassStep

LEMMA TypeStep ==
  ASSUME TypeOK, [Next]_vars
  PROVE  TypeOK'
<1>1. CASE Midnight
  BY <1>1, RecurringAssumption DEF Midnight, TypeOK, Days, Batch
<1>2. CASE \E k \in Scopes : LockExpires(k)
  BY <1>2 DEF LockExpires, TypeOK, Batch
<1>3. CASE \E p \in Passes, k \in Scopes : StartPass(p, k)
  <2>1. PICK p \in Passes, k \in Scopes : StartPass(p, k)
    BY <1>3
  <2>2. [pc |-> "find", scope |-> k, now |-> today, todo |-> NothingDue,
         at |-> Never, next |-> 0, runs |-> 0] \in BusyPass
    BY RecurringAssumption, FirstRound DEF BusyPass, NothingDue, TypeOK
  <2> QED
    BY <2>1, <2>2 DEF StartPass, Granted, TypeOK, Batch
<1>4. CASE \E p \in Passes : LeaveLocked(p)
  BY <1>4 DEF LeaveLocked, TypeOK, Batch, Idle
<1>5. CASE UNCHANGED vars
  BY <1>5 DEF vars, TypeOK, Batch
<1> QED
  BY <1>1, <1>2, <1>3, <1>4, <1>5, TypeUser, TypePass DEF Next

(* Every reachable state is well typed, under every fault.                 *)
THEOREM TypeCorrect == Spec => []TypeOK
<1>1. Init => TypeOK
  BY TypeInit
<1>2. TypeOK /\ [Next]_vars => TypeOK'
  BY TypeStep
<1> QED
  BY <1>1, <1>2, PTL DEF Spec

-----------------------------------------------------------------------------
(* Every occurrence is booked once. *)

\* Two passes that are under way are the same: both hold the one lock.
LEMMA OnePass ==
  ASSUME OrderlyPasses, TypeOK, Holding, NEW p \in Passes, Busy(p)
  PROVE  \A q \in Passes \ {p} : pass[q].pc = "idle"
<1> SUFFICES ASSUME NEW q \in Passes \ {p}, Busy(q)
             PROVE  FALSE
  BY DEF Busy, Idle
<1>1. pass[p].scope \in Scopes /\ pass[q].scope \in Scopes
  BY BusyType DEF BusyPass
<1> QED
  BY <1>1 DEF OrderlyPasses, Holding

\* What a change of the templates alone, or of nothing, keeps.
LEMMA TemplatesChange ==
  ASSUME IInv, UNCHANGED <<pass, rows>>, UNCHANGED lock,
         \A t \in Templates :
            \/ templates'[t] = templates[t]
            \/ Live(t) /\ ~Live(t)' /\ templates'[t] # Unborn
            \/ Live(t) /\ Live(t)' /\ templates'[t].next = templates[t].next
            \/ templates[t] = Unborn /\ Live(t)' /\ templates'[t].next \in Nat
  PROVE  Holding' /\ AtTemplate' /\ Waiting' /\ Scheduled' /\ AtMostOnce'
<1>1. Holding' /\ AtMostOnce'
  BY DEF IInv, Holding, Busy, Idle, AtMostOnce
<1>2. \A t, n : Fresh(t, n)' <=> Fresh(t, n)
  BY DEF Fresh
<1>3. \A p \in Passes : Batch(p)' = Batch(p) /\ Batch(p) \subseteq Templates
  BY DEF Batch
<1>4. \A p \in Passes, t \in Templates : \A n, m :
          Agrees(p, t, n, m) => Agrees(p, t, n, m)'
  BY <1>2 DEF Agrees, Live
<1>5. AtTemplate'
  BY <1>3, <1>4 DEF IInv, TypeOK, AtTemplate, FreshFrom
<1>6. Waiting'
  BY <1>3, <1>4 DEF IInv, Waiting
<1>7. \A t \in Templates, n \in Nat : Fresh(t, 0) => Fresh(t, n)
  BY RecurringAssumption DEF Fresh, Days
<1>8. Scheduled'
  BY <1>2, <1>7 DEF IInv, Scheduled, Live
<1> QED
  BY <1>1, <1>5, <1>6, <1>8

LEMMA UserKeeps ==
  ASSUME IInv, UserStep
  PROVE  Holding' /\ AtTemplate' /\ Waiting' /\ Scheduled' /\ AtMostOnce'
<1>1. CASE \E t \in Templates, fits \in BOOLEAN, n \in Periods, d \in Days, e \in Ends :
              CreateTemplate(t, fits, n, d, e)
  <2>1. PICK t \in Templates, fits \in BOOLEAN, n \in Periods, d \in Days, e \in Ends :
              CreateTemplate(t, fits, n, d, e)
    BY <1>1
  <2>2. d \in Nat
    BY DEF Days
  <2>3. templates \in [Templates -> Template \cup {Unborn, Gone}]
    BY DEF IInv, TypeOK
  <2> DEFINE new == [fits |-> fits, period |-> n, next |-> d, end |-> e, active |-> TRUE]
  <2>4. new # Unborn /\ new # Gone /\ new.next = d
    BY DEF Unborn, Gone
  <2> HIDE DEF new
  <2>5. templates' = [templates EXCEPT ![t] = new] /\ templates[t] = Unborn
        /\ UNCHANGED <<pass, rows>> /\ UNCHANGED lock
    BY <2>1 DEF CreateTemplate, new
  <2> QED
    BY <2>2, <2>3, <2>4, <2>5, TemplatesChange DEF Live
<1>2. CASE \E t \in Templates : \E dto \in UpdateDto : UpdateTemplate(t, dto)
  <2>1. PICK t \in Templates, dto \in UpdateDto : UpdateTemplate(t, dto)
    BY <1>2
  <2>2. templates \in [Templates -> Template \cup {Unborn, Gone}]
    BY DEF IInv, TypeOK
  <2> DEFINE row == [fits |-> SetOr(dto.fits, templates[t].fits),
                     period |-> SetOr(dto.period, templates[t].period),
                     end |-> SetOr(dto.end, templates[t].end),
                     active |-> SetOr(dto.active, templates[t].active),
                     next |-> templates[t].next]
  <2>3. row # Unborn /\ row # Gone /\ row.next = templates[t].next
    BY DEF Unborn, Gone
  <2>4. templates' = [templates EXCEPT ![t] = row] /\ Live(t)
        /\ UNCHANGED <<pass, rows>> /\ UNCHANGED lock
    BY <2>1 DEF UpdateTemplate
  <2> HIDE DEF row
  <2> QED
    BY <2>2, <2>3, <2>4, TemplatesChange DEF Live
<1>3. CASE \E t \in Templates : DeleteTemplate(t)
  <2>1. PICK t \in Templates : DeleteTemplate(t)
    BY <1>3
  <2>2. Gone # Unborn
    BY DEF Gone, Unborn
  <2>3. templates \in [Templates -> Template \cup {Unborn, Gone}]
    BY DEF IInv, TypeOK
  <2> QED
    BY <2>1, <2>2, <2>3, TemplatesChange DEF DeleteTemplate, Live
<1> QED
  BY <1>1, <1>2, <1>3 DEF UserStep

LEMMA StartKeeps ==
  ASSUME IInv, OrderlyPasses, NEW p \in Passes, NEW k \in Scopes, StartPass(p, k)
  PROVE  Holding' /\ AtTemplate' /\ Waiting' /\ Scheduled' /\ AtMostOnce'
<1>1. \A q \in Passes : ~Busy(q)
  <2> SUFFICES ASSUME NEW q \in Passes, Busy(q)
               PROVE  FALSE
    OBVIOUS
  <2>1. pass[q].scope = k
    BY BusyType DEF IInv, BusyPass, OrderlyPasses
  <2> QED
    BY <2>1, RecurringAssumption DEF IInv, Holding, StartPass, Grantable, Free
<1>2. /\ pass' \in [Passes -> {Idle} \cup BusyPass]
      /\ pass'[p].pc = "find" /\ pass'[p].scope = k
      /\ \A q \in Passes \ {p} : pass'[q] = Idle
      /\ lock'[k] = p
      /\ UNCHANGED <<templates, rows>>
  BY <1>1, TypeStep DEF IInv, TypeOK, StartPass, Granted, Busy, Next, vars
<1>3. Holding' /\ AtTemplate' /\ Waiting'
  BY <1>2 DEF Holding, AtTemplate, Waiting, Busy, Idle
<1>4. \A q \in Passes : pass[q].pc = "idle"
  BY <1>1 DEF Busy, Idle
<1>5. Scheduled'
  BY <1>2, <1>4 DEF IInv, Scheduled, Fresh, Live
<1> QED
  BY <1>2, <1>3, <1>5 DEF IInv, AtMostOnce

LEMMA ExpiryKeeps ==
  ASSUME IInv, OrderlyPasses, NEW k \in Scopes, LockExpires(k)
  PROVE  Holding' /\ AtTemplate' /\ Waiting' /\ Scheduled' /\ AtMostOnce'
<1>1. Orphaned(k) /\ UNCHANGED <<today, templates, pass, rows>>
      /\ lock' = [lock EXCEPT ![k] = Free]
  BY DEF LockExpires, TtlRuns, OrderlyPasses
<1>2. Holding'
  BY <1>1 DEF IInv, Holding, Orphaned, Busy, OrderlyPasses
<1> QED
  BY <1>1, <1>2 DEF IInv, AtTemplate, Waiting, Scheduled, AtMostOnce, Agrees, Fresh,
     FreshFrom, Batch, Live

\* A step of the one pass under way: the others are idle, and stay so.
LEMMA PassAlone ==
  ASSUME IInv, OrderlyPasses, NEW p \in Passes, PassStep(p) \/ LeaveLocked(p)
  PROVE  /\ pass[p] \in BusyPass
         /\ \A q \in Passes \ {p} : pass[q].pc = "idle" /\ pass'[q] = pass[q]
         /\ lock[pass[p].scope] = p
<1>1. pass[p] \in BusyPass
  BY PassStepBusy, BusyType DEF IInv, LeaveLocked
<1>2. Busy(p)
  BY <1>1 DEF Busy, Idle, BusyPass
<1>3. \A q \in Passes \ {p} : pass'[q] = pass[q]
  BY DEF PassStep, FindDue, PickTemplate, BatchDone, CreateOccurrence, CreateFails,
     AdvanceSchedule, AdvanceFails, EndPass, LeaveLocked, IInv, TypeOK
<1> QED
  BY <1>1, <1>2, <1>3, OnePass DEF IInv, Holding

\* What has to be shown of the pass that takes the step.
LEMMA AloneSuffices ==
  ASSUME IInv, OrderlyPasses, NEW p \in Passes, PassStep(p), UNCHANGED lock,
         pass'[p] \in BusyPass, pass'[p].scope = pass[p].scope,
         pass'[p].pc \in {"create", "advance"} =>
            Agrees(p, pass[p].at, pass[p].next, FreshFrom(p))',
         pass'[p].pc \in {"pick", "create", "advance"} =>
            \A t \in Batch(p)' : pass'[p].pc = "pick" \/ t # pass'[p].at =>
               Agrees(p, t, pass[p].todo[t].next, pass[p].todo[t].next)'
  PROVE  Holding' /\ AtTemplate' /\ Waiting'
<1>1. \A q \in Passes \ {p} : pass'[q].pc = "idle"
  BY PassAlone
<1>2. \A q \in Passes \ {p} : ~Busy(q)'
  BY PassAlone, BusyType DEF IInv, Busy, Idle, BusyPass
<1>3. Holding'
  BY <1>2, PassAlone DEF Holding
<1>4. AtTemplate'
  BY <1>1 DEF AtTemplate
<1>5. Waiting'
  BY <1>1 DEF Waiting
<1> QED
  BY <1>3, <1>4, <1>5

\* When no pass is between its two commits, every stored schedule is at the
\* first day without a row.
LEMMA AllFresh ==
  ASSUME IInv, OrderlyPasses, NEW p \in Passes, PassStep(p) \/ LeaveLocked(p),
         NEW t \in Templates, Live(t), pass[p].pc # "advance" \/ pass[p].at # t
  PROVE  Fresh(t, templates[t].next)
BY PassAlone DEF IInv, Scheduled

LEMMA FindKeeps ==
  ASSUME IInv, OrderlyPasses, NEW p \in Passes, FindDue(p)
  PROVE  Holding' /\ AtTemplate' /\ Waiting' /\ Scheduled' /\ AtMostOnce'
<1>1. PassStep(p)
  BY DEF PassStep
<1>2. pass[p] \in BusyPass /\ pass[p].pc = "find"
  BY <1>1, PassAlone DEF FindDue
<1> DEFINE due == [t \in Templates |-> IF Due(t, pass[p].now) THEN templates[t] ELSE NotDue]
<1>3. /\ pass' = [pass EXCEPT ![p] = [@ EXCEPT !.pc = "pick", !.todo = due]]
      /\ UNCHANGED <<templates, rows>> /\ UNCHANGED lock
  BY <1>2 DEF FindDue, IInv, TypeOK, BusyPass
<1>4. due \in [Templates -> Template \cup {NotDue}]
  BY DEF IInv, TypeOK, Due, Live
<1> HIDE DEF due
<1>5. /\ pass'[p] \in BusyPass /\ pass'[p].pc = "pick" /\ pass'[p].scope = pass[p].scope
      /\ pass'[p].now = pass[p].now /\ pass'[p].todo = due
  BY <1>2, <1>3, <1>4 DEF IInv, TypeOK, BusyPass
<1>6. ASSUME NEW t \in Batch(p)'
      PROVE  Agrees(p, t, pass[p].todo[t].next, pass[p].todo[t].next)'
  <2>1. t \in Templates /\ Due(t, pass[p].now) /\ due[t] = templates[t]
    BY <1>5 DEF Batch, due
  <2>2. Live(t) /\ templates[t].next <= pass[p].now
    BY <2>1 DEF Due
  <2>3. Fresh(t, templates[t].next)
    BY <1>1, <1>2, <2>1, <2>2, AllFresh
  <2> QED
    BY <1>3, <1>5, <2>1, <2>2, <2>3 DEF Agrees, Fresh, Live
<1>7. Holding' /\ AtTemplate' /\ Waiting'
  BY <1>1, <1>3, <1>5, <1>6, AloneSuffices
<1>8. Scheduled'
  <2>1. \A t \in Templates : Live(t) => Fresh(t, templates[t].next)
    BY <1>1, <1>2, AllFresh
  <2> QED
    BY <1>3, <2>1 DEF IInv, Scheduled, Fresh, Live
<1> QED
  BY <1>3, <1>7, <1>8 DEF IInv, AtMostOnce

LEMMA PickKeeps ==
  ASSUME IInv, OrderlyPasses, NEW p \in Passes, PickTemplate(p)
  PROVE  Holding' /\ AtTemplate' /\ Waiting' /\ Scheduled' /\ AtMostOnce'
<1>1. PassStep(p)
  BY DEF PassStep
<1>2. pass[p] \in BusyPass /\ pass[p].pc = "pick"
  BY <1>1, PassAlone DEF PickTemplate
<1>3. PICK t \in Batch(p) :
        pass' = [pass EXCEPT ![p].pc = "create", ![p].at = t,
                             ![p].next = pass[p].todo[t].next, ![p].runs = 0]
  BY DEF PickTemplate
<1>4. t \in Templates /\ pass[p].todo[t].next \in Nat
  BY <1>2, ImageType DEF IInv, Template
<1>5. /\ pass'[p] \in BusyPass /\ pass'[p].pc = "create" /\ pass'[p].scope = pass[p].scope
      /\ pass'[p].now = pass[p].now /\ pass'[p].todo = pass[p].todo
      /\ pass'[p].at = t /\ pass'[p].next = pass[p].todo[t].next
  BY <1>2, <1>3, <1>4, FirstRound DEF IInv, TypeOK, BusyPass
<1>6. UNCHANGED <<templates, rows>> /\ UNCHANGED lock
  BY DEF PickTemplate
<1>7. \A u \in Batch(p) : Agrees(p, u, pass[p].todo[u].next, pass[p].todo[u].next)
  BY <1>2 DEF IInv, Waiting
<1>8. Batch(p)' = Batch(p)
  BY <1>5 DEF Batch
<1>9. \A u \in Batch(p) : Agrees(p, u, pass[p].todo[u].next, pass[p].todo[u].next)'
  BY <1>5, <1>6, <1>7 DEF Agrees, Fresh, Live
<1>10. Holding' /\ AtTemplate' /\ Waiting'
  BY <1>1, <1>3, <1>5, <1>6, <1>8, <1>9, AloneSuffices DEF FreshFrom
<1>11. Scheduled'
  <2>1. \A u \in Templates : Live(u) => Fresh(u, templates[u].next)
    BY <1>1, <1>2, AllFresh
  <2> QED
    BY <1>6, <2>1 DEF IInv, Scheduled, Fresh, Live
<1> QED
  BY <1>6, <1>10, <1>11 DEF IInv, AtMostOnce

LEMMA DoneKeeps ==
  ASSUME IInv, OrderlyPasses, NEW p \in Passes, BatchDone(p)
  PROVE  Holding' /\ AtTemplate' /\ Waiting' /\ Scheduled' /\ AtMostOnce'
<1>1. PassStep(p)
  BY DEF PassStep
<1>2. pass[p] \in BusyPass /\ pass[p].pc = "pick"
  BY <1>1, PassAlone DEF BatchDone
<1>3. /\ pass'[p] \in BusyPass /\ pass'[p].pc = "release" /\ pass'[p].scope = pass[p].scope
      /\ UNCHANGED <<templates, rows>> /\ UNCHANGED lock
  BY <1>2 DEF BatchDone, IInv, TypeOK, BusyPass
<1>4. Holding' /\ AtTemplate' /\ Waiting'
  BY <1>1, <1>3, AloneSuffices
<1>5. \A u \in Templates : Live(u) => Fresh(u, templates[u].next)
  BY <1>1, <1>2, AllFresh
<1>6. Scheduled'
  BY <1>3, <1>5 DEF IInv, Scheduled, Fresh, Live
<1> QED
  BY <1>3, <1>4, <1>6 DEF IInv, AtMostOnce

LEMMA EndKeeps ==
  ASSUME IInv, OrderlyPasses, NEW p \in Passes, EndPass(p) \/ LeaveLocked(p)
  PROVE  Holding' /\ AtTemplate' /\ Waiting' /\ Scheduled' /\ AtMostOnce'
<1>1. PassStep(p) \/ LeaveLocked(p)
  BY DEF PassStep
<1>2. pass[p].pc # "advance"
  BY <1>1, PassAlone DEF EndPass, LeaveLocked, FaultAt, OrderlyPasses, BusyPass
<1>3. UNCHANGED <<templates, rows>> /\ pass'[p] = Idle
  BY DEF EndPass, LeaveLocked, IInv, TypeOK
<1>4. \A q \in Passes : pass'[q].pc = "idle"
  BY <1>1, <1>3, PassAlone DEF Idle
<1>5. \A q \in Passes : ~Busy(q)'
  BY <1>1, <1>3, PassAlone, BusyType DEF IInv, Busy, Idle, BusyPass
<1>6. Holding' /\ AtTemplate' /\ Waiting'
  BY <1>4, <1>5 DEF Holding, AtTemplate, Waiting
<1>7. \A u \in Templates : Live(u) => Fresh(u, templates[u].next)
  BY <1>1, <1>2, AllFresh
<1>8. Scheduled'
  BY <1>3, <1>7 DEF IInv, Scheduled, Fresh, Live
<1> QED
  BY <1>3, <1>6, <1>8 DEF IInv, AtMostOnce

LEMMA CreateKeeps ==
  ASSUME IInv, OrderlyPasses, NEW p \in Passes, CreateOccurrence(p)
  PROVE  Holding' /\ AtTemplate' /\ Waiting' /\ Scheduled' /\ AtMostOnce'
<1> PICK a, n : a = pass[p].at /\ n = pass[p].next
  OBVIOUS
<1>1. PassStep(p)
  BY DEF PassStep
<1>2. pass[p] \in BusyPass /\ pass[p].pc = "create"
  BY <1>1, PassAlone DEF CreateOccurrence
<1>3. a \in Batch(p) /\ a \in Templates /\ n \in Nat
  BY <1>2 DEF IInv, TypeOK, BusyPass, Batch
<1>4. Agrees(p, a, n, n)
  BY <1>2 DEF IInv, AtTemplate, FreshFrom
<1>5. n \in Days
  BY <1>2, <1>3, <1>4, RecurringAssumption DEF Agrees, BusyPass, Days
<1>6. /\ pass'[p] \in BusyPass /\ pass'[p].pc = "advance" /\ pass'[p].scope = pass[p].scope
      /\ pass'[p].now = pass[p].now /\ pass'[p].todo = pass[p].todo
      /\ pass'[p].at = a /\ pass'[p].next = n
      /\ UNCHANGED templates /\ UNCHANGED lock
  BY <1>2 DEF CreateOccurrence, IInv, TypeOK, BusyPass
<1>7. rows[a][n] = 0
  BY <1>3, <1>4, <1>5 DEF Agrees, Fresh, Days
<1>8. Count(0) = 1
  BY RecurringAssumption DEF Count
<1>9. /\ \A t \in Templates \ {a} : rows'[t] = rows[t]
      /\ \A d \in Days \ {n} : rows'[a][d] = rows[a][d]
      /\ rows'[a][n] = 1
  BY <1>3, <1>5, <1>7, <1>8 DEF CreateOccurrence, IInv, TypeOK
<1>10. Fresh(a, n + 1)'
  BY <1>3, <1>4, <1>9 DEF Agrees, Fresh, Days
<1>11. \A t \in Templates \ {a} : \A m : Fresh(t, m) => Fresh(t, m)'
  BY <1>9 DEF Fresh
<1>12. Batch(p)' = Batch(p) /\ Batch(p) \subseteq Templates
  BY <1>6 DEF Batch
<1>13. Agrees(p, a, n, n + 1)'
  BY <1>4, <1>6, <1>10 DEF Agrees, Live
<1>14. \A t \in Batch(p) \ {a} : Agrees(p, t, pass[p].todo[t].next, pass[p].todo[t].next)'
  <2>1. \A t \in Batch(p) \ {a} : Agrees(p, t, pass[p].todo[t].next, pass[p].todo[t].next)
    BY <1>2 DEF IInv, Waiting
  <2> QED
    BY <1>6, <1>11, <1>12, <2>1 DEF Agrees, Live
<1>15. Holding' /\ AtTemplate' /\ Waiting'
  BY <1>1, <1>6, <1>12, <1>13, <1>14, AloneSuffices DEF FreshFrom
<1>16. Scheduled'
  <2>1. \A t \in Templates : Live(t) => Fresh(t, templates[t].next)
    BY <1>1, <1>2, AllFresh
  <2>2. \A t \in Templates \ {a} : Live(t)' => Fresh(t, templates[t].next)'
    BY <1>6, <1>11, <2>1 DEF Live
  <2>3. \A t \in Templates \ {a} : templates'[t] = Unborn => Fresh(t, 0)'
    BY <1>6, <1>11 DEF IInv, Scheduled
  <2>4. templates'[a] # Unborn
    BY <1>4, <1>6 DEF Agrees
  <2> QED
    BY <1>6, <2>2, <2>3, <2>4 DEF Scheduled
<1>17. AtMostOnce'
  BY <1>3, <1>9 DEF IInv, AtMostOnce
<1> QED
  BY <1>15, <1>16, <1>17

\* A template that fails, or has been deleted, is dropped from the batch.
LEMMA FailKeeps ==
  ASSUME IInv, OrderlyPasses, NEW p \in Passes, CreateFails(p) \/ AdvanceFails(p)
  PROVE  Holding' /\ AtTemplate' /\ Waiting' /\ Scheduled' /\ AtMostOnce'
<1> PICK a : a = pass[p].at
  OBVIOUS
<1>1. PassStep(p)
  BY DEF PassStep
<1>2. pass[p] \in BusyPass /\ pass[p].pc \in {"create", "advance"}
  BY <1>1, PassAlone DEF CreateFails, AdvanceFails
<1>3. a \in Batch(p) /\ a \in Templates
  BY <1>2 DEF IInv, TypeOK, Batch
<1>4. /\ pass' = [pass EXCEPT ![p] = Left(@)]
      /\ UNCHANGED <<templates, rows>> /\ UNCHANGED lock
  BY DEF CreateFails, AdvanceFails, Failed
<1>5. /\ pass'[p] \in BusyPass /\ pass'[p].pc = "pick" /\ pass'[p].scope = pass[p].scope
      /\ pass'[p].now = pass[p].now
      /\ pass'[p].todo = [pass[p].todo EXCEPT ![a] = NotDue]
  BY <1>2, <1>3, <1>4, LeftType DEF IInv, TypeOK
<1>6. \A t \in Batch(p)' : t \in Batch(p) \ {a} /\ pass'[p].todo[t] = pass[p].todo[t]
  BY <1>2, <1>3, <1>5 DEF Batch, BusyPass
<1>7. \A t \in Batch(p)' : Agrees(p, t, pass[p].todo[t].next, pass[p].todo[t].next)'
  <2>1. \A t \in Batch(p) \ {a} : Agrees(p, t, pass[p].todo[t].next, pass[p].todo[t].next)
    BY <1>2 DEF IInv, Waiting
  <2> QED
    BY <1>4, <1>5, <1>6, <2>1 DEF Agrees, Fresh, Live
<1>8. Holding' /\ AtTemplate' /\ Waiting'
  BY <1>1, <1>4, <1>5, <1>7, AloneSuffices
<1>9. Scheduled'
  <2>1. ASSUME NEW t \in Templates, Live(t)
        PROVE  Fresh(t, templates[t].next)
    <3>1. pass[p].pc # "advance" \/ a # t
      BY <2>1 DEF CreateFails, AdvanceFails, OrderlyPasses
    <3> QED
      BY <1>1, <2>1, <3>1, AllFresh
  <2> QED
    BY <1>4, <2>1 DEF IInv, Scheduled, Fresh, Live
<1> QED
  BY <1>4, <1>8, <1>9 DEF IInv, AtMostOnce

LEMMA AdvanceKeeps ==
  ASSUME IInv, OrderlyPasses, NEW p \in Passes, AdvanceSchedule(p)
  PROVE  Holding' /\ AtTemplate' /\ Waiting' /\ Scheduled' /\ AtMostOnce'
<1> PICK b, a, n, more : /\ b = pass[p] /\ a = b.at /\ n = Advanced(b)
                         /\ more = LoopGoesOn(b, n, b.runs + 1)
  OBVIOUS
<1>1. PassStep(p)
  BY DEF PassStep
<1>2. b \in BusyPass /\ b.pc = "advance" /\ Live(a)
  BY <1>1, PassAlone DEF AdvanceSchedule
<1>3. a \in Batch(p) /\ a \in Templates /\ b.todo[a] \in Template
  BY <1>2, ImageType DEF IInv, TypeOK
<1>4. n \in Nat /\ n > b.next /\ b.next \in Nat
  BY <1>2, <1>3, AdvancedType DEF BusyPass
<1>5. /\ templates' = [templates EXCEPT ![a].next = n]
      /\ pass' = [pass EXCEPT ![p] =
            IF more THEN [b EXCEPT !.pc = "create", !.next = n, !.runs = @ + 1]
                    ELSE Left(b)]
      /\ UNCHANGED rows /\ UNCHANGED lock
  BY DEF AdvanceSchedule
<1>6. /\ pass'[p] \in BusyPass /\ pass'[p].scope = b.scope /\ pass'[p].now = b.now
      /\ \/ /\ pass'[p].pc = "create" /\ n <= b.now /\ pass'[p].next = n
            /\ pass'[p].at = a /\ pass'[p].todo = b.todo
         \/ /\ pass'[p].pc = "pick"
            /\ pass'[p].todo = [b.todo EXCEPT ![a] = NotDue]
  <2>1. CASE more
    <3> PICK m \in Rounds : m = b.runs + 1
      BY <1>2, <2>1, NextRound
    <3>1. PICK c : c = [b EXCEPT !.pc = "create", !.next = n, !.runs = m]
      OBVIOUS
    <3>2. /\ c \in BusyPass /\ c.pc = "create" /\ c.next = n
          /\ c.at = a /\ c.todo = b.todo /\ c.scope = b.scope /\ c.now = b.now
      BY <1>2, <1>4, <3>1 DEF BusyPass
    <3>3. pass'[p] = c
      BY <1>5, <2>1, <3>1 DEF IInv, TypeOK
    <3>4. n <= b.now
      BY <2>1 DEF LoopGoesOn
    <3> QED
      BY <3>2, <3>3, <3>4
  <2>2. CASE ~more
    BY <1>2, <1>3, <1>5, <2>2, LeftType DEF IInv, TypeOK
  <2> QED
    BY <2>1, <2>2
<1>7. Agrees(p, a, b.next, b.next + 1)
  BY <1>2 DEF IInv, AtTemplate, FreshFrom
<1>8. /\ \A t \in Templates \ {a} : templates'[t] = templates[t]
      /\ Live(a)' /\ templates'[a].next = n /\ templates'[a] # Unborn
  <2>1. templates[a] \in Template
    BY <1>2, <1>3 DEF IInv, TypeOK, Live
  <2>2. templates'[a] \in Template /\ templates'[a].next = n
    BY <1>3, <1>4, <1>5, <2>1 DEF IInv, TypeOK, Template
  <2>3. \A r \in Template : r # Unborn /\ r # Gone
    BY DEF Template, Unborn, Gone
  <2> QED
    BY <1>3, <1>5, <2>2, <2>3 DEF IInv, TypeOK, Live
<1>9. Fresh(a, n) /\ Fresh(a, n)'
  BY <1>4, <1>5, <1>7 DEF Agrees, Fresh, Days
<1>10. \A t \in Batch(p)' : /\ t \in Batch(p) /\ pass'[p].todo[t] = b.todo[t]
                            /\ pass'[p].pc = "pick" => t # a
  BY <1>2, <1>3, <1>6 DEF Batch, BusyPass
<1>11. \A t \in Batch(p) \ {a} : Agrees(p, t, b.todo[t].next, b.todo[t].next)'
  <2>1. \A t \in Batch(p) \ {a} : t \in Templates /\ Agrees(p, t, b.todo[t].next, b.todo[t].next)
    BY <1>2 DEF IInv, Waiting, Batch
  <2>2. \A t \in Batch(p) \ {a} : \A m : Fresh(t, m) => Fresh(t, m)'
    BY <1>5 DEF Fresh
  <2>3. \A t \in Batch(p) \ {a} : Live(t)' <=> Live(t)
    BY <1>8, <2>1 DEF Live
  <2>4. pass'[p].now = pass[p].now
    BY <1>6
  <2> QED
    BY <1>8, <1>10, <2>1, <2>2, <2>3, <2>4 DEF Agrees
<1>12. pass'[p].pc = "create" => Agrees(p, a, n, n)'
  BY <1>6, <1>8, <1>9 DEF Agrees
<1>13. Holding' /\ AtTemplate' /\ Waiting'
  <2>1. pass'[p].pc \in {"create", "advance"} =>
            Agrees(p, pass[p].at, pass[p].next, FreshFrom(p))'
    BY <1>6, <1>12 DEF FreshFrom
  <2>2. pass'[p].pc \in {"pick", "create", "advance"} =>
            \A t \in Batch(p)' : pass'[p].pc = "pick" \/ t # pass'[p].at =>
               Agrees(p, t, pass[p].todo[t].next, pass[p].todo[t].next)'
    BY <1>6, <1>10, <1>11
  <2> QED
    BY <1>1, <1>5, <1>6, <2>1, <2>2, AloneSuffices
<1>14. Scheduled'
  <2>1. \A t \in Templates \ {a} : Live(t) => Fresh(t, templates[t].next)
    BY <1>1, AllFresh
  <2>2. \A t \in Templates : \A m : Fresh(t, m) => Fresh(t, m)'
    BY <1>5 DEF Fresh
  <2>3. \A t \in Templates \ {a} : /\ templates'[t] = Unborn => Fresh(t, 0)'
                                   /\ Live(t)' => Fresh(t, templates[t].next)'
    BY <1>8, <2>1, <2>2 DEF IInv, Scheduled, Live
  <2>4. Fresh(a, templates[a].next)'
    BY <1>8, <1>9
  <2> QED
    BY <1>8, <2>3, <2>4 DEF Scheduled
<1> QED
  BY <1>5, <1>13, <1>14 DEF IInv, AtMostOnce

LEMMA IInvStep ==
  ASSUME IInv, OrderlyPasses, [Next]_vars
  PROVE  IInv'
<1>1. TypeOK'
  BY TypeStep DEF IInv
<1>2. CASE UserStep
  BY <1>1, <1>2, UserKeeps DEF IInv
<1>3. CASE Midnight \/ UNCHANGED vars
  BY <1>1, <1>3, TemplatesChange DEF Midnight, vars, IInv
<1>4. CASE \E k \in Scopes : LockExpires(k)
  BY <1>1, <1>4, ExpiryKeeps DEF IInv
<1>5. CASE \E p \in Passes : PassStep(p)
  <2> SUFFICES ASSUME NEW p \in Passes, PassStep(p)
               PROVE  Holding' /\ AtTemplate' /\ Waiting' /\ Scheduled' /\ AtMostOnce'
    BY <1>1, <1>5 DEF IInv
  <2> QED
    BY FindKeeps, PickKeeps, DoneKeeps, CreateKeeps, FailKeeps, AdvanceKeeps, EndKeeps
       DEF PassStep
<1>6. CASE \E p \in Passes : LeaveLocked(p)
  BY <1>1, <1>6, EndKeeps DEF IInv
<1>7. CASE \E p \in Passes, k \in Scopes : StartPass(p, k)
  BY <1>1, <1>7, StartKeeps DEF IInv
<1> QED
  BY <1>2, <1>3, <1>4, <1>5, <1>6, <1>7 DEF Next

LEMMA IInvInit == Init => IInv
<1> SUFFICES ASSUME Init
             PROVE  IInv
  OBVIOUS
<1>1. TypeOK
  BY TypeInit
<1>2. Holding /\ AtTemplate /\ Waiting
  BY DEF Init, Holding, AtTemplate, Waiting, Busy, Idle
<1>3. Scheduled /\ AtMostOnce
  BY DEF Init, Scheduled, AtMostOnce, Fresh, Live
<1> QED
  BY <1>1, <1>2, <1>3 DEF IInv

(* No occurrence is booked twice when every pass takes the same lock and   *)
(* none of them dies, outlives the lock or fails between its two commits:  *)
(* whatever the users edit, however many calls of runDue there are, and    *)
(* although ledger transactions may fail and unlocks may be lost.          *)
THEOREM BookedOnce ==
  ASSUME OrderlyPasses
  PROVE  Spec => []AtMostOnce
<1>1. Init => IInv
  BY IInvInit
<1>2. IInv /\ [Next]_vars => IInv'
  BY IInvStep
<1>3. IInv => AtMostOnce
  BY DEF IInv
<1> QED
  BY <1>1, <1>2, <1>3, PTL DEF Spec

-----------------------------------------------------------------------------
(* No occurrence is stepped over.                                          *)
(*                                                                         *)
(* A template and every image of it, however old, stand on the grid of     *)
(* days that starts at the template's first nextRunDate, and each of them  *)
(* only ever stands where the grid below it is in the ledger.              *)

Grid(o, n) == {o + k * n : k \in Nat}

\* Day x is on the grid, and every earlier day of the grid is booked.
Caught(t, o, n, x) ==
    /\ x \in Grid(o, n)
    /\ \A d \in Days : d \in Grid(o, n) /\ d < x => rows[t][d] > 0

ImageCaught(p, t, o, n) ==
    Busy(p) /\ t \in Batch(p) =>
        /\ pass[p].todo[t].period = n
        /\ Caught(t, o, n, pass[p].todo[t].next)

LoopCaught(p, t, o, n) ==
    pass[p].pc \in {"create", "advance"} /\ pass[p].at = t =>
        /\ Caught(t, o, n, pass[p].next)
        /\ pass[p].pc = "advance" /\ pass[p].next \in Days => rows[t][pass[p].next] > 0

Follows(t, o) ==
    LET n == templates[t].period
    IN  /\ Caught(t, o, n, templates[t].next)
        /\ \A p \in Passes : ImageCaught(p, t, o, n) /\ LoopCaught(p, t, o, n)

OnGrid == \A t \in Templates : Live(t) => \E o \in Nat : Follows(t, o)
ImagesAreBorn == \A p \in Passes : Busy(p) => \A t \in Batch(p) : templates[t] # Unborn

GridInv == TypeOK /\ OnGrid /\ ImagesAreBorn

\* The grid: its days are naturals, it goes on, it has no day in between, and
\* what is a multiple of its period away from one of its days is on it.
LEMMA GridDays ==
  ASSUME NEW o \in Nat, NEW n \in Nat \ {0}
  PROVE  /\ Grid(o, n) \subseteq Nat
         /\ o \in Grid(o, n)
         /\ \A x \in Grid(o, n) : x >= o /\ x + n \in Grid(o, n)
<1>1. \A k \in Nat : k * n \in Nat /\ (k + 1) * n = k * n + n
  OBVIOUS
<1>2. o = o + 0 * n
  OBVIOUS
<1>3. ASSUME NEW x \in Grid(o, n)
      PROVE  x \in Nat /\ x >= o /\ x + n \in Grid(o, n)
  <2>1. PICK k \in Nat : x = o + k * n
    BY DEF Grid
  <2> DEFINE m == k * n
  <2>2. m \in Nat /\ x = o + m /\ (k + 1) * n = m + n
    BY <1>1, <2>1
  <2> HIDE DEF m
  <2>3. PICK j \in Nat : j = k + 1
    OBVIOUS
  <2>4. x + n = o + j * n
    BY <2>2, <2>3
  <2>5. x + n \in Grid(o, n)
    BY <2>4 DEF Grid
  <2> QED
    BY <2>2, <2>5
<1> QED
  BY <1>2, <1>3 DEF Grid

LEMMA GridGap ==
  ASSUME NEW o \in Nat, NEW n \in Nat \ {0}, NEW x \in Grid(o, n), NEW d \in Grid(o, n),
         d < x + n
  PROVE  d <= x
<1>1. PICK k \in Nat, j \in Nat : x = o + k * n /\ d = o + j * n
  BY DEF Grid
<1>2. CASE j <= k
  <2>1. j * n <= k * n
    BY <1>2
  <2> QED
    BY <1>1, <2>1
<1>3. CASE j >= k + 1
  <2>1. j * n >= (k + 1) * n /\ (k + 1) * n = k * n + n
    BY <1>3
  <2> QED
    BY <1>1, <2>1
<1> QED
  BY <1>2, <1>3

LEMMA Quotient ==
  ASSUME NEW e \in Nat, NEW n \in Nat \ {0}, e % n = 0
  PROVE  \E j \in Nat : e = j * n
<1>1. e = n * (e \div n)
  OBVIOUS
<1>2. e \div n \in Int /\ e \div n >= 0
  OBVIOUS
<1>3. PICK j \in Nat : j = e \div n
  BY <1>2
<1>4. n * j = j * n
  OBVIOUS
<1>5. e = j * n
  BY <1>1, <1>3, <1>4
<1> QED
  BY <1>5

LEMMA GridMultiple ==
  ASSUME NEW o \in Nat, NEW n \in Nat \ {0}, NEW x \in Grid(o, n), NEW d \in Nat,
         x <= d, (d - x) % n = 0
  PROVE  d \in Grid(o, n)
<1>1. PICK k \in Nat : x = o + k * n
  BY DEF Grid
<1>2. PICK e \in Nat : e = d - x
  BY GridDays
<1>3. PICK j \in Nat : e = j * n
  BY <1>2, Quotient
<1>4. PICK i \in Nat : i = k + j
  OBVIOUS
<1>5. i * n = k * n + j * n /\ k * n \in Nat /\ j * n \in Nat
  BY <1>4
<1>6. d = o + i * n
  <2> DEFINE u == k * n
             v == j * n
             w == i * n
  <2>1. w = u + v /\ u \in Nat /\ v \in Nat /\ x = o + u /\ d = x + v
    BY <1>1, <1>2, <1>3, <1>5, GridDays
  <2> HIDE DEF u, v, w
  <2>2. d = o + w
    BY <2>1
  <2> QED
    BY <2>2 DEF w
<1> QED
  BY <1>6 DEF Grid

\* The images and the loop variable that pass p has of template t after a step
\* stand where one of them, or the stored schedule, stood before it.
StandsAsBefore(p, t) ==
    \/ pass'[p] = pass[p]
    \/ /\ Busy(p)' /\ t \in Batch(p)' =>
            \/ Busy(p) /\ t \in Batch(p) /\ pass'[p].todo[t] = pass[p].todo[t]
            \/ pass'[p].todo[t] = templates[t]
       /\ pass'[p].pc \in {"create", "advance"} /\ pass'[p].at = t =>
            \/ /\ pass[p].pc = "create" /\ pass[p].at = t
               /\ pass'[p].next = pass[p].next
               /\ pass'[p].next \in Days => rows'[t][pass'[p].next] > 0
            \/ /\ Busy(p) /\ t \in Batch(p)
               /\ pass'[p].pc = "create" /\ pass'[p].next = pass[p].todo[t].next

LEMMA GridKept ==
  ASSUME NEW t \in Templates, NEW o \in Nat, Follows(t, o),
         templates'[t].period = templates[t].period, templates'[t].next = templates[t].next,
         \A d \in Days : rows[t][d] > 0 => rows'[t][d] > 0,
         \A p \in Passes : StandsAsBefore(p, t)
  PROVE  Follows(t, o)'
<1> DEFINE n == templates[t].period
<1>1. \A x : Caught(t, o, n, x) => Caught(t, o, n, x)'
  BY DEF Caught
<1>2. n' = n
  OBVIOUS
<1> HIDE DEF n
<1>3. Caught(t, o, n, templates[t].next)'
  BY <1>1, <1>2 DEF Follows, n
<1>4. ASSUME NEW p \in Passes
      PROVE  ImageCaught(p, t, o, n)' /\ LoopCaught(p, t, o, n)'
  <2>1. CASE pass'[p] = pass[p]
    BY <1>1, <1>2, <2>1 DEF Follows, ImageCaught, LoopCaught, Busy, Batch, n
  <2>2. CASE pass'[p] # pass[p]
    <3>1. ImageCaught(p, t, o, n)'
      BY <1>1, <1>2, <1>3, <2>2 DEF StandsAsBefore, Follows, ImageCaught, n
    <3>2. LoopCaught(p, t, o, n)'
      BY <1>1, <1>2, <2>2 DEF StandsAsBefore, Follows, ImageCaught, LoopCaught, n
    <3> QED
      BY <3>1, <3>2
  <2> QED
    BY <2>1, <2>2
<1> QED
  BY <1>2, <1>3, <1>4 DEF Follows, n

\* Which rows a step keeps, and what it may do to a live template.
LEMMA RowsKept ==
  ASSUME TypeOK, Next
  PROVE  \A t \in Templates : \A d \in Days : rows[t][d] > 0 => rows'[t][d] > 0
<1>1. \A k \in 0..MaxRows : Count(k) > 0
  BY RecurringAssumption DEF Count
<1>2. ASSUME NEW p \in Passes, CreateOccurrence(p)
      PROVE  \A t \in Templates : \A d \in Days : rows[t][d] > 0 => rows'[t][d] > 0
  <2>1. rows' = [rows EXCEPT ![pass[p].at][pass[p].next] = Count(@)]
    BY <1>2 DEF CreateOccurrence
  <2>2. rows \in [Templates -> [Days -> 0..MaxRows]]
    BY DEF TypeOK
  <2> QED
    BY <1>1, <2>1, <2>2
<1>3. CASE UNCHANGED rows
  BY <1>3
<1> QED
  BY <1>2, <1>3 DEF Next, UserStep, PassStep, CreateTemplate, UpdateTemplate, DeleteTemplate,
     Midnight, LockExpires, FindDue, PickTemplate, BatchDone, CreateFails,
     AdvanceSchedule, AdvanceFails, EndPass, LeaveLocked, StartPass

\* Only a pass changes a schedule: a user's edit leaves the next date alone, and
\* the period too when clients send no new one.
LEMMA UserKeepsSchedule ==
  ASSUME TypeOK, UserStep, "period" \notin Edits, NEW t \in Templates, Live(t), Live(t)'
  PROVE  templates'[t].period = templates[t].period /\ templates'[t].next = templates[t].next
<1>0. templates \in [Templates -> Template \cup {Unborn, Gone}] /\ templates[t] \in Template
  BY DEF TypeOK, Live
<1>1. ASSUME NEW u \in Templates, NEW dto \in UpdateDto, UpdateTemplate(u, dto)
      PROVE  templates'[t].period = templates[t].period /\ templates'[t].next = templates[t].next
  <2>1. dto.period = Keep
    BY DEF UpdateDto
  <2>2. SetOr(dto.period, templates[t].period) = templates[t].period
    BY <2>1 DEF SetOr
  <2> QED
    BY <1>0, <1>1, <2>2 DEF UpdateTemplate
<1>2. ASSUME NEW u \in Templates, NEW a, NEW n, NEW d, NEW e, CreateTemplate(u, a, n, d, e)
      PROVE  templates'[t] = templates[t]
  BY <1>0, <1>2 DEF CreateTemplate, Live
<1>3. ASSUME NEW u \in Templates, DeleteTemplate(u)
      PROVE  templates'[t] = templates[t]
  BY <1>0, <1>3 DEF DeleteTemplate, Live
<1> QED
  BY <1>1, <1>2, <1>3 DEF UserStep

\* Advancing a schedule by one period steps over nothing: the occurrence the
\* pass is at has just been booked, and all before it were.
LEMMA AdvanceFollows ==
  ASSUME TypeOK, NEW p \in Passes, AdvanceSchedule(p), NEW t \in Templates, t = pass[p].at,
         NEW o \in Nat, Follows(t, o)
  PROVE  /\ Follows(t, o)'
         /\ templates'[t].period = templates[t].period
         /\ templates[t].period \in Nat \ {0}
         /\ templates[t].next \in Grid(o, templates[t].period)
         /\ Caught(t, o, templates[t].period, templates'[t].next)
<1> PICK b, n, x, y, more :
          /\ b = pass[p] /\ n = templates[t].period /\ x = b.next /\ y = Advanced(b)
          /\ more = LoopGoesOn(b, y, b.runs + 1)
  OBVIOUS
<1>1. b \in BusyPass /\ b.pc = "advance" /\ Live(t) /\ Busy(p)
  <2>1. PassStep(p) /\ pass[p].pc = "advance" /\ Live(t)
    BY DEF AdvanceSchedule, PassStep
  <2> QED
    BY <2>1, PassStepBusy DEF Busy, Idle
<1>2. t \in Batch(p) /\ b.todo[t] \in Template
  BY <1>1, ImageType DEF TypeOK
<1>3. templates[t] \in Template /\ n \in Nat \ {0}
  BY <1>1, RecurringAssumption DEF TypeOK, Live, Template
<1>4. b.todo[t].period = n /\ Caught(t, o, n, b.todo[t].next)
  BY <1>1, <1>2 DEF Follows, ImageCaught
<1>5. Caught(t, o, n, x) /\ (x \in Days => rows[t][x] > 0)
  BY <1>1 DEF Follows, LoopCaught
<1>6. y = x + n
  BY <1>4 DEF Advanced
<1>7. y \in Grid(o, n) /\ x \in Nat /\ y \in Nat
  BY <1>3, <1>5, <1>6, GridDays DEF Caught
<1>8. Caught(t, o, n, y)
  <2> SUFFICES ASSUME NEW d \in Days, d \in Grid(o, n), d < y
               PROVE  rows[t][d] > 0
    BY <1>7 DEF Caught
  <2>1. d <= x
    BY <1>3, <1>5, <1>6, GridGap DEF Caught
  <2>2. CASE d = x
    BY <1>5, <2>2
  <2>3. CASE d < x
    BY <1>5, <2>3 DEF Caught
  <2> QED
    BY <1>7, <2>1, <2>2, <2>3, RecurringAssumption DEF Days
<1>9. /\ templates' = [templates EXCEPT ![t].next = y]
      /\ pass' = [pass EXCEPT ![p] =
            IF more THEN [b EXCEPT !.pc = "create", !.next = y, !.runs = @ + 1]
                    ELSE Left(b)]
      /\ UNCHANGED rows
  BY DEF AdvanceSchedule
<1>10. templates'[t].next = y /\ templates'[t].period = n
  BY <1>3, <1>9 DEF TypeOK, Template
<1>11. \A z : Caught(t, o, n, z) <=> Caught(t, o, n, z)'
  BY <1>9 DEF Caught
<1>12. ASSUME NEW q \in Passes
       PROVE  ImageCaught(q, t, o, n)' /\ LoopCaught(q, t, o, n)'
  <2>1. CASE q # p
    <3>1. pass'[q] = pass[q]
      BY <1>9, <2>1 DEF TypeOK
    <3>2. ImageCaught(q, t, o, n) /\ LoopCaught(q, t, o, n)
      BY DEF Follows
    <3> QED
      BY <1>9, <1>11, <3>1, <3>2 DEF ImageCaught, LoopCaught, Busy, Batch
  <2>2. CASE q = p /\ more
    <3>1. PICK c : c = [b EXCEPT !.pc = "create", !.next = y, !.runs = @ + 1]
      OBVIOUS
    <3>2. pass'[p] = c /\ c.pc = "create" /\ c.next = y /\ c.todo = b.todo
      BY <1>1, <1>9, <2>2, <3>1 DEF TypeOK, BusyPass
    <3> QED
      BY <1>4, <1>8, <1>11, <2>2, <3>2 DEF ImageCaught, LoopCaught
  <2>3. CASE q = p /\ ~more
    <3>1. /\ pass'[p].pc = "pick"
          /\ pass'[p].todo = [b.todo EXCEPT ![t] = NotDue]
      BY <1>1, <1>2, <1>9, <2>3, LeftType DEF TypeOK
    <3>2. t \notin Batch(p)'
      BY <1>1, <3>1 DEF Batch, BusyPass
    <3> QED
      BY <2>3, <3>1, <3>2 DEF ImageCaught, LoopCaught
  <2> QED
    BY <2>1, <2>2, <2>3
<1>13. Follows(t, o)'
  <2>1. Caught(t, o, n, templates[t].next)'
    BY <1>8, <1>10, <1>11
  <2> QED
    BY <1>10, <1>12, <2>1 DEF Follows
<1> QED
  BY <1>3, <1>8, <1>10, <1>13 DEF Follows, Caught

\* Every other step of a pass moves along the grid, and takes up born templates.
LEMMA PassStands ==
  ASSUME TypeOK, Next, NEW p \in Passes, NEW t \in Templates,
         ~(AdvanceSchedule(p) /\ t = pass[p].at)
  PROVE  /\ StandsAsBefore(p, t)
         /\ Busy(p)' /\ t \in Batch(p)' => Live(t) \/ (Busy(p) /\ t \in Batch(p))
<1> DEFINE Goal == /\ StandsAsBefore(p, t)
                   /\ Busy(p)' /\ t \in Batch(p)' => Live(t) \/ (Busy(p) /\ t \in Batch(p))
<1>0. pass \in [Passes -> {Idle} \cup BusyPass]
  BY DEF TypeOK
<1>1. CASE pass'[p] = pass[p]
  BY <1>1 DEF StandsAsBefore, Busy, Batch
<1>2. ASSUME NEW q \in Passes, q # p,
             PassStep(q) \/ LeaveLocked(q) \/ \E k \in Scopes : StartPass(q, k)
      PROVE  Goal
  <2>1. pass'[p] = pass[p]
    BY <1>0, <1>2 DEF PassStep, LeaveLocked, StartPass, FindDue, PickTemplate, BatchDone,
       CreateOccurrence, CreateFails, AdvanceSchedule, AdvanceFails, EndPass
  <2> QED
    BY <1>1, <2>1
<1>3. CASE \E k \in Scopes : StartPass(p, k)
  <2>1. /\ pass'[p].pc = "find" /\ pass'[p].todo = NothingDue
    BY <1>0, <1>3 DEF StartPass
  <2>2. t \notin Batch(p)'
    BY <2>1 DEF Batch, NothingDue
  <2> QED
    BY <2>1, <2>2 DEF StandsAsBefore
<1>4. CASE LeaveLocked(p) \/ EndPass(p)
  <2>1. pass'[p] = Idle
    BY <1>0, <1>4 DEF LeaveLocked, EndPass
  <2> QED
    BY <2>1 DEF StandsAsBefore, Busy, Idle
<1>5. ASSUME PassStep(p), ~EndPass(p)
      PROVE  Goal
  <2>1. pass[p] \in BusyPass /\ Busy(p)
    <3>1. pass[p] \in BusyPass
      BY <1>5, PassStepBusy
    <3> QED
      BY <3>1 DEF Busy, BusyPass, Idle
  <2>2. CASE FindDue(p)
    <3>1. /\ pass'[p].pc = "pick"
          /\ pass'[p].todo = [u \in Templates |-> IF Due(u, pass[p].now) THEN templates[u] ELSE NotDue]
      BY <1>0, <2>1, <2>2 DEF FindDue, BusyPass
    <3>2. t \in Batch(p)' => Due(t, pass[p].now) /\ pass'[p].todo[t] = templates[t]
      BY <3>1 DEF Batch
    <3>3. t \in Batch(p)' => Live(t)
      BY <3>2 DEF Due
    <3>4. pass'[p].pc \notin {"create", "advance"}
      BY <3>1
    <3>5. StandsAsBefore(p, t)
      BY <3>2, <3>4 DEF StandsAsBefore
    <3> QED
      BY <3>3, <3>5
  <2>3. CASE PickTemplate(p)
    <3>1. PICK u \in Batch(p) :
            pass' = [pass EXCEPT ![p].pc = "create", ![p].at = u,
                                 ![p].next = pass[p].todo[u].next, ![p].runs = 0]
      BY <2>3 DEF PickTemplate
    <3>2. /\ pass'[p].pc = "create" /\ pass'[p].at = u
          /\ pass'[p].next = pass[p].todo[u].next /\ pass'[p].todo = pass[p].todo
      BY <1>0, <2>1, <3>1 DEF BusyPass
    <3> QED
      BY <2>1, <3>2 DEF StandsAsBefore, Batch
  <2>4. CASE BatchDone(p)
    <3>1. pass'[p].pc = "release" /\ pass'[p].todo = pass[p].todo
      BY <1>0, <2>1, <2>4 DEF BatchDone, BusyPass
    <3> QED
      BY <2>1, <3>1 DEF StandsAsBefore, Batch
  <2>5. CASE CreateOccurrence(p)
    <3>1. /\ pass[p].pc = "create" /\ pass'[p].next = pass[p].next
          /\ pass'[p].at = pass[p].at /\ pass'[p].todo = pass[p].todo
          /\ rows' = [rows EXCEPT ![pass[p].at][pass[p].next] = Count(@)]
      BY <1>0, <2>1, <2>5 DEF CreateOccurrence, BusyPass
    <3>2. \A k \in 0..MaxRows : Count(k) > 0
      BY RecurringAssumption DEF Count
    <3>3. pass[p].at = t /\ pass[p].next \in Days => rows'[t][pass[p].next] > 0
      <4>1. rows \in [Templates -> [Days -> 0..MaxRows]]
        BY DEF TypeOK
      <4> QED
        BY <3>1, <3>2, <4>1
    <3> QED
      BY <2>1, <3>1, <3>3 DEF StandsAsBefore, Batch
  <2>6. CASE CreateFails(p) \/ AdvanceFails(p) \/ AdvanceSchedule(p)
    <3>1. pass[p].at \in Templates /\ pass[p].todo[pass[p].at] \in Template
      BY <2>1, <2>6, ImageType DEF CreateFails, AdvanceFails, AdvanceSchedule, TypeOK
    <3>2. \/ /\ pass'[p].pc = "pick"
             /\ pass'[p].todo = [pass[p].todo EXCEPT ![pass[p].at] = NotDue]
          \/ /\ AdvanceSchedule(p) /\ pass'[p].at = pass[p].at
             /\ pass'[p].todo = pass[p].todo
      <4>1. CASE CreateFails(p) \/ AdvanceFails(p)
        BY <1>0, <2>1, <3>1, <4>1, LeftType DEF CreateFails, AdvanceFails, Failed
      <4>2. CASE AdvanceSchedule(p)
        BY <1>0, <2>1, <3>1, <4>2, LeftType DEF AdvanceSchedule, BusyPass
      <4> QED
        BY <2>6, <4>1, <4>2
    <3>3. t \in Batch(p)' => t \in Batch(p) /\ pass'[p].todo[t] = pass[p].todo[t]
      BY <2>1, <3>1, <3>2 DEF Batch, BusyPass
    <3>4. pass'[p].pc \in {"create", "advance"} => pass'[p].at # t
      BY <3>2
    <3> QED
      BY <2>1, <3>3, <3>4 DEF StandsAsBefore
  <2> QED
    BY <1>5, <2>2, <2>3, <2>4, <2>5, <2>6 DEF PassStep
<1>6. CASE UserStep \/ Midnight \/ \E k \in Scopes : LockExpires(k)
  BY <1>1, <1>6 DEF UserStep, CreateTemplate, UpdateTemplate, DeleteTemplate,
     Midnight, LockExpires
<1> QED
  BY <1>2, <1>3, <1>4, <1>5, <1>6 DEF Next

\* A template that is live before and after a step keeps its grid.
LEMMA FollowsStep ==
  ASSUME TypeOK, Next, "period" \notin Edits, NEW t \in Templates, Live(t), Live(t)',
         NEW o \in Nat, Follows(t, o)
  PROVE  /\ Follows(t, o)'
         /\ \/ templates'[t].next = templates[t].next
            \/ /\ templates[t].period \in Nat \ {0}
               /\ templates[t].next \in Grid(o, templates[t].period)
               /\ Caught(t, o, templates[t].period, templates'[t].next)
<1>1. CASE \E p \in Passes : AdvanceSchedule(p) /\ t = pass[p].at
  BY <1>1, AdvanceFollows
<1>2. CASE ~\E p \in Passes : AdvanceSchedule(p) /\ t = pass[p].at
  <2>1. \A p \in Passes : StandsAsBefore(p, t)
    BY <1>2, PassStands
  <2>2. templates'[t].period = templates[t].period /\ templates'[t].next = templates[t].next
    <3>1. CASE UserStep
      BY <3>1, UserKeepsSchedule
    <3>2. ASSUME NEW p \in Passes, AdvanceSchedule(p)
          PROVE  templates'[t] = templates[t]
      BY <1>2, <3>2 DEF AdvanceSchedule, TypeOK
    <3>3. CASE UNCHANGED templates
      BY <3>3
    <3> QED
      BY <3>1, <3>2, <3>3 DEF Next, PassStep, Midnight, LockExpires, FindDue, PickTemplate,
         BatchDone, CreateOccurrence, CreateFails, AdvanceFails, EndPass, LeaveLocked, StartPass
  <2> QED
    BY <2>1, <2>2, GridKept, RowsKept
<1> QED
  BY <1>1, <1>2

LEMMA GridInvStep ==
  ASSUME GridInv, [Next]_vars, "period" \notin Edits
  PROVE  GridInv'
<1>1. TypeOK /\ TypeOK'
  BY TypeStep DEF GridInv
<1>2. CASE UNCHANGED vars
  <2>1. OnGrid' /\ ImagesAreBorn'
    BY <1>2 DEF GridInv, OnGrid, ImagesAreBorn, Follows, ImageCaught, LoopCaught, Caught, Busy,
       Batch, Live, vars
  <2> QED
    BY <1>1, <2>1 DEF GridInv
<1>3. CASE Next
  <2>1. ASSUME NEW t \in Templates, templates[t] # Unborn
        PROVE  templates'[t] # Unborn
    <3>1. templates \in [Templates -> Template \cup {Unborn, Gone}]
      BY <1>1 DEF TypeOK
    <3>2. \A r \in Template : r # Unborn
      BY DEF Template, Unborn
    <3>3. Gone # Unborn
      BY DEF Gone, Unborn
    <3>4. ASSUME NEW p \in Passes, AdvanceSchedule(p)
          PROVE  templates'[t] # Unborn
      <4>1. PICK n : templates' = [templates EXCEPT ![pass[p].at].next = n]
        BY <3>4 DEF AdvanceSchedule
      <4>2. PICK a : a = pass[p].at
        OBVIOUS
      <4>3. CASE a = t
        <5>1. templates[t] \in Template
          BY <3>1, <3>4, <4>2, <4>3 DEF AdvanceSchedule, Live
        <5>2. templates'[t] \in [{"fits", "period", "next", "end", "active"} ->
                                   {templates'[t][f] : f \in {"fits", "period", "next", "end", "active"}}]
          BY <3>1, <4>1, <4>2, <4>3, <5>1 DEF Template
        <5>3. DOMAIN templates'[t] # DOMAIN Unborn
          BY <5>2 DEF Unborn
        <5> QED
          BY <5>3
      <4>4. CASE a # t
        BY <2>1, <3>1, <4>1, <4>2, <4>4
      <4> QED
        BY <4>3, <4>4
    <3>5. CASE UserStep
      <4>1. ASSUME NEW u \in Templates, NEW dto \in UpdateDto, UpdateTemplate(u, dto)
            PROVE  templates'[t] # Unborn
        BY <2>1, <3>1, <4>1 DEF UpdateTemplate, Unborn
      <4>2. ASSUME NEW u \in Templates, NEW a, NEW n, NEW d, NEW e, CreateTemplate(u, a, n, d, e)
            PROVE  templates'[t] # Unborn
        BY <2>1, <3>1, <4>2 DEF CreateTemplate
      <4>3. ASSUME NEW u \in Templates, DeleteTemplate(u)
            PROVE  templates'[t] # Unborn
        BY <2>1, <3>1, <3>3, <4>3 DEF DeleteTemplate
      <4> QED
        BY <2>1, <3>5, <4>1, <4>2, <4>3 DEF UserStep
    <3>6. CASE UNCHANGED templates
      BY <2>1, <3>6
    <3> QED
      BY <1>3, <3>4, <3>5, <3>6 DEF Next, PassStep, Midnight, LockExpires, FindDue, PickTemplate,
         BatchDone, CreateOccurrence, CreateFails, AdvanceFails, EndPass, LeaveLocked, StartPass
  <2>2. ImagesAreBorn'
    <3> SUFFICES ASSUME NEW p \in Passes, Busy(p)', NEW t \in Batch(p)'
                 PROVE  templates'[t] # Unborn
      BY DEF ImagesAreBorn
    <3>1. t \in Templates
      BY DEF Batch
    <3>2. CASE AdvanceSchedule(p) /\ t = pass[p].at
      <4>1. templates[t] # Unborn
        BY <3>2 DEF AdvanceSchedule, Live
      <4> QED
        BY <2>1, <3>1, <4>1
    <3>3. CASE ~(AdvanceSchedule(p) /\ t = pass[p].at)
      <4>1. Live(t) \/ (Busy(p) /\ t \in Batch(p))
        BY <1>1, <1>3, <3>1, <3>3, PassStands
      <4>2. templates[t] # Unborn
        BY <4>1 DEF GridInv, ImagesAreBorn, Live
      <4> QED
        BY <2>1, <3>1, <4>2
    <3> QED
      BY <3>2, <3>3
  <2>3. OnGrid'
    <3> SUFFICES ASSUME NEW t \in Templates, Live(t)'
                 PROVE  \E o \in Nat : Follows(t, o)'
      BY DEF OnGrid
    <3>1. CASE Live(t)
      <4>1. PICK o \in Nat : Follows(t, o)
        BY <3>1 DEF GridInv, OnGrid
      <4> QED
        BY <1>1, <1>3, <3>1, <4>1, FollowsStep
    <3>2. CASE ~Live(t)
      <4>1. \E fits \in BOOLEAN, n \in Periods, d \in Days, e \in Ends : CreateTemplate(t, fits, n, d, e)
        <5>1. templates'[t] # templates[t]
          BY <3>2 DEF Live
        <5>2. templates \in [Templates -> Template \cup {Unborn, Gone}]
          BY <1>1 DEF TypeOK
        <5>3. ASSUME NEW p \in Passes, AdvanceSchedule(p)
              PROVE  templates'[t] = templates[t]
          BY <3>2, <5>2, <5>3 DEF AdvanceSchedule, Live
        <5>4. ASSUME NEW u \in Templates, NEW dto \in UpdateDto, UpdateTemplate(u, dto)
              PROVE  templates'[t] = templates[t]
          BY <3>2, <5>2, <5>4 DEF UpdateTemplate, Live
        <5>5. ASSUME NEW u \in Templates, DeleteTemplate(u)
              PROVE  templates'[t] = templates[t]
          BY <3>2, <5>2, <5>5 DEF DeleteTemplate, Live
        <5>6. ASSUME NEW u \in Templates, NEW fits \in BOOLEAN, NEW n \in Periods,
                     NEW d \in Days, NEW e \in Ends, CreateTemplate(u, fits, n, d, e)
              PROVE  u = t
          BY <5>1, <5>2, <5>6 DEF CreateTemplate
        <5> QED
          BY <1>3, <5>1, <5>3, <5>4, <5>5, <5>6 DEF Next, UserStep, PassStep,
             Midnight, LockExpires, FindDue, PickTemplate, BatchDone, CreateOccurrence,
             CreateFails, AdvanceFails, EndPass, LeaveLocked, StartPass
      <4>2. PICK fits \in BOOLEAN, n \in Periods, d \in Days, e \in Ends :
               CreateTemplate(t, fits, n, d, e)
        BY <4>1
      <4>3. /\ templates[t] = Unborn /\ UNCHANGED <<pass, rows>>
            /\ templates'[t].period = n /\ templates'[t].next = d
        BY <1>1, <4>2 DEF CreateTemplate, TypeOK
      <4>4. n \in Nat \ {0} /\ d \in Nat
        BY RecurringAssumption DEF Days
      <4>5. Caught(t, d, n, d)'
        <5>1. \A x \in Days : x \in Grid(d, n) => ~(x < d)
          BY <4>4, GridDays
        <5> QED
          BY <4>4, <5>1, GridDays DEF Caught
      <4>6. \A p \in Passes : Busy(p) => t \notin Batch(p)
        BY <4>3 DEF GridInv, ImagesAreBorn
      <4>7. \A p \in Passes : pass[p].pc \in {"create", "advance"} => pass[p].at # t
        BY <1>1, <4>6 DEF TypeOK, Busy, Idle
      <4>8. \A p \in Passes : ImageCaught(p, t, d, n)' /\ LoopCaught(p, t, d, n)'
        BY <4>3, <4>6, <4>7 DEF ImageCaught, LoopCaught, Busy, Batch
      <4>9. Follows(t, d)'
        BY <4>3, <4>5, <4>8 DEF Follows
      <4> QED
        BY <4>4, <4>9
    <3> QED
      BY <3>1, <3>2
  <2> QED
    BY <1>1, <2>2, <2>3 DEF GridInv
<1> QED
  BY <1>2, <1>3

\* Whatever fails, dies, expires or overlaps, a schedule only advances past
\* occurrences that are in the ledger (runDue commits the row before the schedule):
\* an occurrence may be booked twice, it is never stepped over.  Only a client that
\* changes the frequency of a template while a pass holds its image can move the
\* grid itself.
THEOREM NoneSteppedOver ==
  ASSUME "period" \notin Edits
  PROVE  Spec => NothingSteppedOver
<1> DEFINE Steps == \A t \in Templates : Live(t) /\ Live(t)' =>
                        \A d \in Days :
                          /\ templates[t].next <= d /\ d < templates'[t].next
                          /\ (d - templates[t].next) % templates[t].period = 0
                          => rows[t][d] > 0
<1>1. Init => GridInv
  <2>1. Init => TypeOK
    BY TypeInit
  <2>2. Init => OnGrid /\ ImagesAreBorn
    BY DEF Init, OnGrid, ImagesAreBorn, Live, Busy
  <2> QED
    BY <2>1, <2>2 DEF GridInv
<1>2. GridInv /\ [Next]_vars => GridInv'
  BY GridInvStep
<1>3. GridInv /\ [Next]_vars => [Steps]_vars
  <2> SUFFICES ASSUME GridInv, Next, NEW t \in Templates, Live(t), Live(t)', NEW d \in Days,
                      templates[t].next <= d, d < templates'[t].next,
                      (d - templates[t].next) % templates[t].period = 0
               PROVE  rows[t][d] > 0
    OBVIOUS
  <2>1. PICK o \in Nat : Follows(t, o)
    BY DEF GridInv, OnGrid
  <2> DEFINE n == templates[t].period
             x == templates[t].next
             y == templates'[t].next
  <2>2. y = x \/ (n \in Nat \ {0} /\ x \in Grid(o, n) /\ Caught(t, o, n, y))
    BY <2>1, FollowsStep DEF GridInv
  <2>3. x \in Nat /\ d \in Nat
    BY RecurringAssumption DEF GridInv, TypeOK, Live, Template, Days
  <2>4. x <= d /\ d < y /\ (d - x) % n = 0
    OBVIOUS
  <2> HIDE DEF n, x, y
  <2>5. n \in Nat \ {0} /\ x \in Grid(o, n) /\ Caught(t, o, n, y)
    BY <2>2, <2>3, <2>4
  <2>6. d \in Grid(o, n)
    BY <2>3, <2>4, <2>5, GridMultiple
  <2> QED
    BY <2>4, <2>5, <2>6 DEF Caught
<1> QED
  BY <1>1, <1>2, <1>3, PTL DEF Spec, NothingSteppedOver

-----------------------------------------------------------------------------
\* A pass that ends, whichever way, never frees the lock of another one: not even
\* when its own lock expired and the other took the key (the token check of the
\* unlock script in redis.service.ts).
THEOREM UnlockChecksToken == Spec => EndingFreesOnlyOwnLock
<1> DEFINE Kept == \A p, q \in Passes, k \in Scopes :
                      Busy(p) /\ ~Busy(p)' /\ q # p /\ lock[k] = q => lock'[k] = q
<1>1. Init => TypeOK
  BY TypeInit
<1>2. TypeOK /\ [Next]_vars => TypeOK'
  BY TypeStep
<1>3. TypeOK /\ [Next]_vars => [Kept]_vars
  <2> SUFFICES ASSUME TypeOK, Next, NEW p \in Passes, NEW q \in Passes, NEW k \in Scopes,
                      Busy(p), ~Busy(p)', q # p, lock[k] = q
               PROVE  lock'[k] = q
    OBVIOUS
  <2>0. /\ pass \in [Passes -> {Idle} \cup BusyPass]
        /\ lock \in [Scopes -> Passes \cup {Free}]
        /\ pass'[p] # pass[p]
    BY DEF TypeOK, Busy
  <2>1. CASE LeaveLocked(p)
    BY <2>1 DEF LeaveLocked
  <2>2. CASE EndPass(p)
    BY <2>0, <2>2 DEF EndPass, Unlocked
  <2>3. ASSUME PassStep(p), ~EndPass(p)
        PROVE  FALSE
    <3>1. pass[p] \in BusyPass /\ pass'[p].pc # "idle"
      <4>1. pass[p] \in BusyPass
        BY <2>3, PassStepBusy
      <4>2. CASE CreateFails(p) \/ AdvanceFails(p) \/ AdvanceSchedule(p)
        <5>1. pass[p].at \in Templates
          BY <4>1, <4>2, ImageType DEF CreateFails, AdvanceFails, AdvanceSchedule, TypeOK
        <5>2. Left(pass[p]).pc = "pick"
          BY <4>1, <5>1, LeftType
        <5>3. CASE CreateFails(p) \/ AdvanceFails(p)
          BY <2>0, <4>1, <5>2, <5>3 DEF CreateFails, AdvanceFails, Failed
        <5>4. CASE AdvanceSchedule(p)
          BY <2>0, <4>1, <5>2, <5>4 DEF AdvanceSchedule, BusyPass
        <5> QED
          BY <4>2, <5>3, <5>4
      <4>3. CASE FindDue(p) \/ PickTemplate(p) \/ BatchDone(p) \/ CreateOccurrence(p)
        <5>1. CASE FindDue(p)
          BY <2>0, <4>1, <5>1 DEF FindDue, BusyPass
        <5>2. CASE PickTemplate(p)
          BY <2>0, <4>1, <5>2 DEF PickTemplate, BusyPass
        <5>3. CASE BatchDone(p) \/ CreateOccurrence(p)
          BY <2>0, <4>1, <5>3 DEF BatchDone, CreateOccurrence, BusyPass
        <5> QED
          BY <4>3, <5>1, <5>2, <5>3
      <4> QED
        BY <2>3, <4>1, <4>2, <4>3 DEF PassStep
    <3> QED
      BY <3>1 DEF Busy, Idle
  <2>4. ASSUME NEW u \in Passes, u # p,
               PassStep(u) \/ LeaveLocked(u) \/ \E l \in Scopes : StartPass(u, l)
        PROVE  FALSE
    BY <2>0, <2>4 DEF PassStep, LeaveLocked, StartPass, FindDue, PickTemplate, BatchDone,
       CreateOccurrence, CreateFails, AdvanceSchedule, AdvanceFails, EndPass
  <2>5. CASE \E l \in Scopes : StartPass(p, l)
    BY <2>5 DEF StartPass
  <2>6. CASE UserStep \/ Midnight \/ \E l \in Scopes : LockExpires(l)
    BY <2>0, <2>6 DEF UserStep, CreateTemplate, UpdateTemplate, DeleteTemplate,
       Midnight, LockExpires
  <2> QED
    BY <2>1, <2>2, <2>3, <2>4, <2>5, <2>6 DEF Next
<1> QED
  BY <1>1, <1>2, <1>3, PTL DEF Spec, EndingFreesOnlyOwnLock
=============================================================================
