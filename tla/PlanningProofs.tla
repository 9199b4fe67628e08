--------------------------- MODULE PlanningProofs ---------------------------
(* What is proved of savings goals, of categories and of what is classified  *)
(* by them, for every value of the constants.                                *)
EXTENDS Goals, Categories, Classification, MinorUnitsProofs

-----------------------------------------------------------------------------
(* Sums over the contributions of a goal. *)

\* A sum gains what one element gains.
LEMMA TotalEnter ==
  ASSUME NEW S, IsFiniteSet(S), NEW f \in [S -> 0..MaxMinor], NEW i \in S, f[i] = 0,
         NEW x \in 0..MaxMinor
  PROVE  Total([f EXCEPT ![i] = x]) = Total(f) + x /\ Total(f) \in Nat
<1> DEFINE g == [j \in S |-> IF j \in {i} THEN x ELSE 0]
           h == [f EXCEPT ![i] = x]
<1>1. g \in [S -> 0..MaxMinor] /\ h \in [S -> 0..MaxMinor]
  BY MinorAssumption
<1>2. \A j \in S : (f[j] = 0 /\ h[j] = g[j]) \/ (g[j] = 0 /\ h[j] = f[j])
  OBVIOUS
<1>3. Total(h) = Total(f) + Total(g)
  <2> HIDE DEF g, h
  <2> QED
    BY <1>1, <1>2, TotalSplit
<1>4. Cardinality({i}) = 1
  BY FS_Singleton
<1>5. Total(g) = Cardinality({i}) * x
  BY TotalUniform
<1>6. Total(f) \in Nat
  BY TotalType
<1> QED
  BY <1>3, <1>4, <1>5, <1>6

\* Without contributions there is nothing to add up.
LEMMA TotalNothing ==
  ASSUME NEW S, IsFiniteSet(S)
  PROVE  Total([j \in S |-> 0]) = 0
<1> DEFINE g == [j \in S |-> IF j \in {} THEN 0 ELSE 0]
<1>1. Total(g) = Cardinality({}) * 0
  BY TotalUniform, MinorAssumption
<1>2. g = [j \in S |-> 0]
  OBVIOUS
<1> QED
  BY <1>1, <1>2, FS_EmptySet

-----------------------------------------------------------------------------
(* The inductive invariant: the contribution a request is about to remove  *)
(* is gone by now, or is the one the request has read.                     *)

RemovesWhatItRead ==
    \A r \in Requests : req[r].op = "remove" =>
        contributions[req[r].id] \in
            {Gone, [goal |-> req[r].goal, amount |-> req[r].amount]}

GoalsInv == TypeOK /\ NoOrphans /\ CurrentMatchesContributions /\ RemovesWhatItRead

LEMMA AmountType ==
  ASSUME TypeOK, NEW g
  PROVE  AmountIn(g) \in [ContributionIds -> 0..MaxMinor] /\ Total(AmountIn(g)) \in Nat
<1>1. AmountIn(g) \in [ContributionIds -> 0..MaxMinor]
  BY MinorAssumption DEF AmountIn, Live, Contribution
<1> QED
  BY <1>1, GoalsAssumption, TotalType

\* Nulls are not rows.
LEMMA Nulls ==
  /\ Unborn \notin Goal /\ Gone \notin Goal
  /\ Unborn \notin Contribution /\ Gone \notin Contribution
BY GoalsAssumption DEF NoRow

\* The kinds of request are told apart by their op.
LEMMA GoalOps ==
  ASSUME TypeOK, NEW r \in Requests
  PROVE  /\ req[r].op = "add" => req[r] \in AddReq /\ req[r] # Idle
         /\ req[r].op = "remove" => req[r] \in RemoveReq /\ req[r] # Idle
BY DEF TypeOK, Idle, AddReq, RemoveReq

\* Steps that leave the contributions alone, and the amounts of the goals.
LEMMA GoalsOnly ==
  ASSUME GoalsInv, UNCHANGED contributions,
         goals' \in [GoalIds -> Goal \cup NoRow],
         \A g \in GoalIds : LiveGoal(g) => LiveGoal(g)',
         \A g \in GoalIds : LiveGoal(g)' /\ LiveGoal(g) => goals'[g].current = goals[g].current,
         \A g \in GoalIds : LiveGoal(g)' /\ ~LiveGoal(g) => goals'[g].current = 0
  PROVE  NoOrphans' /\ CurrentMatchesContributions'
<1>1. \A c : Live(c)' <=> Live(c)
  BY DEF Live
<1>2. NoOrphans'
  BY <1>1 DEF GoalsInv, NoOrphans, Live, Contribution
<1>3. \A g : AmountIn(g)' = AmountIn(g)
  BY <1>1 DEF AmountIn
<1>4. ASSUME NEW g \in GoalIds, ~LiveGoal(g)
      PROVE  Total(AmountIn(g)) = 0
  <2>1. AmountIn(g) = [c \in ContributionIds |-> 0]
    BY <1>4 DEF GoalsInv, NoOrphans, AmountIn
  <2> QED
    BY <2>1, GoalsAssumption, TotalNothing
<1>5. CurrentMatchesContributions'
  <2> SUFFICES ASSUME NEW g \in GoalIds, LiveGoal(g)'
               PROVE  goals'[g].current = Total(AmountIn(g))'
    BY DEF CurrentMatchesContributions
  <2>1. Total(AmountIn(g))' = Total(AmountIn(g))
    BY <1>3
  <2> QED
    BY <1>4, <2>1 DEF GoalsInv, CurrentMatchesContributions
<1> QED
  BY <1>2, <1>5

\* Creating and editing write one row, and leave the contributions alone.
LEMMA EditStep ==
  ASSUME GoalsInv, NEW g \in GoalIds,
         (\E target \in Amounts : CreateGoal(g, target)) \/ UpdateGoal(g)
  PROVE  GoalsInv'
<1>1. PICK row \in Goal :
          /\ goals' = [goals EXCEPT ![g] = row]
          /\ IF LiveGoal(g) THEN row.current = goals[g].current ELSE row.current = 0
  <2>1. CASE \E target \in Amounts : CreateGoal(g, target)
    <3>1. PICK target \in Amounts : CreateGoal(g, target)
      BY <2>1
    <3>2. [target |-> target, current |-> 0, status |-> "ACTIVE"] \in Goal
      BY GoalsAssumption, MinorAssumption DEF Goal, Statuses, Minor, MinMinor
    <3> QED
      BY <3>1, <3>2, Nulls DEF CreateGoal, LiveGoal
  <2>2. CASE UpdateGoal(g)
    <3>0. goals[g] \in Goal
      BY <2>2 DEF UpdateGoal, LiveGoal
    <3>1. PICK target \in 1..MaxMinor, status \in Statuses :
              goals' = [goals EXCEPT ![g].target = target, ![g].status = status]
      BY <2>2, <3>0, GoalsAssumption DEF UpdateGoal, Goal
    <3>2. PICK row : row = [target |-> target, current |-> goals[g].current,
                            status |-> status]
      OBVIOUS
    <3>3. row \in Goal /\ row.current = goals[g].current
      BY <3>0, <3>2 DEF Goal
    <3>4. goals' = [goals EXCEPT ![g] = row]
      <4>1. [[goals[g] EXCEPT !.target = target] EXCEPT !.status = status] = row
        <5>1. PICK t, c, u : goals[g] = [target |-> t, current |-> c, status |-> u]
          BY <3>0 DEF Goal
        <5>2. [goals[g] EXCEPT !.target = target]
                 = [target |-> target, current |-> c, status |-> u]
          BY <5>1
        <5>3. [[target |-> target, current |-> c, status |-> u] EXCEPT !.status = status]
                 = [target |-> target, current |-> c, status |-> status]
          OBVIOUS
        <5> QED
          BY <3>2, <5>1, <5>2, <5>3
      <4>2. goals'[g] = [[goals[g] EXCEPT !.target = target] EXCEPT !.status = status]
        BY <3>0, <3>1 DEF GoalsInv, TypeOK
      <4>3. \A h \in GoalIds \ {g} : goals'[h] = goals[h]
        BY <3>1 DEF GoalsInv, TypeOK
      <4>4. goals \in [GoalIds -> Goal \cup NoRow] /\ DOMAIN goals' = GoalIds
        BY <3>1 DEF GoalsInv, TypeOK
      <4>5. goals' = [h \in GoalIds |-> goals'[h]]
        BY <3>1 DEF GoalsInv, TypeOK
      <4> QED
        BY <4>1, <4>2, <4>3, <4>4, <4>5
    <3> QED
      BY <3>0, <3>3, <3>4 DEF LiveGoal
  <2> QED
    BY <2>1, <2>2
<1>2. UNCHANGED <<contributions, req>>
  BY DEF CreateGoal, UpdateGoal
<1>3. goals' \in [GoalIds -> Goal \cup NoRow]
  BY <1>1 DEF GoalsInv, TypeOK
<1>4. goals'[g] = row /\ \A h \in GoalIds \ {g} : goals'[h] = goals[h]
  BY <1>1 DEF GoalsInv, TypeOK
<1>5. NoOrphans' /\ CurrentMatchesContributions'
  BY <1>1, <1>2, <1>3, <1>4, GoalsOnly DEF LiveGoal
<1>6. TypeOK'
  BY <1>2, <1>3 DEF GoalsInv, TypeOK
<1>7. RemovesWhatItRead'
  BY <1>2 DEF GoalsInv, RemovesWhatItRead
<1> QED
  BY <1>5, <1>6, <1>7 DEF GoalsInv

\* Deleting a goal takes its contributions along.
LEMMA DeleteStep ==
  ASSUME GoalsInv, NEW g \in GoalIds, DeleteGoal(g)
  PROVE  GoalsInv'
<1>1. /\ goals' = [goals EXCEPT ![g] = Gone]
      /\ contributions' = [c \in ContributionIds |->
                              IF c \in Orphans(g) THEN Gone ELSE contributions[c]]
      /\ req' = req
  BY DEF DeleteGoal
<1>2. TypeOK'
  BY <1>1 DEF GoalsInv, TypeOK, NoRow
<1>3. ASSUME NEW c \in ContributionIds, Live(c)'
      PROVE  Live(c) /\ contributions'[c] = contributions[c] /\ contributions[c].goal # g
  BY <1>1, <1>3, Nulls DEF Live, Orphans
<1>4. NoOrphans'
  BY <1>1, <1>3 DEF GoalsInv, TypeOK, NoOrphans, LiveGoal, Live, Contribution
<1>5. CurrentMatchesContributions'
  <2> SUFFICES ASSUME NEW h \in GoalIds, LiveGoal(h)'
               PROVE  goals'[h].current = Total(AmountIn(h))'
    BY DEF CurrentMatchesContributions
  <2>1. h # g /\ LiveGoal(h) /\ goals'[h] = goals[h]
    BY <1>1, Nulls DEF GoalsInv, TypeOK, LiveGoal
  <2>2. ASSUME NEW c \in ContributionIds
        PROVE  /\ Live(c)' /\ contributions'[c].goal = h
                     <=> Live(c) /\ contributions[c].goal = h
               /\ Live(c)' => contributions'[c] = contributions[c]
    BY <1>1, <1>3, <2>1 DEF Live, Orphans
  <2>3. AmountIn(h)' = AmountIn(h)
    BY <2>2 DEF AmountIn
  <2> QED
    BY <2>1, <2>3 DEF GoalsInv, CurrentMatchesContributions
<1>6. RemovesWhatItRead'
  <2> SUFFICES ASSUME NEW r \in Requests, req[r].op = "remove"
               PROVE  contributions'[req[r].id] \in
                         {Gone, [goal |-> req[r].goal, amount |-> req[r].amount]}
    BY <1>1 DEF RemovesWhatItRead
  <2>1. req[r].id \in ContributionIds
    BY GoalOps DEF GoalsInv, RemoveReq
  <2> QED
    BY <1>1, <2>1 DEF GoalsInv, RemovesWhatItRead
<1> QED
  BY <1>2, <1>4, <1>5, <1>6 DEF GoalsInv

\* A request reads, or its transaction fails.
LEMMA ReadStep ==
  ASSUME GoalsInv, NEW r \in Requests,
         \/ \E g \in GoalIds, amount \in Amounts : ReadForAdd(r, g, amount)
         \/ \E c \in ContributionIds : ReadForRemove(r, c)
         \/ Rollback(r)
  PROVE  GoalsInv'
<1>1. UNCHANGED <<goals, contributions>>
  BY DEF ReadForAdd, ReadForRemove, Rollback
<1>2. /\ req' = [req EXCEPT ![r] = req'[r]]
      /\ req'[r] \in {Idle} \cup AddReq \cup RemoveReq
      /\ req'[r].op = "remove" =>
            contributions[req'[r].id] = [goal |-> req'[r].goal, amount |-> req'[r].amount]
  <2>1. CASE \E g \in GoalIds, amount \in Amounts : ReadForAdd(r, g, amount)
    BY <2>1, GoalsAssumption DEF GoalsInv, TypeOK, ReadForAdd, LiveGoal, AddReq
  <2>2. CASE \E c \in ContributionIds : ReadForRemove(r, c)
    <3>1. PICK c \in ContributionIds : ReadForRemove(r, c)
      BY <2>2
    <3>2. contributions[c] \in Contribution /\ goals[contributions[c].goal] \in Goal
      BY <3>1 DEF GoalsInv, NoOrphans, ReadForRemove, Live, LiveGoal
    <3>3. req'[r] = [op |-> "remove", goal |-> contributions[c].goal,
                     seen |-> goals[contributions[c].goal],
                     id |-> c, amount |-> contributions[c].amount]
      BY <3>1 DEF GoalsInv, TypeOK, ReadForRemove
    <3> QED
      BY <3>1, <3>2, <3>3 DEF GoalsInv, TypeOK, ReadForRemove, RemoveReq, Contribution
  <2>3. CASE Rollback(r)
    BY <2>3 DEF GoalsInv, TypeOK, Rollback, Idle
  <2> QED
    BY <2>1, <2>2, <2>3
<1>3. TypeOK'
  BY <1>1, <1>2 DEF GoalsInv, TypeOK
<1>4. RemovesWhatItRead'
  BY <1>1, <1>2 DEF GoalsInv, TypeOK, RemovesWhatItRead
<1>5. NoOrphans' /\ CurrentMatchesContributions'
  BY <1>1 DEF GoalsInv, NoOrphans, CurrentMatchesContributions, AmountIn, LiveGoal, Live
<1> QED
  BY <1>3, <1>4, <1>5 DEF GoalsInv

\* Writing a goal's amount and status keeps it a goal.
LEMMA RowWritten ==
  ASSUME TypeOK, NEW g \in GoalIds, LiveGoal(g), NEW x \in Minor, NEW u \in Statuses,
         goals' = [goals EXCEPT ![g].current = x, ![g].status = u]
  PROVE  /\ goals' \in [GoalIds -> Goal \cup NoRow]
         /\ goals'[g].current = x
         /\ \A h \in GoalIds \ {g} : goals'[h] = goals[h]
         /\ \A h \in GoalIds : LiveGoal(h)' <=> LiveGoal(h)
<1>1. PICK t \in 1..MaxMinor, c \in Minor, v \in Statuses :
          goals[g] = [target |-> t, current |-> c, status |-> v]
  BY DEF LiveGoal, Goal
<1>2. goals'[g] = [[goals[g] EXCEPT !.current = x] EXCEPT !.status = u]
  BY DEF TypeOK
<1>3. [goals[g] EXCEPT !.current = x] = [target |-> t, current |-> x, status |-> v]
  BY <1>1
<1>4. goals'[g] = [target |-> t, current |-> x, status |-> u]
  BY <1>2, <1>3
<1>5. goals'[g] \in Goal /\ goals'[g].current = x
  <2>1. [target |-> t, current |-> x, status |-> u] \in Goal
    BY DEF Goal
  <2>2. [target |-> t, current |-> x, status |-> u].current = x
    OBVIOUS
  <2> QED
    BY <1>4, <2>1, <2>2
<1>6. \A h \in GoalIds \ {g} : goals'[h] = goals[h]
  BY DEF TypeOK
<1>7. goals' = [h \in GoalIds |-> goals'[h]]
  BY DEF TypeOK
<1>8. goals' \in [GoalIds -> Goal \cup NoRow]
  BY <1>5, <1>6, <1>7 DEF TypeOK
<1> QED
  BY <1>5, <1>6, <1>8 DEF LiveGoal

\* The sums of the other goals do not see a contribution of g come or go.
LEMMA OthersUnmoved ==
  ASSUME GoalsInv, NEW g \in GoalIds, NEW c \in ContributionIds,
         Live(c) => contributions[c].goal = g,
         Live(c)' => contributions'[c].goal = g,
         \A d \in ContributionIds \ {c} : contributions'[d] = contributions[d],
         goals'[g].current = Total(AmountIn(g))',
         \A h \in GoalIds \ {g} : goals'[h] = goals[h],
         \A h \in GoalIds : LiveGoal(h)' <=> LiveGoal(h),
         LiveGoal(g)
  PROVE  CurrentMatchesContributions' /\ NoOrphans'
<1>1. ASSUME NEW h \in GoalIds \ {g}, LiveGoal(h)'
      PROVE  goals'[h].current = Total(AmountIn(h))'
  <2>1. ASSUME NEW d \in ContributionIds
        PROVE  /\ Live(d)' /\ contributions'[d].goal = h
                     <=> Live(d) /\ contributions[d].goal = h
               /\ Live(d)' /\ contributions'[d].goal = h => contributions'[d] = contributions[d]
    BY <1>1 DEF Live
  <2>2. AmountIn(h)' = AmountIn(h)
    BY <2>1 DEF AmountIn
  <2> QED
    BY <1>1, <2>2 DEF GoalsInv, CurrentMatchesContributions
<1>2. CurrentMatchesContributions'
  BY <1>1 DEF CurrentMatchesContributions
<1>3. NoOrphans'
  <2> SUFFICES ASSUME NEW d \in ContributionIds, Live(d)'
               PROVE  goals'[contributions'[d].goal] \in Goal
    BY DEF NoOrphans, LiveGoal
  <2>1. CASE d = c
    BY <2>1 DEF LiveGoal
  <2>2. CASE d # c
    <3>1. Live(d) /\ contributions'[d] = contributions[d]
      BY <2>2 DEF Live
    <3>2. contributions[d].goal \in GoalIds /\ goals[contributions[d].goal] \in Goal
      BY <3>1 DEF GoalsInv, NoOrphans, Live, Contribution, LiveGoal
    <3> QED
      BY <3>1, <3>2 DEF LiveGoal
  <2> QED
    BY <2>1, <2>2
<1> QED
  BY <1>2, <1>3

\* A committed contribution enters its goal's sum.
LEMMA AddStep ==
  ASSUME GoalsInv, NEW r \in Requests, NEW c \in ContributionIds, CommitAdd(r, c)
  PROVE  GoalsInv'
<1>1. PICK g, amount, x, u :
          /\ g = req[r].goal /\ amount = req[r].amount
          /\ x = goals[g].current + amount
          /\ u = IF Promoted(req[r].seen, req[r].seen.current + amount)
                 THEN "ACHIEVED" ELSE goals[g].status
  OBVIOUS
<1>2. /\ g \in GoalIds /\ amount \in 1..MaxMinor /\ goals[g] \in Goal
      /\ contributions[c] = Unborn
  BY <1>1, GoalOps DEF GoalsInv, CommitAdd, AddReq, LiveGoal
<1>3. /\ contributions' = [contributions EXCEPT ![c] = [goal |-> g, amount |-> amount]]
      /\ goals' = [goals EXCEPT ![g].current = x, ![g].status = u]
      /\ req' = [req EXCEPT ![r] = Idle]
      /\ x <= MaxMinor
  BY <1>1, <1>2 DEF GoalsInv, TypeOK, CommitAdd, Incremented, Fits
<1>4. [goal |-> g, amount |-> amount] \in Contribution
  BY <1>2 DEF Contribution
<1>5. AmountIn(g)[c] = 0 /\ AmountIn(g)' = [AmountIn(g) EXCEPT ![c] = amount]
  BY <1>2, <1>3, <1>4, Nulls DEF GoalsInv, TypeOK, AmountIn, Live
<1>6. Total(AmountIn(g))' = x /\ x \in Nat
  <2>1. goals[g].current = Total(AmountIn(g)) /\ Total(AmountIn(g)) \in Nat
    BY <1>2, AmountType DEF GoalsInv, CurrentMatchesContributions, LiveGoal
  <2>2. Total([AmountIn(g) EXCEPT ![c] = amount]) = Total(AmountIn(g)) + amount
    <3>1. PICK f : f = AmountIn(g)
      OBVIOUS
    <3>2. f \in [ContributionIds -> 0..MaxMinor] /\ f[c] = 0
      BY <1>5, <3>1, AmountType DEF GoalsInv
    <3>3. amount \in 0..MaxMinor /\ IsFiniteSet(ContributionIds)
      BY <1>2, MinorAssumption, GoalsAssumption
    <3>4. Total([f EXCEPT ![c] = amount]) = Total(f) + amount
      BY <3>2, <3>3, TotalEnter
    <3> QED
      BY <3>1, <3>4
  <2>3. Total(AmountIn(g))' = Total([AmountIn(g) EXCEPT ![c] = amount])
    BY <1>5
  <2> QED
    BY <1>1, <1>2, <2>1, <2>2, <2>3
<1>7. x \in Minor /\ u \in Statuses
  BY <1>1, <1>2, <1>3, <1>6, MinorAssumption DEF Minor, MinMinor, Goal, Statuses
<1>8. /\ goals' \in [GoalIds -> Goal \cup NoRow]
      /\ goals'[g].current = x
      /\ \A h \in GoalIds \ {g} : goals'[h] = goals[h]
      /\ \A h \in GoalIds : LiveGoal(h)' <=> LiveGoal(h)
  BY <1>2, <1>3, <1>7, RowWritten DEF GoalsInv, LiveGoal
<1>9. NoOrphans' /\ CurrentMatchesContributions'
  <2>1. ~Live(c) /\ contributions'[c].goal = g
    BY <1>2, <1>3, Nulls DEF GoalsInv, TypeOK, Live
  <2>2. \A d \in ContributionIds \ {c} : contributions'[d] = contributions[d]
    BY <1>3 DEF GoalsInv, TypeOK
  <2> QED
    BY <1>2, <1>6, <1>8, <2>1, <2>2, OthersUnmoved DEF LiveGoal
<1>10. TypeOK'
  BY <1>3, <1>4, <1>8 DEF GoalsInv, TypeOK
<1>11. RemovesWhatItRead'
  <2> SUFFICES ASSUME NEW s \in Requests, req'[s].op = "remove"
               PROVE  contributions'[req'[s].id] \in
                         {Gone, [goal |-> req'[s].goal, amount |-> req'[s].amount]}
    BY DEF RemovesWhatItRead
  <2>1. req'[s] = req[s]
    BY <1>3 DEF GoalsInv, TypeOK, Idle
  <2>2. /\ req[s].id \in ContributionIds
        /\ contributions[req[s].id] \in
              {Gone, [goal |-> req[s].goal, amount |-> req[s].amount]}
    BY <2>1, GoalOps DEF GoalsInv, RemovesWhatItRead, RemoveReq
  <2>3. req[s].id # c
    <3>1. req[s].goal \in GoalIds /\ req[s].amount \in 1..MaxMinor
      BY <2>1, GoalOps DEF GoalsInv, RemoveReq
    <3>2. [goal |-> req[s].goal, amount |-> req[s].amount] \in Contribution
      BY <3>1 DEF Contribution
    <3> QED
      BY <1>2, <2>2, <3>2, Nulls, GoalsAssumption
  <2> QED
    BY <1>3, <2>1, <2>2, <2>3 DEF GoalsInv, TypeOK
<1> QED
  BY <1>9, <1>10, <1>11 DEF GoalsInv

\* A removed contribution leaves its goal's sum; the sum stays positive.
LEMMA RemoveStep ==
  ASSUME GoalsInv, NEW r \in Requests, CommitRemove(r)
  PROVE  GoalsInv'
<1>1. PICK g, c, amount, x, u :
          /\ g = req[r].goal /\ c = req[r].id /\ amount = req[r].amount
          /\ x = goals[g].current - amount
          /\ u = IF Demoted(req[r].seen, req[r].seen.current - amount)
                 THEN "ACTIVE" ELSE goals[g].status
  OBVIOUS
<1>2. /\ g \in GoalIds /\ c \in ContributionIds /\ amount \in 1..MaxMinor
      /\ goals[g] \in Goal
      /\ contributions[c] = [goal |-> g, amount |-> amount]
  <2>1. req[r].op = "remove" /\ Live(c) /\ LiveGoal(g)
    BY <1>1 DEF CommitRemove, DeletedOnce
  <2>2. contributions[c] # Gone
    BY <2>1, Nulls DEF Live
  <2> QED
    BY <1>1, <2>1, <2>2, GoalOps DEF GoalsInv, RemovesWhatItRead, RemoveReq, LiveGoal
<1>3. /\ contributions' = [contributions EXCEPT ![c] = Gone]
      /\ goals' = [goals EXCEPT ![g].current = x, ![g].status = u]
      /\ req' = [req EXCEPT ![r] = Idle]
  <2>1. goals[g].current + -amount = goals[g].current - amount
    BY <1>2 DEF Goal, Minor, MinMinor
  <2> QED
    BY <1>1, <1>2, <2>1 DEF GoalsInv, TypeOK, CommitRemove, Incremented
<1>4. Live(c) /\ contributions[c].goal = g
  BY <1>2 DEF Live, Contribution
<1>5. /\ AmountIn(g)[c] = amount
      /\ AmountIn(g)' = [d \in ContributionIds |-> IF d = c THEN 0 ELSE AmountIn(g)[d]]
  BY <1>2, <1>3, <1>4, Nulls DEF GoalsInv, TypeOK, AmountIn, Live
<1>6. Total(AmountIn(g))' = x /\ x \in Nat /\ x <= goals[g].current
  <2>1. goals[g].current = Total(AmountIn(g))
    BY <1>2 DEF GoalsInv, CurrentMatchesContributions, LiveGoal
  <2>2. PICK f : f = AmountIn(g)'
    OBVIOUS
  <2>3. f = [d \in ContributionIds |-> IF d = c THEN 0 ELSE AmountIn(g)[d]]
    BY <1>5, <2>2
  <2>4. f \in [ContributionIds -> 0..MaxMinor] /\ f[c] = 0
    BY <1>2, <2>3, AmountType, MinorAssumption DEF GoalsInv
  <2>5. amount \in 0..MaxMinor /\ IsFiniteSet(ContributionIds)
    BY <1>2, MinorAssumption, GoalsAssumption
  <2>6. Total([f EXCEPT ![c] = amount]) = Total(f) + amount /\ Total(f) \in Nat
    BY <1>2, <2>4, <2>5, TotalEnter
  <2>7. Total(AmountIn(g)) = Total(f) + amount
    <3>1. [f EXCEPT ![c] = amount] = AmountIn(g)
      BY <1>2, <1>5, <2>3 DEF AmountIn
    <3> QED
      BY <2>6, <3>1
  <2>8. Total(AmountIn(g))' = Total(f)
    BY <2>2
  <2> QED
    BY <1>1, <1>2, <2>1, <2>6, <2>7, <2>8
<1>7. x \in Minor /\ u \in Statuses
  BY <1>1, <1>2, <1>6, MinorAssumption DEF Minor, MinMinor, Goal, Statuses
<1>8. /\ goals' \in [GoalIds -> Goal \cup NoRow]
      /\ goals'[g].current = x
      /\ \A h \in GoalIds \ {g} : goals'[h] = goals[h]
      /\ \A h \in GoalIds : LiveGoal(h)' <=> LiveGoal(h)
  BY <1>2, <1>3, <1>7, RowWritten DEF GoalsInv, LiveGoal
<1>9. NoOrphans' /\ CurrentMatchesContributions'
  <2>1. ~Live(c)'
    BY <1>2, <1>3, Nulls DEF GoalsInv, TypeOK, Live
  <2>2. \A d \in ContributionIds \ {c} : contributions'[d] = contributions[d]
    BY <1>3 DEF GoalsInv, TypeOK
  <2> QED
    BY <1>2, <1>4, <1>6, <1>8, <2>1, <2>2, OthersUnmoved DEF LiveGoal
<1>10. TypeOK'
  BY <1>3, <1>8 DEF GoalsInv, TypeOK, NoRow
<1>11. RemovesWhatItRead'
  <2> SUFFICES ASSUME NEW s \in Requests, req'[s].op = "remove"
               PROVE  contributions'[req'[s].id] \in
                         {Gone, [goal |-> req'[s].goal, amount |-> req'[s].amount]}
    BY DEF RemovesWhatItRead
  <2>1. req'[s] = req[s]
    BY <1>3 DEF GoalsInv, TypeOK, Idle
  <2>2. req[s].id \in ContributionIds
    BY <2>1, GoalOps DEF GoalsInv, RemoveReq
  <2> QED
    BY <1>2, <1>3, <2>1, <2>2 DEF GoalsInv, TypeOK, RemovesWhatItRead
<1> QED
  BY <1>9, <1>10, <1>11 DEF GoalsInv

-----------------------------------------------------------------------------
LEMMA GoalsInvInit == Init => GoalsInv
<1> SUFFICES ASSUME Init PROVE GoalsInv
  OBVIOUS
<1>1. TypeOK
  BY DEF Init, TypeOK, NoRow
<1>2. NoOrphans /\ CurrentMatchesContributions
  BY Nulls DEF Init, NoOrphans, CurrentMatchesContributions, Live, LiveGoal
<1>3. RemovesWhatItRead
  BY DEF Init, RemovesWhatItRead, Idle
<1> QED
  BY <1>1, <1>2, <1>3 DEF GoalsInv

LEMMA GoalsInvStep == GoalsInv /\ [Next]_vars => GoalsInv'
<1> SUFFICES ASSUME GoalsInv, [Next]_vars PROVE GoalsInv'
  OBVIOUS
<1>1. CASE UNCHANGED vars
  BY <1>1 DEF vars, GoalsInv, TypeOK, NoOrphans, CurrentMatchesContributions,
              RemovesWhatItRead, AmountIn, Live, LiveGoal
<1>2. ASSUME NEW g \in GoalIds, GoalStep(g) PROVE GoalsInv'
  BY <1>2, EditStep, DeleteStep DEF GoalStep
<1>3. ASSUME NEW r \in Requests, ContributionStep(r) PROVE GoalsInv'
  BY <1>3, ReadStep, AddStep, RemoveStep DEF ContributionStep
<1> QED
  BY <1>1, <1>2, <1>3 DEF Next

-----------------------------------------------------------------------------
(* Commits that see their goal as it is. *)

\* What is left and what is new in a row of which two fields are written.
LEMMA FieldsWritten ==
  ASSUME TypeOK, NEW g \in GoalIds, goals[g] \in Goal, NEW x, NEW u,
         goals' = [goals EXCEPT ![g].current = x, ![g].status = u]
  PROVE  /\ goals'[g].target = goals[g].target
         /\ goals'[g].current = x
         /\ goals'[g].status = u
<1>1. goals'[g] = [[goals[g] EXCEPT !.current = x] EXCEPT !.status = u]
  BY DEF TypeOK
<1>2. PICK t, c, v : goals[g] = [target |-> t, current |-> c, status |-> v]
  BY DEF Goal
<1>3. [goals[g] EXCEPT !.current = x] = [target |-> t, current |-> x, status |-> v]
  BY <1>2
<1>4. goals'[g] = [target |-> t, current |-> x, status |-> u]
  BY <1>1, <1>3
<1> QED
  BY <1>2, <1>4

\* A fresh commit adds n to the amount, or takes n from it, and decides the
\* status from the row it changes.
LEMMA FreshWrites ==
  ASSUME GoalsInv, Next, NEW r \in Requests, NEW g \in GoalIds, FreshCommit(r, g)
  PROVE  /\ goals[g] \in Goal
         /\ goals'[g].target = goals[g].target
         /\ \E n \in 1..MaxMinor :
               \/ /\ goals'[g].current = goals[g].current + n
                  /\ goals'[g].status = IF Promoted(goals[g], goals[g].current + n)
                                        THEN "ACHIEVED" ELSE goals[g].status
               \/ /\ goals'[g].current = goals[g].current - n
                  /\ goals'[g].status = IF Demoted(goals[g], goals[g].current - n)
                                        THEN "ACTIVE" ELSE goals[g].status
<1>1. req[r] # Idle /\ req'[r] = Idle /\ contributions' # contributions
      /\ req[r].goal = g /\ req[r].seen = goals[g]
  BY DEF FreshCommit
<1>2. CommitRemove(r) \/ \E c \in ContributionIds : CommitAdd(r, c)
  <2>1. PICK s \in Requests : CommitRemove(s) \/ \E c \in ContributionIds : CommitAdd(s, c)
    BY <1>1 DEF Next, GoalStep, CreateGoal, UpdateGoal, DeleteGoal,
                ContributionStep, ReadForAdd, ReadForRemove, Rollback
  <2>2. req' = [req EXCEPT ![s] = Idle]
    BY <2>1 DEF CommitRemove, CommitAdd
  <2>3. s = r
    BY <1>1, <2>2 DEF GoalsInv, TypeOK
  <2> QED
    BY <2>1, <2>3
<1>3. PICK n : n = req[r].amount
  OBVIOUS
<1>4. CASE CommitRemove(r)
  <2>1. n \in 1..MaxMinor /\ goals[g] \in Goal
    BY <1>1, <1>3, <1>4, GoalOps DEF GoalsInv, CommitRemove, RemoveReq, LiveGoal
  <2>2. PICK u : u = IF Demoted(goals[g], goals[g].current - n) THEN "ACTIVE" ELSE goals[g].status
    OBVIOUS
  <2>3. goals' = [goals EXCEPT ![g].current = goals[g].current - n, ![g].status = u]
    <3>1. goals[g].current + -n = goals[g].current - n
      BY <2>1 DEF Goal, Minor
    <3> QED
      BY <1>1, <1>3, <1>4, <2>2, <3>1 DEF CommitRemove, Incremented
  <2>4. goals'[g].target = goals[g].target /\ goals'[g].current = goals[g].current - n
        /\ goals'[g].status = u
    BY <2>1, <2>3, FieldsWritten DEF GoalsInv
  <2> QED
    BY <2>1, <2>2, <2>4
<1>5. ASSUME NEW i \in ContributionIds, CommitAdd(r, i)
      PROVE  /\ n \in 1..MaxMinor /\ goals[g] \in Goal
             /\ goals'[g].target = goals[g].target
             /\ goals'[g].current = goals[g].current + n
             /\ goals'[g].status = IF Promoted(goals[g], goals[g].current + n)
                                   THEN "ACHIEVED" ELSE goals[g].status
  <2>1. n \in 1..MaxMinor /\ goals[g] \in Goal
    BY <1>1, <1>3, <1>5, GoalOps DEF GoalsInv, CommitAdd, AddReq, LiveGoal
  <2>2. PICK u : u = IF Promoted(goals[g], goals[g].current + n) THEN "ACHIEVED" ELSE goals[g].status
    OBVIOUS
  <2>3. goals' = [goals EXCEPT ![g].current = goals[g].current + n, ![g].status = u]
    BY <1>1, <1>3, <1>5, <2>2 DEF CommitAdd, Incremented
  <2>4. goals'[g].target = goals[g].target /\ goals'[g].current = goals[g].current + n
        /\ goals'[g].status = u
    BY <2>1, <2>3, FieldsWritten DEF GoalsInv
  <2> QED
    BY <2>1, <2>2, <2>4
<1> QED
  BY <1>2, <1>4, <1>5

-----------------------------------------------------------------------------
\* Every variable keeps its type: a stored amount never leaves its column,
\* although a removal subtracts without looking at it.
THEOREM GoalsTypeCorrect == Spec => []TypeOK
<1>1. GoalsInv => TypeOK
  BY DEF GoalsInv
<1> QED
  BY <1>1, GoalsInvInit, GoalsInvStep, PTL DEF Spec

\* However contribution requests, edits and deletes interleave, the amount a
\* goal stores is the sum of its contributions.
THEOREM CurrentIsSum == Spec => []CurrentMatchesContributions
<1>1. GoalsInv => CurrentMatchesContributions
  BY DEF GoalsInv
<1> QED
  BY <1>1, GoalsInvInit, GoalsInvStep, PTL DEF Spec

\* No contribution outlives its goal.
THEOREM ContributionsHaveGoals == Spec => []NoOrphans
<1>1. GoalsInv => NoOrphans
  BY DEF GoalsInv
<1> QED
  BY <1>1, GoalsInvInit, GoalsInvStep, PTL DEF Spec

\* A commit that sees its goal as it is keeps the status in step with the
\* amount, whatever runs at the same time.
THEOREM FreshCommitsInSync == Spec => FreshCommitsKeepStatus
<1>1. ASSUME GoalsInv, Next, NEW r \in Requests, NEW g \in GoalIds,
             FreshCommit(r, g), InSync(goals[g])
      PROVE  InSync(goals'[g])
  <2>1. PICK n \in 1..MaxMinor :
               \/ /\ goals'[g].current = goals[g].current + n
                  /\ goals'[g].status = IF Promoted(goals[g], goals[g].current + n)
                                        THEN "ACHIEVED" ELSE goals[g].status
               \/ /\ goals'[g].current = goals[g].current - n
                  /\ goals'[g].status = IF Demoted(goals[g], goals[g].current - n)
                                        THEN "ACTIVE" ELSE goals[g].status
    BY <1>1, FreshWrites
  <2>2. /\ goals'[g].target = goals[g].target /\ goals[g].target \in Int
        /\ goals[g].current \in Int /\ goals[g].status \in Statuses /\ n \in Int
    BY <1>1, FreshWrites DEF Goal, Minor
  <2> QED
    BY <1>1, <2>1, <2>2 DEF InSync, Promoted, Demoted, Statuses
<1>2. GoalsInv /\ [Next]_vars =>
         [\A r \in Requests, g \in GoalIds :
             FreshCommit(r, g) /\ InSync(goals[g]) => InSync(goals'[g])]_vars
  BY <1>1
<1> QED
  BY <1>2, GoalsInvInit, GoalsInvStep, PTL DEF Spec, FreshCommitsKeepStatus

\* A commit that sees its goal archived leaves it archived.
THEOREM FreshCommitsUnarchiveNothing == Spec => FreshCommitsKeepArchived
<1>1. ASSUME GoalsInv, Next, NEW r \in Requests, NEW g \in GoalIds,
             FreshCommit(r, g), goals[g].status = "ARCHIVED"
      PROVE  goals'[g].status = "ARCHIVED"
  BY <1>1, FreshWrites DEF Promoted, Demoted
<1>2. GoalsInv /\ [Next]_vars =>
         [\A r \in Requests, g \in GoalIds :
             FreshCommit(r, g) /\ goals[g].status = "ARCHIVED"
             => goals'[g].status = "ARCHIVED"]_vars
  BY <1>1
<1> QED
  BY <1>2, GoalsInvInit, GoalsInvStep, PTL DEF Spec, FreshCommitsKeepArchived

-----------------------------------------------------------------------------
(* Categories. *)

(* The invariant of all executions: what a request has checked stays true  *)
(* of the types until it writes.                                           *)
PendingTyped ==
    \A r \in Writers :
        /\ pending[r].op = "create" =>
              Exists(pending[r].parent) /\ categories[pending[r].parent].type = pending[r].type
        /\ pending[r].op = "move" =>
              /\ Exists(pending[r].id) /\ Exists(pending[r].parent) /\ pending[r].id # pending[r].parent
              /\ categories[pending[r].parent].type = categories[pending[r].id].type

CategoriesInv == CategoriesTypeOK /\ SameTypeNesting /\ PendingTyped

(* The invariant of executions whose moves do not overlap: the parent a    *)
(* move has checked is still a root, and no set of rows holds all of its   *)
(* own parents.                                                            *)
OneMove == \A r, s \in Writers : pending[r].op = "move" /\ pending[s].op = "move" => r = s
PendingRoot ==
    \A r \in Writers : pending[r].op = "move" => categories[pending[r].parent].parent = NoParent
NoRing == \A C \in SUBSET Rows : C # {} => \E c \in C : categories[c].parent \notin C

SerialInv == OneMove /\ PendingRoot /\ NoRing

-----------------------------------------------------------------------------
LEMMA CategoryOps ==
  ASSUME CategoriesTypeOK, NEW r \in Writers
  PROVE  /\ pending[r].op = "create" => pending[r] \in CreateReq /\ pending[r] # NoWrite
         /\ pending[r].op = "move" => pending[r] \in MoveReq /\ pending[r] # NoWrite
         /\ pending[r] # NoWrite => pending[r].op \in {"create", "move"}
BY DEF CategoriesTypeOK, NoWrite, CreateReq, MoveReq

\* The rows a request may write: a new row or one that keeps its type, at the
\* top or under another row of its type.
Writes(c, row) ==
    /\ row \in Category
    /\ categories' = [categories EXCEPT ![c] = row]
    /\ Exists(c) => row.type = categories[c].type
    /\ row.parent # NoParent =>
          /\ row.parent # c /\ Exists(row.parent)
          /\ categories[row.parent].type = row.type

LEMMA WritesOneRow ==
  ASSUME CategoriesInv, NEW c \in Ids, NEW row, Writes(c, row)
  PROVE  /\ categories'[c] = row
         /\ \A d \in Ids \ {c} : categories'[d] = categories[d]
         /\ categories' \in [Ids -> Category \cup {Uncreated}]
         /\ Rows' = Rows \cup {c}
         /\ \A d \in Rows : categories'[d].type = categories[d].type
         /\ \A d \in Ids : Exists(d)' => categories'[d].parent # d
         /\ SameTypeNesting'
<1>1. /\ categories'[c] = row
      /\ \A d \in Ids \ {c} : categories'[d] = categories[d]
      /\ categories' \in [Ids -> Category \cup {Uncreated}]
  BY DEF Writes, CategoriesInv, CategoriesTypeOK
<1>2. Rows' = Rows \cup {c}
  BY <1>1 DEF Rows, Exists, Writes
<1>3. \A d \in Rows : categories'[d].type = categories[d].type
  BY <1>1 DEF Rows, Writes
<1>4. \A d \in Ids : Exists(d)' => categories'[d].parent # d
  BY <1>1, CategoriesAssumption DEF Writes, CategoriesInv, CategoriesTypeOK, Exists
<1>5. SameTypeNesting'
  <2> SUFFICES ASSUME NEW d \in Rows', categories'[d].parent # NoParent
               PROVE  /\ categories'[d].parent \in Rows'
                      /\ categories'[categories'[d].parent].type = categories'[d].type
    BY DEF SameTypeNesting
  <2>1. CASE d = c
    BY <1>1, <1>2, <1>3, <2>1 DEF Writes, Rows, Category
  <2>2. CASE d # c
    <3>1. d \in Rows /\ categories'[d] = categories[d]
      BY <1>1, <1>2, <2>2 DEF Rows
    <3> QED
      BY <1>2, <1>3, <3>1 DEF CategoriesInv, SameTypeNesting
  <2> QED
    BY <2>1, <2>2
<1> QED
  BY <1>1, <1>2, <1>3, <1>4, <1>5

\* Moving, to the top or under a row of the same type, is such a write.
LEMMA MoveWrites ==
  ASSUME CategoriesInv, NEW c \in Ids, Exists(c), NEW p \in Ids \cup {NoParent},
         categories' = [categories EXCEPT ![c].parent = p],
         p # NoParent => p # c /\ Exists(p) /\ categories[p].type = categories[c].type
  PROVE  \E row \in Category : Writes(c, row) /\ row.parent = p
<1>1. PICK row : row = [categories[c] EXCEPT !.parent = p]
  OBVIOUS
<1>2. row \in Category /\ row.type = categories[c].type /\ row.parent = p
  BY <1>1 DEF Exists, Category
<1>3. categories' = [categories EXCEPT ![c] = row]
  BY <1>1
<1> QED
  BY <1>2, <1>3 DEF Writes

LEMMA CreateWrites ==
  ASSUME CategoriesInv, NEW c \in Ids, categories[c] = Uncreated, NEW type \in FlowTypes,
         NEW p \in Ids \cup {NoParent},
         categories' = [categories EXCEPT ![c] = Row(type, p)],
         p # NoParent => Exists(p) /\ categories[p].type = type
  PROVE  \E row \in Category : Writes(c, row) /\ row.parent = p /\ ~Exists(c)
<1>1. PICK row : row = [type |-> type, parent |-> p, archived |-> FALSE]
  OBVIOUS
<1>2. row \in Category /\ row.type = type /\ row.parent = p
  BY <1>1 DEF Category
<1>3. ~Exists(c)
  BY CategoriesAssumption DEF Exists
<1>4. categories' = [categories EXCEPT ![c] = row]
  BY <1>1 DEF Row
<1> QED
  BY <1>2, <1>3, <1>4 DEF Writes, Exists

LEMMA ArchiveWrites ==
  ASSUME CategoriesInv, NEW c \in Ids, Archive(c)
  PROVE  \E row \in Category : Writes(c, row) /\ row.parent = categories[c].parent /\ Exists(c)
<1>1. PICK row : row = [categories[c] EXCEPT !.archived = TRUE]
  OBVIOUS
<1>2. /\ row \in Category /\ row.type = categories[c].type
      /\ row.parent = categories[c].parent
  BY <1>1 DEF Archive, Exists, Category
<1>3. categories' = [categories EXCEPT ![c] = row]
  BY <1>1 DEF Archive
<1>4. row.parent # NoParent => /\ row.parent # c /\ Exists(row.parent)
                               /\ categories[row.parent].type = row.type
  BY <1>2 DEF CategoriesInv, CategoriesTypeOK, SameTypeNesting, Rows, Archive
<1> QED
  BY <1>2, <1>3, <1>4 DEF Writes, Archive

\* Every step that changes a category is a write, and says under what.
LEMMA StepWrites ==
  ASSUME CategoriesInv, [CategoriesNext]_categoryVars
  PROVE  \/ UNCHANGED categories
         \/ \E c \in Ids, row \in Category :
               /\ Writes(c, row) /\ UNCHANGED pending /\ Exists(c)
               /\ row.parent \in {NoParent, categories[c].parent}
         \/ \E c \in Ids, row \in Category : Writes(c, row) /\ UNCHANGED pending /\ ~Exists(c)
         \/ \E c \in Ids, row \in Category, r \in Writers :
               Writes(c, row) /\ ~Exists(c) /\ pending' = [pending EXCEPT ![r] = NoWrite]
         \/ \E row \in Category, r \in Writers :
               /\ pending[r].op = "move" /\ pending[r].id \in Ids
               /\ Writes(pending[r].id, row) /\ row.parent = pending[r].parent
               /\ pending' = [pending EXCEPT ![r] = NoWrite]
<1>1. CASE UNCHANGED categoryVars
  BY <1>1 DEF categoryVars
<1>2. ASSUME NEW c \in Ids, NEW type \in FlowTypes, CreateRoot(c, type)
      PROVE  \E row \in Category : Writes(c, row) /\ UNCHANGED pending /\ ~Exists(c)
  BY <1>2, CreateWrites DEF CreateRoot
<1>3. ASSUME NEW c \in Ids, MoveToTop(c)
      PROVE  \E row \in Category : Writes(c, row) /\ UNCHANGED pending /\ Exists(c) /\ row.parent = NoParent
  BY <1>3, MoveWrites DEF MoveToTop
<1>4. ASSUME NEW c \in Ids, Archive(c)
      PROVE  \E row \in Category : /\ Writes(c, row) /\ UNCHANGED pending /\ Exists(c)
                      /\ row.parent = categories[c].parent
  BY <1>4, ArchiveWrites DEF Archive
<1>5. ASSUME NEW r \in Writers, NEW c \in Ids, CommitCreate(r, c)
      PROVE  \E row \in Category : Writes(c, row) /\ ~Exists(c) /\ pending' = [pending EXCEPT ![r] = NoWrite]
  <2>1. /\ pending[r].type \in FlowTypes /\ pending[r].parent \in Ids
        /\ Exists(pending[r].parent) /\ categories[pending[r].parent].type = pending[r].type
    BY <1>5, CategoryOps DEF CategoriesInv, PendingTyped, CommitCreate, CreateReq
  <2> QED
    BY <1>5, <2>1, CreateWrites DEF CommitCreate
<1>6. ASSUME NEW r \in Writers, CommitMove(r)
      PROVE  \E row \in Category : /\ pending[r].op = "move" /\ pending[r].id \in Ids
                      /\ Writes(pending[r].id, row) /\ row.parent = pending[r].parent
                      /\ pending' = [pending EXCEPT ![r] = NoWrite]
  <2>1. /\ pending[r].id \in Ids /\ pending[r].parent \in Ids
        /\ Exists(pending[r].id) /\ Exists(pending[r].parent) /\ pending[r].id # pending[r].parent
        /\ categories[pending[r].parent].type = categories[pending[r].id].type
    BY <1>6, CategoryOps DEF CategoriesInv, PendingTyped, CommitMove, MoveReq
  <2> QED
    BY <1>6, <2>1, MoveWrites DEF CommitMove
<1>7. ASSUME NEW c \in Ids, CategoryStep(c)
      PROVE  \E row \in Category : /\ Writes(c, row) /\ UNCHANGED pending
                      /\ \/ ~Exists(c)
                         \/ Exists(c) /\ row.parent \in {NoParent, categories[c].parent}
  BY <1>2, <1>3, <1>4, <1>7 DEF CategoryStep
<1>8. ASSUME NEW r \in Writers, RequestStep(r)
      PROVE  \/ UNCHANGED categories
             \/ \E c \in Ids : CommitCreate(r, c)
             \/ CommitMove(r)
  BY <1>8 DEF RequestStep, CheckForCreate, CheckForMove, GiveUp
<1> QED
  <2>1. CASE \E c \in Ids : CategoryStep(c)
    BY <1>7, <2>1
  <2>2. CASE \E r \in Writers : RequestStep(r)
    <3>1. PICK r \in Writers : RequestStep(r)
      BY <2>2
    <3>2. CASE UNCHANGED categories
      BY <3>2
    <3>3. CASE \E c \in Ids : CommitCreate(r, c)
      BY <1>5, <3>3
    <3>4. CASE CommitMove(r)
      BY <1>6, <3>4
    <3> QED
      BY <1>8, <3>1, <3>2, <3>3, <3>4
  <2> QED
    BY <1>1, <2>1, <2>2 DEF CategoriesNext

\* Rows are never lost, and keep their type.
LEMMA RowsStay ==
  ASSUME CategoriesInv, [CategoriesNext]_categoryVars
  PROVE  /\ categories' \in [Ids -> Category \cup {Uncreated}]
         /\ \A d \in Ids : Exists(d) => Exists(d)' /\ categories'[d].type = categories[d].type
         /\ \A d \in Ids : Exists(d)' => categories'[d].parent # d
         /\ SameTypeNesting'
<1>1. CASE UNCHANGED categories
  BY <1>1 DEF CategoriesInv, CategoriesTypeOK, SameTypeNesting, Rows, Exists
<1>2. ASSUME NEW c \in Ids, NEW row, Writes(c, row)
      PROVE  /\ categories' \in [Ids -> Category \cup {Uncreated}]
             /\ \A d \in Ids : Exists(d) => Exists(d)' /\ categories'[d].type = categories[d].type
             /\ \A d \in Ids : Exists(d)' => categories'[d].parent # d
             /\ SameTypeNesting'
  <2>1. \A d \in Ids : Exists(d) => Exists(d)' /\ categories'[d].type = categories[d].type
    BY <1>2, WritesOneRow DEF Writes, Exists
  <2> QED
    BY <1>2, <2>1, WritesOneRow
<1> QED
  BY <1>1, <1>2, StepWrites

\* What a request holds: idle, unchanged, or just checked.
LEMMA RequestChanges ==
  ASSUME CategoriesInv, [CategoriesNext]_categoryVars, NEW r \in Writers
  PROVE  \/ pending'[r] = pending[r]
         \/ pending'[r] = NoWrite
         \/ \E p \in Ids, type \in FlowTypes : CheckForCreate(r, type, p)
         \/ \E c, p \in Ids : CheckForMove(r, c, p)
BY DEF CategoriesInv, CategoriesTypeOK, categoryVars, CategoriesNext, CategoryStep, CreateRoot, MoveToTop, Archive,
       RequestStep, CheckForCreate, CommitCreate, CheckForMove, CommitMove, GiveUp

LEMMA CategoriesInvInit == CategoriesInit => CategoriesInv
BY CategoriesAssumption
DEF CategoriesInit, CategoriesInv, CategoriesTypeOK, SameTypeNesting, PendingTyped, Rows, Exists, NoWrite

LEMMA CategoriesInvStep == CategoriesInv /\ [CategoriesNext]_categoryVars => CategoriesInv'
<1> SUFFICES ASSUME CategoriesInv, [CategoriesNext]_categoryVars PROVE CategoriesInv'
  OBVIOUS
<1>1. /\ categories' \in [Ids -> Category \cup {Uncreated}]
      /\ \A d \in Ids : Exists(d) => Exists(d)' /\ categories'[d].type = categories[d].type
      /\ \A d \in Ids : Exists(d)' => categories'[d].parent # d
      /\ SameTypeNesting'
  BY RowsStay
<1>2. ASSUME NEW r \in Writers
      PROVE  pending'[r] \in {NoWrite} \cup CreateReq \cup MoveReq
  <2>1. CASE \E p \in Ids, type \in FlowTypes : CheckForCreate(r, type, p)
    BY <2>1 DEF CategoriesInv, CategoriesTypeOK, CheckForCreate, CreateReq
  <2>2. CASE \E c, p \in Ids : CheckForMove(r, c, p)
    BY <2>2 DEF CategoriesInv, CategoriesTypeOK, CheckForMove, MoveReq
  <2> QED
    BY <2>1, <2>2, RequestChanges DEF CategoriesInv, CategoriesTypeOK
<1>3. pending' = [r \in Writers |-> pending'[r]]
  BY DEF CategoriesInv, CategoriesTypeOK, categoryVars, CategoriesNext, CategoryStep, CreateRoot, MoveToTop, Archive,
         RequestStep, CheckForCreate, CommitCreate, CheckForMove, CommitMove, GiveUp
<1>4. CategoriesTypeOK'
  <2>1. pending' \in [Writers -> {NoWrite} \cup CreateReq \cup MoveReq]
    BY <1>2, <1>3
  <2> QED
    BY <1>1, <2>1 DEF CategoriesTypeOK
<1>5. PendingTyped'
  <2> SUFFICES ASSUME NEW r \in Writers
               PROVE  /\ pending'[r].op = "create" =>
                            /\ categories'[pending'[r].parent] \in Category
                            /\ categories'[pending'[r].parent].type = pending'[r].type
                      /\ pending'[r].op = "move" =>
                            /\ categories'[pending'[r].id] \in Category
                            /\ categories'[pending'[r].parent] \in Category
                            /\ pending'[r].id # pending'[r].parent
                            /\ categories'[pending'[r].parent].type = categories'[pending'[r].id].type
    BY DEF PendingTyped, Exists
  <2>1. CASE pending'[r] = pending[r]
    BY <1>1, <2>1, CategoryOps DEF CategoriesInv, PendingTyped, Exists, CreateReq, MoveReq
  <2>2. CASE pending'[r] = NoWrite
    BY <2>2 DEF NoWrite
  <2>3. CASE \E p \in Ids, type \in FlowTypes : CheckForCreate(r, type, p)
    BY <2>3 DEF CategoriesInv, CategoriesTypeOK, CheckForCreate, AllowedParent, Exists
  <2>4. CASE \E c, p \in Ids : CheckForMove(r, c, p)
    BY <2>4 DEF CategoriesInv, CategoriesTypeOK, CheckForMove, AllowedParent, NotItself, Exists
  <2> QED
    BY <2>1, <2>2, <2>3, <2>4, RequestChanges
<1> QED
  BY <1>1, <1>4, <1>5 DEF CategoriesInv

-----------------------------------------------------------------------------
(* Moves that do not overlap *)

\* A write under a root, at the top, under the old parent, or of a new row
\* closes no ring.
LEMMA RingFree ==
  ASSUME CategoriesInv, NoRing, NEW c \in Ids, NEW row \in Category, Writes(c, row),
         \/ ~Exists(c)
         \/ row.parent \in {NoParent, categories[c].parent}
         \/ categories[row.parent].parent = NoParent
  PROVE  NoRing'
<1> SUFFICES ASSUME NEW C \in SUBSET Rows', C # {}
             PROVE  \E d \in C : categories'[d].parent \notin C
  BY DEF NoRing
<1>1. /\ categories'[c] = row
      /\ \A d \in Ids \ {c} : categories'[d] = categories[d]
      /\ C \subseteq Rows \cup {c} /\ C \subseteq Ids /\ NoParent \notin C
  BY WritesOneRow, CategoriesAssumption DEF Rows
<1>2. \A D \in SUBSET Rows : D # {} => \E d \in D : categories[d].parent \notin D
  BY DEF NoRing
<1>3. CASE c \notin C
  BY <1>1, <1>2, <1>3
<1>4. CASE c \in C /\ ~Exists(c)
  <2>1. CASE C = {c}
    BY <1>1, <2>1 DEF Writes
  <2>2. CASE C # {c}
    <3>1. PICK d \in C \ {c} : categories[d].parent \notin C \ {c}
      BY <1>1, <1>2, <1>4, <2>2
    <3>2. categories[d].parent # c
      BY <1>1, <1>4, <3>1, CategoriesAssumption DEF CategoriesInv, SameTypeNesting, Rows
    <3> QED
      BY <1>1, <3>1, <3>2
  <2> QED
    BY <2>1, <2>2
<1>5. CASE Exists(c) /\ row.parent = categories[c].parent
  <2>1. C \subseteq Rows
    BY <1>1, <1>5 DEF Rows
  <2> QED
    BY <1>1, <1>2, <1>5, <2>1
<1>6. CASE c \in C /\ row.parent = NoParent
  BY <1>1, <1>6
<1>7. CASE c \in C /\ row.parent # NoParent /\ categories[row.parent].parent = NoParent
  BY <1>1, <1>7 DEF Writes
<1> QED
  BY <1>3, <1>4, <1>5, <1>6, <1>7

LEMMA SerialInit == CategoriesInit => SerialInv
BY CategoriesAssumption
DEF CategoriesInit, SerialInv, OneMove, PendingRoot, NoRing, Rows, Exists, NoWrite

LEMMA SerialStep ==
  ASSUME ~Overlapping, CategoriesInv, SerialInv, [CategoriesNext]_categoryVars
  PROVE  SerialInv'
<1>1. NoRing'
  <2>1. CASE UNCHANGED categories
    BY <2>1 DEF SerialInv, NoRing, Rows, Exists
  <2>2. ASSUME NEW r \in Writers, pending[r].op = "move", pending[r].id \in Ids,
               NEW row \in Category, Writes(pending[r].id, row), row.parent = pending[r].parent
        PROVE  NoRing'
    BY <2>2, RingFree DEF SerialInv, PendingRoot
  <2>3. ASSUME NEW c \in Ids, NEW row \in Category, Writes(c, row),
               ~Exists(c) \/ row.parent \in {NoParent, categories[c].parent}
        PROVE  NoRing'
    BY <2>3, RingFree DEF SerialInv
  <2> QED
    BY <2>1, <2>2, <2>3, StepWrites
<1>2. ASSUME NEW r \in Writers, pending'[r].op = "move"
      PROVE  \/ pending'[r] = pending[r]
             \/ /\ UNCHANGED categories /\ \A s \in Writers : pending[s].op # "move"
                /\ \A s \in Writers \ {r} : pending'[s] = pending[s]
                /\ categories[pending'[r].parent].parent = NoParent
  <2>1. CASE \E p \in Ids, type \in FlowTypes : CheckForCreate(r, type, p)
    BY <1>2, <2>1 DEF CategoriesInv, CategoriesTypeOK, CheckForCreate
  <2>2. CASE \E c, p \in Ids : CheckForMove(r, c, p)
    BY <2>2 DEF CategoriesInv, CategoriesTypeOK, CheckForMove, AllowedParent
  <2> QED
    BY <1>2, <2>1, <2>2, RequestChanges DEF NoWrite
<1>3. OneMove'
  BY <1>2 DEF SerialInv, OneMove
<1>4. PendingRoot'
  <2> SUFFICES ASSUME NEW r \in Writers, pending'[r].op = "move"
               PROVE  categories'[pending'[r].parent].parent = NoParent
    BY DEF PendingRoot
  <2>1. CASE pending'[r] = pending[r]
    <3>1. /\ pending[r].op = "move" /\ pending[r].parent \in Ids /\ Exists(pending[r].parent)
          /\ categories[pending[r].parent].parent = NoParent
      BY <2>1, CategoryOps DEF CategoriesInv, PendingTyped, SerialInv, PendingRoot, MoveReq
    <3>2. ASSUME NEW c \in Ids, NEW row \in Category, Writes(c, row),
                 ~Exists(c) \/ row.parent \in {NoParent, categories[c].parent}
          PROVE  categories'[pending[r].parent].parent = NoParent
      BY <3>1, <3>2, WritesOneRow
    <3>3. ASSUME NEW s \in Writers, pending[s].op = "move", pending' = [pending EXCEPT ![s] = NoWrite]
          PROVE  FALSE
      <4>1. s = r
        BY <3>1, <3>3 DEF SerialInv, OneMove
      <4> QED
        BY <2>1, <3>1, <3>3, <4>1 DEF CategoriesInv, CategoriesTypeOK, NoWrite
    <3> QED
      BY <2>1, <3>1, <3>2, <3>3, StepWrites
  <2>2. CASE pending'[r] # pending[r]
    BY <1>2, <2>2
  <2> QED
    BY <2>1, <2>2
<1> QED
  BY <1>1, <1>3, <1>4 DEF SerialInv

\* Without rings, the tree holds every row it is built from.
LEMMA TreeIsWhole ==
  ASSUME NoRing, NEW S \in SUBSET Rows
  PROVE  Tree(S) = S
<1> SUFFICES ASSUME NEW c \in S, NEW T \in SUBSET S, Roots(S) \subseteq T,
                    \A d \in S : categories[d].parent \in T => d \in T
             PROVE  c \in T
  BY DEF Tree
<1> SUFFICES ASSUME c \notin T PROVE FALSE
  OBVIOUS
<1>1. PICK d \in S \ T : categories[d].parent \notin S \ T
  BY DEF NoRing
<1> QED
  BY <1>1 DEF Roots

\* So the trees of all queries are whole exactly when there is no ring.
LEMMA NoRingNoLoss == NoRing => TreeHoldsEveryCategory
BY TreeIsWhole DEF TreeHoldsEveryCategory, Shown

LEMMA NoLossNoRing == CategoriesInv /\ TreeHoldsEveryCategory => NoRing
<1> SUFFICES ASSUME CategoriesInv, TreeHoldsEveryCategory, NEW C \in SUBSET Rows, C # {},
                    \A d \in C : categories[d].parent \in C
             PROVE  FALSE
  BY DEF NoRing
<1>1. Tree(Rows) = Rows
  <2>1. Shown(FlowTypes, TRUE) = Rows
    BY DEF Shown, Rows, Exists, Category
  <2> QED
    BY <2>1 DEF TreeHoldsEveryCategory
<1>2. PICK c \in C : TRUE
  OBVIOUS
<1>3. Roots(Rows) \subseteq Rows \ C
  BY DEF Roots
<1>4. \A d \in Rows : categories[d].parent \in Rows \ C => d \in Rows \ C
  OBVIOUS
<1>5. c \in Tree(Rows)
  BY <1>1, <1>2
<1>6. c \in Rows \ C
  BY <1>3, <1>4, <1>5 DEF Tree
<1> QED
  BY <1>2, <1>6

-----------------------------------------------------------------------------
\* Rows keep their type, and none is its own parent.
THEOREM CategoriesTypeCorrect == CategoriesSpec => []CategoriesTypeOK
<1>1. CategoriesInv => CategoriesTypeOK
  BY DEF CategoriesInv
<1> QED
  BY <1>1, CategoriesInvInit, CategoriesInvStep, PTL DEF CategoriesSpec

\* However requests overlap, a nested category has the type of its parent.
THEOREM NestedAlike == CategoriesSpec => []SameTypeNesting
<1>1. CategoriesInv => SameTypeNesting
  BY DEF CategoriesInv
<1> QED
  BY <1>1, CategoriesInvInit, CategoriesInvStep, PTL DEF CategoriesSpec

\* When moves do not overlap, the tree a user gets holds every category.
THEOREM SerialMovesKeepTheTree ==
  ASSUME ~Overlapping
  PROVE  CategoriesSpec => []TreeHoldsEveryCategory
<1>1. CategoriesInit => CategoriesInv /\ SerialInv
  BY CategoriesInvInit, SerialInit
<1>2. CategoriesInv /\ SerialInv /\ [CategoriesNext]_categoryVars => (CategoriesInv /\ SerialInv)'
  BY CategoriesInvStep, SerialStep
<1>3. CategoriesInv /\ SerialInv => TreeHoldsEveryCategory
  BY NoRingNoLoss DEF SerialInv
<1> QED
  BY <1>1, <1>2, <1>3, PTL DEF CategoriesSpec

\* However requests overlap, categories leave the tree only in a move whose
\* check has gone stale.
THEOREM OnlyStaleMovesLose == CategoriesSpec => OnlyStaleMovesLoseCategories
<1> DEFINE Kept == \/ UNCHANGED categories
                   \/ \E r \in Writers : StaleMove(r) /\ pending'[r] = NoWrite
                   \/ TreeHoldsEveryCategory => TreeHoldsEveryCategory'
<1>1. NoRing' => TreeHoldsEveryCategory'
  BY NoRingNoLoss, PTL
<1>2. ASSUME CategoriesInv, CategoriesNext PROVE Kept
  <2> SUFFICES ASSUME \A r \in Writers : ~(StaleMove(r) /\ pending'[r] = NoWrite),
                      TreeHoldsEveryCategory, categories' # categories
               PROVE  NoRing'
    BY <1>1
  <2>1. NoRing
    BY <1>2, NoLossNoRing
  <2>2. ASSUME NEW r \in Writers, pending[r].op = "move", pending[r].id \in Ids,
               NEW row \in Category, Writes(pending[r].id, row), row.parent = pending[r].parent,
               pending' = [pending EXCEPT ![r] = NoWrite]
        PROVE  NoRing'
    <3>1. ~StaleMove(r)
      BY <1>2, <2>2 DEF CategoriesInv, CategoriesTypeOK
    <3>2. categories[row.parent].parent = NoParent
      BY <2>2, <3>1 DEF StaleMove, AllowedParent
    <3> QED
      BY <1>2, <2>1, <2>2, <3>2, RingFree
  <2>3. ASSUME NEW c \in Ids, NEW row \in Category, Writes(c, row),
               ~Exists(c) \/ row.parent \in {NoParent, categories[c].parent}
        PROVE  NoRing'
    BY <1>2, <2>1, <2>3, RingFree
  <2> QED
    BY <1>2, <2>2, <2>3, StepWrites
<1>3. CategoriesInv /\ [CategoriesNext]_categoryVars => [Kept]_categoryVars
  BY <1>2
<1> QED
  BY <1>3, CategoriesInvInit, CategoriesInvStep, PTL DEF CategoriesSpec, OnlyStaleMovesLoseCategories

-----------------------------------------------------------------------------
(* The category of a transaction (Classification), for any number of       *)
(* transactions and overlapping updates.                                   *)

(* What an update holds was checked, against a row that is still there:    *)
(* only its type may have changed since.                                   *)
UpdatesChecked ==
    \A u \in Updates : updating[u] # NoEntry =>
        /\ updating[u] \in Checked
        /\ classified[updating[u].entry] # NoEntry
        /\ UpdateMayBook(updating[u].seen, updating[u].type, updating[u].category)

ClassificationTyped ==
    /\ classified \in [EntryIds -> Entry \cup {NoEntry}]
    /\ updating \in [Updates -> Checked \cup {NoEntry}]
    /\ draft \in Entry \cup {NoEntry}
    /\ template \in Entry \cup {NoEntry}

ClassificationInv == ClassificationTyped /\ UpdatesChecked /\ DraftIsNeverRefused

LEMMA ClassificationInitInv == ClassificationInit => ClassificationInv
  BY DEF ClassificationInit, ClassificationInv, ClassificationTyped, UpdatesChecked,
         DraftIsNeverRefused

(* Once booked, a transaction stays.                                       *)
LEMMA BookingKeeps ==
  ASSUME ClassificationInv, NEW e \in EntryIds, classified[e] = NoEntry, NEW row \in Entry,
         classified' = [classified EXCEPT ![e] = row], UNCHANGED updating
  PROVE  classified' \in [EntryIds -> Entry \cup {NoEntry}] /\ UpdatesChecked'
<1>1. classified' \in [EntryIds -> Entry \cup {NoEntry}]
  BY DEF ClassificationInv, ClassificationTyped
<1>2. \A i \in EntryIds : classified[i] # NoEntry => classified'[i] = classified[i]
  BY DEF ClassificationInv, ClassificationTyped
<1>3. UpdatesChecked'
  BY <1>2 DEF ClassificationInv, UpdatesChecked, Checked
<1> QED
  BY <1>1, <1>3

LEMMA FormKeeps ==
  ASSUME ClassificationInv, UNCHANGED <<classified, updating, template>>,
         OpenDraft \/ ChooseCategory \/ \E type \in Directions : OnTypeChange(type)
  PROVE  ClassificationInv'
<1>1. draft' \in Entry \cup {NoEntry} /\ (draft' # NoEntry => Compatible(draft'.category, draft'.type))
  <2>1. CASE OpenDraft
    BY <2>1 DEF OpenDraft, Entry, Directions, CategoryNames, Compatible
  <2>2. CASE ChooseCategory
    <3>1. PICK category \in FormCategories : draft' = [draft EXCEPT !.category = category]
      BY <2>2 DEF ChooseCategory
    <3>2. draft \in Entry
      BY <2>2 DEF ChooseCategory, ClassificationInv, ClassificationTyped
    <3>3. category \in CategoryNames /\ CategoryType[category] = draft.type
      BY DEF FormCategories, CategoryNames
    <3>4. draft'.category = category /\ draft'.type = draft.type /\ draft' \in Entry
      BY <3>1, <3>2, <3>3 DEF Entry
    <3> QED
      BY <3>3, <3>4 DEF Compatible
  <2>3. ASSUME NEW type \in Directions, OnTypeChange(type)
        PROVE  draft' \in Entry /\ Compatible(draft'.category, draft'.type)
    <3>1. draft \in Entry /\ draft' = [draft EXCEPT !.type = type, !.category = NoCategory]
      BY <2>3 DEF OnTypeChange, Cleared, ClassificationInv, ClassificationTyped
    <3>2. draft' \in Entry /\ draft'.category = NoCategory
      BY <3>1 DEF Entry, CategoryNames
    <3> QED
      BY <3>2 DEF Compatible
  <2> QED
    BY <2>1, <2>2, <2>3
<1>2. UpdatesChecked'
  BY DEF ClassificationInv, UpdatesChecked
<1> QED
  BY <1>1, <1>2 DEF ClassificationInv, ClassificationTyped, DraftIsNeverRefused

LEMMA CheckKeeps ==
  ASSUME ClassificationInv, NEW u \in Updates, NEW e \in EntryIds,
         NEW type \in Directions \cup {Same}, NEW category \in CategoryNames \cup {Same},
         CheckUpdate(u, e, type, category)
  PROVE  ClassificationInv'
<1> DEFINE seen == classified[e].type
           change == [entry |-> e, seen |-> seen, type |-> type, category |-> category]
<1>1. /\ classified[e] \in Entry /\ classified[e] # NoEntry /\ UpdateMayBook(seen, type, category)
      /\ updating' = [updating EXCEPT ![u] = change]
      /\ UNCHANGED <<classified, draft, template>>
  BY DEF CheckUpdate, ClassificationInv, ClassificationTyped
<1>2. change \in Checked
  BY <1>1 DEF Checked, Entry
<1>3. change.entry = e /\ change.seen = seen /\ change.type = type /\ change.category = category
  OBVIOUS
<1> HIDE DEF change
<1>4. updating'[u] = change /\ \A v \in Updates : v # u => updating'[v] = updating[v]
  BY <1>1 DEF ClassificationInv, ClassificationTyped
<1>5. UpdatesChecked'
  BY <1>1, <1>2, <1>3, <1>4 DEF ClassificationInv, UpdatesChecked
<1> QED
  BY <1>1, <1>2, <1>5 DEF ClassificationInv, ClassificationTyped, DraftIsNeverRefused

(* What writing an update makes of its row.                                *)
LEMMA Written ==
  ASSUME ClassificationInv, NEW u \in Updates, WriteUpdate(u)
  PROVE  /\ updating[u] \in Checked /\ updating'[u] = NoEntry
         /\ LET change == updating[u]
                row    == classified[change.entry]
            IN  /\ row \in Entry /\ row # NoEntry
                /\ classified'[change.entry] =
                      [type |-> OrElse(change.type, row.type),
                       category |-> OrElse(change.category, row.category)]
                /\ classified'[change.entry] \in Entry
         /\ \A e \in EntryIds : e # updating[u].entry => classified'[e] = classified[e]
         /\ \A v \in Updates : v # u => updating'[v] = updating[v]
<1> DEFINE change == updating[u]
           row == classified[change.entry]
<1>1. change \in Checked /\ change.entry \in EntryIds /\ row # NoEntry
  BY DEF WriteUpdate, ClassificationInv, UpdatesChecked, Checked
<1>2. row \in Entry
  BY <1>1 DEF ClassificationInv, ClassificationTyped
<1>3. /\ classified' = [classified EXCEPT ![change.entry] =
            [type |-> OrElse(change.type, row.type),
             category |-> OrElse(change.category, row.category)]]
      /\ updating' = [updating EXCEPT ![u] = NoEntry]
  BY DEF WriteUpdate
<1>4. OrElse(change.type, row.type) \in Directions
  BY <1>1, <1>2 DEF OrElse, Checked, Entry
<1>5. OrElse(change.category, row.category) \in CategoryNames
  BY <1>1, <1>2 DEF OrElse, Checked, Entry
<1> QED
  BY <1>1, <1>2, <1>3, <1>4, <1>5 DEF ClassificationInv, ClassificationTyped, Entry

LEMMA WriteKeeps ==
  ASSUME ClassificationInv, NEW u \in Updates, WriteUpdate(u)
  PROVE  ClassificationInv'
<1> USE DEF ClassificationInv
<1>1. classified' \in [EntryIds -> Entry \cup {NoEntry}]
  BY Written DEF WriteUpdate, ClassificationTyped
<1>2. updating' \in [Updates -> Checked \cup {NoEntry}]
  BY DEF WriteUpdate, ClassificationTyped
<1>3. UNCHANGED <<draft, template>>
  BY DEF WriteUpdate
<1>4. \A e \in EntryIds : classified[e] # NoEntry => classified'[e] # NoEntry
  <2>1. NoEntry \notin Entry
    BY ClassificationAssumption
  <2>2. classified'[updating[u].entry] \in Entry
    BY Written
  <2>3. \A e \in EntryIds : e # updating[u].entry => classified'[e] = classified[e]
    BY Written
  <2> QED
    BY <2>1, <2>2, <2>3
<1>5. UpdatesChecked'
  BY <1>4, Written DEF UpdatesChecked, Checked
<1> QED
  BY <1>1, <1>2, <1>3, <1>5 DEF ClassificationTyped, DraftIsNeverRefused

LEMMA ClassificationStep ==
  ClassificationInv /\ [ClassificationNext]_classificationVars => ClassificationInv'
<1> SUFFICES ASSUME ClassificationInv, [ClassificationNext]_classificationVars
             PROVE  ClassificationInv'
  OBVIOUS
<1>1. CASE UNCHANGED classificationVars
  BY <1>1 DEF classificationVars, ClassificationInv, ClassificationTyped, UpdatesChecked,
              DraftIsNeverRefused
<1>2. CASE OpenDraft \/ ChooseCategory \/ \E type \in Directions : OnTypeChange(type)
  <2>1. UNCHANGED <<classified, updating, template>>
    BY <1>2 DEF OpenDraft, ChooseCategory, OnTypeChange
  <2> QED
    BY <1>2, <2>1, FormKeeps
<1>3. ASSUME NEW type \in Directions, NEW category \in CategoryNames, SaveTemplate(type, category)
      PROVE  ClassificationInv'
  BY <1>3 DEF SaveTemplate, ClassificationInv, ClassificationTyped, UpdatesChecked,
              DraftIsNeverRefused, Entry
<1>4. ASSUME NEW e \in EntryIds, EntryStep(e)
      PROVE  ClassificationInv'
  <2>1. CASE SubmitDraft(e)
    <3>1. draft \in Entry /\ classified[e] = NoEntry /\ draft' = NoEntry
          /\ UNCHANGED <<updating, template>>
      BY <2>1 DEF SubmitDraft, ClassificationInv, ClassificationTyped
    <3>2. classified' = [classified EXCEPT ![e] = draft] \/ UNCHANGED classified
      BY <2>1 DEF SubmitDraft
    <3>3. classified' \in [EntryIds -> Entry \cup {NoEntry}] /\ UpdatesChecked'
      BY <3>1, <3>2, BookingKeeps DEF ClassificationInv, ClassificationTyped, UpdatesChecked
    <3> QED
      BY <3>1, <3>3 DEF ClassificationInv, ClassificationTyped, DraftIsNeverRefused
  <2>2. CASE GenerateOccurrence(e)
    <3>1. /\ template \in Entry /\ classified[e] = NoEntry
          /\ classified' = [classified EXCEPT ![e] = template]
          /\ UNCHANGED <<updating, draft, template>>
      BY <2>2 DEF GenerateOccurrence, ClassificationInv, ClassificationTyped
    <3>2. classified' \in [EntryIds -> Entry \cup {NoEntry}] /\ UpdatesChecked'
      BY <3>1, BookingKeeps
    <3> QED
      BY <3>1, <3>2 DEF ClassificationInv, ClassificationTyped, DraftIsNeverRefused
  <2>3. ASSUME NEW type \in Directions, NEW category \in CategoryNames, BookEntry(e, type, category)
        PROVE  ClassificationInv'
    <3> DEFINE row == [type |-> type, category |-> category]
    <3>1. /\ row \in Entry /\ classified[e] = NoEntry
          /\ classified' = [classified EXCEPT ![e] = row]
          /\ UNCHANGED <<updating, draft, template>>
      BY <2>3 DEF BookEntry, Entry
    <3>2. classified' \in [EntryIds -> Entry \cup {NoEntry}] /\ UpdatesChecked'
      BY <3>1, BookingKeeps
    <3> QED
      BY <3>1, <3>2 DEF ClassificationInv, ClassificationTyped, DraftIsNeverRefused
  <2> QED
    BY <1>4, <2>1, <2>2, <2>3, CheckKeeps DEF EntryStep
<1>5. ASSUME NEW u \in Updates, WriteUpdate(u) PROVE ClassificationInv'
  BY <1>5, WriteKeeps
<1> QED
  BY <1>1, <1>2, <1>3, <1>4, <1>5 DEF ClassificationNext

(* The page never sends a category the API refuses, in whatever order type *)
(* and category are chosen (transactions.ts, transactions.service.ts).     *)
THEOREM DraftNeverRefused == ClassificationSpec => []DraftIsNeverRefused
<1>1. ClassificationInv => DraftIsNeverRefused
  BY DEF ClassificationInv
<1> QED
  BY <1>1, ClassificationInitInv, ClassificationStep, PTL DEF ClassificationSpec

(* A step that books or writes what was checked in full.                   *)
LEMMA MismatchStep ==
  ASSUME ClassificationInv, ClassificationNext, NEW e \in EntryIds, Mismatched(e)', ~Mismatched(e)
  PROVE  \E u \in Updates : /\ updating[u] # NoEntry /\ updating'[u] = NoEntry
                            /\ updating[u].entry = e /\ ~FullyChecked(u)
<1>1. ASSUME NEW u \in Updates, WriteUpdate(u), updating[u].entry = e, FullyChecked(u)
      PROVE  FALSE
  <2> DEFINE change == updating[u]
             row == classified[e]
  <2>1. /\ change \in Checked /\ row \in Entry /\ row # NoEntry
        /\ classified'[e] = [type |-> OrElse(change.type, row.type),
                             category |-> OrElse(change.category, row.category)]
    BY <1>1, Written
  <2>2. /\ change.seen = row.type /\ (change.type # Same => change.category # Same)
        /\ UpdateMayBook(change.seen, change.type, change.category)
    BY <1>1 DEF FullyChecked, WriteUpdate, ClassificationInv, UpdatesChecked
  <2>3. CASE change.category = Same
    <3>1. classified'[e] = row
      BY <2>1, <2>2, <2>3 DEF OrElse, Entry
    <3> QED
      BY <3>1 DEF Mismatched
  <2>4. CASE change.category # Same
    <3>1. Compatible(change.category, OrElse(change.type, row.type))
      BY <2>2, <2>4 DEF UpdateMayBook
    <3>2. /\ classified'[e].type = OrElse(change.type, row.type)
          /\ classified'[e].category = change.category
      BY <2>1, <2>4 DEF OrElse
    <3> QED
      BY <3>1, <3>2 DEF Mismatched
  <2> QED
    BY <2>3, <2>4
<1>2. ASSUME NEW u \in Updates, WriteUpdate(u)
      PROVE  updating[u] # NoEntry /\ updating'[u] = NoEntry /\ updating[u].entry = e
  BY <1>2, Written DEF Mismatched, WriteUpdate
<1>3. ASSUME UNCHANGED classified PROVE FALSE
  BY <1>3 DEF Mismatched
<1>4. ASSUME NEW i \in EntryIds, NEW row, Compatible(row.category, row.type),
             classified' = [classified EXCEPT ![i] = row]
      PROVE  FALSE
  <2>1. classified'[e] = IF i = e THEN row ELSE classified[e]
    BY <1>4 DEF ClassificationInv, ClassificationTyped
  <2> QED
    BY <1>4, <2>1 DEF Mismatched
<1>5. ASSUME NEW i \in EntryIds, EntryStep(i) PROVE FALSE
  <2>1. CASE SubmitDraft(i) \/ GenerateOccurrence(i)
    BY <1>3, <1>4, <2>1 DEF SubmitDraft, GenerateOccurrence
  <2>2. ASSUME NEW type \in Directions, NEW category \in CategoryNames, BookEntry(i, type, category)
        PROVE  FALSE
    <3> DEFINE row == [type |-> type, category |-> category]
    <3>1. Compatible(row.category, row.type) /\ classified' = [classified EXCEPT ![i] = row]
      BY <2>2 DEF BookEntry
    <3> QED
      BY <1>4, <3>1
  <2>3. CASE \E u \in Updates, type \in Directions \cup {Same}, category \in CategoryNames \cup {Same} :
                 CheckUpdate(u, i, type, category)
    BY <1>3, <2>3 DEF CheckUpdate
  <2> QED
    BY <1>5, <2>1, <2>2, <2>3 DEF EntryStep
<1> QED
  BY <1>1, <1>2, <1>3, <1>5
  DEF ClassificationNext, OpenDraft, ChooseCategory, OnTypeChange, SaveTemplate

(* A transaction comes under a category of the other flow type only by an  *)
(* update that changes the type alone or acts on an overtaken image        *)
(* (transactions.service.ts, assertCategoryCompatible).                    *)
THEOREM MismatchesHaveReasons == ClassificationSpec => MismatchHasAReason
<1>1. ClassificationInv /\ [ClassificationNext]_classificationVars
      => [\A e \in EntryIds : Mismatched(e)' /\ ~Mismatched(e) =>
             \E u \in Updates : /\ updating[u] # NoEntry /\ updating'[u] = NoEntry
                               /\ updating[u].entry = e /\ ~FullyChecked(u)]_classificationVars
  BY MismatchStep
<1> QED
  BY <1>1, ClassificationInitInv, ClassificationStep, PTL
  DEF ClassificationSpec, MismatchHasAReason
=============================================================================
