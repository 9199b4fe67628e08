------------------------------- MODULE Goals -------------------------------
(***************************************************************************)
(* Savings goals and their contributions (modules/goals).                  *)
(*                                                                         *)
(* A goal stores a running amount, maintained by relative increments, and  *)
(* a status derived from it.  The two contribution handlers each run one   *)
(* prisma.$transaction that first READS the goal, without locking it, and  *)
(* decides the status from that image: reading and committing are separate *)
(* steps (READ COMMITTED).  Every other handler ends in one single-row     *)
(* write whose values do not depend on what it read, so it is one step.    *)
(***************************************************************************)
EXTENDS MinorUnits

CONSTANTS
    GoalIds,        \* ids of one user's goals; a UUID is used once
    ContributionIds,
    Requests,       \* contribution requests served concurrently
    Amounts,        \* targets and amounts the clients send
    Edits,          \* the other things they do: AllEdits
    Unborn,         \* an id not used yet
    Gone            \* an id whose row was deleted

AllEdits == {"retarget", "status", "delete"}
Statuses == {"ACTIVE", "ACHIEVED", "ARCHIVED"}

Goal == [target : 1..MaxMinor, current : Minor, status : Statuses]
Contribution == [goal : GoalIds, amount : 1..MaxMinor]
NoRow == {Unborn, Gone}

ASSUME GoalsAssumption ==
    /\ IsFiniteSet(ContributionIds)
    /\ Amounts \subseteq 1..MaxMinor
    /\ Edits \subseteq AllEdits
    /\ Unborn # Gone
    /\ NoRow \cap (Goal \cup Contribution) = {}

VARIABLES
    goals,          \* goal id -> row, Unborn or Gone
    contributions,  \* contribution id -> row, Unborn or Gone
    req             \* what each contribution request has read

vars == <<goals, contributions, req>>

Idle == [op |-> "idle"]
AddReq == [op : {"add"}, goal : GoalIds, seen : Goal, amount : 1..MaxMinor]
RemoveReq == [op : {"remove"}, goal : GoalIds, seen : Goal,
              id : ContributionIds, amount : 1..MaxMinor]

TypeOK ==
    /\ goals \in [GoalIds -> Goal \cup NoRow]
    /\ contributions \in [ContributionIds -> Contribution \cup NoRow]
    /\ req \in [Requests -> {Idle} \cup AddReq \cup RemoveReq]

LiveGoal(g) == goals[g] \in Goal
Live(c) == contributions[c] \in Contribution
FitsUnchecked(n) == n \in Nat           \* mutant: a wider column
Fits(n) == n <= MaxMinor                \* the INT column; amounts are positive

-----------------------------------------------------------------------------
(* goals.service.ts create, update, remove *)

CreateGoal(g, target) ==
    /\ goals[g] = Unborn
    /\ goals' = [goals EXCEPT ![g] =
          [target |-> target, current |-> 0, status |-> "ACTIVE"]]
    /\ UNCHANGED <<contributions, req>>

(* A field the client leaves out keeps its value.                          *)
UpdateGoal(g) ==
    /\ LiveGoal(g)
    /\ \E target \in {goals[g].target} \cup (IF "retarget" \in Edits THEN Amounts ELSE {}),
          status \in {goals[g].status} \cup (IF "status" \in Edits THEN Statuses ELSE {}) :
          goals' = [goals EXCEPT ![g].target = target, ![g].status = status]
    /\ UNCHANGED <<contributions, req>>

(* The foreign key of a contribution cascades.                             *)
Orphans(g) == {c \in ContributionIds : Live(c) /\ contributions[c].goal = g}
DeleteGoal(g) ==
    /\ "delete" \in Edits
    /\ LiveGoal(g)
    /\ goals' = [goals EXCEPT ![g] = Gone]
    /\ contributions' = [c \in ContributionIds |->
                            IF c \in Orphans(g) THEN Gone ELSE contributions[c]]
    /\ UNCHANGED req

-----------------------------------------------------------------------------
(* goals.service.ts addContribution, removeContribution *)

Incremented(current, seen, delta) == current + delta       \* adjustCurrent

PromotedAlways(seen, next) == next >= seen.target          \* mutant: any status
PromotedPast(seen, next) ==                                \* mutant: > for >=
    seen.status = "ACTIVE" /\ next > seen.target
Promoted(seen, next) == seen.status = "ACTIVE" /\ next >= seen.target
Demoted(seen, next) == seen.status = "ACHIEVED" /\ next < seen.target

ReadForAdd(r, g, amount) ==
    /\ req[r] = Idle
    /\ LiveGoal(g)
    /\ req' = [req EXCEPT ![r] =
          [op |-> "add", goal |-> g, seen |-> goals[g], amount |-> amount]]
    /\ UNCHANGED <<goals, contributions>>

CommitAdd(r, c) ==
    LET g == req[r].goal
        seen == req[r].seen
        amount == req[r].amount
        current == Incremented(goals[g].current, seen, amount)
    IN  /\ req[r].op = "add"
        /\ LiveGoal(g)
        /\ contributions[c] = Unborn
        /\ Fits(current)
        /\ contributions' = [contributions EXCEPT ![c] = [goal |-> g, amount |-> amount]]
        /\ goals' = [goals EXCEPT ![g].current = current,
                        ![g].status = IF Promoted(seen, seen.current + amount)
                                      THEN "ACHIEVED" ELSE @]
        /\ req' = [req EXCEPT ![r] = Idle]

(* The goal is read first and the contribution next; a client knows only   *)
(* the id of a contribution that exists, so both reads are one step.       *)
ReadForRemove(r, c) ==
    /\ req[r] = Idle
    /\ Live(c)
    /\ req' = [req EXCEPT ![r] =
          [op |-> "remove", goal |-> contributions[c].goal,
           seen |-> goals[contributions[c].goal],
           id |-> c, amount |-> contributions[c].amount]]
    /\ UNCHANGED <<goals, contributions>>

DeletedTwice(c) == c \in ContributionIds    \* mutant: deleteMany
DeletedOnce(c) == Live(c)                   \* delete by id: no row, no commit

CommitRemove(r) ==
    LET g == req[r].goal
        seen == req[r].seen
        amount == req[r].amount
    IN  /\ req[r].op = "remove"
        /\ DeletedOnce(req[r].id)
        /\ LiveGoal(g)
        /\ contributions' = [contributions EXCEPT ![req[r].id] = Gone]
        /\ goals' = [goals EXCEPT ![g].current = Incremented(@, seen, -amount),
                        ![g].status = IF Demoted(seen, seen.current - amount)
                                      THEN "ACTIVE" ELSE @]
        /\ req' = [req EXCEPT ![r] = Idle]

(* A transaction that fails: a row is gone, the column overflows, the      *)
(* connection is lost.                                                     *)
Rollback(r) ==
    /\ req[r] # Idle
    /\ req' = [req EXCEPT ![r] = Idle]
    /\ UNCHANGED <<goals, contributions>>

-----------------------------------------------------------------------------
Init ==
    /\ goals = [g \in GoalIds |-> Unborn]
    /\ contributions = [c \in ContributionIds |-> Unborn]
    /\ req = [r \in Requests |-> Idle]

GoalStep(g) ==
    \/ \E target \in Amounts : CreateGoal(g, target)
    \/ UpdateGoal(g)
    \/ DeleteGoal(g)

ContributionStep(r) ==
    \/ \E g \in GoalIds, amount \in Amounts : ReadForAdd(r, g, amount)
    \/ \E c \in ContributionIds : CommitAdd(r, c) \/ ReadForRemove(r, c)
    \/ CommitRemove(r)
    \/ Rollback(r)

Next == (\E g \in GoalIds : GoalStep(g)) \/ (\E r \in Requests : ContributionStep(r))

Spec == Init /\ [][Next]_vars

-----------------------------------------------------------------------------
(* The stored amount of a goal is the sum of its contributions, however    *)
(* the requests interleave ("Maintained from the sum of contributions",    *)
(* schema.prisma 336): increments are relative, a contribution is deleted  *)
(* once, and deleting a goal takes its contributions along.                *)
AmountIn(g) == [c \in ContributionIds |->
    IF Live(c) /\ contributions[c].goal = g THEN contributions[c].amount ELSE 0]
CurrentMatchesContributions ==
    \A g \in GoalIds : LiveGoal(g) => goals[g].current = Total(AmountIn(g))

(* No contribution outlives its goal.                                      *)
NoOrphans == \A c \in ContributionIds : Live(c) => LiveGoal(contributions[c].goal)

(* A goal is ACHIEVED exactly when its amount has reached its target,      *)
(* unless the user archived it: goals.service.ts 35-39, "contribution      *)
(* bookkeeping that keeps currentAmountMinor and the ACHIEVED status in    *)
(* sync inside a transaction".                                             *)
InSync(goal) ==
    goal.status # "ARCHIVED" => (goal.status = "ACHIEVED" <=> goal.current >= goal.target)
StatusInSync == \A g \in GoalIds : LiveGoal(g) => InSync(goals[g])

(* Request r commits in this step, and its image of goal g is still true.  *)
FreshCommit(r, g) ==
    /\ req[r] # Idle /\ req'[r] = Idle /\ contributions' # contributions
    /\ req[r].goal = g /\ req[r].seen = goals[g]

(* The status and the amount part only where the user sets one of them, or *)
(* where a commit acts on an image another commit has overtaken: a fresh   *)
(* contribution or removal leaves a goal in sync that was in sync, at and  *)
(* around the target too.                                                  *)
FreshCommitsKeepStatus ==
    [][\A r \in Requests, g \in GoalIds :
          FreshCommit(r, g) /\ InSync(goals[g]) => InSync(goals'[g])]_vars

(* Only the user un-archives a goal: no contribution or removal that sees  *)
(* it archived does.                                                       *)
FreshCommitsKeepArchived ==
    [][\A r \in Requests, g \in GoalIds :
          FreshCommit(r, g) /\ goals[g].status = "ARCHIVED"
          => goals'[g].status = "ARCHIVED"]_vars
=============================================================================
