----------------------------- MODULE Throttler -----------------------------
(* One key of the rate limiter (infrastructure/redis): the hit counter and *)
(* the block flag, which expire apart. The Lua script is one step.         *)
EXTENDS Integers, FiniteSets

CONSTANTS Ttl, BlockDuration,   \* in ticks
          Limit

ASSUME ThrottlerAssumption ==
    Ttl \in Nat \ {0} /\ BlockDuration \in Nat \ {0} /\ Limit \in Nat \ {0}

VARIABLES
    hits,           \* the counter and its PTTL; 0 and 0 when it has expired
    blockLeft,      \* PTTL of the block flag
    redisUp,
    recent,         \* history: recent[i] hits were counted i - 1 ticks ago,
    passed          \* and requests the present counter has let through

throttlerVars == <<hits, blockLeft, redisUp, recent, passed>>

(* Bound: hits counted in one tick.                                        *)
MaxHitsPerTick == Limit + 1

ThrottlerTypeOK ==
    /\ hits \in [count : Nat, left : 0..Ttl]
    /\ hits.count = 0 <=> hits.left = 0
    /\ blockLeft \in 0..BlockDuration
    /\ redisUp \in BOOLEAN
    /\ recent \in [1..Ttl -> 0..MaxHitsPerTick]
    /\ passed \in Nat

(* INCR, and PEXPIRE on the first hit.                                     *)
CountedAfresh == [count |-> hits.count + 1, left |-> Ttl]   \* mutant: PEXPIRE on every hit
Counted == [count |-> hits.count + 1, left |-> IF hits.count = 0 THEN Ttl ELSE hits.left]

OverByOne(count) == count > Limit + 1       \* mutant
Over(count) == count > Limit

Blocks == blockLeft > 0 \/ Over(Counted.count)

(* increment: counted while blocked, too; the guard turns a blocked        *)
(* request down.                                                           *)
Increment ==
    /\ redisUp
    /\ recent[1] < MaxHitsPerTick
    /\ hits' = Counted
    /\ blockLeft' = IF blockLeft = 0 /\ Over(Counted.count) THEN BlockDuration ELSE blockLeft
    /\ recent' = [recent EXCEPT ![1] = @ + 1]
    /\ passed' = passed + (IF Blocks THEN 0 ELSE 1)
    /\ UNCHANGED redisUp

(* Redis cannot be reached: the request is let through, uncounted.         *)
FailOpen == ~redisUp /\ UNCHANGED throttlerVars

Tick ==
    /\ hits' = IF hits.left > 1 THEN [hits EXCEPT !.left = @ - 1] ELSE [count |-> 0, left |-> 0]
    /\ blockLeft' = IF blockLeft > 0 THEN blockLeft - 1 ELSE 0
    /\ recent' = [i \in 1..Ttl |-> IF i = 1 THEN 0 ELSE recent[i - 1]]
    /\ passed' = IF hits'.count = 0 THEN 0 ELSE passed
    /\ UNCHANGED redisUp

(* The connection breaks and comes back; a restart loses both keys.        *)
RedisBreaks ==
    /\ redisUp' = ~redisUp
    /\ \/ UNCHANGED <<hits, blockLeft, passed>>
       \/ redisUp' /\ hits' = [count |-> 0, left |-> 0] /\ blockLeft' = 0 /\ passed' = 0
    /\ UNCHANGED recent

ThrottlerInit ==
    /\ hits = [count |-> 0, left |-> 0]
    /\ blockLeft = 0
    /\ redisUp = TRUE
    /\ recent = [i \in 1..Ttl |-> 0]
    /\ passed = 0

ThrottlerNext == Increment \/ FailOpen \/ Tick \/ RedisBreaks

ThrottlerSpec == ThrottlerInit /\ [][ThrottlerNext]_throttlerVars

-----------------------------------------------------------------------------
(* The hits counted within the last n ticks, the present one among them.   *)
HitsWithin(n) == {hit \in (1..n) \X (1..MaxHitsPerTick) : hit[2] <= recent[hit[1]]}
RecentHits == Cardinality(HitsWithin(Ttl))

(* While Redis answers, one counter lets at most limit requests through,   *)
(* although blocked requests are counted and the flag expires on its own.  *)
LimitHolds == passed <= Limit

(* Only a client that has sent more than limit requests within ttl is      *)
(* newly blocked: a steady slow one never is, however long it goes on.     *)
BlockEarned ==
    [][blockLeft = 0 /\ blockLeft' > 0 => RecentHits' > Limit]_throttlerVars
=============================================================================
