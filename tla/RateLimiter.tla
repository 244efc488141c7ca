---------------------------- MODULE RateLimiter -----------------------------
(***************************************************************************)
(* One key of the sliding-window limiter (rate_limit.py), shared by the    *)
(* instances of the server: a sorted set at Redis that each check purges,  *)
(* adds to and counts in one transaction, and a window in the memory of    *)
(* each instance for as long as Redis does not answer.  A count over the   *)
(* limit takes its member back in a second call.  Ages are in ticks; a     *)
(* member is out of the window at age Window.                              *)
(***************************************************************************)
EXTENDS Naturals, FiniteSets, Functions

CONSTANTS Instances, \* server processes
          Calls,     \* checks under way at once
          Limit,
          Window,
          MaxLost    \* bound: members a failed removal leaves behind

ASSUME LimitAssumption == Limit \in Nat /\ Window \in Nat \ {0}
ASSUME ServersAssumption == IsFiniteSet(Instances) /\ IsFiniteSet(Calls)

VARIABLES
    z,        \* Redis: age -> members of that age
    own,      \* in memory: instance -> age -> events
    call,     \* checks between the count and the removal
    up,       \* whether Redis answers
    lost,     \* age -> members that a refused check could not take back
    passed    \* history: age -> checks that passed, by what counted them

limiterVars == <<z, own, call, up, lost, passed>>

Ages == 0..(Window - 1)
Total(f) == FoldFunction(+, 0, f)
Aged(f) == [a \in Ages |-> IF a = 0 THEN 0 ELSE f[a - 1]]
Plus(f) == [f EXCEPT ![0] = @ + 1]
CallIdle == [at |-> "idle"]

\* Mutant: off by one, the count that includes the request itself.
CheckRedisLax(c) ==
    /\ up /\ call[c] = CallIdle
    /\ z' = Plus(z)
    /\ IF Total(z') <= Limit + 1
       THEN passed' = [passed EXCEPT !.redis = Plus(@)] /\ UNCHANGED call
       ELSE call' = [call EXCEPT ![c] = [at |-> "over", age |-> 0]] /\ UNCHANGED passed
    /\ UNCHANGED <<own, up, lost>>

\* The pipeline: purge, add, count.  Within the limit the check passes.
CheckRedis(c) ==
    /\ up /\ call[c] = CallIdle
    /\ z' = Plus(z)
    /\ IF Total(z') <= Limit
       THEN passed' = [passed EXCEPT !.redis = Plus(@)] /\ UNCHANGED call
       ELSE call' = [call EXCEPT ![c] = [at |-> "over", age |-> 0]] /\ UNCHANGED passed
    /\ UNCHANGED <<own, up, lost>>

\* zrem of the refused member, if it is still there; then the 429.
TakeBack(c) ==
    /\ up /\ call[c].at = "over"
    /\ z' = IF call[c].age < Window THEN [z EXCEPT ![call[c].age] = @ - 1] ELSE z
    /\ call' = [call EXCEPT ![c] = CallIdle]
    /\ UNCHANGED <<own, up, lost, passed>>

\* The removal fails, which is suppressed: the member stays for its window.
TakeBackFails(c) ==
    /\ ~up /\ call[c].at = "over" /\ Total(lost) < MaxLost
    /\ lost' = IF call[c].age < Window THEN [lost EXCEPT ![call[c].age] = @ + 1] ELSE lost
    /\ call' = [call EXCEPT ![c] = CallIdle]
    /\ UNCHANGED <<z, own, up, passed>>

\* Redis fails: the window of this instance decides.
CheckFallback(i) ==
    /\ ~up
    /\ Total(own[i]) < Limit
    /\ own' = [own EXCEPT ![i] = Plus(@)]
    /\ passed' = [passed EXCEPT !.memory = Plus(@)]
    /\ UNCHANGED <<z, call, up, lost>>

RedisTurns == up' = ~up /\ UNCHANGED <<z, own, call, lost, passed>>

WindowSlides ==
    /\ z' = Aged(z) /\ lost' = Aged(lost)
    /\ own' = [i \in Instances |-> Aged(own[i])]
    /\ passed' = [redis |-> Aged(passed.redis), memory |-> Aged(passed.memory)]
    /\ call' = [c \in Calls |-> IF call[c] # CallIdle /\ call[c].age < Window
                                THEN [call[c] EXCEPT !.age = @ + 1] ELSE call[c]]
    /\ UNCHANGED up

None == [a \in Ages |-> 0]

LimiterInit ==
    /\ z = None /\ lost = None /\ up = TRUE
    /\ own = [i \in Instances |-> None]
    /\ passed = [redis |-> None, memory |-> None]
    /\ call = [c \in Calls |-> CallIdle]

LimiterNext ==
    \/ \E c \in Calls : CheckRedis(c) \/ TakeBack(c) \/ TakeBackFails(c)
    \/ \E i \in Instances : CheckFallback(i)
    \/ RedisTurns \/ WindowSlides

LimiterSpec == LimiterInit /\ [][LimiterNext]_limiterVars

-----------------------------------------------------------------------------
\* In any window no more checks pass than the limit through Redis and the
\* limit once more for each instance that fell back to its own memory; and a
\* check that was refused does not hold up a later one: the members are those
\* that passed, those being taken back, and those whose removal failed.
WindowBound ==
    /\ Total(passed.redis) <= Limit
    /\ Total(passed.memory) <= Limit * Cardinality(Instances)
    /\ Total(z) = Total(passed.redis) + Total(lost)
                  + Cardinality({c \in Calls : call[c] # CallIdle /\ call[c].age < Window})
=============================================================================
