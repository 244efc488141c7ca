---------------------------- MODULE MCBackOffice -----------------------------
(***************************************************************************)
(* The parts of the back office share no row with each other: one run      *)
(* checks them, each on its own instance.  A behaviour is one part's, the  *)
(* others stay as they begin.                                              *)
(***************************************************************************)
EXTENDS WorkOrders, JobPipeline, ShopPlan, SquareInvoices, TimeClock, RateLimiter,
        OperatingMode, TLC

CONSTANT Parts  \* of "orders", "jobs", "plan", "push", "clock", "limiter" and "mode"

VARIABLE part  \* the part that this behaviour is of

officeVars == <<vars, jobVars, planVars, pushVars, clockVars, limiterVars, modeVars, part>>

OfficeInit ==
    /\ part \in Parts
    /\ Init /\ JobInit /\ PlanInit /\ PushInit /\ ClockInit /\ LimiterInit /\ ModeInit
    /\ part # "orders" => ~paymentPlan
    /\ price = CHOOSE p \in Prices : TRUE  \* the other comes with an edit
    /\ part # "jobs" => finding = CHOOSE e \in Evidence : TRUE
    /\ part # "plan" => plan.tier = "solo"
    /\ part # "push" => ~customer

Orders  == part = "orders"  /\ Next
           /\ UNCHANGED <<jobVars, planVars, pushVars, clockVars, limiterVars, modeVars, part>>
Jobs    == part = "jobs"    /\ JobNext
           /\ UNCHANGED <<vars, planVars, pushVars, clockVars, limiterVars, modeVars, part>>
Plan    == part = "plan"    /\ PlanNext
           /\ UNCHANGED <<vars, jobVars, pushVars, clockVars, limiterVars, modeVars, part>>
Push    == part = "push"    /\ PushNext
           /\ UNCHANGED <<vars, jobVars, planVars, clockVars, limiterVars, modeVars, part>>
Clock   == part = "clock"   /\ ClockNext
           /\ UNCHANGED <<vars, jobVars, planVars, pushVars, limiterVars, modeVars, part>>
Limiter == part = "limiter" /\ LimiterNext
           /\ UNCHANGED <<vars, jobVars, planVars, pushVars, clockVars, modeVars, part>>
Mode    == part = "mode"    /\ ModeNext
           /\ UNCHANGED <<vars, jobVars, planVars, pushVars, clockVars, limiterVars, part>>

OfficeNext == Orders \/ Jobs \/ Plan \/ Push \/ Clock \/ Limiter \/ Mode

OfficeSpec == OfficeInit /\ [][OfficeNext]_officeVars

\* The requests of every part have the same names.
Symmetry == Permutations(Sessions)

Recorded(conclusion, confidence) == [conclusion |-> conclusion, confidence |-> confidence]
SomeEvidence == {Recorded("none", "none"), Recorded("short", "none"), Recorded("long", "confirmed")}
Service(hours, quantity) == [hours |-> hours, quantity |-> quantity]
\* Products of hours and rate, and of totals and percentages, that end in half a cent.
SomeRequests ==
    {[services |-> <<Service(50, 0)>>, rate |-> 12501, supplies |-> 0, tax |-> 0],
     [services |-> <<Service(150, 1), Service(25, 2)>>, rate |-> 9999, supplies |-> 750,
      tax |-> 825]}
=============================================================================
