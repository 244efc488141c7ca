------------------------------ MODULE ShopPlan ------------------------------
(***************************************************************************)
(* The subscription of one shop, its technician seats and its subscription *)
(* objects at Square (subscription_store.py, technician_store.py,          *)
(* auth.sync_shop_access_status, account_security_store.accept_invitation, *)
(* services/square.py).                                                    *)
(*                                                                         *)
(* Every billing operation holds the subscription row from its first read  *)
(* to its commit; Square is called in between, so a call that fails leaves *)
(* the row as it was and Square as it has become.  Adding a technician     *)
(* takes the same row before it counts; archiving one takes nothing.       *)
(* Technicians differ in nothing the plan looks at: seats is their number. *)
(* A date is "none", "ahead" of now or "past".                             *)
(***************************************************************************)
EXTENDS Naturals, FiniteSets, Sequences

CONSTANTS PlanRequests,  \* requests served at once
          TeamSeats, \* seats of the middle tier (the code's 5)
          MaxSeats,  \* bound: technicians of the shop
          MaxSubs,   \* bound: subscriptions ever created at Square
          MaxOps     \* bound: billing operations and events at Square

ASSUME SeatsAreNumbers == TeamSeats \in Nat /\ MaxSeats \in Nat

VARIABLES
    plan,       \* the shop_subscriptions row
    shopStatus, \* shops.status, the cached standing
    seats,      \* technicians that are not archived
    subs,       \* at Square: the status of each subscription, by its number
    keys,       \* at Square: idempotency key -> the subscription it created
    planReq,    \* what each request is doing
    ops,        \* counts towards MaxOps
    excused     \* history: subscriptions ended by Square itself, touched by a
                \* request that failed, or answered from a key used before

planVars == <<plan, shopStatus, seats, subs, keys, planReq, ops, excused>>

Tiers == {"solo", "team", "shop"}
PlanStatuses == {"trialing", "active", "past_due", "canceled"}
Dates == {"none", "ahead", "past"}
Keys == {"subscribe", "resubscribe"} \X Tiers
PlanIdle == [op |-> "idle"]

-----------------------------------------------------------------------------
(* Limits, standing, locks *)

\* SUBSCRIPTION_TIERS: one seat, five seats, no limit.
SeatLimit(tier) == CASE tier = "solo" -> 1
                     [] tier = "team" -> TeamSeats
                     [] tier = "shop" -> MaxSeats + 1

Fits(n, tier) == n <= SeatLimit(tier)

\* Whether access is suspended by the plan p: a status whose date is missing or
\* past; only "active" needs no date.
Suspended(p) == CASE p.status = "active"   -> FALSE
                  [] p.status = "trialing" -> p.trial # "ahead"
                  [] p.status = "past_due" -> p.grace # "ahead"
                  [] p.status = "canceled" -> p.period # "ahead"

Standing(p) == IF ~Suspended(p) THEN "active"
               ELSE IF p.status = "canceled" THEN "cancelled" ELSE "suspended"

PlanRowFree(r) == \A o \in PlanRequests \ {r} : planReq[o].op = "idle" \/ planReq[o].op = "wait"

\* A billing request starts: it is let in whatever the standing is, and waits
\* for the row.
StartsBilling(r) == planReq[r] = PlanIdle /\ PlanRowFree(r) /\ ops < MaxOps /\ ops' = ops + 1

\* The commit of a billing operation, and the answer that syncs the standing.
Commits(r, p) == /\ plan' = p
                 /\ shopStatus' = Standing(p)
                 /\ planReq' = [planReq EXCEPT ![r] = PlanIdle]

-----------------------------------------------------------------------------
(* Square *)

\* A key Square has seen answers with the subscription it created then.
Reused(key) == keys[key] # 0
Created(key) == IF Reused(key) THEN keys[key] ELSE Len(subs) + 1
CreatesSub(key) ==
    IF Reused(key)
    THEN UNCHANGED <<subs, keys>> /\ excused' = excused \cup {keys[key]}
    ELSE /\ Len(subs) < MaxSubs
         /\ subs' = Append(subs, "ACTIVE")
         /\ keys' = [keys EXCEPT ![key] = Len(subs) + 1]
         /\ UNCHANGED excused

\* Square ends a subscription, finds its card declined or collects after all.
SquareChanges ==
    /\ ops < MaxOps /\ ops' = ops + 1
    /\ \E s \in DOMAIN subs, to \in {"ACTIVE", "DEACTIVATED", "CANCELED"} :
          /\ subs[s] \notin {"CANCELED", to}
          /\ subs' = [subs EXCEPT ![s] = to]
          /\ excused' = IF to = "CANCELED" THEN excused \cup {s} ELSE excused
    /\ UNCHANGED <<plan, shopStatus, seats, keys, planReq>>

-----------------------------------------------------------------------------
(* Technicians *)

\* require_owner_context: the standing is computed afresh, and the cache set.
GatedBegin(r) ==
    /\ planReq[r] = PlanIdle
    /\ shopStatus' = Standing(plan)
    /\ ~Suspended(plan)

\* create_technician up to its lock.
BeginCreate(r) ==
    /\ GatedBegin(r)
    /\ planReq' = [planReq EXCEPT ![r] = [op |-> "wait"]]
    /\ UNCHANGED <<plan, seats, subs, keys, ops, excused>>

\* accept_invitation up to its lock: nobody is logged in, no gate is passed.
BeginAccept(r) ==
    /\ planReq[r] = PlanIdle
    /\ planReq' = [planReq EXCEPT ![r] = [op |-> "wait"]]
    /\ UNCHANGED <<plan, shopStatus, seats, subs, keys, ops, excused>>

\* Mutant: the count without the lock before it.
ClaimSeatUnlocked(r) ==
    /\ planReq[r].op = "wait"
    /\ planReq' = [planReq EXCEPT ![r] = IF seats < SeatLimit(plan.tier) /\ seats < MaxSeats
                                         THEN [op |-> "insert"] ELSE PlanIdle]
    /\ UNCHANGED <<plan, shopStatus, seats, subs, keys, ops, excused>>

\* enforce_technician_seat_limit: lock the row, then count.
ClaimSeat(r) ==
    /\ planReq[r].op = "wait" /\ PlanRowFree(r)
    /\ planReq' = [planReq EXCEPT ![r] = IF seats < SeatLimit(plan.tier) /\ seats < MaxSeats
                                         THEN [op |-> "insert"] ELSE PlanIdle]
    /\ UNCHANGED <<plan, shopStatus, seats, subs, keys, ops, excused>>

\* The rest of create_technician and of accept_invitation: insert and commit.
InsertTechnician(r) ==
    /\ planReq[r].op = "insert"
    /\ seats' = seats + 1
    /\ planReq' = [planReq EXCEPT ![r] = PlanIdle]
    /\ UNCHANGED <<plan, shopStatus, subs, keys, ops, excused>>

\* archive_technician frees the seat without taking the row.
ArchiveTechnician(r) ==
    /\ GatedBegin(r) /\ seats > 0
    /\ seats' = seats - 1
    /\ UNCHANGED <<plan, subs, keys, planReq, ops, excused>>

-----------------------------------------------------------------------------
(* Billing *)

\* A customer and a card at Square; a failure before the commit leaves no card.
AddPaymentMethod(r) ==
    /\ StartsBilling(r)
    /\ Commits(r, [plan EXCEPT !.card = TRUE])
    /\ UNCHANGED <<seats, subs, keys, excused>>

\* change_tier up to its first call: the new tier must hold the seats in use.
\* Square is not called for a shop that has no subscription there.
ChangeTier(r, tier) ==
    /\ StartsBilling(r) /\ Fits(seats, tier)
    /\ \/ /\ plan.sq # 0
          /\ planReq' = [planReq EXCEPT ![r] = [op |-> "cancel_old", tier |-> tier]]
          /\ UNCHANGED <<plan, shopStatus>>
       \/ /\ plan.sq = 0
          /\ Commits(r, [plan EXCEPT !.tier = tier])
    /\ UNCHANGED <<seats, subs, keys, excused>>

\* Mutant: the old subscription is left running.
CancelOldForgotten(r) ==
    /\ planReq[r].op = "cancel_old"
    /\ planReq' = [planReq EXCEPT ![r] = [op |-> "resubscribe", tier |-> planReq[r].tier]]
    /\ UNCHANGED <<plan, shopStatus, seats, subs, keys, ops, excused>>

CancelOld(r) ==
    /\ planReq[r].op = "cancel_old"
    /\ subs' = [subs EXCEPT ![plan.sq] = "CANCELED"]
    /\ planReq' = [planReq EXCEPT ![r] = [op |-> "resubscribe", tier |-> planReq[r].tier]]
    /\ UNCHANGED <<plan, shopStatus, seats, keys, ops, excused>>

\* subscribe up to its call: a card, and no subscription at Square yet.
Subscribe(r, tier) ==
    /\ StartsBilling(r)
    /\ plan.card /\ plan.sq = 0 /\ Fits(seats, tier)
    /\ planReq' = [planReq EXCEPT ![r] = [op |-> "subscribe", tier |-> tier]]
    /\ UNCHANGED <<plan, shopStatus, seats, subs, keys, excused>>

\* create_subscription, under a key made of the shop, the verb and the tier.
CreateAtSquare(r) ==
    /\ planReq[r].op \in {"subscribe", "resubscribe"}
    /\ LET key == <<planReq[r].op, planReq[r].tier>>
       IN /\ CreatesSub(key)
          /\ planReq' = [planReq EXCEPT ![r] = [op |-> "record", how |-> planReq[r].op,
                                                tier |-> planReq[r].tier, sub |-> Created(key)]]
    /\ UNCHANGED <<plan, shopStatus, seats, ops>>

\* The commit of change_tier leaves the status; that of subscribe starts it
\* afresh.  Square's charged_through_date may be missing.
RecordSubscription(r) ==
    /\ planReq[r].op = "record"
    /\ \E period \in {"none", "ahead"} :
          LET p == [plan EXCEPT !.tier = planReq[r].tier, !.sq = planReq[r].sub, !.period = period]
          IN Commits(r, IF planReq[r].how = "resubscribe" THEN p
                        ELSE [p EXCEPT !.status = "active", !.trial = "none", !.grace = "none"])
    /\ UNCHANGED <<seats, subs, keys, ops, excused>>

\* cancel_subscription up to its call, when the shop has a subscription there.
CancelPlan(r) ==
    /\ StartsBilling(r)
    /\ planReq' = [planReq EXCEPT ![r] = [op |-> "cancel_plan"]]
    /\ UNCHANGED <<plan, shopStatus, seats, subs, keys, excused>>

CancelAtSquare(r) ==
    /\ planReq[r].op = "cancel_plan"
    /\ subs' = IF plan.sq # 0 THEN [subs EXCEPT ![plan.sq] = "CANCELED"] ELSE subs
    /\ planReq' = [planReq EXCEPT ![r] = [op |-> "canceled"]]
    /\ UNCHANGED <<plan, shopStatus, seats, keys, ops, excused>>

\* The commit: access lasts to the end of the period paid for.
RecordCancel(r) ==
    /\ planReq[r].op = "canceled"
    /\ Commits(r, [plan EXCEPT !.status = "canceled",
                               !.period = IF @ = "none" THEN "past" ELSE @])
    /\ UNCHANGED <<seats, subs, keys, ops, excused>>

\* refresh_subscription_from_square: what Square says becomes the status; the
\* grace period starts when the shop first falls behind.
RefreshPlan(r) ==
    /\ StartsBilling(r) /\ plan.sq # 0
    /\ \E period \in {plan.period, "ahead", "past"} :
          LET p == [plan EXCEPT !.period = period]
          IN Commits(r, CASE subs[plan.sq] = "ACTIVE" ->
                               [p EXCEPT !.status = "active", !.grace = "none"]
                          [] subs[plan.sq] = "DEACTIVATED" ->
                               IF plan.status = "past_due" THEN p
                               ELSE [p EXCEPT !.status = "past_due", !.grace = "ahead"]
                          [] subs[plan.sq] = "CANCELED" -> [p EXCEPT !.status = "canceled"])
    /\ UNCHANGED <<seats, subs, keys, excused>>

\* A call to Square fails, or its answer is lost after it took effect, or the
\* server stops: the row stays, and the request is over.
FailsAtSquare(r) ==
    /\ planReq[r].op \in {"cancel_old", "resubscribe", "subscribe", "record",
                      "cancel_plan", "canceled"}
    /\ excused' = excused
         \cup (IF planReq[r].op \in {"resubscribe", "record", "canceled"} THEN {plan.sq} ELSE {})
         \cup (IF planReq[r].op = "record" THEN {planReq[r].sub} ELSE {})
    /\ planReq' = [planReq EXCEPT ![r] = PlanIdle]
    /\ UNCHANGED <<plan, shopStatus, seats, subs, keys, ops>>

\* A date goes by.
TimePasses ==
    /\ \E d \in {"trial", "grace", "period"} :
          plan[d] = "ahead" /\ plan' = [plan EXCEPT ![d] = "past"]
    /\ UNCHANGED <<shopStatus, seats, subs, keys, planReq, ops, excused>>

\* Any gated request of the shop: sync_shop_access_status corrects the cache.
SyncStanding ==
    /\ shopStatus' = Standing(plan)
    /\ UNCHANGED <<plan, seats, subs, keys, planReq, ops, excused>>

-----------------------------------------------------------------------------
\* A shop starts on a trial (signup) or as one that was there before
\* (grandfather_subscription); it has no seat taken.
NewPlan(tier, status, trial) ==
    [tier |-> tier, status |-> status, trial |-> trial, grace |-> "none", period |-> "none",
     sq |-> 0, card |-> FALSE]

PlanInit ==
    /\ plan \in {NewPlan("solo", "trialing", "ahead"), NewPlan("shop", "active", "none")}
    /\ shopStatus = "active"
    /\ seats = 0
    /\ subs = <<>>
    /\ keys = [k \in Keys |-> 0]
    /\ planReq = [r \in PlanRequests |-> PlanIdle]
    /\ ops = 0
    /\ excused = {}

PlanNext ==
    \/ \E r \in PlanRequests :
          \/ BeginCreate(r) \/ BeginAccept(r) \/ ClaimSeat(r) \/ InsertTechnician(r)
          \/ ArchiveTechnician(r) \/ AddPaymentMethod(r) \/ CancelOld(r)
          \/ CreateAtSquare(r) \/ RecordSubscription(r) \/ CancelPlan(r)
          \/ CancelAtSquare(r) \/ RecordCancel(r)
          \/ RefreshPlan(r) \/ FailsAtSquare(r)
          \/ \E tier \in Tiers : ChangeTier(r, tier) \/ Subscribe(r, tier)
    \/ SquareChanges \/ TimePasses \/ SyncStanding

PlanSpec == PlanInit /\ [][PlanNext]_planVars

-----------------------------------------------------------------------------
\* What the row, Square and the requests can hold.
Plans == [tier : Tiers, status : PlanStatuses, trial : Dates, grace : Dates, period : Dates,
          sq : Nat, card : BOOLEAN]

Doings == [op : {"idle", "wait", "insert", "cancel_plan", "canceled"}]
          \cup [op : {"cancel_old", "resubscribe", "subscribe"}, tier : Tiers]
          \cup [op : {"record"}, how : {"resubscribe", "subscribe"}, tier : Tiers, sub : Nat]

PlanTypeOK ==
    /\ plan \in Plans
    /\ shopStatus \in {"active", "suspended", "cancelled"}
    /\ seats \in Nat /\ ops \in Nat /\ excused \subseteq Nat
    /\ subs \in Seq({"ACTIVE", "DEACTIVATED", "CANCELED"})
    /\ keys \in [Keys -> Nat]
    /\ planReq \in [PlanRequests -> Doings]

\* The shop never has more technicians than its tier has seats, however the
\* requests that add them, accept invitations and change the tier interleave
\* (enforce_technician_seat_limit and change_tier count under the same row).
SeatsWithinTier == Fits(seats, plan.tier)

\* Square and the row agree while nothing is under way: a subscription that
\* still collects is the one the row names, and the one an active plan names
\* still collects.  What breaks this is named: a request that failed between
\* two calls, Square itself, and a tier changed to a second time, whose key
\* Square answers with the subscription of the first time.
SquareAgrees ==
    (\A r \in PlanRequests : planReq[r].op \in {"idle", "wait", "insert"}) =>
        /\ \A s \in DOMAIN subs \ (excused \cup {plan.sq}) : subs[s] = "CANCELED"
        /\ plan.sq # 0 /\ plan.status = "active" /\ plan.sq \notin excused
              => subs[plan.sq] # "CANCELED"
=============================================================================
