---------------------------- MODULE HttpRequests -----------------------------
(***************************************************************************)
(* A request on its way through the server: the session behind its cookie, *)
(* the gate of its route (role, mailbox, standing of the shop), the rate   *)
(* limiter, the operation, the answer (auth.py, api/deps.py, main.py).     *)
(* Between these steps sessions expire and the subscription lapses; some   *)
(* operations are those that sign people in and out, verify the mailbox,   *)
(* suspend or archive a technician and restore the shop's standing.        *)
(*                                                                         *)
(* People sign in to the account of their own role; support may also come  *)
(* to hold a session of the owner's account, and may leave it without      *)
(* ending it: the next gate of support closes what has lapsed by then, and *)
(* tells the shop.                                                         *)
(***************************************************************************)
EXTENDS HttpRoutes, Capabilities

CONSTANTS People,      \* subset of {"owner", "manager", "technician", "support"}
          TestSupport  \* whether provisioning of synthetic accounts is switched on

VARIABLES
    session,    \* person -> account their cookie's live session is for, or "none"
    disabled,   \* whether the technician's account is "suspended", "archived" or not
    verified,   \* the owner's mailbox is verified
    good,       \* the subscription's dates leave the shop its access
    cached,     \* shops.status as last derived from them
    stray,      \* impersonations left open: whether some are "live", some "lapsed"
    request     \* the request under way, if any

httpVars == <<session, disabled, verified, good, cached, stray, request>>

\* What an operation does to sessions, accounts and standing hangs on its name;
\* for all others routes of a kind are one.
Steering == {"login", "logout", "revoke_auth_session", "revoke_other_auth_sessions",
             "password_change", "password_reset_confirm", "verify_email",
             "change_shop_member_status", "archive_technician_record",
             "start_shop_impersonation", "end_shop_impersonation_route",
             "subscribe_billing", "refresh_billing_subscription",
             "get_billing_subscription"}
RouteKinds == {IF r.name \in Steering THEN r ELSE [r EXCEPT !.name = r.area] : r \in Routes}

NoRequest == [pc |-> "idle"]
Underway == request.pc \notin {"idle", "answered"}
Answer(code) == request' = [request EXCEPT !.pc = "answered", !.answer = code]
Onward(pc) == request' = [request EXCEPT !.pc = pc]
OnwardWriting(pc, what) == request' = [request EXCEPT !.pc = pc, !.wrote = @ \cup what]
AnswerWriting(code, what) ==
    request' = [request EXCEPT !.pc = "answered", !.answer = code, !.wrote = @ \cup what]
SessionsEnded(people) == [p \in People |-> IF p \in people THEN "none" ELSE session[p]]
Holding(account) == {p \in People : session[p] = account}

-----------------------------------------------------------------------------
(* The steps of a request *)

Arrive(p, route) ==
    /\ request = NoRequest
    /\ request' = [pc |-> "arrived", by |-> p, account |-> session[p], route |-> route,
                   answer |-> 0, counted |-> FALSE, sawGood |-> good, sawLapsed |-> ~good,
                   wrote |-> {}]
    /\ UNCHANGED <<session, disabled, verified, good, cached, stray>>

\* get_current_auth_context: a live session of an account in use.
Authenticate ==
    /\ request.pc = "arrived"
    /\ LET a == request.account
           live == a # "none" /\ session[request.by] = a /\ ~(a = "technician" /\ disabled # "no")
       IN IF NeedsSession(request.route.gate) => live
          THEN Onward("known") ELSE Answer(401)
    /\ UNCHANGED <<session, disabled, verified, good, cached, stray>>

\* sync_shop_access_status: the cache is corrected, the dates decide.
Synced == cached' = IF good THEN "active" ELSE "suspended"
Correction == IF cached' # cached THEN {"standing"} ELSE {}

\* reconcile_abandoned_impersonation_sessions: the lapsed impersonations are
\* revoked, and an event for each goes to its shop.
Swept == stray' = stray \ {"lapsed"}
Closing == IF "lapsed" \in stray THEN {"audit"} ELSE {}

\* The dependency of the route: role, then mailbox, then standing; support's has
\* the role and the sweep; the routes of test support ask for their switch instead.
PassGate ==
    /\ request.pc = "known"
    /\ LET gate == request.route.gate
           a == request.account
           refused == NeedsSession(gate)
                      /\ \/ a \notin GateRoles(gate)
                         \/ NeedsEmail(gate) /\ a = "owner" /\ ~verified
       IN CASE gate = "testing" /\ ~TestSupport -> Answer(404) /\ UNCHANGED <<cached, stray>>
            [] refused                          -> Answer(403) /\ UNCHANGED <<cached, stray>>
            [] ~refused /\ NeedsStanding(gate)  ->
                 /\ Synced /\ UNCHANGED stray
                 /\ IF good THEN OnwardWriting("gated", Correction)
                    ELSE AnswerWriting(402, Correction)
            [] ~refused /\ gate = "support"     ->
                 Swept /\ OnwardWriting("gated", Closing) /\ UNCHANGED cached
            [] OTHER                            -> Onward("gated") /\ UNCHANGED <<cached, stray>>
    /\ UNCHANGED <<session, disabled, verified, good>>

\* enforce_*_rate_limit: counted, or refused.
Throttle ==
    /\ request.pc = "gated"
    /\ IF request.route.limiter = "none" THEN Onward("counted")
       ELSE \/ request' = [request EXCEPT !.pc = "counted", !.counted = TRUE]
            \/ Answer(429)
    /\ UNCHANGED <<session, disabled, verified, good, cached, stray>>

\* Mutant: a context store that takes the account for a member of some shop.
InSomeShop(area, account) == TRUE

\* effective_shop_owner_id, on which the context store hangs its rows: support
\* belongs to no shop.
InShop(area, account) == ~(area = "context" /\ account = "support")

\* What an operation writes: rows of accounts and sessions, events of
\* impersonation, or data of the shop.
Writes(route) ==
    IF route.effect = "read" THEN {}
    ELSE CASE route.area = "support"  -> {"accounts", "audit"}
           [] route.area = "accounts" -> {"accounts"}
           [] OTHER                   -> {"business"}

\* An operation that the store refuses, or that fails: the handler's status for
\* the error, 422 for input it cannot read, 500 for an error it does not catch.
\* An operation on the shop's data may have committed some by then.
OperateRefused ==
    /\ request.pc = "counted"
    /\ \/ ~InShop(request.route.area, request.account) /\ Answer(403)
       \/ /\ InShop(request.route.area, request.account)
          /\ \E code \in request.route.answers \cup {422, 500},
                part \in SUBSET (Writes(request.route) \cap {"business"}) :
                AnswerWriting(code, part)
    /\ UNCHANGED <<session, disabled, verified, good, cached, stray>>

\* update_member_status and archive_technician: an account that is archived is
\* not reactivated, one that is suspended not archived.
DisabledAfter(name) ==
    CASE name = "change_shop_member_status" /\ disabled = "no"        -> "suspended"
      [] name = "change_shop_member_status" /\ disabled = "suspended" -> "no"
      [] name = "archive_technician_record" /\ disabled = "no"        -> "archived"
      [] OTHER                                                        -> disabled

\* What the operations that steer later requests may do to the sessions; nobody
\* holds a session of an account that is disabled already.
SessionsAfter(name, p, a) ==
    CASE name = "login"                  -> {[session EXCEPT ![p] = p]}
      [] name = "logout"                 -> {SessionsEnded({p})}
      [] name = "revoke_auth_session"    -> {SessionsEnded({q}) : q \in Holding(a)}
      [] name \in {"password_change", "revoke_other_auth_sessions"} -> {SessionsEnded(Holding(a) \ {p})}
      [] name = "password_reset_confirm" -> {SessionsEnded(Holding(p))}
      [] DisabledAfter(name) # disabled -> {SessionsEnded(Holding("technician"))}
      [] name = "start_shop_impersonation"     -> {[session EXCEPT ![p] = "owner"]}
      [] name = "end_shop_impersonation_route" -> {[session EXCEPT ![p] = "support"]}
      [] OTHER                                 -> {session}

\* What becomes of the impersonations left open: signing in anew leaves one;
\* whoever acts as the owner may revoke one, or all but their own session.
StrayAfter(name, p, a) ==
    CASE name = "login" /\ p = "support" /\ session[p] = "owner" -> {stray \cup {"live"}}
      [] name = "revoke_auth_session" /\ a = "owner" ->
             {stray} \cup {stray \ {s} : s \in stray}
      [] \/ name \in {"password_change", "revoke_other_auth_sessions"} /\ a = "owner"
         \/ name = "password_reset_confirm" /\ p = "owner" ->
             IF p = "support" /\ session[p] = "none" THEN {{}, stray \cap {"lapsed"}} ELSE {{}}
      [] name \in {"logout", "end_shop_impersonation_route"} /\ a = "owner"
             /\ p = "support" /\ session[p] = "none" -> {stray, stray \ {"lapsed"}}
      [] OTHER -> {stray}

\* A login needs an account in use; ending an impersonation needs one.
Possible(name, p, a) ==
    /\ name = "login" => ~(p = "technician" /\ disabled # "no")
    /\ name = "end_shop_impersonation_route" => p = "support" /\ a = "owner"

Operate ==
    /\ request.pc = "counted"
    /\ InShop(request.route.area, request.account)
    /\ LET name == request.route.name
           p == request.by
       IN /\ Possible(name, p, request.account)
          /\ session' \in SessionsAfter(name, p, request.account)
          /\ stray' \in StrayAfter(name, p, request.account)
          /\ name = "revoke_auth_session" => session' = session \/ stray' = stray
          /\ disabled' = DisabledAfter(name)
          /\ verified' = (verified \/ (name = "verify_email" /\ p = "owner"))
          /\ IF name = "refresh_billing_subscription" THEN good' \in BOOLEAN
             ELSE good' = (good \/ name = "subscribe_billing")
          /\ IF name = "get_billing_subscription" THEN Synced ELSE UNCHANGED cached
          /\ request' = [request EXCEPT !.pc = "answered", !.answer = 200,
                                        !.sawGood = @ \/ good', !.sawLapsed = @ \/ ~good',
                                        !.wrote = @ \cup Writes(request.route) \cup Correction]

\* Start and End commit more than once.  Cut short after the first commit, Start
\* leaves a session nobody holds, End has ended the one it was called with.
OperateCutShort ==
    /\ request.pc = "counted"
    /\ LET name == request.route.name
           p == request.by
       IN /\ name \in {"start_shop_impersonation", "end_shop_impersonation_route"}
          /\ Possible(name, p, request.account)
          /\ IF name = "start_shop_impersonation"
             THEN stray' \in {stray, stray \cup {"live"}} /\ UNCHANGED session
             ELSE session' = SessionsEnded({p}) /\ UNCHANGED stray
    /\ AnswerWriting(500, {"accounts"})
    /\ UNCHANGED <<disabled, verified, good, cached>>

Deliver ==
    /\ request.pc = "answered"
    /\ request' = NoRequest
    /\ UNCHANGED <<session, disabled, verified, good, cached, stray>>

\* Time: a session expires; the trial, the grace or the paid period ends.
Expire(p) ==
    /\ session[p] # "none"
    /\ session' = SessionsEnded({p})
    /\ stray' = IF p = "support" /\ session[p] = "owner" THEN stray \cup {"lapsed"} ELSE stray
    /\ UNCHANGED <<disabled, verified, good, cached, request>>

ExpireStray ==
    /\ "live" \in stray
    /\ stray' \in {stray \cup {"lapsed"}, (stray \ {"live"}) \cup {"lapsed"}}
    /\ UNCHANGED <<session, disabled, verified, good, cached, request>>

Lapse ==
    /\ good /\ good' = FALSE
    /\ request' = IF Underway THEN [request EXCEPT !.sawLapsed = TRUE] ELSE request
    /\ UNCHANGED <<session, disabled, verified, cached, stray>>

HttpInit ==
    /\ session = [p \in People |-> "none"]
    /\ disabled = "no" /\ verified = FALSE /\ good = TRUE /\ cached = "active"
    /\ stray = {}
    /\ request = NoRequest

HttpNext ==
    \/ \E p \in People, route \in RouteKinds : Arrive(p, route)
    \/ Authenticate \/ PassGate \/ Throttle
    \/ Operate \/ OperateRefused \/ OperateCutShort \/ Deliver
    \/ \E p \in People : Expire(p)
    \/ ExpireStray
    \/ Lapse

HttpSpec == HttpInit /\ [][HttpNext]_httpVars

-----------------------------------------------------------------------------
Succeeded == request.pc = "answered" /\ request.answer = 200
SignedIn == NeedsSession(request.route.gate)

\* Data of a shop that a lapsed shop may still reach: its accounts and sessions,
\* its bill, and what is not behind the standing at all.
OpenToLapsed == {"accounts", "billing", "support", "platform", "assistant", "context"}

\* Suspension is neither late nor loose (auth.sync_shop_access_status: "enforced
\* immediately without needing a background job"; require_billing_context: "or
\* suspension would be permanent"): business of a signed-in caller is served only
\* if the shop was in good standing at some moment since the request arrived, and
\* 402 answers only business, and only if the shop was lapsed at some moment.
SuspensionIsExact ==
    /\ Succeeded /\ SignedIn /\ request.route.area \notin OpenToLapsed => request.sawGood
    /\ request.pc = "answered" /\ request.answer = 402
          => request.sawLapsed /\ request.route.area \notin OpenToLapsed

\* Under its own account support leaves no trace in a shop but the events of its
\* impersonations, and those only from support's own routes, the directory
\* included: no request of it touches a shop's data, or corrects its cached standing
\* (auth.is_shop_access_suspended_readonly), however it ends.
SupportLeavesShopsAlone ==
    request # NoRequest /\ SignedIn /\ request.account = "support"
    => /\ request.wrote \subseteq {"accounts", "audit"}
       /\ "audit" \in request.wrote => request.route.gate = "support"

\* The capability a kind of data belongs to, for those the matrix denies to
\* somebody.
CapabilityOfArea ==
    [estimates |-> "estimates", invoices |-> "invoices", scheduling |-> "scheduling",
     bays |-> "bays", reports |-> "reports"]

\* What the capability matrix hides from a technician no route serves to one:
\* matrix and gates are two tables that are kept in step by hand.
HiddenStaysClosed ==
    Succeeded /\ SignedIn /\ request.account = "technician"
       /\ request.route.area \in DOMAIN CapabilityOfArea
    => Available(TechnicianLevels(CapabilityOfArea[request.route.area]))

=============================================================================
