---------------------------- MODULE SupportAccess ----------------------------
(***************************************************************************)
(* Support acts in the name of a shop's owner (app/support_store.py,       *)
(* app/auth.py): a support account opens sessions of the owner, one for    *)
(* each visit, ends them or lets them lapse, and the audit trail of the    *)
(* shop records it.                                                        *)
(*                                                                         *)
(* Start and End are three commits each.  Any request may be cut short     *)
(* between two of them, by an error or because the server stops, and what  *)
(* it has committed stays.  Every request of support first closes the      *)
(* visits that have lapsed.  The lock of End does not refresh the copy of  *)
(* the session that its authentication has loaded.                         *)
(*                                                                         *)
(* One support account and one shop, whose owner is active: an owner is    *)
(* never suspended.                                                        *)
(***************************************************************************)
EXTENDS Integers, Sequences

CONSTANTS
    Tabs,       \* the requests of support that may be in flight at once
    MaxVisits   \* bound on the sessions opened for support

ASSUME VisitsAssumption == MaxVisits \in Nat

VARIABLES
    visits,   \* the auth_sessions opened for support, with their shop_events
    tab       \* the progress of each request of support

supportVars == <<visits, tab>>

EventTypes == {"started", "ended", "expired"}

\* tagged: impersonated_by_user_account_id is set.  revoked: revoked_at is set;
\* lapsed: expires_at has passed.  log: how many events of each type the shop has.
\* The rest is history: the cookie was handed to support; somebody but support's
\* End and sweep has revoked the session; its End was cut short before the event.
Visits == [tagged : BOOLEAN, revoked : BOOLEAN, lapsed : BOOLEAN,
           log : [EventTypes -> Nat],
           held : BOOLEAN, elsewhere : BOOLEAN, cut : BOOLEAN]

NewVisit == [tagged |-> FALSE, revoked |-> FALSE, lapsed |-> FALSE,
             log |-> [e \in EventTypes |-> 0],
             held |-> FALSE, elsewhere |-> FALSE, cut |-> FALSE]

AtRest == [pc |-> "rest"]

SupportInit ==
    /\ visits = <<>>
    /\ tab = [b \in Tabs |-> AtRest]

Goes(b, pc) == tab' = [tab EXCEPT ![b].pc = pc]
Rests(b) == tab' = [tab EXCEPT ![b] = AtRest]

-----------------------------------------------------------------------------
(* The gate of support's routes                                            *)

Abandoned ==
    {v \in DOMAIN visits : visits[v].tagged /\ visits[v].lapsed /\ ~visits[v].revoked}

\* require_support_context, for a request that reads the directory or starts a
\* visit: it first reads the abandoned visits, without a lock ...
Enter(b) ==
    /\ tab[b] = AtRest
    /\ \E op \in {"list", "start"} :
          tab' = [tab EXCEPT ![b] = [pc |-> IF Abandoned = {} THEN op ELSE "sweep",
                                     op |-> op, found |-> Abandoned, visit |-> 0]]
    /\ UNCHANGED visits

\* ... then closes and records those it has read, in one commit.
CloseAbandoned(b) ==
    /\ tab[b].pc = "sweep"
    /\ visits' = [v \in DOMAIN visits |->
                     IF v \in tab[b].found
                     THEN [visits[v] EXCEPT !.revoked = TRUE, !.log["expired"] = @ + 1]
                     ELSE visits[v]]
    /\ Goes(b, tab[b].op)

\* list_shops_for_support reads.
ListShops(b) ==
    /\ tab[b].pc = "list"
    /\ Rests(b)
    /\ UNCHANGED visits

-----------------------------------------------------------------------------
(* Start: impersonate_shop_owner                                           *)

\* create_auth_session opens a session like any of the owner's ...
StartMint(b) ==
    /\ tab[b].pc = "start"
    /\ Len(visits) < MaxVisits
    /\ visits' = Append(visits, NewVisit)
    /\ tab' = [tab EXCEPT ![b].pc = "tag", ![b].visit = Len(visits) + 1]

\* ... start_impersonation_session tags it and has it expire in an hour ...
StartTag(b) ==
    /\ tab[b].pc = "tag"
    /\ visits' = [visits EXCEPT ![tab[b].visit].tagged = TRUE]
    /\ Goes(b, "start_event")

\* ... the event is the third commit, and only then the cookie is handed out.
StartEvent(b) ==
    /\ tab[b].pc = "start_event"
    /\ visits' = [visits EXCEPT ![tab[b].visit].log["started"] = @ + 1]
    /\ Goes(b, "answer")

HandOver(b) ==
    /\ tab[b].pc = "answer"
    /\ visits' = [visits EXCEPT ![tab[b].visit].held = TRUE]
    /\ Rests(b)

-----------------------------------------------------------------------------
(* End: end_shop_impersonation                                             *)

\* The cookie authenticates the request.
EndEnter(b) ==
    /\ tab[b] = AtRest
    /\ \E v \in DOMAIN visits :
          /\ visits[v].held /\ ~visits[v].revoked /\ ~visits[v].lapsed
          /\ tab' = [tab EXCEPT ![b] = [pc |-> "revoke", op |-> "end", found |-> {},
                                        visit |-> v]]
    /\ UNCHANGED visits

\* end_impersonation_session locks the row, but tests the copy that the
\* authentication loaded: the visit that another End has closed by now is closed
\* again.
EndRevoke(b) ==
    /\ tab[b].pc = "revoke"
    /\ visits' = [visits EXCEPT ![tab[b].visit].revoked = TRUE]
    /\ Goes(b, "remint")

\* A new session of the support account itself is the second commit ...
EndMint(b) ==
    /\ tab[b].pc = "remint"
    /\ Goes(b, "end_event")
    /\ UNCHANGED visits

\* Mutant: end_shop_impersonation forgets the event.
EndEventForgotten(b) ==
    /\ tab[b].pc = "end_event"
    /\ Rests(b)
    /\ UNCHANGED visits

\* ... the event is the third.
EndEvent(b) ==
    /\ tab[b].pc = "end_event"
    /\ visits' = [visits EXCEPT ![tab[b].visit].log["ended"] = @ + 1]
    /\ Rests(b)

-----------------------------------------------------------------------------
(* What else happens                                                       *)

\* Between the revocation and the event of its End.
Ending(b, v) == tab[b].pc \in {"remint", "end_event"} /\ tab[b].visit = v

\* A request is cut short: a database error, a lost connection, the server stops.
CutShort(b) ==
    /\ tab[b] # AtRest
    /\ visits' = [v \in DOMAIN visits |->
                     IF Ending(b, v) THEN [visits[v] EXCEPT !.cut = TRUE] ELSE visits[v]]
    /\ Rests(b)

\* A logout, or a change of the owner's password or sessions, ends the visit too.
RevokeElsewhere ==
    \E v \in DOMAIN visits :
        /\ ~visits[v].revoked
        /\ visits' = [visits EXCEPT ![v].revoked = TRUE, ![v].elsewhere = TRUE]
        /\ UNCHANGED tab

\* expires_at passes; that takes longer than the request that starts the visit.
VisitLapses ==
    \E v \in DOMAIN visits :
        /\ ~visits[v].lapsed
        /\ \A b \in Tabs : tab[b].pc \in {"tag", "start_event", "answer"} => tab[b].visit # v
        /\ visits' = [visits EXCEPT ![v].lapsed = TRUE]
        /\ UNCHANGED tab

SupportNext ==
    \/ \E b \in Tabs :
           \/ Enter(b) \/ CloseAbandoned(b) \/ ListShops(b)
           \/ StartMint(b) \/ StartTag(b) \/ StartEvent(b) \/ HandOver(b)
           \/ EndEnter(b) \/ EndRevoke(b) \/ EndMint(b) \/ EndEvent(b)
           \/ CutShort(b)
    \/ RevokeElsewhere
    \/ VisitLapses

SupportSpec == SupportInit /\ [][SupportNext]_supportVars

-----------------------------------------------------------------------------
(* Properties                                                              *)

\* The shop knows of every visit that support held: of its start before support
\* holds the cookie, whatever is cut short; and of the end that End or the sweep
\* made, unless an End is about to record it or was cut short before it could.
\* A visit that others ended stays without one: the sweep passes it over.
ImpersonationOnRecord ==
    \A v \in DOMAIN visits :
        /\ visits[v].held => visits[v].tagged /\ visits[v].log["started"] > 0
        /\ visits[v].revoked /\ visits[v].log["ended"] + visits[v].log["expired"] = 0 =>
              visits[v].elsewhere \/ visits[v].cut \/ \E b \in Tabs : Ending(b, v)

\* The lock of End keeps a double submit from "duplicate ended events"
\* (auth.end_impersonation_session).
EndedOnce == \A v \in DOMAIN visits : visits[v].log["ended"] <= 1

\* "A support session loading the directory must never trigger a write to a shop"
\* (auth.is_shop_access_suspended_readonly, support_store.list_shops_for_support).
DirectoryNeverWrites ==
    [][\A b \in Tabs :
          tab[b] # AtRest /\ tab[b].op = "list" /\ tab'[b] # tab[b]
          => \A v \in DOMAIN visits : visits'[v].log = visits[v].log]_supportVars
=============================================================================
