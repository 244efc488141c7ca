------------------------------ MODULE MCAccess ------------------------------
(***************************************************************************)
(* Access to a shop from three sides that share no row here: one member's  *)
(* account, support's visits, and a request at its gates.  One run checks  *)
(* them, each on its own instance: a behaviour is one part's, the others   *)
(* stay as they begin.                                                     *)
(***************************************************************************)
EXTENDS Accounts, SupportAccess, HttpRequests, TLC

CONSTANT Parts  \* the parts checked, of "account", "support" and "http"

\* The answers that the steps of a request and the properties tell apart; others
\* (400, 404, 409, ...) differ in nothing but their number.
ToldApart == {200, 401, 402, 403, 429, 500}

\* One route of each kind that they tell apart: most areas are business like any other.
Behaviour(r) ==
    <<IF r.name \in Steering THEN r.name ELSE "any", r.gate,
      IF r.area \in OpenToLapsed \cup DOMAIN CapabilityOfArea THEN r.area ELSE "business",
      r.effect, r.limiter = "none", r.answers \cap ToldApart>>
SomeRoutes ==
    {CHOOSE r \in RouteKinds : Behaviour(r) = b : b \in {Behaviour(r) : r \in RouteKinds}}

VARIABLE part

accessVars == <<vars, supportVars, httpVars, part>>

AccessInit ==
    /\ part \in Parts
    /\ Init /\ SupportInit /\ HttpInit
    /\ part # "account" => /\ ~user.owner /\ ~user.verified
                           /\ user.pw = CHOOSE p \in Passwords : TRUE

Account == part = "account" /\ Next        /\ UNCHANGED <<supportVars, httpVars, part>>
Support == part = "support" /\ SupportNext /\ UNCHANGED <<vars, httpVars, part>>
Http    == /\ part = "http" /\ HttpNext /\ UNCHANGED <<vars, supportVars, part>>
           /\ request'.pc = "arrived" => request'.route \in SomeRoutes
           /\ request'.pc = "answered" => request'.answer \in ToldApart

AccessNext == Account \/ Support \/ Http

AccessSpec == AccessInit /\ [][AccessNext]_accessVars

Symmetry == Permutations(Requests) \cup Permutations(Passwords)
=============================================================================
