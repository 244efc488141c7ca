--------------------------- MODULE OperatingMode ----------------------------
(***************************************************************************)
(* Changing the operating mode of a shop (mode_transition_store.py): from  *)
(* the settings by owner or manager, and once after signup by the owner.   *)
(* Both lock the shop, reload it, and refuse when the mode is not the one  *)
(* the caller expected.                                                    *)
(***************************************************************************)
EXTENDS Capabilities, Sequences

CONSTANTS Changers,      \* requests that change the mode at once
          MaxModeEvents  \* bound: mode events of the shop

VARIABLES
    mode,       \* shops.operating_mode
    confirmed,  \* whether operating_mode_confirmed_at is set
    modeEvents, \* the shop's mode events, in the order of their commits, each with
                \* the mode the caller was shown (history)
    change      \* what each request does

modeVars == <<mode, confirmed, modeEvents, change>>

ModeIdle == [at |-> "idle"]
ModeLockFree(r) == \A o \in Changers \ {r} : change[o].at # "locked"

\* The request as it comes: the mode the page showed and the one wanted; the
\* shop is read (seen) before it is locked.
BeginChange(r, how, expected, proposed) ==
    /\ change[r] = ModeIdle /\ Len(modeEvents) < MaxModeEvents
    /\ change' = [change EXCEPT ![r] = [at |-> "read", how |-> how, expected |-> expected,
                                        proposed |-> proposed, seen |-> mode]]
    /\ UNCHANGED <<mode, confirmed, modeEvents>>

\* Mutant: the lock without the refresh compares the copy read before it.
LockShopStale(r) ==
    /\ change[r].at = "read" /\ ModeLockFree(r)
    /\ change' = [change EXCEPT ![r] = IF change[r].seen = change[r].expected
                                       THEN [@ EXCEPT !.at = "locked"]
                                       ELSE ModeIdle]
    /\ UNCHANGED <<mode, confirmed, modeEvents>>

\* _lock_shop_and_require_mode: refresh under the lock, then compare.
LockShop(r) ==
    /\ change[r].at = "read" /\ ModeLockFree(r)
    /\ change' = [change EXCEPT ![r] = IF mode = change[r].expected
                                       THEN [@ EXCEPT !.at = "locked", !.seen = mode]
                                       ELSE ModeIdle]
    /\ UNCHANGED <<mode, confirmed, modeEvents>>

\* The commit.  The settings write an event when the mode changes; the
\* onboarding always writes one and stamps the confirmation.
CommitMode(r) ==
    /\ change[r].at = "locked"
    /\ LET c == change[r]
           event == [from |-> c.seen, to |-> c.proposed, how |-> c.how, shown |-> c.expected]
       IN /\ mode' = c.proposed
          /\ confirmed' = (confirmed \/ c.how = "onboarding")
          /\ modeEvents' = IF c.how = "onboarding" \/ c.proposed # c.seen
                           THEN Append(modeEvents, event) ELSE modeEvents
    /\ change' = [change EXCEPT ![r] = ModeIdle]

ModeInit ==
    /\ mode = "shop" /\ confirmed = FALSE /\ modeEvents = <<>>
    /\ change = [r \in Changers |-> ModeIdle]

ModeNext ==
    \E r \in Changers :
       \/ \E how \in {"settings", "onboarding"}, expected, proposed \in Modes :
             BeginChange(r, how, expected, proposed)
       \/ LockShop(r) \/ CommitMode(r)

ModeSpec == ModeInit /\ [][ModeNext]_modeVars

-----------------------------------------------------------------------------
\* The events are the history of the mode: each starts where the one before
\* ended and the last says the mode as it is; a confirmed shop has its onboarding
\* event; and every change took from each role what the preview its caller saw
\* had announced, neither more nor less.
ModeEventsChain ==
    /\ \A i \in 2..Len(modeEvents) : modeEvents[i].from = modeEvents[i - 1].to
    /\ modeEvents # <<>> => modeEvents[Len(modeEvents)].to = mode
    /\ confirmed <=> \E i \in DOMAIN modeEvents : modeEvents[i].how = "onboarding"
    /\ \A i \in DOMAIN modeEvents, role \in {"owner", "technician"} :
          LET e == modeEvents[i]
          IN /\ CapabilityChanges(e.from, e.to, role) = CapabilityChanges(e.shown, e.to, role)
             /\ WouldBeHidden(e.from, e.to, role) = WouldBeHidden(e.shown, e.to, role)
             /\ Warned(e.from, e.to, role) = Warned(e.shown, e.to, role)
=============================================================================
