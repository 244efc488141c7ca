-------------------------- MODULE EstimateApproval --------------------------
(***************************************************************************)
(* One estimate with its revisions, the approval links sent to the         *)
(* customer, and the audit trail of what was sent, decided and revoked     *)
(* (app/estimate_store.py).  The owner edits, revises, sends and revokes;  *)
(* whoever holds a link approves or declines.                              *)
(*                                                                         *)
(* No request takes a row lock.  Each loads the estimate, one revision and *)
(* one link, decides on those copies, and at its commit writes the         *)
(* attributes that differ from them.  create_estimate_revision keeps its   *)
(* copy across a call of the research orchestrator that may take minutes.  *)
(***************************************************************************)
EXTENDS Integers, Sequences, FiniteSets

CONSTANTS
    Sessions,       \* concurrent database sessions
    OwnerStatuses,  \* the statuses an owner sets by PATCH
    MaxRevisions,   \* bound on the revisions
    MaxLinks,       \* bound on the approval requests
    MaxEdits        \* bound on the distinct contents of revisions

Statuses == {"draft", "ready", "awaiting_approval", "approved", "declined",
             "expired", "superseded", "archived"}

ASSUME OwnerStatusesAssumption == OwnerStatuses \subseteq Statuses
ASSUME BoundsAssumption == {MaxRevisions, MaxLinks, MaxEdits} \subseteq Nat

VARIABLES
    status,        \* estimates.status
    currentRev,    \* estimates.current_revision_number
    approvedRev,   \* estimates.approved_revision_number, 0 while NULL
    totalRev,      \* the revision whose total estimates.estimate_total is
    revisions,     \* estimate_revisions in order of their ids
    links,         \* estimate_approval_requests in order of their ids
    events,        \* estimate_approval_events in commit order
    edits,         \* how many different contents revisions have had
    req,           \* the progress and the loaded copies of each session
    raced          \* two requests have been in flight together (history)

vars == <<status, currentRev, approvedRev, totalRev, revisions, links, events,
          edits, req, raced>>

Ids == Nat \ {0}
LinkStatuses == {"active", "used", "expired", "revoked"}

\* content stands for content_hash; pastDue says that approval_due_at has passed.
Revisions == [number : Ids, status : Statuses, content : Nat, pastDue : BOOLEAN]

\* lapsed says that expires_at has passed, whatever the stored status says.
Links == [revision : Ids, status : LinkStatuses, lapsed : BOOLEAN]

Events == [kind : {"sent", "approved", "declined", "revoked", "superseded"},
           revision : Ids, link : Nat, content : Nat]

Operations == {"update", "revise", "send", "revoke", "approve", "approve_late", "decline"}

\* rev is the id of the loaded revision.
Requests == [op : Operations \cup {"idle"}, rev : Ids, link : Nat, edit : BOOLEAN,
             extend : BOOLEAN, want : Statuses \cup {"none"},
             seenStatus : Statuses, seenCurrent : Nat, seenApproved : Nat,
             seenRev : Revisions]

FirstRevision == [number |-> 1, status |-> "draft", content |-> 1, pastDue |-> FALSE]

Idle == [op |-> "idle", rev |-> 1, link |-> 0, edit |-> FALSE, extend |-> FALSE,
         want |-> "none", seenStatus |-> "draft", seenCurrent |-> 0,
         seenApproved |-> 0, seenRev |-> FirstRevision]

-----------------------------------------------------------------------------
\* create_estimate, or create_estimate_from_payload for a released compilation:
\* a draft with its first revision.
Init ==
    /\ status = "draft"
    /\ currentRev = 1
    /\ approvedRev = 0
    /\ totalRev = 1
    /\ revisions = <<FirstRevision>>
    /\ links = <<>>
    /\ events = <<>>
    /\ edits = 1
    /\ req = [s \in Sessions |-> Idle]
    /\ raced = FALSE

\* The revision of the highest number.
LatestRevision ==
    CHOOSE r \in DOMAIN revisions :
        \A o \in DOMAIN revisions : revisions[o].number <= revisions[r].number

\* A request loads the estimate, revision r and, when it is about a link, link l.
Loaded(op, r, l, edit, extend, want) ==
    [op |-> op, rev |-> r, link |-> l, edit |-> edit, extend |-> extend, want |-> want,
     seenStatus |-> status, seenCurrent |-> currentRev, seenApproved |-> approvedRev,
     seenRev |-> revisions[r]]

Overlap(s) == raced' = (raced \/ \E t \in Sessions \ {s} : req[t].op # "idle")

Begin(s, op, r, l) ==
    /\ req[s].op = "idle"
    /\ req' = [req EXCEPT ![s] = Loaded(op, r, l, FALSE, FALSE, "none")]
    /\ Overlap(s)
    /\ UNCHANGED <<status, currentRev, approvedRev, totalRev, revisions, links, events,
                   edits>>

Finish(s) == req' = [req EXCEPT ![s] = Idle]

\* The UPDATE of an attribute: none when the new value is the loaded one.
Written(seen, new, stored) == IF new = seen THEN stored ELSE new

SetStatus(s, new) == status' = Written(req[s].seenStatus, new, status)

RevisionStatus(s, new) ==
    Written(req[s].seenRev.status, new, revisions[req[s].rev].status)

SetRevisionStatus(s, new) ==
    revisions' = [revisions EXCEPT ![req[s].rev].status = RevisionStatus(s, new)]

\* The audit row records the content_hash of the loaded revision.
Event(s, kind) == [kind |-> kind, revision |-> req[s].rev, link |-> req[s].link,
                   content |-> req[s].seenRev.content]

-----------------------------------------------------------------------------
(* update_estimate                                                         *)

UpdateLoad(s) ==
    /\ req[s].op = "idle"
    /\ status \notin {"approved", "awaiting_approval"}
    /\ \E edit, extend \in BOOLEAN, want \in OwnerStatuses \cup {"none"} :
          /\ extend => edit    \* the due date is part of the hashed content
          /\ edit => edits < MaxEdits
          /\ req' = [req EXCEPT ![s] =
                        Loaded("update", LatestRevision, 0, edit, extend, want)]
    /\ Overlap(s)
    /\ UNCHANGED <<status, currentRev, approvedRev, totalRev, revisions, links, events,
                   edits>>

UpdateCommit(s) ==
    LET r    == req[s].rev
        want == req[s].want
    IN  /\ req[s].op = "update"
        /\ status' = IF want = "none" THEN status
                     ELSE Written(req[s].seenStatus, want, status)
        /\ revisions' = [revisions EXCEPT
              ![r].status  = IF want = "none" THEN @ ELSE RevisionStatus(s, want),
              ![r].content = IF req[s].edit THEN edits + 1 ELSE @,
              ![r].pastDue = IF req[s].extend THEN FALSE ELSE @]
        /\ edits' = IF req[s].edit THEN edits + 1 ELSE edits
        /\ Finish(s)
        /\ UNCHANGED <<currentRev, approvedRev, totalRev, links, events, raced>>

-----------------------------------------------------------------------------
(* create_estimate_revision: load, await the orchestrator, commit.          *)

ReviseLoad(s) ==
    /\ currentRev < MaxRevisions
    /\ Begin(s, "revise", LatestRevision, 0)

\* Mutant: no unique key on (estimate_id, revision_number).
NumberFreeWithoutKey(n) == n \in Ids

\* uq_estimate_revisions_estimate_revision has no row for the number.
NumberFree(n) == \A r \in DOMAIN revisions : revisions[r].number # n

\* The number is that of the copy loaded before the await, plus one.
ReviseCommit(s) ==
    LET next       == req[s].seenCurrent + 1
        supersedes == req[s].seenStatus = "approved"
        prior      == IF supersedes
                      THEN [revisions EXCEPT ![req[s].rev].status =
                                                  RevisionStatus(s, "superseded")]
                      ELSE revisions
    IN  /\ req[s].op = "revise"
        /\ NumberFree(next)
        /\ revisions' = Append(prior, [number |-> next, status |-> "ready",
                                       content |-> edits + 1, pastDue |-> FALSE])
        /\ currentRev' = next
        /\ totalRev' = Len(revisions) + 1
        /\ edits' = edits + 1
        /\ SetStatus(s, "ready")
        /\ events' = IF supersedes THEN Append(events, Event(s, "superseded")) ELSE events
        /\ Finish(s)
        /\ UNCHANGED <<approvedRev, links, raced>>

\* IntegrityError on uq_estimate_revisions_estimate_revision, or the
\* orchestrator fails: nothing is committed.
Abort(s) ==
    /\ req[s].op # "idle"
    /\ Finish(s)
    /\ UNCHANGED <<status, currentRev, approvedRev, totalRev, revisions, links, events,
                   edits, raced>>

-----------------------------------------------------------------------------
(* send_estimate_for_approval                                              *)

SendLoad(s) ==
    /\ status \in {"draft", "ready"}
    /\ ~revisions[LatestRevision].pastDue
    /\ Begin(s, "send", LatestRevision, 0)

SendCommit(s) ==
    /\ req[s].op = "send"
    /\ Len(links) < MaxLinks
    /\ links' = Append(links, [revision |-> req[s].rev, status |-> "active",
                               lapsed |-> FALSE])
    /\ SetStatus(s, "awaiting_approval")
    /\ SetRevisionStatus(s, "awaiting_approval")
    /\ events' = Append(events, [Event(s, "sent") EXCEPT !.link = Len(links) + 1])
    /\ Finish(s)
    /\ UNCHANGED <<currentRev, approvedRev, totalRev, edits, raced>>

-----------------------------------------------------------------------------
(* revoke_estimate_approval_request                                        *)

RevokeLoad(s) ==
    \E l \in DOMAIN links :
        /\ links[l].status = "active"
        /\ Begin(s, "revoke", links[l].revision, l)

RevokeCommit(s) ==
    /\ req[s].op = "revoke"
    /\ links' = [links EXCEPT ![req[s].link].status = "revoked"]
    /\ IF req[s].seenStatus = "awaiting_approval"
       THEN SetStatus(s, "ready") /\ SetRevisionStatus(s, "ready")
       ELSE UNCHANGED <<status, revisions>>
    /\ events' = Append(events, Event(s, "revoked"))
    /\ Finish(s)
    /\ UNCHANGED <<currentRev, approvedRev, totalRev, edits, raced>>

-----------------------------------------------------------------------------
(* approve_estimate and decline_estimate                                   *)

\* _resolve_active_approval_request marks a lapsed link expired before it looks
\* at the status the link has.
ResolveLapsed(l) ==
    /\ links[l].lapsed
    /\ links' = [links EXCEPT ![l].status = "expired"]
    /\ UNCHANGED <<status, currentRev, approvedRev, totalRev, revisions, events, edits,
                   req, raced>>

Resolves(l) == ~links[l].lapsed /\ links[l].status = "active"

\* The revision must be the one the link was sent for; that it is still the
\* current revision is not asked.
DecideLoad(s) ==
    \E l \in DOMAIN links :
        /\ Resolves(l)
        /\ \/ Begin(s, IF revisions[links[l].revision].pastDue THEN "approve_late"
                                                              ELSE "approve",
                    links[l].revision, l)
           \/ Begin(s, "decline", links[l].revision, l)

CloseLink(s, new) == links' = [links EXCEPT ![req[s].link].status = new]

\* Mutant: the approval is not entered in the audit trail.
ApproveCommitUnrecorded(s) ==
    /\ req[s].op = "approve"
    /\ SetStatus(s, "approved")
    /\ SetRevisionStatus(s, "approved")
    /\ approvedRev' = Written(req[s].seenApproved, req[s].seenRev.number, approvedRev)
    /\ CloseLink(s, "used")
    /\ Finish(s)
    /\ UNCHANGED <<currentRev, totalRev, events, edits, raced>>

ApproveCommit(s) ==
    /\ req[s].op = "approve"
    /\ SetStatus(s, "approved")
    /\ SetRevisionStatus(s, "approved")
    /\ approvedRev' = Written(req[s].seenApproved, req[s].seenRev.number, approvedRev)
    /\ CloseLink(s, "used")
    /\ events' = Append(events, Event(s, "approved"))
    /\ Finish(s)
    /\ UNCHANGED <<currentRev, totalRev, edits, raced>>

\* approval_due_at has passed: the link, the revision and the estimate expire.
ApproveLateCommit(s) ==
    /\ req[s].op = "approve_late"
    /\ SetStatus(s, "expired")
    /\ SetRevisionStatus(s, "expired")
    /\ CloseLink(s, "expired")
    /\ Finish(s)
    /\ UNCHANGED <<currentRev, approvedRev, totalRev, events, edits, raced>>

DeclineCommit(s) ==
    /\ req[s].op = "decline"
    /\ SetStatus(s, "declined")
    /\ SetRevisionStatus(s, "declined")
    /\ CloseLink(s, "used")
    /\ events' = Append(events, Event(s, "declined"))
    /\ Finish(s)
    /\ UNCHANGED <<currentRev, approvedRev, totalRev, edits, raced>>

-----------------------------------------------------------------------------
(* Time passes.                                                            *)

LinkLapses(l) ==
    /\ ~links[l].lapsed
    /\ links' = [links EXCEPT ![l].lapsed = TRUE]
    /\ UNCHANGED <<status, currentRev, approvedRev, totalRev, revisions, events, edits,
                   req, raced>>

DuePasses(r) ==
    /\ ~revisions[r].pastDue
    /\ revisions' = [revisions EXCEPT ![r].pastDue = TRUE]
    /\ UNCHANGED <<status, currentRev, approvedRev, totalRev, links, events, edits,
                   req, raced>>

Next ==
    \/ \E s \in Sessions :
          \/ UpdateLoad(s) \/ UpdateCommit(s)
          \/ ReviseLoad(s) \/ ReviseCommit(s)
          \/ SendLoad(s)   \/ SendCommit(s)
          \/ RevokeLoad(s) \/ RevokeCommit(s)
          \/ DecideLoad(s)
          \/ ApproveCommit(s) \/ ApproveLateCommit(s) \/ DeclineCommit(s)
          \/ Abort(s)
    \/ \E l \in DOMAIN links : ResolveLapsed(l) \/ LinkLapses(l)
    \/ \E r \in DOMAIN revisions : DuePasses(r)

Spec == Init /\ [][Next]_vars

-----------------------------------------------------------------------------
(* Properties                                                              *)

\* Every column and every loaded copy has its type.
TypeOK ==
    /\ status \in Statuses
    /\ currentRev \in Ids
    /\ approvedRev \in Nat
    /\ totalRev \in Ids
    /\ revisions \in Seq(Revisions)
    /\ links \in Seq(Links)
    /\ events \in Seq(Events)
    /\ edits \in Nat
    /\ req \in [Sessions -> Requests]

\* However many owners revise at once, each across an await, every revision has a
\* number of its own: they are numbered 1, 2, ... in the order they were stored, and
\* current_revision_number is the last of these numbers.
NumberedInOrder ==
    /\ \A r \in DOMAIN revisions : revisions[r].number = r
    /\ currentRev = Len(revisions)

\* estimate_total is the total of the revision stored last.
TotalOfLatest == totalRev = Len(revisions)

\* The estimate is its newest revision, whoever revises it at once.
IsNewestRevision == NumberedInOrder /\ TotalOfLatest

\* A revision counts as approved only if its approval by a customer is in the
\* audit trail; this is what create_work_order_from_estimate relies on, as the
\* status alone can be set by the owner.
ApprovalOnRecord ==
    approvedRev # 0 =>
        \E i \in DOMAIN events :
            /\ events[i].kind = "approved"
            /\ revisions[events[i].revision].number = approvedRev

Closing(l) ==
    {i \in DOMAIN events : /\ events[i].link = l
                           /\ events[i].kind \in {"approved", "declined", "revoked"}}

\* A link that was used or revoked has the decision that closed it on record.
ClosedLinkOnRecord ==
    \A l \in DOMAIN links :
        links[l].status \in {"used", "revoked"} => Closing(l) # {}

\* No decision takes effect, on a revision or on a link, that is not on record.
DecisionsOnRecord == ApprovalOnRecord /\ ClosedLinkOnRecord

\* A link is single-use: once it was used to approve or decline, a second attempt
\* on the same token is rejected.
LinkIsSingleUse ==
    \A l \in DOMAIN links :
        Cardinality({i \in Closing(l) : events[i].kind \in {"approved", "declined"}}) <= 1

=============================================================================
