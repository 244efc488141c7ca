----------------------- MODULE EstimateApprovalProofs -----------------------
(***************************************************************************)
(* Proofs about EstimateApproval for every number of sessions, revisions   *)
(* and links, and audit trails of every length.                            *)
(*                                                                         *)
(* No row is locked, so a commit relies on numbers loaded any number of    *)
(* steps before.  SessionSound says how stale they can be: the loaded      *)
(* current_revision_number was never larger than the stored one is now.    *)
(* With the unique key on (estimate, revision number) that is enough for   *)
(* the revisions to be numbered in the order in which they are stored.     *)
(***************************************************************************)
EXTENDS EstimateApproval, SequenceTheorems, TLAPS

\* The revision and the link a request is about exist, its copy of the revision has
\* the number of that revision, and the number it has loaded as current is one that
\* was current.
Sound(r) ==
    r.op # "idle" =>
        /\ r.rev \in DOMAIN revisions
        /\ r.seenRev.number = revisions[r.rev].number
        /\ r.seenCurrent \in 1 .. currentRev
        /\ r.op \in {"revoke", "approve", "approve_late", "decline"} =>
              r.link \in DOMAIN links

SessionSound == \A s \in Sessions : Sound(req[s])

\* Links are sent for revisions that exist.
LinkSound == \A l \in DOMAIN links : links[l].revision \in DOMAIN revisions

\* So are the events of the audit trail.
TrailSound == \A i \in DOMAIN events : events[i].revision \in DOMAIN revisions

IInv ==
    /\ TypeOK
    /\ NumberedInOrder
    /\ TotalOfLatest
    /\ ApprovalOnRecord
    /\ ClosedLinkOnRecord
    /\ SessionSound
    /\ LinkSound
    /\ TrailSound

-----------------------------------------------------------------------------
(* The operators of the model                                              *)

\* A step that deletes no revision and gives none another number; one that stores none.
NumbersKept ==
    /\ revisions' \in Seq(Revisions)
    /\ \A r \in DOMAIN revisions :
           r \in DOMAIN revisions' /\ revisions'[r].number = revisions[r].number

RowsKept == NumbersKept /\ Len(revisions') = Len(revisions)

\* The numbers that a request may rely on.
LEMMA Numbers ==
    ASSUME TypeOK, NumberedInOrder
    PROVE  /\ currentRev = Len(revisions)
           /\ currentRev \in Nat \ {0}
           /\ currentRev \in 1 .. currentRev
           /\ DOMAIN revisions = 1 .. currentRev
           /\ \A r \in DOMAIN revisions : r \in Ids /\ revisions[r] \in Revisions
BY DEF TypeOK, NumberedInOrder, Ids

\* The newest revision is the one stored last.
LEMMA LatestIsLast ==
    ASSUME TypeOK, NumberedInOrder
    PROVE  LatestRevision \in DOMAIN revisions
<1>1. DOMAIN revisions = 1 .. currentRev /\ currentRev \in Nat \ {0}
  BY Numbers
<1>2. currentRev \in DOMAIN revisions
  BY <1>1
<1>3. \A o \in DOMAIN revisions : revisions[o].number <= revisions[currentRev].number
  BY <1>1, <1>2 DEF NumberedInOrder
<1> QED
  BY <1>2, <1>3 DEF LatestRevision

\* What a request loads is well typed.
LEMMA LoadedType ==
    ASSUME IInv, NEW op \in Operations, NEW r \in DOMAIN revisions, NEW l \in Nat,
           NEW edit \in BOOLEAN, NEW extend \in BOOLEAN, NEW want \in Statuses \cup {"none"}
    PROVE  Loaded(op, r, l, edit, extend, want) \in Requests
<1>1. r \in Ids /\ revisions[r] \in Revisions
  BY Numbers DEF IInv
<1>2. status \in Statuses /\ currentRev \in Nat /\ approvedRev \in Nat
  BY DEF IInv, TypeOK, Ids
<1> QED
  BY <1>1, <1>2 DEF Loaded, Requests

\* A status that is written is a status, whether or not it was stored before.
LEMMA StatusWritten ==
    ASSUME TypeOK, NEW s \in Sessions, NEW new \in Statuses, SetStatus(s, new)
    PROVE  status' \in Statuses
BY DEF TypeOK, SetStatus, Written

\* A write to a revision leaves the numbers as they are.
LEMMA RowWritten ==
    ASSUME TypeOK, NEW r \in DOMAIN revisions, NEW row \in Revisions,
           row.number = revisions[r].number, revisions' = [revisions EXCEPT ![r] = row]
    PROVE  RowsKept
<1>1. revisions \in Seq(Revisions) /\ r \in 1 .. Len(revisions)
  BY DEF TypeOK
<1>2. /\ revisions' \in Seq(Revisions)
      /\ Len(revisions') = Len(revisions)
      /\ \A o \in 1 .. Len(revisions) : revisions'[o] = IF o = r THEN row ELSE revisions[o]
  BY <1>1, ExceptSeq
<1> QED
  BY <1>1, <1>2 DEF RowsKept, NumbersKept

LEMMA RevisionStatusWritten ==
    ASSUME IInv, NEW s \in Sessions, req[s].op # "idle", NEW new \in Statuses,
           SetRevisionStatus(s, new)
    PROVE  RowsKept
<1> DEFINE r == req[s].rev
           row == [revisions[r] EXCEPT !.status = RevisionStatus(s, new)]
<1>1. TypeOK /\ r \in DOMAIN revisions
  BY DEF IInv, SessionSound, Sound
<1>2. revisions[r] \in Revisions
  BY <1>1, Numbers DEF IInv
<1>3. RevisionStatus(s, new) \in Statuses
  BY <1>2 DEF RevisionStatus, Written, Revisions
<1>4. row \in Revisions /\ row.number = revisions[r].number
  BY <1>2, <1>3 DEF Revisions
<1>5. revisions' = [revisions EXCEPT ![r] = row]
  BY DEF SetRevisionStatus
<1> HIDE DEF r, row
<1> QED
  BY <1>1, <1>4, <1>5, RowWritten

-----------------------------------------------------------------------------
(* The sessions                                                            *)

\* A request that ends leaves the others sound.
LEMMA FinishSound ==
    ASSUME IInv, NEW s \in Sessions, Finish(s), NumbersKept,
           currentRev' \in Nat, currentRev' >= currentRev, DOMAIN links \subseteq DOMAIN links'
    PROVE  req' \in [Sessions -> Requests] /\ SessionSound'
<1>1. Idle \in Requests /\ Idle.op = "idle"
  BY DEF Idle, Requests, Revisions, FirstRevision, Statuses, Ids
<1>2. req \in [Sessions -> Requests] /\ currentRev \in Nat
  BY DEF IInv, TypeOK, Ids
<1>3. \A t \in Sessions : req'[t] = IF t = s THEN Idle ELSE req[t]
  BY <1>2 DEF Finish
<1>4. ASSUME NEW t \in Sessions PROVE Sound(req[t])'
  <2>1. CASE t = s
    BY <1>1, <1>3, <2>1 DEF Sound
  <2>2. CASE t # s
    <3>1. req'[t] = req[t] /\ Sound(req[t])
      BY <1>3, <2>2 DEF IInv, SessionSound
    <3> QED
      BY <1>2, <3>1 DEF Sound, NumbersKept
  <2> QED
    BY <2>1, <2>2
<1> QED
  BY <1>1, <1>2, <1>4 DEF Finish, SessionSound

\* A load moves one session and writes nothing.
LEMMA LoadStep ==
    ASSUME IInv, NEW s \in Sessions, NEW r \in Requests, Sound(r),
           req' = [req EXCEPT ![s] = r],
           UNCHANGED <<status, currentRev, approvedRev, totalRev, revisions, links, events,
                       edits>>
    PROVE  IInv'
<1>1. TypeOK'
  BY DEF IInv, TypeOK
<1>2. \A t \in Sessions : req'[t] = IF t = s THEN r ELSE req[t]
  BY DEF IInv, TypeOK
<1>3. SessionSound'
  BY <1>2 DEF IInv, SessionSound, Sound
<1> QED
  BY <1>1, <1>3 DEF IInv, NumberedInOrder, TotalOfLatest, ApprovalOnRecord,
                    ClosedLinkOnRecord, Closing, LinkSound, TrailSound

LEMMA BeginStep ==
    ASSUME IInv, NEW s \in Sessions, NEW op \in Operations, NEW r \in DOMAIN revisions,
           NEW l \in Nat,
           op \in {"revoke", "approve", "approve_late", "decline"} => l \in DOMAIN links,
           Begin(s, op, r, l)
    PROVE  IInv'
<1> DEFINE request == Loaded(op, r, l, FALSE, FALSE, "none")
<1>1. request \in Requests
  BY LoadedType
<1>2. currentRev \in 1 .. currentRev
  BY Numbers DEF IInv
<1>3. Sound(request)
  BY <1>2 DEF Sound, Loaded
<1>4. /\ req' = [req EXCEPT ![s] = request]
      /\ UNCHANGED <<status, currentRev, approvedRev, totalRev, revisions, links, events,
                     edits>>
  BY DEF Begin
<1> HIDE DEF request
<1> QED
  BY <1>1, <1>3, <1>4, LoadStep

-----------------------------------------------------------------------------
(* The audit trail and the links                                           *)

\* The audit row of a request.
LEMMA EventType ==
    ASSUME IInv, NEW s \in Sessions, req[s].op # "idle",
           NEW kind \in {"sent", "approved", "declined", "revoked", "superseded"}
    PROVE  Event(s, kind) \in Events /\ Event(s, kind).revision \in DOMAIN revisions
<1>1. req[s] \in Requests /\ req[s].rev \in DOMAIN revisions
  BY DEF IInv, TypeOK, SessionSound, Sound
<1> QED
  BY <1>1 DEF Event, Events, Requests, Revisions

\* The trail only grows.
LEMMA TrailGrows ==
    ASSUME TypeOK, NEW e \in Events, events' = Append(events, e)
    PROVE  /\ events' \in Seq(Events)
           /\ \A i \in DOMAIN events : i \in DOMAIN events' /\ events'[i] = events[i]
           /\ \A i \in DOMAIN events' : i \notin DOMAIN events => events'[i] = e
           /\ \E i \in DOMAIN events' : events'[i] = e
<1>1. events \in Seq(Events)
  BY DEF TypeOK
<1>2. /\ events' \in Seq(Events)
      /\ Len(events') = Len(events) + 1
      /\ \A i \in 1 .. Len(events) : events'[i] = events[i]
      /\ events'[Len(events) + 1] = e
  BY <1>1, AppendProperties
<1> QED
  BY <1>1, <1>2

\* What was on record as approved still is.
LEMMA ApprovalKept ==
    ASSUME ApprovalOnRecord, TrailSound, NumbersKept, approvedRev' = approvedRev,
           \A i \in DOMAIN events : i \in DOMAIN events' /\ events'[i] = events[i]
    PROVE  ApprovalOnRecord'
BY DEF ApprovalOnRecord, TrailSound, NumbersKept

\* The trail still tells of revisions that exist.
LEMMA TrailKept ==
    ASSUME TrailSound, NumbersKept,
           \A i \in DOMAIN events' :
              \/ i \in DOMAIN events /\ events'[i] = events[i]
              \/ events'[i].revision \in DOMAIN revisions
    PROVE  TrailSound'
BY DEF TrailSound, NumbersKept

\* Every link that is closed after a step was closed before or is by its event.
LEMMA ClosedKept ==
    ASSUME TypeOK, ClosedLinkOnRecord,
           \A i \in DOMAIN events : i \in DOMAIN events' /\ events'[i] = events[i],
           \A l \in DOMAIN links' :
              links'[l].status \in {"used", "revoked"} =>
                 \/ l \in DOMAIN links /\ links[l].status \in {"used", "revoked"}
                 \/ \E i \in DOMAIN events' :
                       /\ events'[i].link = l
                       /\ events'[i].kind \in {"approved", "declined", "revoked"}
    PROVE  ClosedLinkOnRecord'
<1> SUFFICES ASSUME NEW l \in DOMAIN links', links'[l].status \in {"used", "revoked"}
             PROVE  \E i \in DOMAIN events' :
                       /\ events'[i].link = l
                       /\ events'[i].kind \in {"approved", "declined", "revoked"}
  BY DEF ClosedLinkOnRecord, Closing
<1>1. CASE l \in DOMAIN links /\ links[l].status \in {"used", "revoked"}
  <2>1. PICK i \in DOMAIN events : /\ events[i].link = l
                                   /\ events[i].kind \in {"approved", "declined", "revoked"}
    BY <1>1 DEF ClosedLinkOnRecord, Closing
  <2> QED
    BY <2>1
<1> QED
  BY <1>1

\* Writing the status of a link.
LEMMA LinkWritten ==
    ASSUME TypeOK, NEW l \in DOMAIN links, NEW new \in LinkStatuses,
           links' = [links EXCEPT ![l].status = new]
    PROVE  /\ links' \in Seq(Links)
           /\ DOMAIN links' = DOMAIN links
           /\ \A k \in DOMAIN links : /\ links'[k].revision = links[k].revision
                                      /\ k # l => links'[k].status = links[k].status
           /\ links'[l].status = new
<1> DEFINE link == [links[l] EXCEPT !.status = new]
<1>1. links \in Seq(Links) /\ l \in 1 .. Len(links) /\ links[l] \in Links
  BY DEF TypeOK
<1>2. link \in Links /\ link.revision = links[l].revision /\ link.status = new
  BY <1>1 DEF Links
<1>3. links' = [links EXCEPT ![l] = link]
  OBVIOUS
<1> HIDE DEF link
<1>4. /\ links' \in Seq(Links)
      /\ Len(links') = Len(links)
      /\ \A k \in 1 .. Len(links) : links'[k] = IF k = l THEN link ELSE links[k]
  BY <1>1, <1>2, <1>3, ExceptSeq
<1> QED
  BY <1>1, <1>2, <1>4

\* A commit that closes a link and enters it in the trail.
LEMMA ClosureOnRecord ==
    ASSUME IInv, NEW s \in Sessions, req[s].op # "idle", req[s].link \in DOMAIN links,
           NEW new \in LinkStatuses, links' = [links EXCEPT ![req[s].link].status = new],
           NEW kind \in {"approved", "declined", "revoked"},
           events' = Append(events, Event(s, kind))
    PROVE  /\ events' \in Seq(Events)
           /\ ClosedLinkOnRecord'
           /\ \A i \in DOMAIN events : i \in DOMAIN events' /\ events'[i] = events[i]
           /\ \A i \in DOMAIN events' :
                 i \notin DOMAIN events => events'[i].revision \in DOMAIN revisions
           /\ \E i \in DOMAIN events' : /\ events'[i].kind = kind
                                        /\ events'[i].revision = req[s].rev
<1>1. Event(s, kind) \in Events /\ Event(s, kind).revision \in DOMAIN revisions
  BY EventType
<1>2. /\ Event(s, kind).link = req[s].link
      /\ Event(s, kind).kind = kind
      /\ Event(s, kind).revision = req[s].rev
  BY DEF Event
<1>3. /\ events' \in Seq(Events)
      /\ \A i \in DOMAIN events : i \in DOMAIN events' /\ events'[i] = events[i]
      /\ \A i \in DOMAIN events' : i \notin DOMAIN events => events'[i] = Event(s, kind)
      /\ \E i \in DOMAIN events' : events'[i] = Event(s, kind)
  BY <1>1, TrailGrows DEF IInv
<1>4. /\ DOMAIN links' = DOMAIN links
      /\ \A k \in DOMAIN links : k # req[s].link => links'[k].status = links[k].status
  BY LinkWritten DEF IInv
<1>5. ClosedLinkOnRecord'
  BY <1>2, <1>3, <1>4, ClosedKept DEF IInv
<1> QED
  BY <1>1, <1>2, <1>3, <1>5

-----------------------------------------------------------------------------
(* The commits                                                             *)

\* What the commits that number no revision have in common.
LEMMA CommitStep ==
    ASSUME IInv, NEW s \in Sessions, Finish(s), UNCHANGED <<currentRev, totalRev>>,
           edits' \in Nat, status' \in Statuses, approvedRev' \in Nat, RowsKept,
           links' \in Seq(Links), events' \in Seq(Events),
           DOMAIN links \subseteq DOMAIN links', LinkSound', TrailSound',
           ApprovalOnRecord', ClosedLinkOnRecord'
    PROVE  IInv'
<1>1. TypeOK /\ NumberedInOrder /\ currentRev \in Nat
  BY Numbers DEF IInv
<1>2. req' \in [Sessions -> Requests] /\ SessionSound'
  BY <1>1, FinishSound DEF RowsKept
<1>3. revisions' \in Seq(Revisions) /\ revisions \in Seq(Revisions)
  BY <1>1 DEF RowsKept, NumbersKept, TypeOK
<1>4. DOMAIN revisions' = DOMAIN revisions
  BY <1>3 DEF RowsKept
<1>5. NumberedInOrder' /\ TotalOfLatest'
  BY <1>1, <1>4 DEF IInv, NumberedInOrder, TotalOfLatest, RowsKept, NumbersKept
<1>6. TypeOK'
  BY <1>1, <1>2, <1>3 DEF TypeOK
<1> QED
  BY <1>2, <1>5, <1>6 DEF IInv

LEMMA UpdateCommitStep ==
    ASSUME IInv, NEW s \in Sessions, UpdateCommit(s)
    PROVE  IInv'
<1> DEFINE r       == req[s].rev
           new     == IF req[s].want = "none" THEN revisions[r].status
                      ELSE RevisionStatus(s, req[s].want)
           content == IF req[s].edit THEN edits + 1 ELSE revisions[r].content
           pastDue == IF req[s].extend THEN FALSE ELSE revisions[r].pastDue
           row     == [revisions[r] EXCEPT !.status = new, !.content = content,
                                           !.pastDue = pastDue]
<1>1. TypeOK /\ NumberedInOrder /\ req[s].op = "update"
  BY DEF IInv, UpdateCommit
<1>2. req[s] \in Requests
  BY <1>1 DEF TypeOK
<1>3. req[s].want # "none" => req[s].want \in Statuses
  BY <1>2 DEF Requests
<1>4. r \in DOMAIN revisions /\ revisions[r] \in Revisions
  BY <1>1, Numbers DEF IInv, SessionSound, Sound
<1>5. edits \in Nat
  BY <1>1 DEF TypeOK
<1>6. /\ new \in Statuses
      /\ content \in Nat
      /\ pastDue \in BOOLEAN
  <2>1. /\ revisions[r].content \in Nat
        /\ revisions[r].pastDue \in BOOLEAN
        /\ revisions[r].status \in Statuses
    BY <1>4 DEF Revisions
  <2>2. RevisionStatus(s, req[s].want) \in {req[s].want, revisions[r].status}
    BY DEF RevisionStatus, Written
  <2>3. new \in Statuses
    BY <1>3, <2>1, <2>2
  <2>4. content \in Nat
    BY <1>5, <2>1
  <2>5. pastDue \in BOOLEAN
    BY <2>1
  <2> QED
    BY <2>3, <2>4, <2>5
<1>7. RowsKept
  <2>1. revisions' = [revisions EXCEPT ![r].status = new, ![r].content = content,
                                       ![r].pastDue = pastDue]
    BY DEF UpdateCommit
  <2> HIDE DEF r, new, content, pastDue
  <2>2. revisions' = [revisions EXCEPT ![r] = row]
    BY <1>1, <1>4, <2>1 DEF TypeOK
  <2>3. row \in Revisions /\ row.number = revisions[r].number
    BY <1>4, <1>6 DEF Revisions
  <2> HIDE DEF row
  <2> QED
    BY <1>1, <1>4, <2>2, <2>3, RowWritten
<1>8. status' \in Statuses
  BY <1>1, <1>3 DEF UpdateCommit, Written, TypeOK
<1>9. /\ edits' \in Nat
      /\ UNCHANGED <<currentRev, approvedRev, totalRev, links, events>>
      /\ Finish(s)
  BY <1>5 DEF UpdateCommit
<1>10. ApprovalOnRecord' /\ TrailSound'
  BY <1>7, <1>9, ApprovalKept, TrailKept DEF IInv, RowsKept
<1>11. ClosedLinkOnRecord' /\ LinkSound'
  BY <1>7, <1>9 DEF IInv, ClosedLinkOnRecord, Closing, LinkSound, RowsKept, NumbersKept
<1> QED
  BY <1>1, <1>7, <1>8, <1>9, <1>10, <1>11, CommitStep DEF TypeOK

\* With the unique key, a revision is stored only by a request whose loaded
\* current_revision_number is still the stored one.
LEMMA ReviseIsNext ==
    ASSUME IInv, NEW s \in Sessions, ReviseCommit(s)
    PROVE  req[s].seenCurrent = currentRev
<1>1. /\ req[s].seenCurrent \in 1 .. currentRev
      /\ NumberFree(req[s].seenCurrent + 1)
  BY DEF IInv, SessionSound, Sound, ReviseCommit
<1>2. currentRev \in Nat /\ DOMAIN revisions = 1 .. currentRev
  BY Numbers DEF IInv
<1>3. req[s].seenCurrent + 1 \notin 1 .. currentRev
  BY <1>1, <1>2 DEF IInv, NumberedInOrder, NumberFree
<1> QED
  BY <1>1, <1>2, <1>3

LEMMA ReviseCommitStep ==
    ASSUME IInv, NEW s \in Sessions, ReviseCommit(s)
    PROVE  IInv'
<1> DEFINE r     == req[s].rev
           next  == currentRev + 1
           new   == [number |-> next, status |-> "ready", content |-> edits + 1,
                     pastDue |-> FALSE]
           old   == IF req[s].seenStatus = "approved"
                    THEN [revisions[r] EXCEPT !.status = RevisionStatus(s, "superseded")]
                    ELSE revisions[r]
           prior == [revisions EXCEPT ![r] = old]
<1>1. TypeOK /\ NumberedInOrder /\ req[s].op = "revise"
  BY DEF IInv, ReviseCommit
<1>2. req[s].seenCurrent = currentRev /\ next \in Ids
  BY <1>1, ReviseIsNext DEF TypeOK, Ids
<1>3. r \in DOMAIN revisions /\ revisions[r] \in Revisions
  BY <1>1, Numbers DEF IInv, SessionSound, Sound
<1>4. new \in Revisions /\ edits + 1 \in Nat
  BY <1>1, <1>2 DEF TypeOK, Revisions, Statuses
<1>5. old \in Revisions /\ old.number = revisions[r].number
  <2>1. RevisionStatus(s, "superseded") \in {"superseded", revisions[r].status}
    BY DEF RevisionStatus, Written
  <2> QED
    BY <1>3, <2>1 DEF Revisions, Statuses
<1>6. /\ prior \in Seq(Revisions)
      /\ Len(prior) = Len(revisions)
      /\ \A o \in 1 .. Len(revisions) : prior[o].number = revisions[o].number
  <2>1. revisions \in Seq(Revisions) /\ r \in 1 .. Len(revisions)
    BY <1>1, <1>3 DEF TypeOK
  <2> HIDE DEF r, old
  <2> QED
    BY <1>5, <2>1, ExceptSeq
<1>7. revisions' = Append(prior, new)
  BY <1>1, <1>2, <1>3 DEF ReviseCommit, TypeOK
<1>8. /\ revisions' \in Seq(Revisions)
      /\ Len(revisions') = Len(revisions) + 1
      /\ \A o \in 1 .. Len(revisions) : revisions'[o].number = revisions[o].number
      /\ revisions'[Len(revisions) + 1].number = next
  <2> HIDE DEF prior, next
  <2>1. /\ revisions' \in Seq(Revisions)
        /\ Len(revisions') = Len(prior) + 1
        /\ \A o \in 1 .. Len(prior) : revisions'[o] = prior[o]
        /\ revisions'[Len(prior) + 1] = new
    BY <1>4, <1>6, <1>7, AppendProperties
  <2> QED
    BY <1>6, <2>1
<1> HIDE DEF new, old, prior
<1>9. NumbersKept
  BY <1>1, <1>8 DEF NumbersKept, TypeOK
<1>10. /\ currentRev' = next /\ totalRev' = Len(revisions) + 1 /\ edits' = edits + 1
       /\ UNCHANGED <<approvedRev, links>>
       /\ Finish(s)
  BY <1>2 DEF ReviseCommit
<1>11. NumberedInOrder' /\ TotalOfLatest'
  <2>1. currentRev = Len(revisions) /\ Len(revisions) \in Nat
        /\ \A o \in 1 .. Len(revisions) : revisions[o].number = o
    BY <1>1 DEF NumberedInOrder, TypeOK
  <2>2. DOMAIN revisions' = 1 .. (Len(revisions) + 1)
    BY <1>8
  <2> QED
    BY <1>8, <1>10, <2>1, <2>2 DEF NumberedInOrder, TotalOfLatest
<1>12. status' \in Statuses
  <2>1. SetStatus(s, "ready") /\ "ready" \in Statuses
    BY DEF ReviseCommit, Statuses
  <2> QED
    BY <1>1, <2>1, StatusWritten
<1>13. /\ events' \in Seq(Events)
       /\ \A i \in DOMAIN events : i \in DOMAIN events' /\ events'[i] = events[i]
       /\ TrailSound'
  <2>1. CASE events' = events
    BY <1>1, <1>9, <2>1, TrailKept DEF IInv, TypeOK
  <2>2. CASE events' = Append(events, Event(s, "superseded"))
    <3>1. /\ Event(s, "superseded") \in Events
          /\ Event(s, "superseded").revision \in DOMAIN revisions
      BY <1>1, EventType
    <3>2. /\ events' \in Seq(Events)
          /\ \A i \in DOMAIN events : i \in DOMAIN events' /\ events'[i] = events[i]
          /\ \A i \in DOMAIN events' :
                 i \notin DOMAIN events => events'[i] = Event(s, "superseded")
      BY <1>1, <2>2, <3>1, TrailGrows
    <3> QED
      BY <1>9, <3>1, <3>2, TrailKept DEF IInv
  <2> QED
    BY <2>1, <2>2 DEF ReviseCommit
<1>14. req' \in [Sessions -> Requests] /\ SessionSound'
  BY <1>1, <1>2, <1>9, <1>10, FinishSound DEF TypeOK, Ids
<1>15. TypeOK'
  BY <1>1, <1>2, <1>4, <1>8, <1>10, <1>12, <1>13, <1>14 DEF TypeOK, Ids
<1>16. ApprovalOnRecord' /\ ClosedLinkOnRecord'
  BY <1>1, <1>9, <1>10, <1>13, ApprovalKept, ClosedKept DEF IInv
<1>17. LinkSound'
  BY <1>9, <1>10 DEF IInv, LinkSound, NumbersKept
<1> QED
  BY <1>11, <1>13, <1>14, <1>15, <1>16, <1>17 DEF IInv

LEMMA SendCommitStep ==
    ASSUME IInv, NEW s \in Sessions, SendCommit(s)
    PROVE  IInv'
<1> DEFINE link == [revision |-> req[s].rev, status |-> "active", lapsed |-> FALSE]
           e    == [Event(s, "sent") EXCEPT !.link = Len(links) + 1]
<1>1. TypeOK /\ NumberedInOrder /\ req[s].op = "send"
  BY DEF IInv, SendCommit
<1>2. req[s].rev \in DOMAIN revisions /\ req[s].rev \in Ids
  BY <1>1, Numbers DEF IInv, SessionSound, Sound
<1>3. link \in Links /\ link.revision = req[s].rev /\ link.status = "active"
  BY <1>2 DEF Links, LinkStatuses
<1>4. e \in Events /\ e.revision \in DOMAIN revisions
  <2>1. /\ Event(s, "sent") \in Events
        /\ Event(s, "sent").revision \in DOMAIN revisions
        /\ Len(links) + 1 \in Nat
    BY <1>1, EventType DEF TypeOK
  <2> QED
    BY <2>1 DEF Events
<1>5. /\ links' \in Seq(Links)
      /\ DOMAIN links' = DOMAIN links \cup {Len(links) + 1}
      /\ \A l \in DOMAIN links : links'[l] = links[l]
      /\ links'[Len(links) + 1] = link
  <2>1. links' = Append(links, link)
    BY DEF SendCommit
  <2> HIDE DEF link
  <2> QED
    BY <1>1, <1>3, <2>1, AppendProperties DEF TypeOK
<1>6. /\ events' \in Seq(Events)
      /\ \A i \in DOMAIN events : i \in DOMAIN events' /\ events'[i] = events[i]
      /\ \A i \in DOMAIN events' : i \notin DOMAIN events => events'[i] = e
  <2>1. events' = Append(events, e)
    BY DEF SendCommit
  <2> HIDE DEF e
  <2> QED
    BY <1>1, <1>4, <2>1, TrailGrows
<1>7. status' \in Statuses /\ RowsKept
  <2>1. /\ SetStatus(s, "awaiting_approval")
        /\ SetRevisionStatus(s, "awaiting_approval")
        /\ "awaiting_approval" \in Statuses
    BY DEF SendCommit, Statuses
  <2> QED
    BY <1>1, <2>1, StatusWritten, RevisionStatusWritten
<1>8. LinkSound' /\ TrailSound'
  <2>1. TrailSound'
    BY <1>4, <1>6, <1>7, TrailKept DEF IInv, RowsKept
  <2> QED
    BY <1>2, <1>3, <1>5, <1>7, <2>1 DEF IInv, LinkSound, RowsKept, NumbersKept
<1>9. ApprovalOnRecord' /\ ClosedLinkOnRecord'
  <2>1. approvedRev' = approvedRev
    BY DEF SendCommit
  <2> QED
    BY <1>1, <1>3, <1>5, <1>6, <1>7, <2>1, ApprovalKept, ClosedKept DEF IInv, RowsKept
<1> QED
  BY <1>1, <1>5, <1>6, <1>7, <1>8, <1>9, CommitStep DEF SendCommit, TypeOK

\* A commit that closes a link with a decision.
LEMMA DecisionStep ==
    ASSUME IInv, NEW s \in Sessions, Finish(s), req[s].op # "idle",
           req[s].link \in DOMAIN links, UNCHANGED <<currentRev, totalRev, edits>>,
           status' \in Statuses, RowsKept,
           NEW new \in LinkStatuses, links' = [links EXCEPT ![req[s].link].status = new],
           NEW kind \in {"approved", "declined", "revoked"},
           events' = Append(events, Event(s, kind)),
           \/ approvedRev' = approvedRev
           \/ kind = "approved" /\ approvedRev' = req[s].seenRev.number
    PROVE  IInv'
<1>1. TypeOK
  BY DEF IInv
<1>2. /\ links' \in Seq(Links)
      /\ DOMAIN links' = DOMAIN links
      /\ \A k \in DOMAIN links : links'[k].revision = links[k].revision
  BY <1>1, LinkWritten
<1>3. LinkSound'
  BY <1>2 DEF IInv, LinkSound, RowsKept, NumbersKept
<1>4. /\ events' \in Seq(Events)
      /\ ClosedLinkOnRecord'
      /\ \A i \in DOMAIN events : i \in DOMAIN events' /\ events'[i] = events[i]
      /\ \A i \in DOMAIN events' :
            i \notin DOMAIN events => events'[i].revision \in DOMAIN revisions
      /\ \E i \in DOMAIN events' : /\ events'[i].kind = kind
                                   /\ events'[i].revision = req[s].rev
  BY ClosureOnRecord
<1>5. TrailSound'
  BY <1>4, TrailKept DEF IInv, RowsKept
<1>6. approvedRev' \in Nat /\ ApprovalOnRecord'
  <2>1. CASE approvedRev' = approvedRev
    BY <1>1, <1>4, <2>1, ApprovalKept DEF IInv, TypeOK, RowsKept
  <2>2. CASE kind = "approved" /\ approvedRev' = req[s].seenRev.number
    <3>1. /\ req[s].rev \in DOMAIN revisions
          /\ req[s].seenRev.number = revisions[req[s].rev].number
      BY DEF IInv, SessionSound, Sound
    <3>2. revisions[req[s].rev].number \in Ids
      BY <1>1, <3>1, Numbers DEF IInv, Revisions
    <3>3. revisions'[req[s].rev].number = approvedRev'
      BY <2>2, <3>1 DEF RowsKept, NumbersKept
    <3>4. ApprovalOnRecord'
      BY <1>4, <2>2, <3>3 DEF ApprovalOnRecord
    <3> QED
      BY <2>2, <3>1, <3>2, <3>4 DEF Ids
  <2> QED
    BY <2>1, <2>2
<1> QED
  BY <1>1, <1>2, <1>3, <1>4, <1>5, <1>6, CommitStep DEF TypeOK

LEMMA RevokeCommitStep ==
    ASSUME IInv, NEW s \in Sessions, RevokeCommit(s)
    PROVE  IInv'
<1>1. /\ TypeOK /\ NumberedInOrder
      /\ req[s].op # "idle" /\ req[s].link \in DOMAIN links
  BY DEF IInv, RevokeCommit, SessionSound, Sound
<1>2. status' \in Statuses /\ RowsKept
  <2>1. CASE SetStatus(s, "ready") /\ SetRevisionStatus(s, "ready")
    <3>1. "ready" \in Statuses
      BY DEF Statuses
    <3> QED
      BY <1>1, <2>1, <3>1, StatusWritten, RevisionStatusWritten
  <2>2. CASE UNCHANGED <<status, revisions>>
    BY <1>1, <2>2 DEF TypeOK, RowsKept, NumbersKept
  <2> QED
    BY <2>1, <2>2 DEF RevokeCommit
<1>3. "revoked" \in LinkStatuses
  BY DEF LinkStatuses
<1>4. /\ links' = [links EXCEPT ![req[s].link].status = "revoked"]
      /\ events' = Append(events, Event(s, "revoked"))
      /\ UNCHANGED <<currentRev, totalRev, edits, approvedRev>>
      /\ Finish(s)
  BY DEF RevokeCommit
<1> DEFINE kind == "revoked"
<1>5. kind \in {"approved", "declined", "revoked"}
  OBVIOUS
<1>6. events' = Append(events, Event(s, kind))
  BY <1>4
<1> HIDE DEF kind
<1> QED
  BY <1>1, <1>2, <1>3, <1>4, <1>5, <1>6, DecisionStep

\* approve_estimate and decline_estimate write one status to the estimate and its
\* revision and use the link up.
LEMMA DecideCommitStep ==
    ASSUME IInv, NEW s \in Sessions, ApproveCommit(s) \/ DeclineCommit(s)
    PROVE  IInv'
<1> DEFINE new == IF req[s].op = "approve" THEN "approved" ELSE "declined"
<1>1. /\ TypeOK /\ NumberedInOrder
      /\ req[s].op # "idle" /\ req[s].link \in DOMAIN links
  BY DEF IInv, ApproveCommit, DeclineCommit, SessionSound, Sound
<1>2. new \in Statuses /\ new \in {"approved", "declined", "revoked"}
  BY DEF Statuses
<1>3. /\ SetStatus(s, new) /\ SetRevisionStatus(s, new)
      /\ links' = [links EXCEPT ![req[s].link].status = "used"]
      /\ events' = Append(events, Event(s, new))
      /\ UNCHANGED <<currentRev, totalRev, edits>>
      /\ Finish(s)
      /\ \/ approvedRev' = approvedRev
         \/ new = "approved" /\ approvedRev' = req[s].seenRev.number
  BY DEF ApproveCommit, DeclineCommit, CloseLink, Written
<1> HIDE DEF new
<1>4. status' \in Statuses /\ RowsKept
  BY <1>1, <1>2, <1>3, StatusWritten, RevisionStatusWritten
<1>5. "used" \in LinkStatuses
  BY DEF LinkStatuses
<1> QED
  BY <1>1, <1>2, <1>3, <1>4, <1>5, DecisionStep

LEMMA ApproveLateCommitStep ==
    ASSUME IInv, NEW s \in Sessions, ApproveLateCommit(s)
    PROVE  IInv'
<1>1. /\ TypeOK /\ NumberedInOrder
      /\ req[s].op # "idle" /\ req[s].link \in DOMAIN links
  BY DEF IInv, ApproveLateCommit, SessionSound, Sound
<1>2. status' \in Statuses /\ RowsKept
  <2>1. SetStatus(s, "expired") /\ SetRevisionStatus(s, "expired") /\ "expired" \in Statuses
    BY DEF ApproveLateCommit, Statuses
  <2> QED
    BY <1>1, <2>1, StatusWritten, RevisionStatusWritten
<1>3. /\ links' \in Seq(Links)
      /\ DOMAIN links' = DOMAIN links
      /\ \A k \in DOMAIN links : /\ links'[k].revision = links[k].revision
                                 /\ k # req[s].link => links'[k].status = links[k].status
      /\ links'[req[s].link].status = "expired"
  <2>1. "expired" \in LinkStatuses /\ links' = [links EXCEPT ![req[s].link].status = "expired"]
    BY DEF LinkStatuses, ApproveLateCommit, CloseLink
  <2> QED
    BY <1>1, <2>1, LinkWritten
<1>4. /\ UNCHANGED <<currentRev, approvedRev, totalRev, events, edits>>
      /\ Finish(s)
  BY DEF ApproveLateCommit
<1>5. ApprovalOnRecord' /\ ClosedLinkOnRecord' /\ LinkSound' /\ TrailSound'
  <2>1. NumbersKept
    BY <1>2 DEF RowsKept
  <2> QED
    BY <1>3, <1>4, <2>1, ApprovalKept, ClosedKept, TrailKept DEF IInv, LinkSound, NumbersKept
<1> QED
  BY <1>1, <1>2, <1>3, <1>4, <1>5, CommitStep DEF TypeOK

-----------------------------------------------------------------------------
(* Time                                                                    *)

LEMMA LinkTimeStep ==
    ASSUME IInv, NEW l \in DOMAIN links, ResolveLapsed(l) \/ LinkLapses(l)
    PROVE  IInv'
<1>1. TypeOK /\ l \in 1 .. Len(links) /\ links[l] \in Links
  BY DEF IInv, TypeOK
<1>2. PICK link \in Links : /\ links' = [links EXCEPT ![l] = link]
                            /\ link.revision = links[l].revision
                            /\ link.status \in {links[l].status, "expired"}
  <2>1. CASE ResolveLapsed(l)
    <3>1. [links[l] EXCEPT !.status = "expired"] \in Links
      BY <1>1 DEF Links, LinkStatuses
    <3> QED
      BY <1>1, <2>1, <3>1 DEF ResolveLapsed, Links
  <2>2. CASE LinkLapses(l)
    <3>1. [links[l] EXCEPT !.lapsed = TRUE] \in Links
      BY <1>1 DEF Links
    <3> QED
      BY <1>1, <2>2, <3>1 DEF LinkLapses, Links
  <2> QED
    BY <2>1, <2>2
<1>3. /\ links' \in Seq(Links)
      /\ DOMAIN links' = DOMAIN links
      /\ \A k \in DOMAIN links : links'[k] = IF k = l THEN link ELSE links[k]
  BY <1>1, <1>2, ExceptSeq DEF TypeOK
<1>4. UNCHANGED <<status, currentRev, approvedRev, totalRev, revisions, events, edits, req>>
  BY DEF ResolveLapsed, LinkLapses
<1>5. ApprovalOnRecord' /\ ClosedLinkOnRecord'
  BY <1>1, <1>2, <1>3, <1>4, ClosedKept DEF IInv, ApprovalOnRecord
<1>6. LinkSound' /\ SessionSound' /\ TrailSound'
  BY <1>2, <1>3, <1>4 DEF IInv, LinkSound, SessionSound, Sound, TrailSound
<1> QED
  BY <1>3, <1>4, <1>5, <1>6 DEF IInv, TypeOK, NumberedInOrder, TotalOfLatest

LEMMA DuePassesStep ==
    ASSUME IInv, NEW r \in DOMAIN revisions, DuePasses(r)
    PROVE  IInv'
<1> DEFINE row == [revisions[r] EXCEPT !.pastDue = TRUE]
<1>1. TypeOK /\ NumberedInOrder /\ revisions[r] \in Revisions
  BY Numbers DEF IInv
<1>2. row \in Revisions /\ row.number = revisions[r].number
  BY <1>1 DEF Revisions
<1>3. revisions' = [revisions EXCEPT ![r] = row]
  BY DEF DuePasses
<1>4. RowsKept
  <2> HIDE DEF row
  <2> QED
    BY <1>1, <1>2, <1>3, RowWritten
<1>5. UNCHANGED <<status, currentRev, approvedRev, totalRev, links, events, edits, req>>
  BY DEF DuePasses
<1>6. ApprovalOnRecord' /\ TrailSound'
  BY <1>4, <1>5, ApprovalKept, TrailKept DEF IInv, RowsKept
<1>7. NumberedInOrder' /\ TotalOfLatest'
  <2>1. DOMAIN revisions' = DOMAIN revisions
    BY <1>1, <1>4 DEF TypeOK, RowsKept, NumbersKept
  <2> QED
    BY <1>1, <1>4, <1>5, <2>1
       DEF IInv, NumberedInOrder, TotalOfLatest, RowsKept, NumbersKept
<1>8. SessionSound' /\ LinkSound' /\ ClosedLinkOnRecord'
  BY <1>4, <1>5 DEF IInv, SessionSound, Sound, LinkSound, ClosedLinkOnRecord, Closing,
                    RowsKept, NumbersKept
<1> QED
  BY <1>1, <1>4, <1>5, <1>6, <1>7, <1>8 DEF IInv, TypeOK, RowsKept, NumbersKept

-----------------------------------------------------------------------------
(* The invariant                                                           *)

LEMMA InitIInv == Init => IInv
<1> SUFFICES ASSUME Init PROVE IInv
  OBVIOUS
<1>1. Idle \in Requests /\ Idle.op = "idle"
  BY DEF Idle, Requests, Revisions, FirstRevision, Statuses, Ids
<1>2. FirstRevision \in Revisions /\ FirstRevision.number = 1
  BY DEF FirstRevision, Revisions, Statuses, Ids
<1>3. /\ revisions \in Seq(Revisions)
      /\ Len(revisions) = 1
      /\ revisions[1] = FirstRevision
  BY <1>2 DEF Init
<1>4. TypeOK
  <2>1. req \in [Sessions -> Requests] /\ links \in Seq(Links) /\ events \in Seq(Events)
    BY <1>1 DEF Init
  <2> QED
    BY <1>3, <2>1 DEF Init, TypeOK, Statuses, Ids
<1>5. NumberedInOrder /\ TotalOfLatest
  BY <1>2, <1>3 DEF Init, NumberedInOrder, TotalOfLatest
<1>6. SessionSound
  BY <1>1 DEF Init, SessionSound, Sound
<1> QED
  BY <1>4, <1>5, <1>6 DEF Init, IInv, ApprovalOnRecord, ClosedLinkOnRecord, LinkSound,
                          TrailSound

\* Every step keeps the invariant.
LEMMA NextIInv == IInv /\ [Next]_vars => IInv'
<1> SUFFICES ASSUME IInv, [Next]_vars PROVE IInv'
  OBVIOUS
<1> USE DEF Operations
<1>1. /\ TypeOK /\ NumberedInOrder /\ LatestRevision \in DOMAIN revisions
      /\ currentRev \in 1 .. currentRev /\ 0 \in Nat
  BY LatestIsLast, Numbers DEF IInv
<1>2. ASSUME NEW s \in Sessions, UpdateLoad(s) PROVE IInv'
  <2>1. PICK edit \in BOOLEAN, extend \in BOOLEAN, want \in OwnerStatuses \cup {"none"} :
           req' = [req EXCEPT ![s] =
                      Loaded("update", LatestRevision, 0, edit, extend, want)]
    BY <1>2 DEF UpdateLoad
  <2> DEFINE r == Loaded("update", LatestRevision, 0, edit, extend, want)
  <2>2. r \in Requests
    BY <1>1, LoadedType, OwnerStatusesAssumption
  <2>3. Sound(r)
    BY <1>1 DEF Sound, Loaded
  <2>4. /\ req' = [req EXCEPT ![s] = r]
        /\ UNCHANGED <<status, currentRev, approvedRev, totalRev, revisions, links, events,
                       edits>>
    BY <1>1, <1>2, <2>1 DEF UpdateLoad
  <2> HIDE DEF r
  <2> QED
    BY <2>2, <2>3, <2>4, LoadStep
<1>3. ASSUME NEW s \in Sessions, ReviseLoad(s) \/ SendLoad(s) PROVE IInv'
  BY <1>1, <1>3, BeginStep DEF ReviseLoad, SendLoad
<1>4. ASSUME NEW s \in Sessions, RevokeLoad(s) \/ DecideLoad(s) PROVE IInv'
  <2>1. PICK l \in DOMAIN links, op \in {"revoke", "approve", "approve_late", "decline"} :
           Begin(s, op, links[l].revision, l)
    BY <1>4 DEF RevokeLoad, DecideLoad
  <2>2. links[l].revision \in DOMAIN revisions /\ l \in Nat
    BY <1>1 DEF IInv, LinkSound, TypeOK
  <2> QED
    BY <2>1, <2>2, BeginStep
<1>5. ASSUME NEW s \in Sessions, Abort(s) PROVE IInv'
  <2>1. Finish(s)
    BY <1>5 DEF Abort
  <2>2. NumbersKept
    BY <1>1, <1>5 DEF Abort, NumbersKept, TypeOK
  <2>3. req' \in [Sessions -> Requests] /\ SessionSound'
    BY <1>1, <1>5, <2>1, <2>2, FinishSound DEF Abort, TypeOK, Ids
  <2> QED
    BY <1>5, <2>3 DEF Abort, IInv, TypeOK, NumberedInOrder, TotalOfLatest, ApprovalOnRecord,
                      ClosedLinkOnRecord, Closing, LinkSound, TrailSound
<1>6. CASE UNCHANGED vars
  BY <1>6 DEF vars, IInv, TypeOK, NumberedInOrder, TotalOfLatest, ApprovalOnRecord,
              ClosedLinkOnRecord, Closing, SessionSound, Sound, LinkSound, TrailSound
<1> QED
  BY <1>2, <1>3, <1>4, <1>5, <1>6, UpdateCommitStep, ReviseCommitStep, SendCommitStep,
     RevokeCommitStep, DecideCommitStep, ApproveLateCommitStep, LinkTimeStep, DuePassesStep
     DEF Next

-----------------------------------------------------------------------------
\* The columns, the links, the audit trail and the loaded copies keep their types.
THEOREM TypeCorrect == Spec => []TypeOK
<1>1. IInv => TypeOK
  BY DEF IInv
<1> QED
  BY <1>1, InitIInv, NextIInv, PTL DEF Spec

\* Every revision has a number of its own, without a gap and in the order in which they
\* were stored, and the total is that of the newest, although create_estimate_revision
\* holds its copy across an await.
THEOREM IsNewestRevisionTheorem == Spec => []IsNewestRevision
<1>1. IInv => IsNewestRevision
  BY DEF IInv, IsNewestRevision
<1> QED
  BY <1>1, InitIInv, NextIInv, PTL DEF Spec

\* A revision that counts as approved was approved through a link, and a used or
\* revoked link has the decision that closed it: both on record.
THEOREM DecisionsOnRecordTheorem == Spec => []DecisionsOnRecord
<1>1. IInv => DecisionsOnRecord
  BY DEF IInv, DecisionsOnRecord
<1> QED
  BY <1>1, InitIInv, NextIInv, PTL DEF Spec

=============================================================================
