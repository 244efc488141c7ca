-------------------------- MODULE ShopFloorProofs --------------------------
(***************************************************************************)
(* Proofs about WorkOrders, TimeClock and JobPipeline for every number of  *)
(* sessions and entries and histories of every length.                     *)
(*                                                                         *)
(* That a completed work order has its invoice is not inductive: the       *)
(* commit of an ordinary transition writes the target the request chose at *)
(* its load. TargetSound is what is missing: a target that completes the   *)
(* order is only ever committed together with the invoice.                 *)
(*                                                                         *)
(* The compiler and the release hold a lock each, the finding's and the    *)
(* revision's: JobsSound says what either may rely on, JobsExclude that    *)
(* each lock has one holder.                                               *)
(***************************************************************************)
EXTENDS WorkOrders, TimeClock, JobPipeline, SequenceTheorems, FiniteSetTheorems, SumTheorems,
        TLAPS

\* A request that is about to commit a transition does not commit a completion.
TargetSound ==
    \A s \in Sessions :
        req[s].pc = "transition_commit" => req[s].want \in Statuses \ {"completed"}

IInv ==
    /\ TypeOK
    /\ OneWorkOrderOneInvoice
    /\ CompletedHasInvoice
    /\ StatusIsLastEvent
    /\ TargetSound
-----------------------------------------------------------------------------
\* What a request loads is well typed.
LEMMA LoadedType ==
    ASSUME TypeOK, NEW point \in Points, NEW want \in Statuses \cup {"none"},
           NEW deposit \in BOOLEAN, NEW authorization \in BOOLEAN
    PROVE  Loaded(point, want, deposit, authorization) \in Requests
BY DEF Loaded, Requests, TypeOK

\* An audit event ends the trail.
LEMMA AppendEnds ==
    ASSUME TypeOK, NEW from \in Statuses \cup {"none"}, NEW to \in Statuses,
           AppendStatusEvent(from, to)
    PROVE  /\ events' \in Seq(Events)
           /\ events' # <<>>
           /\ events'[Len(events')].to = to
<1>1. [from |-> from, to |-> to] \in Events
  BY DEF Events
<1>2. events \in Seq(Events)
  BY DEF TypeOK
<1>3. /\ events' = Append(events, [from |-> from, to |-> to])
      /\ Len(events') = Len(events) + 1
  BY <1>1, <1>2 DEF AppendStatusEvent
<1> QED
  BY <1>1, <1>2, <1>3

\* The initial states satisfy the invariant: there is no work order yet.
LEMMA InitIInv == Init => IInv
<1> SUFFICES ASSUME Init PROVE IInv
  OBVIOUS
<1>1. Idle \in Requests
  BY DEF Idle, Requests, Points
<1>2. TypeOK
  <2>1. req \in [Sessions -> Requests]
    BY <1>1 DEF Init
  <2>2. events \in Seq(Events)
    BY DEF Init
  <2> QED
    BY <2>1, <2>2 DEF Init, TypeOK
<1>3. TargetSound
  BY DEF Init, TargetSound, Idle
<1> QED
  BY <1>2, <1>3 DEF Init, IInv, OneWorkOrderOneInvoice, CompletedHasInvoice,
                    StatusIsLastEvent, Statuses

-----------------------------------------------------------------------------
\* A step that moves a session and leaves the rows alone.
LEMMA QuietStep ==
    ASSUME IInv, NEW s \in Sessions, NEW r \in Requests,
           r.pc = "transition_commit" => r.want \in Statuses \ {"completed"},
           req' = [req EXCEPT ![s] = r],
           UNCHANGED <<status, flagVars, workOrders, events, invoices>>
    PROVE  IInv'
<1>1. TypeOK'
  BY DEF IInv, TypeOK, flagVars
<1>2. TargetSound'
  BY DEF IInv, TargetSound, TypeOK
<1> QED
  BY <1>1, <1>2 DEF IInv, OneWorkOrderOneInvoice, CompletedHasInvoice, StatusIsLastEvent

\* A request that ends, or rolls back, without having written anything.
LEMMA QuietEnd ==
    ASSUME IInv, NEW s \in Sessions, Finish(s),
           UNCHANGED <<status, flagVars, workOrders, events, invoices>>
    PROVE  IInv'
<1>1. Idle \in Requests /\ Idle.pc = "idle"
  BY DEF Idle, Requests, Points
<1> QED
  BY <1>1, QuietStep DEF Finish

\* A commit that stores a status with its audit event.  What has to be shown of
\* it is that a completion leaves an invoice.
LEMMA StatusStep ==
    ASSUME IInv, NEW s \in Sessions, Finish(s), UNCHANGED flagVars,
           NEW from \in Statuses \cup {"none"}, NEW to \in Statuses,
           status' = to, AppendStatusEvent(from, to),
           workOrders' \in {workOrders, 1}, invoices' \in {invoices, 1},
           to = "completed" => invoices' = 1
    PROVE  IInv'
<1>0. TypeOK /\ OneWorkOrderOneInvoice /\ TargetSound
  BY DEF IInv
<1>1. Idle \in Requests /\ Idle.pc = "idle"
  BY DEF Idle, Requests, Points
<1>2. req' \in [Sessions -> Requests]
  BY <1>0, <1>1 DEF Finish, TypeOK
<1>3. /\ events' \in Seq(Events)
      /\ events' # <<>>
      /\ events'[Len(events')].to = to
  BY <1>0, AppendEnds
<1>4. TypeOK'
  BY <1>0, <1>2, <1>3 DEF TypeOK, flagVars
<1>5. OneWorkOrderOneInvoice'
  BY <1>0 DEF OneWorkOrderOneInvoice, TypeOK
<1>6. CompletedHasInvoice'
  BY DEF CompletedHasInvoice
<1>7. StatusIsLastEvent'
  BY <1>3 DEF StatusIsLastEvent
<1>8. TargetSound'
  BY <1>0, <1>1 DEF TargetSound, Finish, TypeOK
<1> QED
  BY <1>4, <1>5, <1>6, <1>7, <1>8 DEF IInv

\* Every step keeps the invariant.
LEMMA NextIInv == IInv /\ [Next]_vars => IInv'
<1> SUFFICES ASSUME IInv, [Next]_vars PROVE IInv'
  OBVIOUS
<1> USE DEF Points
<1>0. TypeOK /\ TargetSound
  BY DEF IInv
<1>1. ASSUME NEW s \in Sessions, CreateLoad(s) PROVE IInv'
  <2>1. Loaded("create_commit", "none", FALSE, FALSE) \in Requests
    BY <1>0, LoadedType
  <2> QED
    BY <1>1, <2>1, QuietStep DEF CreateLoad, Loaded
<1>2. ASSUME NEW s \in Sessions, CreateCommit(s) PROVE IInv'
  <2>1. InitialStatus \in Statuses \ {"completed"}
    BY DEF InitialStatus, Statuses
  <2> QED
    BY <1>2, <2>1, StatusStep DEF CreateCommit
<1>3. ASSUME NEW s \in Sessions, PatchLoad(s) PROVE IInv'
  <2>1. PICK d \in BOOLEAN, a \in BOOLEAN :
           req' = [req EXCEPT ![s] = Loaded("patch_commit", "none", d, a)]
    BY <1>3 DEF PatchLoad
  <2>2. Loaded("patch_commit", "none", d, a) \in Requests
    BY <1>0, LoadedType
  <2> QED
    BY <1>3, <2>1, <2>2, QuietStep DEF PatchLoad, Loaded
<1>4. ASSUME NEW s \in Sessions, PatchCommit(s) PROVE IInv'
  <2>1. Idle \in Requests /\ Idle.pc = "idle"
    BY DEF Idle, Requests
  <2>2. req[s] \in Requests
    BY <1>0 DEF TypeOK
  <2>3. req' \in [Sessions -> Requests]
    BY <1>0, <1>4, <2>1 DEF PatchCommit, Finish, TypeOK
  <2>4. depositReceived' \in BOOLEAN /\ authorizationConfirmed' \in BOOLEAN
    <3>1. /\ req[s].deposit \in BOOLEAN /\ req[s].authorization \in BOOLEAN
          /\ depositReceived \in BOOLEAN /\ authorizationConfirmed \in BOOLEAN
      BY <1>0, <2>2 DEF TypeOK, Requests
    <3> QED
      BY <1>4, <3>1 DEF PatchCommit, Written
  <2>5. UNCHANGED <<status, paymentPlan, workOrders, events, invoices>>
    BY <1>4 DEF PatchCommit
  <2>6. TypeOK'
    BY <1>0, <2>3, <2>4, <2>5 DEF TypeOK
  <2>7. TargetSound'
    BY <1>0, <1>4, <2>1 DEF TargetSound, PatchCommit, Finish, TypeOK
  <2> QED
    BY <2>5, <2>6, <2>7 DEF IInv, OneWorkOrderOneInvoice, CompletedHasInvoice,
                            StatusIsLastEvent
<1>5. ASSUME NEW s \in Sessions, TransitionLoad(s) PROVE IInv'
  <2>1. PICK want \in Statuses :
           req' = [req EXCEPT ![s] =
                      Loaded(IF want = "completed" THEN "complete_read"
                                                   ELSE "transition_commit",
                             want, FALSE, FALSE)]
    BY <1>5 DEF TransitionLoad
  <2> DEFINE point == IF want = "completed" THEN "complete_read" ELSE "transition_commit"
             r == Loaded(point, want, FALSE, FALSE)
  <2>2. r \in Requests
    BY <1>0, LoadedType
  <2>3. r.pc = "transition_commit" => r.want \in Statuses \ {"completed"}
    BY DEF Loaded
  <2>4. UNCHANGED <<status, flagVars, workOrders, events, invoices>>
    BY <1>5 DEF TransitionLoad
  <2> HIDE DEF r
  <2> QED
    BY <2>1, <2>2, <2>3, <2>4, QuietStep DEF r
<1>6. ASSUME NEW s \in Sessions, TransitionCommit(s) PROVE IInv'
  <2>1. /\ req[s].want \in Statuses \ {"completed"}
        /\ req[s].seenStatus \in Statuses \cup {"none"}
    BY <1>0, <1>6 DEF TargetSound, TransitionCommit, TypeOK, Requests
  <2> QED
    BY <1>6, <2>1, StatusStep DEF TransitionCommit
<1>7. ASSUME NEW s \in Sessions, CompleteRead(s) PROVE IInv'
  <2>1. [req[s] EXCEPT !.pc = "complete_commit"] \in Requests
    BY <1>0 DEF TypeOK, Requests
  <2>2. [req[s] EXCEPT !.pc = "complete_commit"].pc = "complete_commit"
    BY <1>0 DEF TypeOK, Requests
  <2> QED
    BY <1>7, <2>1, <2>2, QuietStep DEF CompleteRead
<1>8. ASSUME NEW s \in Sessions, CompleteCommit(s) PROVE IInv'
  <2>1. req[s].seenStatus \in Statuses \cup {"none"} /\ "completed" \in Statuses
    BY <1>0 DEF TypeOK, Requests, Statuses
  <2> QED
    BY <1>8, <2>1, StatusStep DEF CompleteCommit
<1>9. ASSUME NEW s \in Sessions,
             CreateDuplicate(s) \/ CompleteFindsInvoice(s) \/ CompleteDuplicate(s) \/ Abort(s)
      PROVE  IInv'
  BY <1>9, QuietEnd DEF CreateDuplicate, CompleteFindsInvoice, CompleteDuplicate, Abort
<1>10. CASE UNCHANGED vars
  BY <1>10 DEF vars, flagVars, IInv, TypeOK, OneWorkOrderOneInvoice, CompletedHasInvoice,
               StatusIsLastEvent, TargetSound
<1> QED
  BY <1>1, <1>2, <1>3, <1>4, <1>5, <1>6, <1>7, <1>8, <1>9, <1>10 DEF Next

-----------------------------------------------------------------------------
\* The columns, the audit trail and the loaded copies keep their types.
THEOREM TypeCorrect == Spec => []TypeOK
<1>1. IInv => TypeOK
  BY DEF IInv
<1> QED
  BY <1>1, InitIInv, NextIInv, PTL DEF Spec

\* One work order for the approved revision, one invoice for it, and no completion
\* without that, however many requests convert and complete at once and whatever fails.
THEOREM InvoicedOnceTheorem == Spec => []InvoicedOnce
<1>1. IInv => InvoicedOnce
  BY DEF IInv, InvoicedOnce
<1> QED
  BY <1>1, InitIInv, NextIInv, PTL DEF Spec

\* The stored status is the one the audit trail ends with.
THEOREM StatusIsLastEventTheorem == Spec => []StatusIsLastEvent
<1>1. IInv => StatusIsLastEvent
  BY DEF IInv
<1> QED
  BY <1>1, InitIInv, NextIInv, PTL DEF Spec

-----------------------------------------------------------------------------
(* Completions and invoices                                                *)

Completions == {i \in DOMAIN events : events[i].to = "completed"}

\* An event that completes the work order is one more completion, another is none.
LEMMA AppendCounts ==
    ASSUME TypeOK, NEW from, NEW to, AppendStatusEvent(from, to)
    PROVE  Completions' = IF to = "completed" THEN Completions \cup {Len(events) + 1}
                                              ELSE Completions
<1> DEFINE e == [from |-> from, to |-> to]
<1>1. e.to = to
  OBVIOUS
<1>2. events \in Seq(Events)
  BY DEF TypeOK
<1>3. events' = Append(events, e)
  BY DEF AppendStatusEvent
<1> HIDE DEF e
<1>4. /\ DOMAIN events = 1 .. Len(events) /\ DOMAIN events' = 1 .. Len(events) + 1
      /\ \A i \in 1 .. Len(events) : events'[i] = events[i]
      /\ events'[Len(events) + 1] = e
      /\ Len(events) \in Nat
  BY <1>2, <1>3
<1> QED
  BY <1>1, <1>4 DEF Completions

LEMMA CountStep ==
    IInv /\ OneCompletionPerInvoice /\ [Next]_vars => OneCompletionPerInvoice'
<1> SUFFICES ASSUME IInv, invoices = Cardinality(Completions), [Next]_vars
             PROVE  invoices' = Cardinality(Completions')
  BY DEF OneCompletionPerInvoice, Completions
<1>0. TypeOK /\ TargetSound
  BY DEF IInv
<1>1. ASSUME NEW s \in Sessions, CreateCommit(s) \/ TransitionCommit(s)
      PROVE  invoices' = Cardinality(Completions')
  <2>1. PICK from, to : AppendStatusEvent(from, to) /\ to # "completed"
    <3>1. CASE CreateCommit(s)
      BY <3>1 DEF CreateCommit, InitialStatus
    <3>2. CASE TransitionCommit(s)
      BY <1>0, <3>2 DEF TransitionCommit, TargetSound
    <3> QED
      BY <1>1, <3>1, <3>2
  <2>2. invoices' = invoices
    BY <1>1 DEF CreateCommit, TransitionCommit
  <2> QED
    BY <1>0, <2>1, <2>2, AppendCounts
<1>2. ASSUME NEW s \in Sessions, CompleteCommit(s)
      PROVE  invoices' = Cardinality(Completions')
  <2>1. /\ invoices = 0 /\ invoices' = 1
        /\ AppendStatusEvent(req[s].seenStatus, "completed")
    BY <1>2 DEF CompleteCommit
  <2>2. Completions = {}
    <3>1. IsFiniteSet(Completions)
      <4>1. events \in Seq(Events)
        BY <1>0 DEF TypeOK
      <4>2. DOMAIN events = 1 .. Len(events) /\ Len(events) \in Nat
        BY <4>1
      <4>3. Completions \subseteq 1 .. Len(events)
        BY <4>2 DEF Completions
      <4>4. IsFiniteSet(1 .. Len(events))
        BY <4>2, FS_Interval
      <4> QED
        BY <4>3, <4>4, FS_Subset
    <3> QED
      BY <2>1, <3>1, FS_EmptySet
  <2>3. Completions' = {Len(events) + 1}
    BY <1>0, <2>1, <2>2, AppendCounts
  <2> QED
    BY <2>1, <2>3, FS_Singleton
<1>3. CASE UNCHANGED <<events, invoices>>
  BY <1>3 DEF Completions
<1> QED
  BY <1>1, <1>2, <1>3
     DEF Next, vars, CreateLoad, CreateDuplicate, PatchLoad, PatchCommit, TransitionLoad,
         CompleteFindsInvoice, CompleteRead, CompleteDuplicate, Abort

\* The invoice is there for one completion, and each completion for its invoice.
THEOREM OneCompletionPerInvoiceTheorem == Spec => []OneCompletionPerInvoice
<1>1. Init => OneCompletionPerInvoice
  <2> SUFFICES ASSUME Init PROVE OneCompletionPerInvoice
    OBVIOUS
  <2>1. {i \in DOMAIN events : events[i].to = "completed"} = {}
    BY DEF Init
  <2> QED
    BY <2>1, FS_EmptySet DEF Init, OneCompletionPerInvoice
<1> QED
  BY <1>1, InitIInv, NextIInv, CountStep, PTL DEF Spec

-----------------------------------------------------------------------------
(* The path of the status                                                  *)

Busy(s) == req[s].pc # "idle"
Moving(s) == req[s].pc \in {"transition_commit", "complete_read", "complete_commit"}

\* While no two requests have overlapped, there is one at most, and the status it
\* is about to write is a successor of the one there is.
Alone == ~raced => \A s, t \in Sessions : Busy(s) /\ Busy(t) => s = t

CopyCurrent ==
    ~raced => \A s \in Sessions : Moving(s) =>
        /\ req[s].want \in Successors[status]
        /\ req[s].want = "ready_to_schedule" => ReadyRequirementsMet
        /\ req[s].pc # "transition_commit" => req[s].want = "completed"

RowExists ==
    /\ workOrders = 0 <=> status = "none"
    /\ \A s \in Sessions : Moving(s) => workOrders > 0

PathInv == IInv /\ Alone /\ CopyCurrent /\ RowExists

\* A request that ends, having written a status and its event or nothing at all.
LEMMA PathEnd ==
    ASSUME PathInv, NEW s \in Sessions, Busy(s), Finish(s), raced' = raced,
           \/ UNCHANGED <<status, workOrders>>
           \/ status' \in Statuses /\ workOrders' = 1
    PROVE  Alone' /\ CopyCurrent' /\ RowExists'
<1>1. \A o \in Sessions : req'[o] = IF o = s THEN Idle ELSE req[o]
  BY DEF PathInv, IInv, TypeOK, Finish
<1>2. \A o \in Sessions : (Busy(o)' => Busy(o) /\ o # s) /\ (Moving(o)' => Moving(o) /\ o # s)
  BY <1>1 DEF Busy, Moving, Idle
<1>3. ~raced => \A o \in Sessions : ~Moving(o)'
  BY <1>2 DEF PathInv, Alone, Busy, Moving
<1>4. Alone' /\ CopyCurrent'
  BY <1>2, <1>3 DEF PathInv, Alone, CopyCurrent
<1>5. RowExists'
  <2>1. "none" \notin Statuses /\ workOrders \in Nat
    BY DEF Statuses, PathInv, IInv, TypeOK
  <2> QED
    BY <1>2, <2>1 DEF PathInv, RowExists
<1> QED
  BY <1>4, <1>5

\* A request that begins.
LEMMA PathBegin ==
    ASSUME PathInv, NEW s \in Sessions, NEW r \in Requests, Overlap(s),
           req' = [req EXCEPT ![s] = r],
           UNCHANGED <<status, flagVars, workOrders>>,
           r.pc \in {"transition_commit", "complete_read", "complete_commit"} =>
               /\ workOrders > 0
               /\ r.want \in Successors[status]
               /\ r.want = "ready_to_schedule" => ReadyRequirementsMet
               /\ r.pc # "transition_commit" => r.want = "completed"
    PROVE  Alone' /\ CopyCurrent' /\ RowExists'
<1>1. \A o \in Sessions : req'[o] = IF o = s THEN r ELSE req[o]
  BY DEF PathInv, IInv, TypeOK
<1>2. ~raced' => ~raced /\ \A o \in Sessions \ {s} : ~Busy(o) /\ ~Moving(o)
  BY DEF Overlap, Busy, Moving
<1>3. ~raced' => \A o \in Sessions : Busy(o)' => o = s
  BY <1>1, <1>2 DEF Busy
<1>4. Alone'
  BY <1>3 DEF Alone
<1>5. CopyCurrent'
  <2> SUFFICES ASSUME ~raced', NEW o \in Sessions, Moving(o)'
               PROVE  /\ req'[o].want \in Successors[status]
                      /\ req'[o].want = "ready_to_schedule" => ReadyRequirementsMet
                      /\ req'[o].pc # "transition_commit" => req'[o].want = "completed"
    BY DEF CopyCurrent, ReadyRequirementsMet, flagVars
  <2>1. o = s
    BY <1>3 DEF Moving, Busy
  <2>2. req'[o] = r
    BY <1>1, <2>1
  <2> QED
    BY <2>2 DEF Moving
<1>6. RowExists'
  BY <1>1 DEF PathInv, RowExists, Moving
<1> QED
  BY <1>4, <1>5, <1>6

LEMMA PathStep == PathInv /\ [Next]_vars => Alone' /\ CopyCurrent' /\ RowExists'
<1> SUFFICES ASSUME PathInv, [Next]_vars PROVE Alone' /\ CopyCurrent' /\ RowExists'
  OBVIOUS
<1> USE DEF Points
<1>0. TypeOK
  BY DEF PathInv, IInv
<1>1. ASSUME NEW s \in Sessions, CreateLoad(s) PROVE Alone' /\ CopyCurrent' /\ RowExists'
  <2>1. Loaded("create_commit", "none", FALSE, FALSE) \in Requests
    BY <1>0, LoadedType
  <2> QED
    BY <1>1, <2>1, PathBegin DEF CreateLoad, Loaded
<1>2. ASSUME NEW s \in Sessions, PatchLoad(s) PROVE Alone' /\ CopyCurrent' /\ RowExists'
  <2>1. PICK d \in BOOLEAN, a \in BOOLEAN :
           req' = [req EXCEPT ![s] = Loaded("patch_commit", "none", d, a)]
    BY <1>2 DEF PatchLoad
  <2>2. Loaded("patch_commit", "none", d, a) \in Requests
    BY <1>0, LoadedType
  <2> QED
    BY <1>2, <2>1, <2>2, PathBegin DEF PatchLoad, Loaded
<1>3. ASSUME NEW s \in Sessions, TransitionLoad(s)
      PROVE  Alone' /\ CopyCurrent' /\ RowExists'
  <2>1. PICK want \in Statuses :
           /\ TransitionAllowed(want)
           /\ req' = [req EXCEPT ![s] =
                         Loaded(IF want = "completed" THEN "complete_read"
                                                      ELSE "transition_commit",
                                want, FALSE, FALSE)]
    BY <1>3 DEF TransitionLoad
  <2> DEFINE point == IF want = "completed" THEN "complete_read" ELSE "transition_commit"
             r == Loaded(point, want, FALSE, FALSE)
  <2>2. r \in Requests
    BY <1>0, LoadedType
  <2>3. r.want = want /\ (r.pc # "transition_commit" => want = "completed")
    BY DEF Loaded
  <2>4. workOrders > 0 /\ Overlap(s) /\ UNCHANGED <<status, flagVars, workOrders>>
    BY <1>3 DEF TransitionLoad
  <2>5. status \in Statuses
    BY <1>0, <2>4 DEF TypeOK, PathInv, RowExists
  <2>6. want = "ready_to_schedule" => ReadyRequirementsMet
    BY <2>1, <2>5 DEF TransitionAllowed, Successors, Statuses
  <2>7. want \in Successors[status]
    BY <2>1 DEF TransitionAllowed
  <2> HIDE DEF r, point
  <2> QED
    BY <2>1, <2>2, <2>3, <2>4, <2>6, <2>7, PathBegin DEF r, point
<1>4. ASSUME NEW s \in Sessions, CompleteRead(s)
      PROVE  Alone' /\ CopyCurrent' /\ RowExists'
  <2>1. /\ req[s].pc = "complete_read" /\ UNCHANGED <<status, flagVars, workOrders, raced>>
        /\ req' = [req EXCEPT ![s].pc = "complete_commit"]
    BY <1>4 DEF CompleteRead
  <2>2. \A o \in Sessions \ {s} : req'[o] = req[o]
    BY <1>0, <2>1 DEF TypeOK
  <2>3. req'[s].pc = "complete_commit" /\ req'[s].want = req[s].want
    BY <1>0, <2>1 DEF TypeOK, Requests
  <2>4. \A o \in Sessions : (Busy(o)' <=> Busy(o)) /\ (Moving(o)' <=> Moving(o))
    BY <2>1, <2>2, <2>3 DEF Busy, Moving
  <2>5. Alone' /\ RowExists'
    BY <2>1, <2>4 DEF PathInv, Alone, RowExists
  <2>6. CopyCurrent'
    BY <2>1, <2>2, <2>3, <2>4 DEF PathInv, CopyCurrent, Moving, ReadyRequirementsMet, flagVars
  <2> QED
    BY <2>5, <2>6
<1>5. ASSUME NEW s \in Sessions,
             \/ CreateDuplicate(s) \/ PatchCommit(s) \/ CompleteFindsInvoice(s)
             \/ CompleteDuplicate(s) \/ Abort(s)
      PROVE  Alone' /\ CopyCurrent' /\ RowExists'
  <2>1. Busy(s) /\ Finish(s) /\ raced' = raced /\ UNCHANGED <<status, workOrders>>
    BY <1>5 DEF CreateDuplicate, PatchCommit, CompleteFindsInvoice, CompleteDuplicate, Abort,
                Busy
  <2> QED
    BY <2>1, PathEnd
<1>6. ASSUME NEW s \in Sessions, CreateCommit(s) \/ TransitionCommit(s) \/ CompleteCommit(s)
      PROVE  Alone' /\ CopyCurrent' /\ RowExists'
  <2>1. Busy(s) /\ Finish(s) /\ raced' = raced
    BY <1>6 DEF CreateCommit, TransitionCommit, CompleteCommit, Busy
  <2>2. status' \in Statuses
    BY <1>6 DEF CreateCommit, TransitionCommit, CompleteCommit, InitialStatus, Statuses,
                PathInv, IInv, TargetSound
  <2>3. workOrders' = 1
    BY <1>6 DEF CreateCommit, TransitionCommit, CompleteCommit, Moving, PathInv, RowExists,
                IInv, OneWorkOrderOneInvoice, TypeOK
  <2> QED
    BY <2>1, <2>2, <2>3, PathEnd
<1>7. CASE UNCHANGED vars
  BY <1>7 DEF vars, flagVars, PathInv, Alone, CopyCurrent, RowExists, Busy, Moving,
              ReadyRequirementsMet
<1> QED
  BY <1>1, <1>2, <1>3, <1>4, <1>5, <1>6, <1>7 DEF Next

\* As long as requests come one at a time, the status moves along TRANSITIONS only,
\* and becomes schedulable only with what its payment plan asks for.
THEOREM StatusFollowsTransitionsTheorem == Spec => StatusFollowsTransitions
<1>1. Init => PathInv
  <2> SUFFICES ASSUME Init PROVE PathInv
    OBVIOUS
  <2> QED
    BY InitIInv DEF Init, PathInv, Alone, CopyCurrent, RowExists, Busy, Moving, Idle
<1>2. PathInv /\ [Next]_vars => PathInv'
  BY NextIInv, PathStep DEF PathInv
<1>3. ASSUME PathInv, [Next]_vars, status # "none", status' # status, ~raced
      PROVE  /\ status' \in Successors[status]
             /\ status' = "ready_to_schedule" => ReadyRequirementsMet
  <2>1. PICK s \in Sessions : CreateCommit(s) \/ TransitionCommit(s) \/ CompleteCommit(s)
    BY <1>3 DEF Next, vars, CreateLoad, CreateDuplicate, PatchLoad, PatchCommit,
                TransitionLoad, CompleteFindsInvoice, CompleteRead, CompleteDuplicate, Abort
  <2>2. ~CreateCommit(s)
    BY <1>3 DEF CreateCommit, PathInv, RowExists
  <2>3. Moving(s) /\ status' = req[s].want
    BY <1>3, <2>1, <2>2 DEF TransitionCommit, CompleteCommit, Moving, PathInv, CopyCurrent
  <2> QED
    BY <1>3, <2>3 DEF PathInv, CopyCurrent
<1>4. PathInv /\ [Next]_vars =>
         [status # "none" /\ status' # status /\ ~raced
            => /\ status' \in Successors[status]
               /\ status' = "ready_to_schedule" => ReadyRequirementsMet]_vars
  BY <1>3
<1> QED
  BY <1>1, <1>2, <1>4, PTL DEF Spec, StatusFollowsTransitions

-----------------------------------------------------------------------------
(* The time clock                                                          *)

Punched == [at : {"idle"}] \cup [at : {"in"}, time : Nat]
           \cup [at : {"out"}, entry : Nat, time : Nat]

ClockTypeOK ==
    /\ entries \in Seq([in : Nat, out : Nat])
    /\ punch \in [Punches -> Punched]
    /\ now \in Nat \ {0}

\* A punch under way has a time gone by; a clock-out an entry begun before it.
PunchesSound ==
    \A r \in Punches :
        /\ punch[r].at \in {"in", "out"} => punch[r].time \in 1 .. now
        /\ punch[r].at = "out" => /\ punch[r].entry \in DOMAIN entries
                                  /\ entries[punch[r].entry].in <= punch[r].time

EntriesSound ==
    \A e \in DOMAIN entries : /\ entries[e].in <= now
                              /\ ~Open(e) => entries[e].in <= entries[e].out

OneOpen == \A e, f \in OpenEntries : e = f

ClockInv == ClockTypeOK /\ PunchesSound /\ EntriesSound /\ OneOpen

LEMMA OneOpenCounts == ASSUME OneOpen PROVE Cardinality(OpenEntries) <= 1
<1>1. CASE OpenEntries = {}
  BY <1>1, FS_EmptySet
<1>2. CASE OpenEntries # {}
  <2>1. PICK e \in OpenEntries : TRUE BY <1>2
  <2>2. OpenEntries = {e} BY <2>1 DEF OneOpen
  <2> QED BY <2>2, FS_Singleton
<1> QED BY <1>1, <1>2

\* A request that takes another state, sound itself, while the entries stay.
LEMMA PunchMoves ==
    ASSUME ClockInv, NEW r \in Punches, NEW x \in Punched,
           punch' = [punch EXCEPT ![r] = x], UNCHANGED <<entries, now>>,
           x.at \in {"in", "out"} => x.time \in 1 .. now,
           x.at = "out" => /\ x.entry \in DOMAIN entries
                           /\ entries[x.entry].in <= x.time
    PROVE  ClockInv'
<1>1. ClockTypeOK' BY DEF ClockInv, ClockTypeOK
<1>2. PunchesSound'
  <2> SUFFICES ASSUME NEW o \in Punches
               PROVE  /\ punch'[o].at \in {"in", "out"} => punch'[o].time \in 1 .. now
                      /\ punch'[o].at = "out" =>
                            /\ punch'[o].entry \in DOMAIN entries
                            /\ entries[punch'[o].entry].in <= punch'[o].time
    BY DEF PunchesSound
  <2>1. punch'[o] = IF o = r THEN x ELSE punch[o] BY DEF ClockInv, ClockTypeOK
  <2> QED BY <2>1 DEF ClockInv, PunchesSound
<1>3. EntriesSound' /\ OneOpen'
  BY DEF ClockInv, EntriesSound, OneOpen, OpenEntries, Open
<1> QED BY <1>1, <1>2, <1>3 DEF ClockInv

LEMMA ClockStep == ClockInv /\ [ClockNext]_clockVars => ClockInv'
<1> SUFFICES ASSUME ClockInv, [ClockNext]_clockVars PROVE ClockInv' OBVIOUS
<1>a. /\ entries \in Seq([in : Nat, out : Nat]) /\ punch \in [Punches -> Punched]
      /\ now \in Nat \ {0}
  BY DEF ClockInv, ClockTypeOK
<1>e. \A e \in DOMAIN entries : entries[e] \in [in : Nat, out : Nat]
  <2>1. DOMAIN entries = 1 .. Len(entries) BY <1>a
  <2> QED BY <1>a, <2>1, ElementOfSeq
<1>b. \A t \in Nat : [at |-> "in", time |-> t] \in Punched BY DEF Punched
<1>c. \A e \in Nat, t \in Nat : [at |-> "out", entry |-> e, time |-> t] \in Punched
  BY DEF Punched
<1>d. [at |-> "idle"] \in Punched BY DEF Punched
<1>1. ASSUME NEW r \in Punches, BeginClockIn(r) PROVE ClockInv'
  <2> DEFINE x == [at |-> "in", time |-> now]
  <2>1. x \in Punched /\ x.at = "in" /\ x.time \in 1 .. now BY <1>a, <1>b
  <2>2. punch' = [punch EXCEPT ![r] = x] /\ UNCHANGED <<entries, now>>
    BY <1>1 DEF BeginClockIn
  <2> HIDE DEF x
  <2> QED BY <2>1, <2>2, PunchMoves
<1>2. ASSUME NEW r \in Punches, BeginClockOut(r) PROVE ClockInv'
  <2>1. PICK e \in OpenEntries :
            punch' = [punch EXCEPT ![r] = [at |-> "out", entry |-> e, time |-> now]]
    BY <1>2 DEF BeginClockOut
  <2> DEFINE x == [at |-> "out", entry |-> e, time |-> now]
  <2>2. e \in DOMAIN entries /\ e \in Nat /\ entries[e].in <= now
    BY <1>a DEF OpenEntries, ClockInv, EntriesSound
  <2>3. x \in Punched BY <1>a, <1>c, <2>2
  <2>4. /\ x.at = "out" /\ x.time \in 1 .. now /\ x.entry \in DOMAIN entries
        /\ entries[x.entry].in <= x.time
    BY <1>a, <2>2
  <2>5. punch' = [punch EXCEPT ![r] = x] /\ UNCHANGED <<entries, now>>
    BY <1>2, <2>1 DEF BeginClockOut
  <2> HIDE DEF x
  <2> QED BY <2>3, <2>4, <2>5, PunchMoves
<1>3. ASSUME NEW r \in Punches, CommitClockIn(r) PROVE ClockInv'
  <2> DEFINE new == [in |-> punch[r].time, out |-> 0]
  <2>0. punch' = [punch EXCEPT ![r] = [at |-> "idle"]] /\ now' = now
    BY <1>3 DEF CommitClockIn
  <2>1. CASE entries' = entries
    <3> DEFINE x == [at |-> "idle"]
    <3>1. x \in Punched /\ x.at = "idle" BY <1>d
    <3>2. punch' = [punch EXCEPT ![r] = x] BY <2>0
    <3> HIDE DEF x
    <3> QED BY <2>0, <2>1, <3>1, <3>2, PunchMoves
  <2>2. CASE OpenEntries = {} /\ entries' = Append(entries, new)
    <3>1. punch[r].time \in 1 .. now BY <1>3 DEF CommitClockIn, ClockInv, PunchesSound
    <3>2. new \in [in : Nat, out : Nat] /\ new.in <= now /\ new.out = 0 BY <1>a, <3>1
    <3> HIDE DEF new
    <3>3. /\ entries' \in Seq([in : Nat, out : Nat])
          /\ DOMAIN entries' = 1 .. Len(entries) + 1
          /\ DOMAIN entries = 1 .. Len(entries)
          /\ \A e \in DOMAIN entries : entries'[e] = entries[e]
          /\ entries'[Len(entries) + 1] = new
      BY <1>a, <2>2, <3>2
    <3>4. ClockTypeOK' BY <1>a, <1>d, <2>0, <3>3 DEF ClockTypeOK
    <3>5. PunchesSound'
      <4> SUFFICES ASSUME NEW o \in Punches
                   PROVE  /\ punch'[o].at \in {"in", "out"} => punch'[o].time \in 1 .. now'
                          /\ punch'[o].at = "out" =>
                                /\ punch'[o].entry \in DOMAIN entries'
                                /\ entries'[punch'[o].entry].in <= punch'[o].time
        BY DEF PunchesSound
      <4>1. CASE o = r
        <5>1. punch'[o].at = "idle" BY <1>a, <2>0, <4>1
        <5> QED BY <5>1
      <4>2. CASE o # r
        <5>1. punch'[o] = punch[o] BY <1>a, <2>0, <4>2
        <5> QED BY <5>1, <2>0, <3>3 DEF ClockInv, PunchesSound
      <4> QED BY <4>1, <4>2
    <3>6. EntriesSound'
      <4> SUFFICES ASSUME NEW e \in DOMAIN entries'
                   PROVE  /\ entries'[e].in <= now
                          /\ entries'[e].out # 0 => entries'[e].in <= entries'[e].out
        BY <2>0 DEF EntriesSound, Open
      <4>1. CASE e \in DOMAIN entries
        BY <3>3, <4>1 DEF ClockInv, EntriesSound, Open
      <4>2. CASE e = Len(entries) + 1
        BY <3>2, <3>3, <4>2
      <4> QED BY <1>a, <3>3, <4>1, <4>2
    <3>7. OneOpen'
      <4>1. \A e \in DOMAIN entries : entries'[e].out # 0
        <5> TAKE e \in DOMAIN entries
        <5>1. entries[e].out # 0 BY <2>2 DEF OpenEntries, Open
        <5> QED BY <5>1, <3>3
      <4>2. \A e \in OpenEntries' : e = Len(entries) + 1
        <5> TAKE e \in OpenEntries'
        <5>1. e \in DOMAIN entries' /\ entries'[e].out = 0 BY DEF OpenEntries, Open
        <5> QED BY <1>a, <3>3, <4>1, <5>1
      <4> QED BY <4>2 DEF OneOpen
    <3> QED BY <3>4, <3>5, <3>6, <3>7 DEF ClockInv
  <2> QED BY <1>3, <2>1, <2>2 DEF CommitClockIn
<1>4. ASSUME NEW r \in Punches, CommitClockOut(r) PROVE ClockInv'
  <2> DEFINE k == punch[r].entry
             t == punch[r].time
  <2>1. /\ punch[r].at = "out" /\ k \in DOMAIN entries /\ t \in 1 .. now
        /\ entries[k].in <= t
    BY <1>4 DEF CommitClockOut, ClockInv, PunchesSound
  <2>2. /\ entries' = [entries EXCEPT ![k].out = t] /\ now' = now
        /\ punch' = [punch EXCEPT ![r] = [at |-> "idle"]]
    BY <1>4 DEF CommitClockOut
  <2> HIDE DEF k, t
  <2>3. [entries[k] EXCEPT !.out = t] \in [in : Nat, out : Nat]
    <3>1. entries[k] \in [in : Nat, out : Nat] BY <1>e, <2>1
    <3> QED BY <2>1, <3>1
  <2>4. /\ entries' \in Seq([in : Nat, out : Nat]) /\ DOMAIN entries' = DOMAIN entries
        /\ \A e \in DOMAIN entries : entries'[e].in = entries[e].in
        /\ \A e \in DOMAIN entries \ {k} : entries'[e] = entries[e]
        /\ entries'[k].out = t
    BY <1>a, <2>1, <2>2, <2>3
  <2>5. ClockTypeOK' BY <1>a, <1>d, <2>2, <2>4 DEF ClockTypeOK
  <2>6. PunchesSound'
    <3> SUFFICES ASSUME NEW o \in Punches
                 PROVE  /\ punch'[o].at \in {"in", "out"} => punch'[o].time \in 1 .. now'
                        /\ punch'[o].at = "out" =>
                              /\ punch'[o].entry \in DOMAIN entries'
                              /\ entries'[punch'[o].entry].in <= punch'[o].time
      BY DEF PunchesSound
    <3>1. CASE o = r
      <4>1. punch'[o].at = "idle" BY <1>a, <2>2, <3>1
      <4> QED BY <4>1
    <3>2. CASE o # r
      <4>1. punch'[o] = punch[o] BY <1>a, <2>2, <3>2
      <4> QED BY <4>1, <2>2, <2>4 DEF ClockInv, PunchesSound
    <3> QED BY <3>1, <3>2
  <2>7. EntriesSound'
    BY <1>a, <2>1, <2>2, <2>4 DEF ClockInv, EntriesSound, Open
  <2>8. OneOpen'
    <3>1. OpenEntries' \subseteq OpenEntries
      <4> SUFFICES ASSUME NEW e \in OpenEntries' PROVE e \in OpenEntries OBVIOUS
      <4>1. e \in DOMAIN entries' /\ entries'[e].out = 0 BY DEF OpenEntries, Open
      <4>2. e # k BY <1>a, <2>1, <2>4, <4>1
      <4> QED BY <2>4, <4>1, <4>2 DEF OpenEntries, Open
    <3> QED BY <3>1 DEF ClockInv, OneOpen
  <2> QED BY <2>5, <2>6, <2>7, <2>8 DEF ClockInv
<1>5. CASE Archive \/ UNCHANGED clockVars
  BY <1>5 DEF Archive, clockVars, ClockInv, ClockTypeOK, PunchesSound, EntriesSound, OneOpen,
              OpenEntries, Open
<1>6. CASE Tick
  <2>1. now' = now + 1 /\ UNCHANGED <<entries, punch>> BY <1>6 DEF Tick
  <2>2. ClockTypeOK' BY <1>a, <2>1 DEF ClockTypeOK
  <2>3. PunchesSound'
    <3>1. 1 .. now \subseteq 1 .. now + 1 BY <1>a
    <3> QED BY <2>1, <3>1 DEF ClockInv, PunchesSound
  <2>4. EntriesSound'
    <3> SUFFICES ASSUME NEW e \in DOMAIN entries
                 PROVE  /\ entries[e].in <= now + 1
                        /\ entries[e].out # 0 => entries[e].in <= entries[e].out
      BY <2>1 DEF EntriesSound, Open
    <3>1. entries[e].in \in Nat BY <1>e
    <3>2. entries[e].in <= now /\ (entries[e].out # 0 => entries[e].in <= entries[e].out)
      BY DEF ClockInv, EntriesSound, Open
    <3> QED BY <1>a, <3>1, <3>2
  <2>5. OneOpen' BY <2>1 DEF ClockInv, OneOpen, OpenEntries, Open
  <2> QED BY <2>2, <2>3, <2>4, <2>5 DEF ClockInv
<1> QED BY <1>1, <1>2, <1>3, <1>4, <1>5, <1>6 DEF ClockNext

\* Whatever clock-ins, clock-outs and the archiving race, one entry is open at most
\* and none ends before it began.
THEOREM OneShiftOpenTheorem == ClockSpec => []OneShiftOpen
<1>1. ClockInit => ClockInv
  <2> SUFFICES ASSUME ClockInit PROVE ClockInv OBVIOUS
  <2>1. ClockTypeOK BY DEF ClockInit, ClockTypeOK, Punched
  <2>2. PunchesSound BY DEF ClockInit, PunchesSound
  <2>3. DOMAIN entries = {} BY DEF ClockInit
  <2> QED BY <2>1, <2>2, <2>3 DEF ClockInv, EntriesSound, OneOpen, OpenEntries
<1>2. ClockInv => OneShiftOpen
  BY OneOpenCounts DEF ClockInv, OneShiftOpen, EntriesSound
<1> QED BY <1>1, <1>2, ClockStep, PTL DEF ClockSpec

-----------------------------------------------------------------------------
(* Jobs: what a finding becomes                                            *)

CompileStages == {"compile_price", "compile_commit"}
ReleaseStages == {"release_number", "release_commit"}

\* What a compile can have computed and not refused.
Lines == {lines \in {CompiledLines(request, cents) : request \in CompileRequests, cents \in Prices} :
             Priced(lines)}

JobDoings ==
    [pc : {"idle", "archive_finding"}]
    \cup [pc : {"update_finding"}, new : Findings, seen : Findings]
    \cup [pc : {"compile_price"}, request : CompileRequests, source : Findings]
    \cup [pc : {"compile_commit"}, source : Findings, lines : Lines, existing : Nat]
    \cup [pc : {"release_number"}, comp : Nat]
    \cup [pc : {"release_commit"}, comp : Nat, number : Nat]
    \cup [pc : {"estimate_commit"}, number : Nat]
    \cup [pc : {"propose_commit"}, source : Findings]

Compilations ==
    [status : {"draft", "superseded"}, revision : Nat, source : Findings, lines : Lines,
     supersededBy : Nat, estimate : Nat,
     events : Seq({"compiled", "recompiled", "released", "superseded"})]

Estimates ==
    [number : Nat, source : Nat, total : Int, confidence : {"high", "medium", "low"},
     warned : BOOLEAN]

\* The columns and the loaded copies keep their types.
JobTypeOK ==
    /\ finding \in Findings
    /\ isArchived \in BOOLEAN
    /\ findingEvents \in Seq({"created", "updated", "archived"})
    /\ price \in Prices
    /\ compilations \in Seq(Compilations)
    /\ estimates \in Seq(Estimates)
    /\ proposals \in Seq([status : {"proposed", "accepted", "dismissed"},
                          payload : {"inputs"}, source : Findings])
    /\ job \in [JobSessions -> JobDoings]
    /\ edits \in Nat

\* What a request relies on at its commit.  A compile: the finding is what it read, the
\* draft is the last revision, and what it is about to insert differs from it.  A
\* release: its revision is a draft without an estimate.  A number is one more than a
\* count that was true once.
JobSound(d) ==
    /\ d.pc \in CompileStages => d.source = finding /\ ~isArchived
    /\ d.pc = "compile_commit" =>
          /\ d.existing = Len(compilations)
          /\ d.existing # 0 => ~SameContent(compilations[d.existing], d.source, d.lines)
    /\ d.pc \in ReleaseStages => d.comp \in DOMAIN compilations /\ MayRelease(d.comp)
    /\ d.pc \in {"release_commit", "estimate_commit"} => d.number \in 1 .. Len(estimates) + 1

JobsSound == \A s \in JobSessions : JobSound(job[s])

\* One compile holds the finding, one release a revision.
JobsExclude ==
    \A s, t \in JobSessions : s # t =>
        /\ job[s].pc \in CompileStages => job[t].pc \notin CompileStages
        /\ job[s].pc \in ReleaseStages /\ job[t].pc \in ReleaseStages => job[s].comp # job[t].comp

\* The revision that an estimate was made from exists.
SourcesExist == \A e \in DOMAIN estimates : estimates[e].source \in 0 .. Len(compilations)

JobInv ==
    JobTypeOK /\ JobsSound /\ JobsExclude /\ SourcesExist /\ RevisionHistory /\ ReleasedEstimates

-----------------------------------------------------------------------------
(* What a compiled job adds up to                                          *)

LEMMA SumOfSeries ==
    ASSUME NEW f, NEW n \in Nat, DOMAIN f = 1 .. n, \A k \in 1 .. n : f[k] \in Nat
    PROVE  /\ SumFunction(f) \in Nat
           /\ \A k \in 1 .. n : SumFunction(f) >= f[k]
<1>1. IsFiniteSet(1 .. n) BY FS_Interval
<1>2. SumFunction(f) = SumOn(f, 1 .. n) BY SumOnIs DEF SumFunction
<1> QED BY <1>1, <1>2, SumOfNaturals

LEMMA QuotientIsNumber ==
    ASSUME NEW amount \in Nat, NEW unit \in Nat \ {0}
    PROVE  Quotient(amount, unit) \in Nat
<1>1. ASSUME NEW a \in Nat, NEW b \in Nat \ {0} PROVE a \div b \in Nat
  BY <1>1
<1> QED BY <1>1 DEF Quotient

\* The amounts of a compiled job are naturals, whatever is asked for.
LEMMA CompiledAmounts ==
    ASSUME NEW q \in JobRequests, NEW cents \in Nat
    PROVE  LET lines == CompiledLines(q, cents)
           IN  /\ DOMAIN lines.labor = 1 .. Len(q.services) /\ Len(q.services) \in Nat \ {0}
               /\ \A k \in DOMAIN lines.labor :
                     lines.labor[k] = [hours |-> q.services[k].hours, rate |-> q.rate,
                                       total |-> LaborTotal(q.services[k].hours, q.rate)]
               /\ \A k \in DOMAIN lines.labor : /\ lines.labor[k].total \in Nat
                                                /\ lines.laborTotal >= lines.labor[k].total
               /\ lines.laborTotal = SumLabor(lines.labor) /\ lines.laborTotal \in Nat
               /\ lines.hours = SumHours(lines.labor)
               /\ \/ lines.parts = <<>>
                  \/ \E n \in Nat \ {0} :
                        lines.parts = <<[quantity |-> n, unit |-> cents, extended |-> cents * n]>>
               /\ lines.partsTotal = SumParts(lines.parts) /\ lines.partsTotal \in Nat
               /\ lines.supplies \in Nat /\ lines.tax \in Nat
               /\ lines.total = lines.laborTotal + lines.partsTotal + lines.supplies + lines.tax
<1> DEFINE n == Len(q.services)
           labor == [k \in DOMAIN q.services |->
                        [hours |-> q.services[k].hours, rate |-> q.rate,
                         total |-> LaborTotal(q.services[k].hours, q.rate)]]
           quantity == SumQuantity(q.services)
           parts == IF quantity = 0 THEN <<>>
                    ELSE <<[quantity |-> quantity, unit |-> cents, extended |-> cents * quantity]>>
<1>1. /\ n \in Nat \ {0} /\ DOMAIN q.services = 1 .. n
      /\ \A k \in 1 .. n : q.services[k].hours \in Nat /\ q.services[k].quantity \in Nat
      /\ q.rate \in Nat /\ q.supplies \in Nat /\ q.tax \in Nat
  <2>1. /\ q.services \in Seq([hours : Nat, quantity : Nat]) /\ q.services # <<>>
        /\ q.rate \in Nat /\ q.supplies \in Nat /\ q.tax \in Nat
    BY DEF JobRequests
  <2> DEFINE services == q.services
  <2>2. n \in Nat \ {0} /\ DOMAIN q.services = 1 .. n
    <3>1. services \in Seq([hours : Nat, quantity : Nat]) /\ services # <<>> BY <2>1
    <3> HIDE DEF services
    <3>2. Len(services) \in Nat /\ DOMAIN services = 1 .. Len(services) BY <3>1, LenProperties
    <3>3. Len(services) # 0 BY <3>1, EmptySeq
    <3> QED BY <3>2, <3>3 DEF services
  <2>3. \A k \in 1 .. n : q.services[k] \in [hours : Nat, quantity : Nat] BY <2>1, <2>2, ElementOfSeq
  <2> QED BY <2>1, <2>2, <2>3
<1> HIDE DEF n
<1>2. \A k \in 1 .. n : LaborTotal(q.services[k].hours, q.rate) \in Nat
  <2> TAKE k \in 1 .. n
  <2>1. q.services[k].hours * q.rate \in Nat BY <1>1
  <2> QED BY <2>1, QuotientIsNumber DEF LaborTotal
<1>3. SumLabor(labor) \in Nat /\ \A k \in 1 .. n : SumLabor(labor) >= labor[k].total
  <2> DEFINE f == [k \in DOMAIN labor |-> labor[k].total]
  <2>1. DOMAIN f = 1 .. n /\ \A k \in 1 .. n : f[k] \in Nat /\ f[k] = labor[k].total
    BY <1>1, <1>2
  <2>2. SumLabor(labor) = SumFunction(f) BY DEF SumLabor
  <2> HIDE DEF f
  <2> QED BY <1>1, <2>1, <2>2, SumOfSeries
<1>4. quantity \in Nat
  <2> DEFINE f == [k \in DOMAIN q.services |-> q.services[k].quantity]
  <2>1. DOMAIN f = 1 .. n /\ \A k \in 1 .. n : f[k] \in Nat
    BY <1>1
  <2>2. quantity = SumFunction(f) BY DEF SumQuantity
  <2> HIDE DEF f, quantity
  <2> QED BY <1>1, <2>1, <2>2, SumOfSeries
<1> HIDE DEF quantity
<1>5. SumParts(parts) \in Nat
  <2> DEFINE f == [k \in DOMAIN parts |-> parts[k].extended]
             m == IF quantity = 0 THEN 0 ELSE 1
  <2>1. CASE quantity = 0
    <3>1. DOMAIN f = 1 .. 0 BY <2>1
    <3>2. SumParts(parts) = SumFunction(f) BY DEF SumParts
    <3> HIDE DEF f
    <3> QED BY <3>1, <3>2, SumOfSeries
  <2>2. CASE quantity # 0
    <3>1. cents * quantity \in Nat BY <1>4
    <3>2. DOMAIN f = 1 .. 1 /\ \A k \in 1 .. 1 : f[k] \in Nat BY <2>2, <3>1
    <3>3. SumParts(parts) = SumFunction(f) BY DEF SumParts
    <3> HIDE DEF f
    <3> QED BY <3>2, <3>3, SumOfSeries
  <2> QED BY <2>1, <2>2
<1>6. FeeTotal(SumLabor(labor), q.supplies) \in Nat /\ FeeTotal(SumParts(parts), q.tax) \in Nat
  <2>1. SumLabor(labor) * q.supplies \in Nat /\ SumParts(parts) * q.tax \in Nat
    <3>1. ASSUME NEW a \in Nat, NEW b \in Nat PROVE a * b \in Nat BY <3>1
    <3>2. SumLabor(labor) \in Nat /\ q.supplies \in Nat /\ SumParts(parts) \in Nat /\ q.tax \in Nat
      BY <1>1, <1>3, <1>5
    <3> HIDE DEF labor, parts
    <3> QED BY <3>1, <3>2
  <2>2. \A amount \in Nat : Quotient(amount, 10000) \in Nat BY QuotientIsNumber
  <2> HIDE DEF labor, parts
  <2>3. FeeTotal(SumLabor(labor), q.supplies) = Quotient(SumLabor(labor) * q.supplies, 10000)
        /\ FeeTotal(SumParts(parts), q.tax) = Quotient(SumParts(parts) * q.tax, 10000)
    BY DEF FeeTotal
  <2> QED BY <2>1, <2>2, <2>3
<1>7. CompiledLines(q, cents) =
        [labor |-> labor, parts |-> parts, hours |-> SumHours(labor),
         laborTotal |-> SumLabor(labor), partsTotal |-> SumParts(parts),
         supplies |-> FeeTotal(SumLabor(labor), q.supplies),
         tax |-> FeeTotal(SumParts(parts), q.tax),
         total |-> SumLabor(labor) + SumParts(parts) + FeeTotal(SumLabor(labor), q.supplies)
                   + FeeTotal(SumParts(parts), q.tax)]
  BY DEF CompiledLines, quantity
<1>8. DOMAIN labor = 1 .. n /\ \A k \in 1 .. n :
         labor[k] = [hours |-> q.services[k].hours, rate |-> q.rate,
                     total |-> LaborTotal(q.services[k].hours, q.rate)]
  BY <1>1
<1>9. \/ parts = <<>>
      \/ \E m \in Nat \ {0} :
            parts = <<[quantity |-> m, unit |-> cents, extended |-> cents * m]>>
  BY <1>4
<1>10. \A k \in 1 .. n : labor[k].total \in Nat
  BY <1>2, <1>8
<1> HIDE DEF labor, parts
<1> DEFINE lines == CompiledLines(q, cents)
<1>11. /\ lines.labor = labor /\ lines.parts = parts /\ lines.hours = SumHours(labor)
       /\ lines.laborTotal = SumLabor(labor) /\ lines.partsTotal = SumParts(parts)
       /\ lines.supplies = FeeTotal(SumLabor(labor), q.supplies)
       /\ lines.tax = FeeTotal(SumParts(parts), q.tax)
       /\ lines.total = SumLabor(labor) + SumParts(parts) + FeeTotal(SumLabor(labor), q.supplies)
                        + FeeTotal(SumParts(parts), q.tax)
  BY <1>7
<1> HIDE DEF lines
<1>12. /\ DOMAIN lines.labor = 1 .. n
       /\ \A k \in DOMAIN lines.labor :
             /\ lines.labor[k] = [hours |-> q.services[k].hours, rate |-> q.rate,
                                  total |-> LaborTotal(q.services[k].hours, q.rate)]
             /\ lines.labor[k].total \in Nat /\ lines.laborTotal >= lines.labor[k].total
  BY <1>3, <1>8, <1>10, <1>11
<1>13. /\ lines.laborTotal = SumLabor(lines.labor) /\ lines.laborTotal \in Nat
       /\ lines.hours = SumHours(lines.labor)
       /\ lines.partsTotal = SumParts(lines.parts) /\ lines.partsTotal \in Nat
       /\ lines.supplies \in Nat /\ lines.tax \in Nat
       /\ lines.total = lines.laborTotal + lines.partsTotal + lines.supplies + lines.tax
  BY <1>3, <1>5, <1>6, <1>11
<1>14. \/ lines.parts = <<>>
       \/ \E m \in Nat \ {0} :
             lines.parts = <<[quantity |-> m, unit |-> cents, extended |-> cents * m]>>
  BY <1>9, <1>11
<1> QED BY <1>1, <1>12, <1>13, <1>14 DEF lines, n

\* The map of the fees finds each fee, or 0 for one that is not there.
LEMMA FeesFound ==
    ASSUME NEW lines, lines.supplies \in Nat, lines.tax \in Nat
    PROVE  LET response == EstimateResponse(lines)
           IN  /\ FeeAmount(response, "shop_supplies") = lines.supplies
               /\ FeeAmount(response, "parts_tax") = lines.tax
               /\ FeeAmount(response, "mobile_service_fee") = 0
<1> DEFINE fees == {fee \in {[code |-> "shop_supplies", amount |-> lines.supplies],
                             [code |-> "parts_tax", amount |-> lines.tax]} : fee.amount > 0}
<1>1. EstimateResponse(lines).fees = fees
  BY DEF EstimateResponse
<1>2. \A fee \in fees : \/ fee.code = "shop_supplies" /\ fee.amount = lines.supplies
                        \/ fee.code = "parts_tax" /\ fee.amount = lines.tax
  OBVIOUS
<1>3. lines.supplies # 0 => \E fee \in fees : fee.code = "shop_supplies"
  <2>1. ASSUME lines.supplies # 0 PROVE [code |-> "shop_supplies", amount |-> lines.supplies] \in fees
    BY <2>1
  <2> HIDE DEF fees
  <2> QED BY <2>1
<1>4. lines.tax # 0 => \E fee \in fees : fee.code = "parts_tax"
  <2>1. ASSUME lines.tax # 0 PROVE [code |-> "parts_tax", amount |-> lines.tax] \in fees
    BY <2>1
  <2> HIDE DEF fees
  <2> QED BY <2>1
<1>5. \A fee \in fees : fee.amount # 0
  OBVIOUS
<1> HIDE DEF fees
<1>6. ASSUME NEW code, \E fee \in fees : fee.code = code
      PROVE  (CHOOSE fee \in fees : fee.code = code) \in fees
             /\ (CHOOSE fee \in fees : fee.code = code).code = code
  BY <1>6
<1>7. ASSUME ~ \E fee \in fees : fee.code = "shop_supplies" PROVE lines.supplies = 0
  BY <1>3, <1>7
<1>8. ASSUME ~ \E fee \in fees : fee.code = "parts_tax" PROVE lines.tax = 0
  BY <1>4, <1>8
<1>9. FeeAmount(EstimateResponse(lines), "shop_supplies") = lines.supplies
  BY <1>1, <1>2, <1>6, <1>7 DEF FeeAmount
<1>10. FeeAmount(EstimateResponse(lines), "parts_tax") = lines.tax
  BY <1>1, <1>2, <1>6, <1>8 DEF FeeAmount
<1>11. FeeAmount(EstimateResponse(lines), "mobile_service_fee") = 0
  BY <1>1, <1>2 DEF FeeAmount
<1> QED BY <1>9, <1>10, <1>11

\* Whatever the compiler does not refuse passes the check of every estimate.
LEMMA AcceptedJobAddsUp ==
    ASSUME NEW lines \in Lines
    PROVE  GeneratedEstimateValid(EstimateResponse(lines))
<1> DEFINE response == EstimateResponse(lines)
<1>1. PICK q \in JobRequests, cents \in Nat : lines = CompiledLines(q, cents) /\ Priced(lines)
  BY RequestsAssumption, PricesAssumption DEF Lines
<1>2. /\ DOMAIN lines.labor = 1 .. Len(q.services) /\ Len(q.services) \in Nat \ {0}
      /\ \A k \in DOMAIN lines.labor :
            /\ lines.labor[k] = [hours |-> q.services[k].hours, rate |-> q.rate,
                                 total |-> LaborTotal(q.services[k].hours, q.rate)]
            /\ lines.labor[k].total \in Nat /\ lines.laborTotal >= lines.labor[k].total
      /\ lines.laborTotal = SumLabor(lines.labor) /\ lines.laborTotal \in Nat
      /\ lines.hours = SumHours(lines.labor)
      /\ lines.partsTotal = SumParts(lines.parts) /\ lines.partsTotal \in Nat
      /\ lines.supplies \in Nat /\ lines.tax \in Nat
      /\ lines.total = lines.laborTotal + lines.partsTotal + lines.supplies + lines.tax
  BY <1>1, CompiledAmounts
<1>3. \/ lines.parts = <<>>
      \/ \E n \in Nat \ {0} :
            lines.parts = <<[quantity |-> n, unit |-> cents, extended |-> cents * n]>>
  BY <1>1, CompiledAmounts
<1>4. \A k \in DOMAIN lines.labor : lines.labor[k].total > 0
  BY <1>1 DEF Priced
<1>5. lines.total > 0
  BY <1>1 DEF Priced
<1>6. lines.laborTotal > 0 /\ lines.labor # <<>>
  <2>1. 1 \in DOMAIN lines.labor BY <1>2
  <2>2. lines.laborTotal >= lines.labor[1].total /\ lines.labor[1].total > 0
        /\ lines.labor[1].total \in Nat
    BY <1>2, <1>4, <2>1
  <2> QED BY <1>2, <2>1, <2>2
<1>7. /\ response.labor = lines.labor /\ response.parts = lines.parts
      /\ response.totals = [hours |-> lines.hours, labor |-> lines.laborTotal,
                            parts |-> lines.partsTotal, supplies |-> lines.supplies,
                            tax |-> lines.tax, mobile |-> 0, total |-> lines.total]
  BY DEF EstimateResponse
<1>8. /\ FeeAmount(response, "shop_supplies") = lines.supplies
      /\ FeeAmount(response, "parts_tax") = lines.tax
      /\ FeeAmount(response, "mobile_service_fee") = 0
  BY <1>2, FeesFound
<1>9. \A k \in DOMAIN lines.labor :
         /\ lines.labor[k].total = LaborTotal(lines.labor[k].hours, lines.labor[k].rate)
         /\ lines.labor[k].hours > 0 => lines.labor[k].total > 0
  <2> TAKE k \in DOMAIN lines.labor
  <2>1. lines.labor[k] = [hours |-> q.services[k].hours, rate |-> q.rate,
                          total |-> LaborTotal(q.services[k].hours, q.rate)]
    BY <1>2
  <2>2. /\ lines.labor[k].hours = q.services[k].hours /\ lines.labor[k].rate = q.rate
        /\ lines.labor[k].total = LaborTotal(q.services[k].hours, q.rate)
    BY <2>1
  <2> QED BY <1>4, <2>2
<1>10. \A k \in DOMAIN lines.parts :
          /\ lines.parts[k].quantity >= 1
          /\ lines.parts[k].extended = lines.parts[k].unit * lines.parts[k].quantity
  <2>1. CASE lines.parts = <<>>
    BY <2>1
  <2>2. ASSUME NEW n \in Nat \ {0},
               lines.parts = <<[quantity |-> n, unit |-> cents, extended |-> cents * n]>>
        PROVE  \A k \in DOMAIN lines.parts :
                  /\ lines.parts[k].quantity >= 1
                  /\ lines.parts[k].extended = lines.parts[k].unit * lines.parts[k].quantity
    <3>1. DOMAIN lines.parts = {1} /\ lines.parts[1].quantity = n /\ lines.parts[1].unit = cents
          /\ lines.parts[1].extended = cents * n
      BY <2>2
    <3> QED BY <3>1
  <2> QED BY <1>3, <2>1, <2>2
<1> HIDE DEF response
<1>11. response.totals.total = SumLabor(lines.labor) + SumParts(lines.parts)
          + FeeAmount(response, "shop_supplies") + FeeAmount(response, "mobile_service_fee")
          + FeeAmount(response, "parts_tax")
  BY <1>2, <1>7, <1>8
<1>12. GeneratedEstimateValid(response)
  BY <1>2, <1>5, <1>6, <1>7, <1>8, <1>9, <1>10, <1>11 DEF GeneratedEstimateValid
<1> QED BY <1>12 DEF response

-----------------------------------------------------------------------------
(* Steps that leave revisions and estimates as they are                    *)

\* The records that the actions put in place of a session's.
LEMMA JobRecords ==
    /\ JobIdle \in JobDoings
    /\ \A f, g \in Findings : [pc |-> "update_finding", new |-> f, seen |-> g] \in JobDoings
    /\ [pc |-> "archive_finding"] \in JobDoings
    /\ \A q \in CompileRequests, f \in Findings :
          [pc |-> "compile_price", request |-> q, source |-> f] \in JobDoings
    /\ \A f \in Findings, lines \in Lines, e \in Nat :
          [pc |-> "compile_commit", source |-> f, lines |-> lines, existing |-> e] \in JobDoings
    /\ \A c \in Nat : [pc |-> "release_number", comp |-> c] \in JobDoings
    /\ \A c, n \in Nat : [pc |-> "release_commit", comp |-> c, number |-> n] \in JobDoings
    /\ \A n \in Nat : [pc |-> "estimate_commit", number |-> n] \in JobDoings
    /\ \A f \in Findings : [pc |-> "propose_commit", source |-> f] \in JobDoings
BY DEF JobDoings, JobIdle

LEMMA JobFields ==
    ASSUME NEW d \in JobDoings
    PROVE  /\ d.pc = "update_finding" => d.new \in Findings /\ d.seen \in Findings
           /\ d.pc = "compile_price" => d.request \in CompileRequests
           /\ d.pc \in CompileStages \cup {"propose_commit"} => d.source \in Findings
           /\ d.pc = "compile_commit" => d.lines \in Lines /\ d.existing \in Nat
           /\ d.pc \in ReleaseStages => d.comp \in Nat
           /\ d.pc \in {"release_commit", "estimate_commit"} => d.number \in Nat
BY DEF JobDoings, CompileStages, ReleaseStages

LEMMA IdleSound == JobSound(JobIdle) /\ JobIdle.pc = "idle"
BY DEF JobSound, JobIdle, CompileStages, ReleaseStages

\* A session that takes another record keeps the locks apart.
LEMMA StillExcludes ==
    ASSUME JobTypeOK, JobsExclude, NEW s \in JobSessions, NEW d \in JobDoings,
           job' = [job EXCEPT ![s] = d],
           d.pc \in CompileStages => FindingFree \/ job[s].pc \in CompileStages,
           d.pc \in ReleaseStages =>
              RevisionFree(d.comp) \/ (job[s].pc \in ReleaseStages /\ job[s].comp = d.comp)
    PROVE  JobsExclude'
<1> SUFFICES ASSUME NEW t \in JobSessions, NEW u \in JobSessions, t # u
             PROVE  /\ job'[t].pc \in CompileStages => job'[u].pc \notin CompileStages
                    /\ job'[t].pc \in ReleaseStages /\ job'[u].pc \in ReleaseStages
                          => job'[t].comp # job'[u].comp
  BY DEF JobsExclude
<1>1. job'[t] = (IF t = s THEN d ELSE job[t]) /\ job'[u] = (IF u = s THEN d ELSE job[u])
  BY DEF JobTypeOK
<1>2. CASE t # s /\ u # s
  BY <1>1, <1>2 DEF JobsExclude
<1>3. ASSUME NEW o \in JobSessions, o # s
      PROVE  /\ d.pc \in CompileStages => job[o].pc \notin CompileStages
             /\ d.pc \in ReleaseStages /\ job[o].pc \in ReleaseStages => d.comp # job[o].comp
  <2>1. FindingFree => job[o].pc \notin CompileStages
    BY DEF FindingFree, CompileStages
  <2>2. \A c : RevisionFree(c) /\ job[o].pc \in ReleaseStages => job[o].comp # c
    BY DEF RevisionFree, ReleaseStages
  <2> QED BY <1>3, <2>1, <2>2 DEF JobsExclude
<1> QED BY <1>1, <1>2, <1>3

\* What a request relies on stays true while the rows stay.
LEMMA StillSound ==
    ASSUME NEW x, JobSound(x), UNCHANGED <<finding, isArchived, compilations, estimates>>
    PROVE  JobSound(x)'
BY DEF JobSound, MayRelease

LEMMA HistoryStays ==
    ASSUME RevisionHistory, ReleasedEstimates, SourcesExist, UNCHANGED <<compilations, estimates>>
    PROVE  RevisionHistory' /\ ReleasedEstimates' /\ SourcesExist'
BY DEF RevisionHistory, ReleasedEstimates, SourcesExist, RevisionChain, RevisionsDiffer,
       EventsTellLife, OneEstimatePerRevision, EstimateIsSnapshot, NumbersAreDense

LEMMA JobQuiet ==
    ASSUME JobInv, NEW s \in JobSessions, NEW d \in JobDoings, job' = [job EXCEPT ![s] = d],
           UNCHANGED <<finding, isArchived, compilations, estimates>>,
           JobSound(d),
           d.pc \in CompileStages => FindingFree \/ job[s].pc \in CompileStages,
           d.pc \in ReleaseStages =>
              RevisionFree(d.comp) \/ (job[s].pc \in ReleaseStages /\ job[s].comp = d.comp),
           findingEvents' = findingEvents, price' = price, edits' \in Nat,
           proposals' \in Seq([status : {"proposed", "accepted", "dismissed"},
                               payload : {"inputs"}, source : Findings])
    PROVE  JobInv'
<1>1. JobTypeOK'
  BY DEF JobInv, JobTypeOK
<1>2. JobsSound'
  <2> SUFFICES ASSUME NEW o \in JobSessions PROVE JobSound(job[o])'
    BY DEF JobsSound
  <2>1. PICK x : x = job'[o] OBVIOUS
  <2>2. x = IF o = s THEN d ELSE job[o] BY <2>1 DEF JobInv, JobTypeOK
  <2>3. JobSound(x) BY <2>2 DEF JobInv, JobsSound
  <2>4. JobSound(x)' BY <2>3, StillSound
  <2> QED BY <2>1, <2>4 DEF JobSound
<1>3. JobsExclude'
  BY StillExcludes DEF JobInv
<1> QED BY <1>1, <1>2, <1>3, HistoryStays DEF JobInv

\* A request that ends without a commit.
LEMMA JobEnds ==
    ASSUME JobInv, NEW s \in JobSessions, JobFinish(s),
           UNCHANGED <<findingVars, price, compilations, estimates, proposals, edits>>
    PROVE  JobInv'
BY JobQuiet, JobRecords, IdleSound DEF JobFinish, JobInv, JobTypeOK, findingVars, CompileStages,
       ReleaseStages

LEMMA JobRowFacts ==
    ASSUME JobTypeOK
    PROVE  /\ Len(compilations) \in Nat /\ DOMAIN compilations = 1 .. Len(compilations)
           /\ \A c \in DOMAIN compilations : compilations[c] \in Compilations
           /\ Len(estimates) \in Nat /\ DOMAIN estimates = 1 .. Len(estimates)
           /\ \A e \in DOMAIN estimates : estimates[e] \in Estimates
<1>1. compilations \in Seq(Compilations) /\ estimates \in Seq(Estimates)
  BY DEF JobTypeOK
<1> QED BY <1>1, LenProperties, ElementOfSeq

\* The draft, if there is any revision, is the last one.
LEMMA DraftIsLast ==
    ASSUME JobTypeOK, RevisionChain
    PROVE  Drafts = IF Len(compilations) = 0 THEN {} ELSE {Len(compilations)}
<1>1. \A c \in DOMAIN compilations : compilations[c].status = "draft" <=> c = Len(compilations)
  BY DEF RevisionChain
<1> QED BY <1>1, JobRowFacts DEF Drafts

\* The steps that write no revision, no estimate and no evidence.
LEMMA QuietJobSteps ==
    ASSUME JobInv, NEW s \in JobSessions,
           \/ UpdateFindingLoad(s) \/ ArchiveFindingLoad(s) \/ ProposeLoad(s) \/ ProposeCommit(s)
           \/ CompileLock(s) \/ CompilePrice(s) \/ ReleaseLock(s) \/ ReleaseNumber(s)
           \/ NumberTaken(s) \/ EstimateNumber(s) \/ JobAbort(s)
    PROVE  JobInv'
<1>a. JobTypeOK /\ JobsSound /\ job \in [JobSessions -> JobDoings] /\ RevisionChain
  BY DEF JobInv, JobTypeOK, RevisionHistory
<1>b. /\ finding \in Findings /\ price \in Prices /\ edits \in Nat
      /\ proposals \in Seq([status : {"proposed", "accepted", "dismissed"},
                            payload : {"inputs"}, source : Findings])
  BY <1>a DEF JobTypeOK
<1>c. job[s] \in JobDoings /\ JobSound(job[s])
  BY <1>a DEF JobsSound
<1>1. CASE UpdateFindingLoad(s)
  <2>1. PICK new \in Evidence :
           /\ Edit /\ Go(s, [pc |-> "update_finding", new |-> new, seen |-> finding])
           /\ UNCHANGED <<findingVars, price, compilations, estimates, proposals>>
    BY <1>1 DEF UpdateFindingLoad
  <2> DEFINE d == [pc |-> "update_finding", new |-> new, seen |-> finding]
  <2>2. d \in JobDoings /\ d.pc = "update_finding" BY <1>b, JobRecords, EvidenceAssumption
  <2>3. job' = [job EXCEPT ![s] = d] BY <2>1 DEF Go
  <2> HIDE DEF d
  <2>4. JobSound(d) BY <2>2 DEF JobSound, CompileStages, ReleaseStages
  <2>5. edits' \in Nat BY <1>b, <2>1 DEF Edit
  <2> QED BY <1>b, <2>1, <2>2, <2>3, <2>4, <2>5, JobQuiet DEF findingVars, CompileStages, ReleaseStages
<1>2. CASE ArchiveFindingLoad(s)
  <2> DEFINE d == [pc |-> "archive_finding"]
  <2>2. d \in JobDoings /\ d.pc = "archive_finding" BY JobRecords
  <2>3. job' = [job EXCEPT ![s] = d] BY <1>2 DEF Go, ArchiveFindingLoad
  <2> HIDE DEF d
  <2>4. JobSound(d) BY <2>2 DEF JobSound, CompileStages, ReleaseStages
  <2>5. edits' \in Nat BY <1>2, <1>b DEF ArchiveFindingLoad, Edit
  <2> QED BY <1>2, <1>b, <2>2, <2>3, <2>4, <2>5, JobQuiet
          DEF ArchiveFindingLoad, findingVars, CompileStages, ReleaseStages
<1>3. CASE ProposeLoad(s)
  <2> DEFINE d == [pc |-> "propose_commit", source |-> finding]
  <2>2. d \in JobDoings /\ d.pc = "propose_commit" BY <1>b, JobRecords
  <2>3. job' = [job EXCEPT ![s] = d] BY <1>3 DEF Go, ProposeLoad
  <2> HIDE DEF d
  <2>4. JobSound(d) BY <2>2 DEF JobSound, CompileStages, ReleaseStages
  <2> QED BY <1>3, <1>b, <2>2, <2>3, <2>4, JobQuiet
          DEF ProposeLoad, findingVars, CompileStages, ReleaseStages
<1>4. CASE ProposeCommit(s)
  <2>1. PICK answer \in {"inputs", "malformed"} :
           /\ job[s].pc = "propose_commit"
           /\ proposals' = IF ValidProposal(answer)
                           THEN Append(proposals, [status |-> "proposed", payload |-> answer,
                                                   source |-> job[s].source])
                           ELSE proposals
           /\ JobFinish(s)
           /\ UNCHANGED <<findingVars, price, compilations, estimates, edits>>
    BY <1>4 DEF ProposeCommit
  <2>2. job[s].source \in Findings BY <1>c, <2>1, JobFields
  <2>3. proposals' \in Seq([status : {"proposed", "accepted", "dismissed"},
                            payload : {"inputs"}, source : Findings])
    <3>1. ValidProposal(answer) => answer = "inputs" BY DEF ValidProposal
    <3> QED BY <1>b, <2>1, <2>2, <3>1, AppendProperties
  <2> QED BY <1>b, <2>1, <2>3, JobQuiet, JobRecords, IdleSound
          DEF JobFinish, findingVars, CompileStages, ReleaseStages
<1>5. CASE CompileLock(s)
  <2>1. PICK q \in CompileRequests :
           /\ FindingFree /\ ~isArchived /\ finding.conclusion # "none"
           /\ Go(s, [pc |-> "compile_price", request |-> q, source |-> finding])
           /\ UNCHANGED <<findingVars, price, compilations, estimates, proposals, edits>>
    BY <1>5 DEF CompileLock
  <2> DEFINE d == [pc |-> "compile_price", request |-> q, source |-> finding]
  <2>2. d \in JobDoings /\ d.pc = "compile_price" /\ d.source = finding BY <1>b, JobRecords
  <2>3. job' = [job EXCEPT ![s] = d] BY <2>1 DEF Go
  <2> HIDE DEF d
  <2>4. JobSound(d) BY <2>1, <2>2 DEF JobSound, CompileStages, ReleaseStages
  <2> QED BY <1>b, <2>1, <2>2, <2>3, <2>4, JobQuiet DEF findingVars, CompileStages, ReleaseStages
<1>6. CASE CompilePrice(s)
  <2> DEFINE lines == CompiledLines(job[s].request, price)
             existing == IF Drafts = {} THEN 0 ELSE CHOOSE c \in Drafts : TRUE
             d == [pc |-> "compile_commit", source |-> job[s].source, lines |-> lines,
                   existing |-> existing]
  <2>1. /\ job[s].pc = "compile_price"
        /\ \/ JobFinish(s)
           \/ /\ Priced(lines)
              /\ existing # 0 => ~SameContent(compilations[existing], job[s].source, lines)
              /\ job' = [job EXCEPT ![s] = d]
        /\ UNCHANGED <<findingVars, price, compilations, estimates, proposals, edits>>
    BY <1>6 DEF CompilePrice, Continue
  <2>2. CASE JobFinish(s)
    BY <2>1, <2>2, JobEnds
  <2>3. CASE /\ Priced(lines)
             /\ existing # 0 => ~SameContent(compilations[existing], job[s].source, lines)
             /\ job' = [job EXCEPT ![s] = d]
    <3>1. existing = Len(compilations) BY <1>a, DraftIsLast, JobRowFacts
    <3>2. lines \in Lines BY <1>b, <1>c, <2>1, <2>3, JobFields DEF Lines
    <3>3. job[s].source \in Findings /\ job[s].source = finding /\ ~isArchived
      BY <1>c, <2>1, JobFields DEF JobSound, CompileStages
    <3> HIDE DEF lines, existing
    <3>4. d \in JobDoings BY <1>a, <3>1, <3>2, <3>3, JobRowFacts, JobRecords
    <3>5. /\ d.pc = "compile_commit" /\ d.source = finding /\ d.lines = lines /\ d.existing = existing
          /\ job' = [job EXCEPT ![s] = d]
      BY <2>3, <3>3
    <3> HIDE DEF d
    <3>6. JobSound(d)
      BY <2>3, <3>1, <3>3, <3>5 DEF JobSound, CompileStages, ReleaseStages
    <3> QED BY <1>b, <2>1, <3>4, <3>5, <3>6, JobQuiet DEF findingVars, CompileStages, ReleaseStages
  <2> HIDE DEF lines, existing, d
  <2> QED BY <2>1, <2>2, <2>3
<1>7. CASE ReleaseLock(s)
  <2>1. PICK c \in DOMAIN compilations :
           /\ RevisionFree(c) /\ MayRelease(c)
           /\ Go(s, [pc |-> "release_number", comp |-> c])
           /\ UNCHANGED <<findingVars, price, compilations, estimates, proposals, edits>>
    BY <1>7 DEF ReleaseLock
  <2> DEFINE d == [pc |-> "release_number", comp |-> c]
  <2>2. c \in Nat BY <1>a, JobRowFacts
  <2>3. d \in JobDoings /\ d.pc = "release_number" /\ d.comp = c BY <2>2, JobRecords
  <2>4. job' = [job EXCEPT ![s] = d] BY <2>1 DEF Go
  <2> HIDE DEF d
  <2>5. JobSound(d) BY <2>1, <2>3 DEF JobSound, CompileStages, ReleaseStages
  <2> QED BY <1>b, <2>1, <2>3, <2>4, <2>5, JobQuiet DEF findingVars, CompileStages, ReleaseStages
<1>8. CASE ReleaseNumber(s)
  <2> DEFINE d == [pc |-> "release_commit", comp |-> job[s].comp, number |-> Len(estimates) + 1]
  <2>1. /\ job[s].pc = "release_number"
        /\ JobFinish(s) \/ job' = [job EXCEPT ![s] = d]
        /\ UNCHANGED <<findingVars, price, compilations, estimates, proposals, edits>>
    BY <1>8 DEF ReleaseNumber, Continue
  <2>2. CASE JobFinish(s)
    BY <2>1, <2>2, JobEnds
  <2>3. CASE job' = [job EXCEPT ![s] = d]
    <3>1. job[s].comp \in Nat /\ job[s].comp \in DOMAIN compilations /\ MayRelease(job[s].comp)
      BY <1>c, <2>1, JobFields DEF JobSound, ReleaseStages
    <3>2. Len(estimates) + 1 \in Nat /\ Len(estimates) + 1 \in 1 .. Len(estimates) + 1
      BY <1>a, JobRowFacts
    <3>3. d \in JobDoings BY <3>1, <3>2, JobRecords
    <3>4. /\ d.pc = "release_commit" /\ d.comp = job[s].comp /\ d.number = Len(estimates) + 1
          /\ job' = [job EXCEPT ![s] = d]
      BY <2>3
    <3> HIDE DEF d
    <3>5. JobSound(d)
      BY <3>1, <3>2, <3>4 DEF JobSound, CompileStages, ReleaseStages
    <3> QED BY <1>b, <2>1, <3>3, <3>4, <3>5, JobQuiet DEF findingVars, CompileStages, ReleaseStages
  <2> HIDE DEF d
  <2> QED BY <2>1, <2>2, <2>3
<1>9. CASE NumberTaken(s)
  BY <1>9, JobEnds DEF NumberTaken
<1>10. CASE EstimateNumber(s)
  <2> DEFINE d == [pc |-> "estimate_commit", number |-> Len(estimates) + 1]
  <2>1. Len(estimates) + 1 \in Nat /\ Len(estimates) + 1 \in 1 .. Len(estimates) + 1
    BY <1>a, JobRowFacts
  <2>2. d \in JobDoings BY <2>1, JobRecords
  <2>3. d.pc = "estimate_commit" /\ d.number = Len(estimates) + 1
    OBVIOUS
  <2>4. job' = [job EXCEPT ![s] = d] BY <1>10 DEF Go, EstimateNumber
  <2> HIDE DEF d
  <2>5. JobSound(d)
    BY <2>1, <2>3 DEF JobSound, CompileStages, ReleaseStages
  <2> QED BY <1>10, <1>b, <2>2, <2>3, <2>4, <2>5, JobQuiet
          DEF EstimateNumber, findingVars, CompileStages, ReleaseStages
<1>11. CASE JobAbort(s)
  BY <1>11, JobEnds DEF JobAbort
<1> QED BY <1>1, <1>2, <1>3, <1>4, <1>5, <1>6, <1>7, <1>8, <1>9, <1>10, <1>11

-----------------------------------------------------------------------------
(* Steps that write                                                        *)

\* Evidence is written only while no compile holds it.
LEMMA FindingWritten ==
    ASSUME JobInv, NEW s \in JobSessions, FindingFree, JobFinish(s),
           finding' \in Findings, isArchived' \in BOOLEAN,
           findingEvents' \in Seq({"created", "updated", "archived"}),
           UNCHANGED <<price, compilations, estimates, proposals, edits>>
    PROVE  JobInv'
<1>1. JobIdle \in JobDoings /\ job' = [job EXCEPT ![s] = JobIdle]
  BY JobRecords DEF JobFinish
<1>2. JobTypeOK'
  BY <1>1 DEF JobInv, JobTypeOK
<1>3. \A o \in JobSessions : job'[o] = IF o = s THEN JobIdle ELSE job[o]
  BY <1>1 DEF JobInv, JobTypeOK
<1>4. JobsSound'
  <2> SUFFICES ASSUME NEW o \in JobSessions PROVE JobSound(job[o])'
    BY DEF JobsSound
  <2>1. PICK x : x = job'[o] OBVIOUS
  <2>2. x.pc \notin CompileStages
    BY <1>3, <2>1 DEF FindingFree, CompileStages, JobIdle
  <2>3. JobSound(x) BY <1>3, <2>1, IdleSound DEF JobInv, JobsSound
  <2>4. JobSound(x)' BY <2>2, <2>3 DEF JobSound, CompileStages, MayRelease
  <2> QED BY <2>1, <2>4 DEF JobSound
<1>5. JobsExclude'
  BY <1>1, StillExcludes, IdleSound DEF JobInv, CompileStages, ReleaseStages
<1> QED BY <1>2, <1>4, <1>5, HistoryStays DEF JobInv

\* Steps of nobody's session.
LEMMA AsidesStep ==
    ASSUME JobInv, ChangePrice \/ DisposeProposal
    PROVE  JobInv'
<1>1. /\ UNCHANGED <<finding, isArchived, findingEvents, compilations, estimates, job>>
      /\ price' \in Prices /\ edits' \in Nat
      /\ proposals' \in Seq([status : {"proposed", "accepted", "dismissed"},
                             payload : {"inputs"}, source : Findings])
  <2> DEFINE Proposals == [status : {"proposed", "accepted", "dismissed"},
                           payload : {"inputs"}, source : Findings]
  <2>1. proposals \in Seq(Proposals) /\ price \in Prices /\ edits \in Nat
    BY DEF JobInv, JobTypeOK
  <2>2. CASE ChangePrice
    BY <2>1, <2>2 DEF ChangePrice, Edit, findingVars
  <2>3. ASSUME NEW p \in DOMAIN proposals, NEW status_ \in {"accepted", "dismissed"},
               proposals' = [proposals EXCEPT ![p].status = status_]
        PROVE  proposals' \in Seq(Proposals)
    <3>1. p \in 1 .. Len(proposals) BY <2>1, <2>3, LenProperties
    <3>2. proposals[p] \in Proposals BY <2>1, <3>1, ElementOfSeq
    <3>3. [proposals[p] EXCEPT !.status = status_] \in Proposals BY <3>2
    <3>4. proposals' = [proposals EXCEPT ![p] = [proposals[p] EXCEPT !.status = status_]]
      BY <2>3
    <3> HIDE DEF Proposals
    <3> QED BY <2>1, <3>1, <3>3, <3>4, ExceptSeq
  <2>4. CASE DisposeProposal
    <3>1. PICK p \in DOMAIN proposals, status_ \in {"accepted", "dismissed"} :
             /\ proposals' = [proposals EXCEPT ![p].status = status_]
             /\ UNCHANGED <<findingVars, price, compilations, estimates, job, edits>>
      BY <2>4 DEF DisposeProposal
    <3>2. proposals' \in Seq(Proposals) BY <2>3, <3>1
    <3> QED BY <2>1, <3>1, <3>2 DEF findingVars
  <2> QED BY <2>2, <2>4
<1>2. JobTypeOK'
  BY <1>1 DEF JobInv, JobTypeOK
<1>3. JobsSound'
  <2> SUFFICES ASSUME NEW o \in JobSessions PROVE JobSound(job[o])'
    BY DEF JobsSound
  <2>1. PICK x : x = job[o] OBVIOUS
  <2>2. JobSound(x) BY <2>1 DEF JobInv, JobsSound
  <2>3. JobSound(x)' BY <1>1, <2>2, StillSound
  <2> QED BY <1>1, <2>1, <2>3 DEF JobSound
<1>4. JobsExclude'
  BY <1>1 DEF JobInv, JobsExclude
<1> QED BY <1>1, <1>2, <1>3, <1>4, HistoryStays DEF JobInv

\* A number that is still free is the next one.
LEMMA FreeIsNext ==
    ASSUME JobInv, NEW s \in JobSessions, job[s].pc \in {"release_commit", "estimate_commit"},
           NumberFree(job[s].number)
    PROVE  job[s].number = Len(estimates) + 1
<1>1. job[s].number \in 1 .. Len(estimates) + 1
  BY DEF JobInv, JobsSound, JobSound
<1>2. Len(estimates) \in Nat /\ DOMAIN estimates = 1 .. Len(estimates)
  BY JobRowFacts DEF JobInv
<1>3. \A e \in DOMAIN estimates : estimates[e].number = e
  BY DEF JobInv, ReleasedEstimates, NumbersAreDense
<1> QED BY <1>1, <1>2, <1>3 DEF NumberFree

\* What a new estimate leaves of the ones before.
LEMMA EstimateAdded ==
    ASSUME JobTypeOK, NEW new \in Estimates, estimates' = Append(estimates, new)
    PROVE  /\ estimates' \in Seq(Estimates)
           /\ Len(estimates') = Len(estimates) + 1
           /\ DOMAIN estimates' = 1 .. Len(estimates) + 1
           /\ estimates'[Len(estimates) + 1] = new
           /\ \A e \in DOMAIN estimates : estimates'[e] = estimates[e]
<1>1. estimates \in Seq(Estimates)
  BY DEF JobTypeOK
<1> QED BY <1>1, AppendProperties, LenProperties

LEMMA EstimateCommitStep ==
    ASSUME JobInv, NEW s \in JobSessions, EstimateCommit(s)
    PROVE  JobInv'
<1> DEFINE new == [number |-> job[s].number, source |-> 0, total |-> 1,
                   confidence |-> "low", warned |-> FALSE]
<1>1. /\ job[s].pc = "estimate_commit" /\ NumberFree(job[s].number)
      /\ estimates' = Append(estimates, new) /\ JobFinish(s)
      /\ UNCHANGED <<findingVars, price, compilations, proposals, edits>>
  BY DEF EstimateCommit
<1>a. JobTypeOK /\ JobsSound /\ JobsExclude /\ SourcesExist /\ RevisionHistory /\ ReleasedEstimates
  BY DEF JobInv
<1>2. job[s].number = Len(estimates) + 1
  BY <1>1, FreeIsNext
<1>3. Len(estimates) \in Nat /\ DOMAIN estimates = 1 .. Len(estimates) /\ Len(compilations) \in Nat
  BY <1>a, JobRowFacts
<1>4. new \in Estimates /\ new.number = Len(estimates) + 1 /\ new.source = 0
  BY <1>2, <1>3 DEF Estimates
<1> HIDE DEF new
<1>5. /\ estimates' \in Seq(Estimates)
      /\ Len(estimates') = Len(estimates) + 1
      /\ DOMAIN estimates' = 1 .. Len(estimates) + 1
      /\ estimates'[Len(estimates) + 1] = new
      /\ \A e \in DOMAIN estimates : estimates'[e] = estimates[e]
  BY <1>1, <1>4, <1>a, EstimateAdded
<1>6. JobIdle \in JobDoings /\ job' = [job EXCEPT ![s] = JobIdle]
  BY <1>1, JobRecords DEF JobFinish
<1>7. JobTypeOK'
  BY <1>1, <1>5, <1>6, <1>a DEF JobTypeOK, findingVars
<1>8. JobsSound'
  <2> SUFFICES ASSUME NEW o \in JobSessions PROVE JobSound(job[o])'
    BY DEF JobsSound
  <2>1. PICK x : x = job'[o] OBVIOUS
  <2>2. x = IF o = s THEN JobIdle ELSE job[o] BY <1>6, <1>a, <2>1 DEF JobTypeOK
  <2>3. JobSound(x) BY <1>a, <2>2, IdleSound DEF JobsSound
  <2>4. \A n \in 1 .. Len(estimates) + 1 : n \in 1 .. Len(estimates') + 1 BY <1>3, <1>5
  <2>5. JobSound(x)' BY <1>1, <2>3, <2>4 DEF JobSound, MayRelease, findingVars
  <2> QED BY <2>1, <2>5 DEF JobSound
<1>9. JobsExclude'
  BY <1>6, <1>a, StillExcludes, IdleSound DEF CompileStages, ReleaseStages
<1>10. SourcesExist'
  BY <1>1, <1>3, <1>4, <1>5, <1>a DEF SourcesExist
<1>11. RevisionHistory'
  BY <1>1, <1>a DEF RevisionHistory, RevisionChain, RevisionsDiffer, EventsTellLife
<1>12. \A e \in DOMAIN estimates' : e \in DOMAIN estimates \/ e = Len(estimates) + 1
  BY <1>3, <1>5
<1>13. OneEstimatePerRevision'
  BY <1>1, <1>4, <1>5, <1>12, <1>a DEF ReleasedEstimates, OneEstimatePerRevision
<1>14. EstimateIsSnapshot'
  BY <1>1, <1>4, <1>5, <1>12, <1>a DEF ReleasedEstimates, EstimateIsSnapshot
<1>15. NumbersAreDense'
  BY <1>4, <1>5, <1>12, <1>a DEF ReleasedEstimates, NumbersAreDense
<1> QED BY <1>7, <1>8, <1>9, <1>10, <1>11, <1>13, <1>14, <1>15 DEF JobInv, ReleasedEstimates

\* What a release writes into its revision.
LEMMA ReleasedRows ==
    ASSUME JobTypeOK, NEW c \in DOMAIN compilations, NEW e \in Nat,
           compilations' = [compilations EXCEPT ![c].estimate = e,
                                                ![c].events = Append(@, "released")]
    PROVE  /\ compilations' \in Seq(Compilations)
           /\ Len(compilations') = Len(compilations)
           /\ DOMAIN compilations' = DOMAIN compilations
           /\ \A k \in DOMAIN compilations : k # c => compilations'[k] = compilations[k]
           /\ compilations'[c].estimate = e
           /\ compilations'[c].events = Append(compilations[c].events, "released")
           /\ \A k \in DOMAIN compilations :
                 /\ compilations'[k].status = compilations[k].status
                 /\ compilations'[k].revision = compilations[k].revision
                 /\ compilations'[k].source = compilations[k].source
                 /\ compilations'[k].lines = compilations[k].lines
                 /\ compilations'[k].supersededBy = compilations[k].supersededBy
<1> DEFINE row == [compilations[c] EXCEPT !.estimate = e, !.events = Append(@, "released")]
<1>1. compilations \in Seq(Compilations) /\ compilations[c] \in Compilations
      /\ DOMAIN compilations = 1 .. Len(compilations)
  BY JobRowFacts DEF JobTypeOK
<1>2. Append(compilations[c].events, "released")
         \in Seq({"compiled", "recompiled", "released", "superseded"})
  <2>1. compilations[c].events \in Seq({"compiled", "recompiled", "released", "superseded"})
    BY <1>1 DEF Compilations
  <2> QED BY <2>1, AppendProperties
<1>3. /\ row.status = compilations[c].status /\ row.revision = compilations[c].revision
      /\ row.source = compilations[c].source /\ row.lines = compilations[c].lines
      /\ row.supersededBy = compilations[c].supersededBy /\ row.estimate = e
      /\ row.events = Append(compilations[c].events, "released")
  BY <1>1 DEF Compilations
<1>4. row \in Compilations
  BY <1>1, <1>2 DEF Compilations
<1>5. compilations' = [compilations EXCEPT ![c] = row]
  OBVIOUS
<1> HIDE DEF row
<1>6. compilations' \in Seq(Compilations) /\ Len(compilations') = Len(compilations)
  <2>1. c \in 1 .. Len(compilations) BY <1>1
  <2>2. /\ [compilations EXCEPT ![c] = row] \in Seq(Compilations)
        /\ Len([compilations EXCEPT ![c] = row]) = Len(compilations)
    BY <1>1, <1>4, <2>1, ExceptSeq
  <2> QED BY <1>5, <2>2
<1>7. /\ DOMAIN compilations' = DOMAIN compilations
      /\ \A k \in DOMAIN compilations : compilations'[k] = IF k = c THEN row ELSE compilations[k]
  BY <1>1, <1>5
<1> QED BY <1>3, <1>6, <1>7

\* The words of a life, one longer.
LEMMA LifeGrows ==
    ASSUME NEW first
    PROVE  /\ Append((<<first>> \o <<>>) \o <<>>, "released") = (<<first>> \o <<"released">>) \o <<>>
           /\ Append((<<first>> \o <<>>) \o <<>>, "superseded") = (<<first>> \o <<>>) \o <<"superseded">>
           /\ Append((<<first>> \o <<"released">>) \o <<>>, "superseded")
                 = (<<first>> \o <<"released">>) \o <<"superseded">>
OBVIOUS

LEMMA ReleaseCommitStep ==
    ASSUME JobInv, NEW s \in JobSessions, ReleaseCommit(s)
    PROVE  JobInv'
<1> DEFINE c == job[s].comp
           new == NewEstimate(c, job[s].number)
<1>1. /\ job[s].pc = "release_commit" /\ NumberFree(job[s].number)
      /\ estimates' = Append(estimates, new)
      /\ compilations' = [compilations EXCEPT ![c].estimate = Len(estimates) + 1,
                                              ![c].events = Append(@, "released")]
      /\ JobFinish(s)
      /\ UNCHANGED <<findingVars, price, proposals, edits>>
  BY DEF ReleaseCommit
<1>a. JobTypeOK /\ JobsSound /\ JobsExclude /\ SourcesExist /\ RevisionHistory /\ ReleasedEstimates
  BY DEF JobInv
<1>2. job[s].number = Len(estimates) + 1
  BY <1>1, FreeIsNext
<1>3. /\ Len(estimates) \in Nat /\ DOMAIN estimates = 1 .. Len(estimates)
      /\ Len(compilations) \in Nat /\ DOMAIN compilations = 1 .. Len(compilations)
      /\ \A k \in DOMAIN compilations : compilations[k] \in Compilations
  BY <1>a, JobRowFacts
<1>4. c \in DOMAIN compilations /\ MayRelease(c)
  BY <1>1, <1>a DEF JobsSound, JobSound, ReleaseStages
<1>5. /\ new.number = Len(estimates) + 1 /\ new.source = c
      /\ new.total = compilations[c].lines.total
      /\ new.confidence = ResearchConfidence(compilations[c].source.confidence)
      /\ new.warned = Unverified(compilations[c].source)
  BY <1>2 DEF NewEstimate
<1>6. new \in Estimates
  <2>1. compilations[c].lines \in Lines /\ compilations[c].source \in Findings
    BY <1>3, <1>4 DEF Compilations
  <2>2. compilations[c].lines.total \in Int
    <3>1. PICK q \in JobRequests, cents \in Nat : compilations[c].lines = CompiledLines(q, cents)
      BY <2>1, RequestsAssumption, PricesAssumption DEF Lines
    <3>2. LET lines == CompiledLines(q, cents)
          IN  /\ lines.laborTotal \in Nat /\ lines.partsTotal \in Nat
              /\ lines.supplies \in Nat /\ lines.tax \in Nat
              /\ lines.total = lines.laborTotal + lines.partsTotal + lines.supplies + lines.tax
      BY CompiledAmounts
    <3> QED BY <3>1, <3>2
  <2>3. ResearchConfidence(compilations[c].source.confidence) \in {"high", "medium", "low"}
    BY DEF ResearchConfidence
  <2>4. Unverified(compilations[c].source) \in BOOLEAN
    BY DEF Unverified
  <2>5. c \in Nat /\ Len(estimates) + 1 \in Nat
    BY <1>3, <1>4
  <2> QED BY <1>2, <2>2, <2>3, <2>4, <2>5 DEF Estimates, NewEstimate
<1> HIDE DEF new, c
<1>7. /\ estimates' \in Seq(Estimates)
      /\ Len(estimates') = Len(estimates) + 1
      /\ DOMAIN estimates' = 1 .. Len(estimates) + 1
      /\ estimates'[Len(estimates) + 1] = new
      /\ \A e \in DOMAIN estimates : estimates'[e] = estimates[e]
  BY <1>1, <1>6, <1>a, EstimateAdded
<1>8. /\ compilations' \in Seq(Compilations)
      /\ Len(compilations') = Len(compilations)
      /\ DOMAIN compilations' = DOMAIN compilations
      /\ \A k \in DOMAIN compilations : k # c => compilations'[k] = compilations[k]
      /\ compilations'[c].estimate = Len(estimates) + 1
      /\ compilations'[c].events = Append(compilations[c].events, "released")
      /\ \A k \in DOMAIN compilations :
            /\ compilations'[k].status = compilations[k].status
            /\ compilations'[k].revision = compilations[k].revision
            /\ compilations'[k].source = compilations[k].source
            /\ compilations'[k].lines = compilations[k].lines
            /\ compilations'[k].supersededBy = compilations[k].supersededBy
  <2>1. Len(estimates) + 1 \in Nat BY <1>3
  <2> QED BY <1>1, <1>4, <1>a, <2>1, ReleasedRows
<1>9. JobIdle \in JobDoings /\ job' = [job EXCEPT ![s] = JobIdle]
  BY <1>1, JobRecords DEF JobFinish
<1>10. JobTypeOK'
  BY <1>1, <1>7, <1>8, <1>9, <1>a DEF JobTypeOK, findingVars
<1>11. JobsSound'
  <2> SUFFICES ASSUME NEW o \in JobSessions PROVE JobSound(job[o])'
    BY DEF JobsSound
  <2>1. PICK x : x = job'[o] OBVIOUS
  <2>2. x = IF o = s THEN JobIdle ELSE job[o] BY <1>9, <1>a, <2>1 DEF JobTypeOK
  <2>3. JobSound(x) BY <1>a, <2>2, IdleSound DEF JobsSound
  <2>4. x.pc \in ReleaseStages => x.comp # c
    BY <1>1, <1>a, <2>2, IdleSound DEF JobsExclude, ReleaseStages, c
  <2>5. \A n \in 1 .. Len(estimates) + 1 : n \in 1 .. Len(estimates') + 1 BY <1>3, <1>7
  <2>6. finding' = finding /\ isArchived' = isArchived BY <1>1 DEF findingVars
  <2>7. x.pc = "compile_commit" /\ x.existing # 0 => x.existing \in DOMAIN compilations
    BY <1>3, <2>3 DEF JobSound
  <2>8. x.pc \in CompileStages => x.source = finding' /\ ~isArchived'
    BY <2>3, <2>6 DEF JobSound
  <2>9. x.pc = "compile_commit" =>
           /\ x.existing = Len(compilations')
           /\ x.existing # 0 => ~SameContent(compilations'[x.existing], x.source, x.lines)
    BY <1>8, <2>3, <2>7 DEF JobSound, SameContent
  <2>10. x.pc \in ReleaseStages =>
            x.comp \in DOMAIN compilations' /\ compilations'[x.comp].estimate = 0
            /\ compilations'[x.comp].status = "draft"
    BY <1>8, <2>3, <2>4 DEF JobSound, MayRelease
  <2>11. x.pc \in {"release_commit", "estimate_commit"} => x.number \in 1 .. Len(estimates') + 1
    BY <2>3, <2>5 DEF JobSound
  <2> QED BY <2>1, <2>8, <2>9, <2>10, <2>11 DEF JobSound, MayRelease
<1>12. JobsExclude'
  BY <1>9, <1>a, StillExcludes, IdleSound DEF CompileStages, ReleaseStages
<1>13. \A e \in DOMAIN estimates' : e \in DOMAIN estimates \/ e = Len(estimates) + 1
  BY <1>3, <1>7
<1>14. SourcesExist'
  BY <1>3, <1>4, <1>5, <1>7, <1>8, <1>13, <1>a DEF SourcesExist
<1>15. RevisionChain'
  BY <1>8, <1>a DEF RevisionHistory, RevisionChain
<1>16. RevisionsDiffer'
  <2>1. \A k \in DOMAIN compilations \ {1} : k - 1 \in DOMAIN compilations BY <1>3
  <2> QED BY <1>8, <1>a, <2>1 DEF RevisionHistory, RevisionsDiffer, SameContent
<1>17. EventsTellLife'
  <2> SUFFICES ASSUME NEW k \in DOMAIN compilations
               PROVE  compilations'[k].events =
                        (IF k = 1 THEN <<"compiled">> ELSE <<"recompiled">>)
                        \o (IF compilations'[k].estimate # 0 THEN <<"released">> ELSE <<>>)
                        \o (IF compilations'[k].status = "superseded" THEN <<"superseded">> ELSE <<>>)
    BY <1>8 DEF EventsTellLife
  <2>1. compilations[k].events =
           (IF k = 1 THEN <<"compiled">> ELSE <<"recompiled">>)
           \o (IF compilations[k].estimate # 0 THEN <<"released">> ELSE <<>>)
           \o (IF compilations[k].status = "superseded" THEN <<"superseded">> ELSE <<>>)
    BY <1>a DEF RevisionHistory, EventsTellLife
  <2>2. CASE k # c
    BY <1>8, <2>1, <2>2
  <2>3. CASE k = c
    <3> DEFINE first == IF k = 1 THEN "compiled" ELSE "recompiled"
    <3>1. compilations[k].events = (<<first>> \o <<>>) \o <<>>
      BY <1>4, <2>1, <2>3 DEF MayRelease
    <3>2. compilations'[k].events = (<<first>> \o <<"released">>) \o <<>>
      <4>1. compilations'[k].events = Append((<<first>> \o <<>>) \o <<>>, "released")
        BY <1>8, <2>3, <3>1
      <4> HIDE DEF first
      <4> QED BY <4>1, LifeGrows
    <3>3. compilations'[k].estimate # 0 /\ compilations'[k].status = "draft"
      BY <1>3, <1>4, <1>8, <2>3 DEF MayRelease
    <3> QED BY <3>2, <3>3
  <2> QED BY <2>2, <2>3
<1>18. OneEstimatePerRevision'
  <2> SUFFICES ASSUME NEW e \in DOMAIN estimates', estimates'[e].source # 0
               PROVE  compilations'[estimates'[e].source].estimate = e
    BY DEF OneEstimatePerRevision
  <2>1. CASE e \in DOMAIN estimates
    <3>1. estimates'[e] = estimates[e] BY <1>7, <2>1
    <3>2. compilations[estimates[e].source].estimate = e
      BY <1>a, <2>1, <3>1 DEF ReleasedEstimates, OneEstimatePerRevision
    <3>3. estimates[e].source # c /\ estimates[e].source \in DOMAIN compilations
      BY <1>3, <1>4, <1>a, <2>1, <3>1, <3>2 DEF MayRelease, SourcesExist
    <3> QED BY <1>8, <3>1, <3>2, <3>3
  <2>2. CASE e = Len(estimates) + 1
    BY <1>5, <1>7, <1>8, <2>2
  <2> QED BY <1>13, <2>1, <2>2
<1>19. EstimateIsSnapshot'
  <2> SUFFICES ASSUME NEW e \in DOMAIN estimates', estimates'[e].source # 0
               PROVE  LET k == estimates'[e].source
                      IN  /\ estimates'[e].total = compilations'[k].lines.total
                          /\ estimates'[e].confidence
                                = ResearchConfidence(compilations'[k].source.confidence)
                          /\ estimates'[e].warned <=> Unverified(compilations'[k].source)
    BY DEF EstimateIsSnapshot
  <2>1. CASE e \in DOMAIN estimates
    <3>1. estimates'[e] = estimates[e] BY <1>7, <2>1
    <3>2. estimates[e].source \in DOMAIN compilations
      BY <1>3, <1>a, <2>1, <3>1 DEF SourcesExist
    <3> QED BY <1>8, <1>a, <2>1, <3>1, <3>2 DEF ReleasedEstimates, EstimateIsSnapshot
  <2>2. CASE e = Len(estimates) + 1
    BY <1>4, <1>5, <1>7, <1>8, <2>2
  <2> QED BY <1>13, <2>1, <2>2
<1>20. NumbersAreDense'
  BY <1>5, <1>7, <1>13, <1>a DEF ReleasedEstimates, NumbersAreDense
<1> QED BY <1>10, <1>11, <1>12, <1>14, <1>15, <1>16, <1>17, <1>18, <1>19, <1>20
        DEF JobInv, ReleasedEstimates, RevisionHistory

\* What a compile writes: the draft before is superseded, the new revision comes last.
LEMMA CompiledRows ==
    ASSUME JobTypeOK, NEW new \in Compilations,
           compilations' =
              Append(IF Len(compilations) = 0 THEN compilations
                     ELSE [compilations EXCEPT ![Len(compilations)].status = "superseded",
                                               ![Len(compilations)].supersededBy = Len(compilations) + 1,
                                               ![Len(compilations)].events = Append(@, "superseded")],
                     new)
    PROVE  /\ compilations' \in Seq(Compilations)
           /\ Len(compilations') = Len(compilations) + 1
           /\ DOMAIN compilations' = 1 .. Len(compilations) + 1
           /\ compilations'[Len(compilations) + 1] = new
           /\ \A k \in 1 .. Len(compilations) : k # Len(compilations) => compilations'[k] = compilations[k]
           /\ Len(compilations) # 0 =>
                 /\ compilations'[Len(compilations)].status = "superseded"
                 /\ compilations'[Len(compilations)].supersededBy = Len(compilations) + 1
                 /\ compilations'[Len(compilations)].events = Append(compilations[Len(compilations)].events, "superseded")
           /\ \A k \in 1 .. Len(compilations) :
                 /\ compilations'[k].revision = compilations[k].revision
                 /\ compilations'[k].source = compilations[k].source
                 /\ compilations'[k].lines = compilations[k].lines
                 /\ compilations'[k].estimate = compilations[k].estimate
<1> DEFINE existing == Len(compilations)
<1>1. compilations \in Seq(Compilations) /\ DOMAIN compilations = 1 .. existing /\ existing \in Nat
      /\ \A k \in 1 .. existing : compilations[k] \in Compilations
  BY JobRowFacts DEF JobTypeOK
<1> DEFINE old == IF existing = 0 THEN compilations
                  ELSE [compilations EXCEPT ![existing].status = "superseded",
                                            ![existing].supersededBy = Len(compilations) + 1,
                                            ![existing].events = Append(@, "superseded")]
<1>2. /\ old \in Seq(Compilations) /\ Len(old) = existing /\ DOMAIN old = 1 .. existing
      /\ \A k \in 1 .. existing : k # existing => old[k] = compilations[k]
      /\ existing # 0 => /\ old[existing].status = "superseded"
                         /\ old[existing].supersededBy = existing + 1
                         /\ old[existing].events = Append(compilations[existing].events, "superseded")
      /\ \A k \in 1 .. existing : /\ old[k].revision = compilations[k].revision
                                  /\ old[k].source = compilations[k].source
                                  /\ old[k].lines = compilations[k].lines
                                  /\ old[k].estimate = compilations[k].estimate
  <2>1. CASE existing = 0
    BY <1>1, <2>1
  <2>2. CASE existing # 0
    <3> DEFINE row == [compilations[existing] EXCEPT !.status = "superseded",
                                                     !.supersededBy = existing + 1,
                                                     !.events = Append(@, "superseded")]
    <3>1. existing \in 1 .. existing /\ compilations[existing] \in Compilations BY <1>1, <2>2
    <3>2. Append(compilations[existing].events, "superseded")
             \in Seq({"compiled", "recompiled", "released", "superseded"})
      <4>1. compilations[existing].events \in Seq({"compiled", "recompiled", "released", "superseded"})
        BY <3>1 DEF Compilations
      <4> QED BY <4>1, AppendProperties
    <3>3. /\ row.status = "superseded" /\ row.supersededBy = existing + 1
          /\ row.events = Append(compilations[existing].events, "superseded")
          /\ row.revision = compilations[existing].revision
          /\ row.source = compilations[existing].source
          /\ row.lines = compilations[existing].lines
          /\ row.estimate = compilations[existing].estimate
      BY <3>1 DEF Compilations
    <3>4. row \in Compilations
      <4>1. existing + 1 \in Nat BY <1>1
      <4> QED BY <3>1, <3>2, <4>1 DEF Compilations
    <3>5. old = [compilations EXCEPT ![existing] = row] BY <2>2
    <3> HIDE DEF row, old
    <3>6. old \in Seq(Compilations) /\ Len(old) = Len(compilations)
      <4>1. /\ [compilations EXCEPT ![existing] = row] \in Seq(Compilations)
            /\ Len([compilations EXCEPT ![existing] = row]) = Len(compilations)
        BY <1>1, <3>1, <3>4, ExceptSeq
      <4> QED BY <3>5, <4>1
    <3>7. /\ DOMAIN old = 1 .. existing
          /\ \A k \in 1 .. existing : old[k] = IF k = existing THEN row ELSE compilations[k]
      BY <1>1, <3>5
    <3> QED BY <3>1, <3>3, <3>6, <3>7
  <2> HIDE DEF old
  <2> QED BY <2>1, <2>2
<1>3. compilations' = Append(old, new)
  OBVIOUS
<1> HIDE DEF old
<1>4. /\ compilations' \in Seq(Compilations) /\ Len(compilations') = existing + 1
      /\ DOMAIN compilations' = 1 .. existing + 1
      /\ compilations'[existing + 1] = new
      /\ \A k \in 1 .. existing : compilations'[k] = old[k]
  <2>1. /\ Append(old, new) \in Seq(Compilations) /\ Len(Append(old, new)) = Len(old) + 1
        /\ \A k \in 1 .. Len(old) : Append(old, new)[k] = old[k]
        /\ Append(old, new)[Len(old) + 1] = new
    <3>1. \A q \in Seq(Compilations) :
             /\ Append(q, new) \in Seq(Compilations) /\ Len(Append(q, new)) = Len(q) + 1
             /\ \A k \in 1 .. Len(q) : Append(q, new)[k] = q[k]
             /\ Append(q, new)[Len(q) + 1] = new
      BY AppendProperties
    <3>2. old \in Seq(Compilations) BY <1>2
    <3> QED BY <3>1, <3>2
  <2>2. compilations' \in Seq(Compilations) /\ Len(compilations') = existing + 1
    BY <1>2, <1>3, <2>1
  <2>3. DOMAIN compilations' = 1 .. existing + 1
    BY <2>2, LenProperties
  <2>4. compilations'[existing + 1] = new /\ \A k \in 1 .. existing : compilations'[k] = old[k]
    BY <1>2, <1>3, <2>1
  <2> QED BY <2>2, <2>3, <2>4
<1>5. /\ \A k \in 1 .. existing : k # existing => compilations'[k] = compilations[k]
      /\ existing # 0 =>
            /\ compilations'[existing].status = "superseded"
            /\ compilations'[existing].supersededBy = existing + 1
            /\ compilations'[existing].events = Append(compilations[existing].events, "superseded")
      /\ \A k \in 1 .. existing :
            /\ compilations'[k].revision = compilations[k].revision
            /\ compilations'[k].source = compilations[k].source
            /\ compilations'[k].lines = compilations[k].lines
            /\ compilations'[k].estimate = compilations[k].estimate
  <2>1. existing # 0 => existing \in 1 .. existing BY <1>1
  <2>2. \A k \in 1 .. existing : compilations'[k] = old[k] BY <1>4
  <2> QED BY <1>2, <2>1, <2>2
<1> QED BY <1>4, <1>5

LEMMA CompileCommitStep ==
    ASSUME JobInv, NEW s \in JobSessions, CompileCommit(s)
    PROVE  /\ JobInv'
           /\ compilations'[Len(compilations')].source = finding
           /\ ~isArchived
<1> DEFINE existing == job[s].existing
           new == [status |-> "draft",
                   revision |-> IF existing = 0 THEN 1 ELSE compilations[existing].revision + 1,
                   source |-> job[s].source, lines |-> job[s].lines, supersededBy |-> 0,
                   estimate |-> 0,
                   events |-> IF existing = 0 THEN <<"compiled">> ELSE <<"recompiled">>]
<1>1. /\ job[s].pc = "compile_commit" /\ JobFinish(s)
      /\ compilations' =
              Append(IF existing = 0 THEN compilations
                     ELSE [compilations EXCEPT ![existing].status = "superseded",
                                               ![existing].supersededBy = Len(compilations) + 1,
                                               ![existing].events = Append(@, "superseded")],
                     new)
      /\ UNCHANGED <<findingVars, price, estimates, proposals, edits>>
  BY DEF CompileCommit
<1>a. JobTypeOK /\ JobsSound /\ JobsExclude /\ SourcesExist /\ RevisionHistory /\ ReleasedEstimates
  BY DEF JobInv
<1>b. RevisionChain /\ RevisionsDiffer /\ EventsTellLife
  BY <1>a DEF RevisionHistory
<1>2. /\ existing = Len(compilations)
      /\ job[s].source = finding /\ ~isArchived
      /\ existing # 0 => ~SameContent(compilations[existing], job[s].source, job[s].lines)
  BY <1>1, <1>a DEF JobsSound, JobSound, CompileStages
<1>3. /\ existing \in Nat /\ DOMAIN compilations = 1 .. existing
      /\ \A k \in DOMAIN compilations : compilations[k] \in Compilations
  BY <1>2, <1>a, JobRowFacts
<1>4. \A k \in 1 .. existing :
         /\ compilations[k].revision = k
         /\ compilations[k].status = IF k = existing THEN "draft" ELSE "superseded"
         /\ compilations[k].supersededBy = IF k = existing THEN 0 ELSE k + 1
  BY <1>2, <1>3, <1>b DEF RevisionChain
<1>5. job[s].source \in Findings /\ job[s].lines \in Lines
  <2>1. job[s] \in JobDoings BY <1>a DEF JobTypeOK
  <2> QED BY <1>1, <2>1, JobFields DEF CompileStages
<1>6. /\ new.status = "draft" /\ new.revision = existing + 1 /\ new.source = job[s].source
      /\ new.lines = job[s].lines /\ new.supersededBy = 0 /\ new.estimate = 0
      /\ new.events = IF existing = 0 THEN <<"compiled">> ELSE <<"recompiled">>
  BY <1>3, <1>4
<1>7. new \in Compilations
  <2>1. (IF existing = 0 THEN <<"compiled">> ELSE <<"recompiled">>)
           \in Seq({"compiled", "recompiled", "released", "superseded"})
    <3>1. \A word \in {"compiled", "recompiled"} :
             <<word>> \in Seq({"compiled", "recompiled", "released", "superseded"})
      OBVIOUS
    <3> QED BY <3>1
  <2>2. existing + 1 \in Nat BY <1>3
  <2>3. (IF existing = 0 THEN 1 ELSE compilations[existing].revision + 1) \in Nat
    BY <1>3, <1>4
  <2> QED BY <1>5, <2>1, <2>2, <2>3 DEF Compilations
<1> HIDE DEF new, existing
<1>8. /\ compilations' \in Seq(Compilations)
      /\ Len(compilations') = existing + 1
      /\ DOMAIN compilations' = 1 .. existing + 1
      /\ compilations'[existing + 1] = new
      /\ \A k \in 1 .. existing : k # existing => compilations'[k] = compilations[k]
      /\ existing # 0 =>
            /\ compilations'[existing].status = "superseded"
            /\ compilations'[existing].supersededBy = existing + 1
            /\ compilations'[existing].events = Append(compilations[existing].events, "superseded")
      /\ \A k \in 1 .. existing :
            /\ compilations'[k].revision = compilations[k].revision
            /\ compilations'[k].source = compilations[k].source
            /\ compilations'[k].lines = compilations[k].lines
            /\ compilations'[k].estimate = compilations[k].estimate
  <2>1. existing = Len(compilations) /\ new \in Compilations /\ JobTypeOK BY <1>2, <1>7, <1>a
  <2>2. compilations' =
           Append(IF Len(compilations) = 0 THEN compilations
                  ELSE [compilations EXCEPT ![Len(compilations)].status = "superseded",
                                            ![Len(compilations)].supersededBy = Len(compilations) + 1,
                                            ![Len(compilations)].events = Append(@, "superseded")],
                  new)
    BY <1>1, <2>1
  <2> QED BY <2>1, <2>2, CompiledRows
<1>9. JobIdle \in JobDoings /\ job' = [job EXCEPT ![s] = JobIdle]
  BY <1>1, JobRecords DEF JobFinish
<1>10. JobTypeOK'
  BY <1>1, <1>8, <1>9, <1>a DEF JobTypeOK, findingVars
<1>11. JobsSound'
  <2> SUFFICES ASSUME NEW o \in JobSessions PROVE JobSound(job[o])'
    BY DEF JobsSound
  <2>1. PICK x : x = job'[o] OBVIOUS
  <2>2. x = IF o = s THEN JobIdle ELSE job[o] BY <1>9, <1>a, <2>1 DEF JobTypeOK
  <2>3. JobSound(x) BY <1>a, <2>2, IdleSound DEF JobsSound
  <2>4. x.pc \notin CompileStages
    BY <1>1, <1>a, <2>2, IdleSound DEF JobsExclude, CompileStages
  <2>5. x.pc \notin ReleaseStages
    <3>1. SUFFICES ASSUME x.pc \in ReleaseStages PROVE FALSE
      OBVIOUS
    <3>2. o # s /\ x = job[o] BY <2>2, <3>1, IdleSound DEF ReleaseStages
    <3>3. x.comp \in 1 .. existing /\ compilations[x.comp].status = "draft"
      BY <1>3, <2>3, <3>1 DEF JobSound, MayRelease
    <3>4. x.comp = existing /\ existing # 0 BY <1>3, <1>4, <3>3
    <3>5. RevisionFree(existing) BY <3>4 DEF CompileCommit, existing
    <3> QED BY <3>1, <3>2, <3>4, <3>5 DEF RevisionFree, ReleaseStages
  <2>6. JobSound(x)' BY <1>1, <2>3, <2>4, <2>5 DEF JobSound, CompileStages, ReleaseStages
  <2> QED BY <2>1, <2>6 DEF JobSound
<1>12. JobsExclude'
  BY <1>9, <1>a, StillExcludes, IdleSound DEF CompileStages, ReleaseStages
<1>13. SourcesExist'
  BY <1>1, <1>2, <1>3, <1>8, <1>a DEF SourcesExist
<1>14. \A k \in DOMAIN compilations' : k \in 1 .. existing \/ k = existing + 1
  BY <1>3, <1>8
<1>15. RevisionChain'
  <2> SUFFICES ASSUME NEW k \in DOMAIN compilations'
               PROVE  LET last == k = Len(compilations')
                      IN  /\ compilations'[k].revision = k
                          /\ compilations'[k].status = IF last THEN "draft" ELSE "superseded"
                          /\ compilations'[k].supersededBy = IF last THEN 0 ELSE k + 1
    BY DEF RevisionChain
  <2>1. CASE k = existing + 1
    BY <1>6, <1>8, <2>1
  <2>2. CASE k \in 1 .. existing /\ k # existing
    BY <1>3, <1>4, <1>8, <2>2
  <2>3. CASE k \in 1 .. existing /\ k = existing
    BY <1>3, <1>4, <1>8, <2>3
  <2> QED BY <1>14, <2>1, <2>2, <2>3
<1>16. RevisionsDiffer'
  <2> SUFFICES ASSUME NEW k \in DOMAIN compilations' \ {1}
               PROVE  ~SameContent(compilations'[k], compilations'[k - 1].source,
                                   compilations'[k - 1].lines)
    BY DEF RevisionsDiffer
  <2>1. CASE k = existing + 1
    <3>1. existing # 0 /\ k - 1 = existing /\ existing \in 1 .. existing BY <1>3, <1>8, <2>1
    <3> QED BY <1>2, <1>6, <1>8, <2>1, <3>1 DEF SameContent
  <2>2. CASE k \in 1 .. existing
    <3>1. k - 1 \in 1 .. existing /\ k \in DOMAIN compilations \ {1} BY <1>3, <2>2
    <3>2. ~SameContent(compilations[k], compilations[k - 1].source, compilations[k - 1].lines)
      BY <1>b, <3>1 DEF RevisionsDiffer
    <3> QED BY <1>8, <2>2, <3>1, <3>2 DEF SameContent
  <2> QED BY <1>14, <2>1, <2>2
<1>17. EventsTellLife'
  <2> SUFFICES ASSUME NEW k \in DOMAIN compilations'
               PROVE  compilations'[k].events =
                        (IF k = 1 THEN <<"compiled">> ELSE <<"recompiled">>)
                        \o (IF compilations'[k].estimate # 0 THEN <<"released">> ELSE <<>>)
                        \o (IF compilations'[k].status = "superseded" THEN <<"superseded">> ELSE <<>>)
    BY DEF EventsTellLife
  <2> DEFINE first == IF k = 1 THEN "compiled" ELSE "recompiled"
  <2>1. CASE k = existing + 1
    <3>1. compilations'[k].events = <<first>> BY <1>3, <1>6, <1>8, <2>1
    <3>2. <<first>> = (<<first>> \o <<>>) \o <<>> OBVIOUS
    <3> QED BY <1>6, <1>8, <2>1, <3>1, <3>2
  <2>2. ASSUME k \in 1 .. existing
        PROVE  compilations[k].events =
                 (IF k = 1 THEN <<"compiled">> ELSE <<"recompiled">>)
                 \o (IF compilations[k].estimate # 0 THEN <<"released">> ELSE <<>>)
                 \o (IF compilations[k].status = "superseded" THEN <<"superseded">> ELSE <<>>)
    BY <1>3, <1>b, <2>2 DEF EventsTellLife
  <2>3. CASE k \in 1 .. existing /\ k # existing
    BY <1>8, <2>2, <2>3
  <2>4. CASE k \in 1 .. existing /\ k = existing
    <3>1. /\ compilations[k].status = "draft" /\ compilations'[k].status = "superseded"
          /\ compilations'[k].estimate = compilations[k].estimate
          /\ compilations'[k].events = Append(compilations[k].events, "superseded")
      BY <1>3, <1>4, <1>8, <2>4
    <3>2. CASE compilations[k].estimate = 0
      <4>1. compilations[k].events = (<<first>> \o <<>>) \o <<>> BY <2>2, <2>4, <3>1, <3>2
      <4>2. compilations'[k].events = (<<first>> \o <<>>) \o <<"superseded">>
        <5> HIDE DEF first
        <5> QED BY <3>1, <4>1, LifeGrows
      <4> QED BY <3>1, <3>2, <4>2
    <3>3. CASE compilations[k].estimate # 0
      <4>1. compilations[k].events = (<<first>> \o <<"released">>) \o <<>>
        BY <2>2, <2>4, <3>1, <3>3
      <4>2. compilations'[k].events = (<<first>> \o <<"released">>) \o <<"superseded">>
        <5> HIDE DEF first
        <5> QED BY <3>1, <4>1, LifeGrows
      <4> QED BY <3>1, <3>3, <4>2
    <3> QED BY <3>2, <3>3
  <2> QED BY <1>14, <2>1, <2>3, <2>4
<1>18. \A e \in DOMAIN estimates : estimates[e].source # 0 => estimates[e].source \in 1 .. existing
  BY <1>2, <1>3, <1>a DEF SourcesExist
<1>19. ReleasedEstimates'
  BY <1>1, <1>8, <1>18, <1>a DEF ReleasedEstimates, OneEstimatePerRevision, EstimateIsSnapshot,
                                NumbersAreDense
<1>20. compilations'[Len(compilations')].source = finding
  BY <1>2, <1>6, <1>8
<1> QED BY <1>2, <1>10, <1>11, <1>12, <1>13, <1>15, <1>16, <1>17, <1>19, <1>20
        DEF JobInv, RevisionHistory

-----------------------------------------------------------------------------
(* The invariant and what follows from it                                  *)

\* It holds when the finding is recorded.
LEMMA JobStarts == JobInit => JobInv
<1> SUFFICES ASSUME JobInit PROVE JobInv OBVIOUS
<1> USE DEF JobInit
<1>1. JobTypeOK
  <2>1. finding \in Findings BY EvidenceAssumption
  <2>2. <<"created">> \in Seq({"created", "updated", "archived"}) OBVIOUS
  <2>3. JobIdle \in JobDoings BY JobRecords
  <2>4. job \in [JobSessions -> JobDoings] BY <2>3
  <2>5. /\ compilations \in Seq(Compilations) /\ estimates \in Seq(Estimates)
        /\ proposals \in Seq([status : {"proposed", "accepted", "dismissed"},
                              payload : {"inputs"}, source : Findings])
    OBVIOUS
  <2> QED BY <2>1, <2>2, <2>4, <2>5 DEF JobTypeOK
<1>2. JobsSound BY IdleSound DEF JobsSound
<1>3. JobsExclude BY IdleSound DEF JobsExclude, CompileStages, ReleaseStages
<1>4. SourcesExist BY DEF SourcesExist
<1>5. RevisionHistory
  BY DEF RevisionHistory, RevisionChain, RevisionsDiffer, EventsTellLife
<1>6. ReleasedEstimates
  BY DEF ReleasedEstimates, OneEstimatePerRevision, EstimateIsSnapshot, NumbersAreDense
<1> QED BY <1>1, <1>2, <1>3, <1>4, <1>5, <1>6 DEF JobInv

LEMMA UpdateFindingStep ==
    ASSUME JobInv, NEW s \in JobSessions, UpdateFindingCommit(s)
    PROVE  JobInv'
<1> DEFINE Stored(field) == IF job[s].new[field] = job[s].seen[field] THEN finding[field]
                            ELSE job[s].new[field]
<1>1. /\ job[s].pc = "update_finding" /\ FindingFree /\ JobFinish(s)
      /\ finding' = [conclusion |-> Stored("conclusion"), confidence |-> Stored("confidence")]
      /\ findingEvents' = Append(findingEvents, "updated")
      /\ UNCHANGED <<isArchived, price, compilations, estimates, proposals, edits>>
  BY DEF UpdateFindingCommit
<1>2. /\ job[s] \in JobDoings /\ finding \in Findings /\ isArchived \in BOOLEAN
      /\ findingEvents \in Seq({"created", "updated", "archived"})
  BY DEF JobInv, JobTypeOK
<1>3. job[s].new \in Findings
  BY <1>1, <1>2, JobFields
<1>4. /\ Stored("conclusion") \in {"none", "short", "long"}
      /\ Stored("confidence") \in {"none", "theory", "probable", "confirmed"}
  BY <1>2, <1>3 DEF Findings
<1>5. finding' \in Findings
  BY <1>1, <1>4 DEF Findings
<1>6. findingEvents' \in Seq({"created", "updated", "archived"})
  BY <1>1, <1>2, AppendProperties
<1> QED BY <1>1, <1>2, <1>5, <1>6, FindingWritten

LEMMA ArchiveFindingStep ==
    ASSUME JobInv, NEW s \in JobSessions, ArchiveFindingCommit(s)
    PROVE  JobInv'
<1>1. finding \in Findings /\ findingEvents \in Seq({"created", "updated", "archived"})
  BY DEF JobInv, JobTypeOK
<1>2. findingEvents' \in Seq({"created", "updated", "archived"})
  BY <1>1, AppendProperties DEF ArchiveFindingCommit
<1> QED BY <1>1, <1>2, FindingWritten DEF ArchiveFindingCommit

\* It is inductive, and only the commit of a compile adds a revision, which records the
\* evidence of the finding as it is at that moment.
LEMMA JobStep ==
    ASSUME JobInv, [JobNext]_jobVars
    PROVE  /\ JobInv'
           /\ Len(compilations') > Len(compilations) =>
                 /\ compilations'[Len(compilations')].source = finding
                 /\ ~isArchived
<1>0. Len(compilations) \in Nat
  BY JobRowFacts DEF JobInv
<1>1. CASE UNCHANGED jobVars
  <2>1. /\ UNCHANGED <<finding, isArchived, findingEvents, price, compilations, estimates>>
        /\ UNCHANGED <<proposals, job, edits>>
    BY <1>1 DEF jobVars, findingVars
  <2>2. JobTypeOK' BY <2>1 DEF JobInv, JobTypeOK
  <2>3. JobsSound' BY <2>1 DEF JobInv, JobsSound, JobSound, MayRelease
  <2>4. JobsExclude' BY <2>1 DEF JobInv, JobsExclude
  <2> QED BY <1>0, <2>1, <2>2, <2>3, <2>4, HistoryStays DEF JobInv
<1>2. ASSUME NEW s \in JobSessions, Steps(s) \/ Requested(s) \/ JobAbort(s), ~CompileCommit(s)
      PROVE  JobInv' /\ Len(compilations') = Len(compilations)
  <2>1. CASE UpdateFindingCommit(s)
    BY <2>1, UpdateFindingStep DEF UpdateFindingCommit
  <2>2. CASE ArchiveFindingCommit(s)
    BY <2>2, ArchiveFindingStep DEF ArchiveFindingCommit
  <2>3. CASE EstimateCommit(s)
    BY <2>3, EstimateCommitStep DEF EstimateCommit
  <2>4. CASE ReleaseCommit(s)
    <3>1. /\ compilations \in Seq(Compilations)
          /\ compilations' = [compilations EXCEPT ![job[s].comp].estimate = Len(estimates) + 1,
                                                 ![job[s].comp].events = Append(@, "released")]
      BY <2>4 DEF ReleaseCommit, JobInv, JobTypeOK
    <3>2. Len(compilations') = Len(compilations)
      BY <3>1
    <3> QED BY <2>4, <3>2, ReleaseCommitStep
  <2>5. CASE \/ UpdateFindingLoad(s) \/ ArchiveFindingLoad(s) \/ ProposeLoad(s) \/ ProposeCommit(s)
             \/ CompileLock(s) \/ CompilePrice(s) \/ ReleaseLock(s) \/ ReleaseNumber(s)
             \/ NumberTaken(s) \/ EstimateNumber(s) \/ JobAbort(s)
    <3>1. UNCHANGED compilations
      BY <2>5 DEF UpdateFindingLoad, ArchiveFindingLoad, ProposeLoad, ProposeCommit, CompileLock,
                  CompilePrice, ReleaseLock, ReleaseNumber, NumberTaken, EstimateNumber, JobAbort
    <3> QED BY <2>5, <3>1, QuietJobSteps
  <2> QED BY <1>2, <2>1, <2>2, <2>3, <2>4, <2>5 DEF Steps, Requested
<1>3. CASE ChangePrice \/ DisposeProposal
  <2>1. UNCHANGED compilations BY <1>3 DEF ChangePrice, DisposeProposal
  <2> QED BY <1>0, <1>3, <2>1, AsidesStep
<1>4. CASE \E s \in JobSessions : CompileCommit(s)
  BY <1>4, CompileCommitStep
<1> QED BY <1>0, <1>1, <1>2, <1>3, <1>4 DEF JobNext

\* compile_job, release_job_compilation, job_proposal: the columns keep their types.
THEOREM JobTypeCorrect == JobSpec => []JobTypeOK
<1>1. JobInv => JobTypeOK BY DEF JobInv
<1> QED BY <1>1, JobStarts, JobStep, PTL DEF JobSpec

\* compile_job, for any number of sessions: the revisions of a finding form one chain
\* without repetitions, of which only the last is a draft, and the events of each tell
\* its life.
THEOREM RevisionHistoryTheorem == JobSpec => []RevisionHistory
<1>1. JobInv => RevisionHistory BY DEF JobInv
<1> QED BY <1>1, JobStarts, JobStep, PTL DEF JobSpec

\* release_job_compilation: a revision becomes at most one estimate, which keeps what the
\* revision recorded and has the next number.
THEOREM ReleasedEstimatesTheorem == JobSpec => []ReleasedEstimates
<1>1. JobInv => ReleasedEstimates BY DEF JobInv
<1> QED BY <1>1, JobStarts, JobStep, PTL DEF JobSpec

\* _compile_lines against _validate_generated_estimate: for every request, price and
\* amount, what the compiler accepted the check of an estimate accepts.
THEOREM CompiledJobsAddUpTheorem == JobSpec => []CompiledJobsAddUp
<1>1. JobInv => CompiledJobsAddUp
  <2> SUFFICES ASSUME JobInv, NEW c \in Drafts
               PROVE  GeneratedEstimateValid(EstimateResponse(compilations[c].lines))
    BY DEF CompiledJobsAddUp
  <2>1. compilations[c] \in Compilations BY JobRowFacts DEF JobInv, Drafts
  <2>2. compilations[c].lines \in Lines BY <2>1 DEF Compilations
  <2> QED BY <2>2, AcceptedJobAddsUp
<1> QED BY <1>1, JobStarts, JobStep, PTL DEF JobSpec

\* _get_compilable_finding holds the finding to the commit: a revision records the
\* evidence as it is when it is inserted, and never that of an archived finding.
THEOREM CompilesCurrentEvidenceTheorem == JobSpec => CompilesCurrentEvidence
<1>1. JobInv /\ [JobNext]_jobVars
         => [Len(compilations') > Len(compilations) =>
                /\ compilations'[Len(compilations')].source = finding
                /\ ~isArchived]_jobVars
  BY JobStep
<1> QED BY <1>1, JobStarts, JobStep, PTL DEF JobSpec, CompilesCurrentEvidence

=============================================================================
