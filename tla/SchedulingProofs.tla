-------------------------- MODULE SchedulingProofs --------------------------
(***************************************************************************)
(* Proofs about Scheduling for any sessions, technicians, bays, hours,     *)
(* blocks and payloads.                                                    *)
(*                                                                         *)
(* A slot is stored some steps after it was compared with the others.      *)
(* SessionSound says why the comparison still holds: whoever stores a      *)
(* conflicting slot meanwhile needs the lock of the technician or the bay  *)
(* the two share, which the session that compared holds until it commits.  *)
(* SeenInv says what the loads saw of the status of an appointment.        *)
(***************************************************************************)
EXTENDS Scheduling, SequenceTheorems, TLAPS

\* The slot keeps to working hours and blocks.
Open(want) == WithinHours(want) /\ \A b \in Blocks : ~BlockConflict(want, b)

\* No active appointment but id and the unchecked ones is in the way.
Clear(want, id) ==
    \A j \in DOMAIN appointments \ (unchecked \cup {id}) :
        Active(appointments[j]) => ~Conflict(want, appointments[j])

HoldsSlot(s) ==
    /\ Want(s).technician \in held[s]
    /\ Want(s).bay # NoBay => Want(s).bay \in held[s]

\* What a session holds at each point, and which appointment it is about.
SessionSoundFor(s) ==
    /\ req[s].pc \in {"idle", "technician"} => held[s] = {}
    /\ req[s].pc = "bay" => held[s] = {Want(s).technician} /\ Want(s).bay # NoBay
    /\ req[s].pc = "check" => HoldsSlot(s)
    /\ req[s].pc = "commit" /\ held[s] # {} =>
          HoldsSlot(s) /\ Open(Want(s)) /\ Clear(Want(s), req[s].id)
    /\ req[s].pc # "idle" =>
          IF req[s].op = "create"
          THEN /\ req[s].id = 0
               /\ req[s].payload \in CreatePayloads /\ req[s].payload = req[s].seen
               /\ req[s].pc = "commit" => held[s] # {}
          ELSE /\ req[s].id \in DOMAIN appointments
               /\ req[s].op \in {"update", "move"} => req[s].payload \in UpdatePayloads
               /\ req[s].op = "cancel" => req[s].pc = "commit" /\ held[s] = {}

SessionSound == \A s \in Sessions : SessionSoundFor(s)

Exclusive == \A s, t \in Sessions : s # t => held[s] \cap held[t] = {}

IInv ==
    /\ TypeOK
    /\ NoDoubleBooking
    /\ InOpenHours
    /\ SessionSound
    /\ Exclusive

-----------------------------------------------------------------------------
(* Rows, slots and conflicts                                               *)

LEMMA RowIsFunction ==
    ASSUME NEW row \in Appointments
    PROVE  /\ DOMAIN row = SlotFields \cup {"status", "canceledAt"}
           /\ row = [f \in SlotFields \cup {"status", "canceledAt"} |-> row[f]]
BY DEF Appointments, SlotFields

\* A row whose every field comes from some row is a row.
LEMMA RowOfFields ==
    ASSUME NEW f, f = [x \in SlotFields \cup {"status", "canceledAt"} |-> f[x]],
           \A x \in SlotFields \cup {"status", "canceledAt"} :
              \E row \in Appointments : f[x] = row[x]
    PROVE  f \in Appointments
BY DEF Appointments, SlotFields

\* Merging the fields of rows into a row makes a row.
LEMMA MergedType ==
    ASSUME NEW payload, NEW row \in Appointments,
           \A x \in DOMAIN payload : \E other \in Appointments : payload[x] = other[x]
    PROVE  /\ Merged(payload, row) \in Appointments
           /\ \A x \in SlotFields \cup {"status", "canceledAt"} :
                 Merged(payload, row)[x] = IF x \in DOMAIN payload THEN payload[x] ELSE row[x]
<1>1. Merged(payload, row) =
         [x \in SlotFields \cup {"status", "canceledAt"} |->
             IF x \in DOMAIN payload THEN payload[x] ELSE row[x]]
  BY RowIsFunction DEF Merged
<1>2. \A x \in SlotFields \cup {"status", "canceledAt"} :
         Merged(payload, row)[x] = IF x \in DOMAIN payload THEN payload[x] ELSE row[x]
  BY <1>1
<1>3. \A x \in SlotFields \cup {"status", "canceledAt"} :
         \E other \in Appointments : Merged(payload, row)[x] = other[x]
  BY <1>2
<1>4. Merged(payload, row) =
         [x \in SlotFields \cup {"status", "canceledAt"} |-> Merged(payload, row)[x]]
  BY <1>1
<1> HIDE DEF Merged
<1> QED
  BY <1>2, <1>3, <1>4, RowOfFields

\* The fields of a payload are those of rows.
LEMMA PayloadFields ==
    ASSUME NEW p \in CreatePayloads \cup UpdatePayloads
    PROVE  \A x \in DOMAIN p : \E row \in Appointments : p[x] = row[x]
BY CreatePayloadsAssumption, UpdatePayloadsAssumption

\* Rows with the same slot have the same conflicts.
LEMMA SameSlot ==
    ASSUME NEW a \in Appointments, NEW b \in Appointments, Slot(a) = Slot(b)
    PROVE  /\ a.technician = b.technician /\ a.bay = b.bay
           /\ a.start = b.start /\ a.end = b.end /\ a.buffer = b.buffer
<1>1. \A f \in SlotFields : a[f] = b[f]
  BY DEF Slot
<1> QED
  BY <1>1 DEF SlotFields, Appointments

LEMMA SameConflicts ==
    ASSUME NEW a \in Appointments, NEW b \in Appointments, Slot(a) = Slot(b)
    PROVE  /\ Open(a) <=> Open(b)
           /\ \A c \in Appointments : /\ Conflict(a, c) <=> Conflict(b, c)
                                      /\ Conflict(c, a) <=> Conflict(c, b)
BY SameSlot DEF Open, WithinHours, BlockConflict, Conflict, TechnicianConflict, BayConflict

\* Conflicts are mutual, and need a technician or a bay in common.
LEMMA ConflictSymmetric ==
    ASSUME NEW a \in Appointments, NEW b \in Appointments, Conflict(a, b)
    PROVE  /\ Conflict(b, a)
           /\ a.technician = b.technician \/ (a.bay = b.bay /\ a.bay # NoBay)
<1>1. /\ a.start \in Nat /\ a.end \in Nat /\ a.buffer \in Nat
      /\ b.start \in Nat /\ b.end \in Nat /\ b.buffer \in Nat /\ Pad \in Nat
  <2>1. /\ a.start \in Times /\ a.end \in Times /\ a.buffer \in 0 .. Pad
        /\ b.start \in Times /\ b.end \in Times /\ b.buffer \in 0 .. Pad
    BY DEF Appointments
  <2>2. Pad \in Nat /\ Times \subseteq Nat /\ 0 .. Pad \subseteq Nat
    BY TimesAssumption
  <2> QED
    BY <2>1, <2>2
<1>2. TechnicianConflict(a, b) => TechnicianConflict(b, a)
  BY <1>1 DEF TechnicianConflict
<1>3. BayConflict(a, b) => BayConflict(b, a)
  BY <1>1 DEF BayConflict
<1> QED
  BY <1>2, <1>3 DEF Conflict, TechnicianConflict, BayConflict

-----------------------------------------------------------------------------
(* The sessions                                                            *)

\* The slot a session wants is one of an appointment.
LEMMA WantType ==
    ASSUME TypeOK, NEW s \in Sessions, SessionSoundFor(s), req[s].pc # "idle",
           req[s].op # "cancel"
    PROVE  /\ Want(s) \in Appointments
           /\ req[s].op = "create" => Slot(Want(s)) = Slot(req[s].seen)
<1>1. req[s] \in Requests
  BY DEF TypeOK, Idle
<1>2. req[s].seen \in Appointments /\ req[s].payload \in CreatePayloads \cup UpdatePayloads
  BY <1>1, CreatePayloadsAssumption DEF SessionSoundFor, Requests
<1>3. /\ Want(s) \in Appointments
      /\ \A x \in SlotFields \cup {"status", "canceledAt"} :
            Want(s)[x] = IF x \in DOMAIN req[s].payload THEN req[s].payload[x]
                         ELSE req[s].seen[x]
  BY <1>2, PayloadFields, MergedType DEF Want
<1>4. req[s].op = "create" => Slot(Want(s)) = Slot(req[s].seen)
  BY <1>3 DEF SessionSoundFor, Slot
<1> QED
  BY <1>3, <1>4

LEMMA IdleIs == Idle.pc = "idle"
BY DEF Idle

\* A session moves on within its request.
LEMMA PointStep ==
    ASSUME IInv, NEW s \in Sessions, req[s].pc \in {"technician", "bay", "check"},
           NEW next \in {"bay", "check", "commit"}, req' = [req EXCEPT ![s].pc = next],
           NEW h \in SUBSET (Technicians \cup Bays), held' = [held EXCEPT ![s] = h],
           \A t \in Sessions \ {s} : h \cap held[t] = {},
           UNCHANGED <<appointments, unchecked>>,
           next = "bay" => h = {Want(s).technician} /\ Want(s).bay # NoBay,
           next # "bay" => /\ Want(s).technician \in h
                           /\ Want(s).bay # NoBay => Want(s).bay \in h,
           next = "commit" => Open(Want(s)) /\ Clear(Want(s), req[s].id)
    PROVE  IInv'
<1>1. /\ TypeOK /\ SessionSoundFor(s)
      /\ held \in [Sessions -> SUBSET (Technicians \cup Bays)]
      /\ req \in [Sessions -> Requests \cup {Idle}]
  BY DEF IInv, TypeOK, SessionSound
<1>2. req[s] \in Requests
  BY <1>1 DEF Idle
<1> DEFINE r == [req[s] EXCEPT !.pc = next]
<1>3. /\ r \in Requests /\ r.op = req[s].op /\ r.id = req[s].id
      /\ r.payload = req[s].payload /\ r.seen = req[s].seen /\ r.pc = next
  BY <1>2 DEF Requests
<1>4. req' = [req EXCEPT ![s] = r]
  OBVIOUS
<1> HIDE DEF r
<1>5. \A t \in Sessions : /\ held'[t] = IF t = s THEN h ELSE held[t]
                          /\ req'[t] = IF t = s THEN r ELSE req[t]
  BY <1>1, <1>4
<1>6. TypeOK'
  BY <1>1, <1>3, <1>4 DEF TypeOK
<1>7. Exclusive'
  BY <1>5 DEF IInv, Exclusive
<1>8. ASSUME NEW t \in Sessions PROVE SessionSoundFor(t)'
  <2>1. CASE t = s
    <3>1. Want(s)' = Want(s)
      BY <1>3, <1>5 DEF Want
    <3>2. held'[s] = h /\ req'[s] = r /\ r.op # "cancel"
      BY <1>1, <1>3, <1>5 DEF SessionSoundFor
    <3>3. /\ next = "commit" => h # {}
          /\ next = "commit" => Open(Want(s))' /\ Clear(Want(s), req[s].id)'
      BY <3>1 DEF Open, Clear, WithinHours, BlockConflict
    <3> QED
      BY <1>1, <1>3, <2>1, <3>1, <3>2, <3>3 DEF SessionSoundFor, HoldsSlot
  <2>2. CASE t # s
    <3>1. held'[t] = held[t] /\ req'[t] = req[t] /\ Want(t)' = Want(t)
      BY <1>5, <2>2 DEF Want
    <3>2. SessionSoundFor(t)
      BY DEF IInv, SessionSound
    <3>3. /\ HoldsSlot(t)' <=> HoldsSlot(t)
          /\ Open(Want(t))' <=> Open(Want(t))
          /\ Clear(Want(t), req[t].id)' <=> Clear(Want(t), req[t].id)
      BY <3>1 DEF HoldsSlot, Open, Clear
    <3> QED
      BY <3>1, <3>2, <3>3 DEF SessionSoundFor
  <2> QED
    BY <2>1, <2>2
<1> QED
  BY <1>6, <1>7, <1>8 DEF IInv, SessionSound, NoDoubleBooking, InOpenHours

\* A request is loaded.
LEMMA BeginStep ==
    ASSUME IInv, NEW s \in Sessions, NEW r \in Requests, req[s].pc = "idle",
           req' = [req EXCEPT ![s] = r], UNCHANGED <<appointments, held, unchecked>>,
           r.pc \in {"technician", "commit"},
           r.op = "create" => /\ r.pc = "technician" /\ r.id = 0
                              /\ r.payload \in CreatePayloads /\ r.payload = r.seen,
           r.op # "create" => r.id \in DOMAIN appointments,
           r.op \in {"update", "move"} => r.payload \in UpdatePayloads,
           r.op = "cancel" => r.pc = "commit"
    PROVE  IInv'
<1>1. TypeOK /\ SessionSoundFor(s)
  BY DEF IInv, SessionSound
<1>2. TypeOK'
  BY <1>1 DEF TypeOK
<1>3. \A t \in Sessions : req'[t] = IF t = s THEN r ELSE req[t]
  BY <1>1 DEF TypeOK
<1>4. ASSUME NEW t \in Sessions PROVE SessionSoundFor(t)'
  <2>1. CASE t = s
    BY <1>1, <1>3, <2>1 DEF SessionSoundFor
  <2>2. CASE t # s
    <3>1. req'[t] = req[t] /\ Want(t)' = Want(t) /\ SessionSoundFor(t)
      BY <1>3, <2>2 DEF Want, IInv, SessionSound
    <3> QED
      BY <3>1 DEF SessionSoundFor, HoldsSlot, Open, Clear
  <2> QED
    BY <2>1, <2>2
<1> QED
  BY <1>2, <1>4 DEF IInv, SessionSound, Exclusive, NoDoubleBooking, InOpenHours

\* A session ends; what it stored is not in the way of a slot another has checked.
LEMMA FinishStep ==
    ASSUME IInv, NEW s \in Sessions, Finish(s),
           DOMAIN appointments \subseteq DOMAIN appointments',
           \A t \in Sessions \ {s} :
              req[t].pc = "commit" /\ held[t] # {} => Clear(Want(t), req[t].id)'
    PROVE  /\ held' \in [Sessions -> SUBSET (Technicians \cup Bays)]
           /\ req' \in [Sessions -> Requests \cup {Idle}]
           /\ SessionSound' /\ Exclusive'
<1>1. /\ held \in [Sessions -> SUBSET (Technicians \cup Bays)]
      /\ req \in [Sessions -> Requests \cup {Idle}]
  BY DEF IInv, TypeOK
<1>2. /\ held' \in [Sessions -> SUBSET (Technicians \cup Bays)]
      /\ req' \in [Sessions -> Requests \cup {Idle}]
  BY <1>1 DEF Finish
<1>3. \A t \in Sessions : /\ held'[t] = IF t = s THEN {} ELSE held[t]
                          /\ req'[t] = IF t = s THEN Idle ELSE req[t]
  BY <1>1 DEF Finish
<1>4. Exclusive'
  BY <1>3 DEF IInv, Exclusive
<1>5. ASSUME NEW t \in Sessions PROVE SessionSoundFor(t)'
  <2>1. CASE t = s
    BY <1>3, <2>1, IdleIs DEF SessionSoundFor
  <2>2. CASE t # s
    <3>1. /\ held'[t] = held[t] /\ req'[t] = req[t] /\ Want(t)' = Want(t)
          /\ SessionSoundFor(t)
      BY <1>3, <2>2 DEF Want, IInv, SessionSound
    <3>2. req[t].pc = "commit" /\ held[t] # {} => Clear(Want(t), req[t].id)'
      BY <2>2
    <3> QED
      BY <3>1, <3>2 DEF SessionSoundFor, HoldsSlot, Open
  <2> QED
    BY <2>1, <2>2
<1> QED
  BY <1>2, <1>4, <1>5 DEF SessionSound

-----------------------------------------------------------------------------
(* The commits                                                             *)

\* A minute of the day is at least, or at most, another.
LEMMA MinuteIs ==
    ASSUME NEW t \in Nat, NEW m \in Nat
    PROVE  /\ m <= Minute(t) <=> t >= 60 * m
           /\ Minute(t) <= m <=> t < 60 * (m + 1)
BY DEF Minute

\* What InOpenHours says of an appointment.
LEMMA OpenIs ==
    ASSUME NEW row \in Appointments
    PROVE  Open(row) <=>
              /\ \A b \in Blocks : ~BlockConflict(row, b)
              /\ LET hours == WorkingHours[row.technician]
                 IN  hours # {} =>
                       \E w \in hours : row.start >= 60 * w[1] /\ row.end < 60 * (w[2] + 1)
<1>1. row.technician \in Technicians /\ row.start \in Nat /\ row.end \in Nat
  BY TimesAssumption DEF Appointments
<1>2. \A w \in WorkingHours[row.technician] : w[1] \in Nat /\ w[2] \in Nat
  BY <1>1, HoursAssumption
<1>3. \A w \in WorkingHours[row.technician] :
         /\ w[1] <= Minute(row.start) <=> row.start >= 60 * w[1]
         /\ Minute(row.end) <= w[2] <=> row.end < 60 * (w[2] + 1)
  BY <1>1, <1>2, MinuteIs
<1> QED
  BY <1>3 DEF Open, WithinHours

\* A session stores row new as appointment i: the slot it has checked, or the one
\* that was there already, or a slot that counts as unchecked.
LEMMA StoreStep ==
    ASSUME IInv, NEW s \in Sessions, Finish(s), NEW i \in Nat, NEW new \in Appointments,
           new.start < new.end,
           appointments' \in Seq(Appointments),
           DOMAIN appointments' = DOMAIN appointments \cup {i}, appointments'[i] = new,
           \A j \in DOMAIN appointments \ {i} : appointments'[j] = appointments[j],
           unchecked' \cup {i} = unchecked \cup {i}, unchecked' \subseteq DOMAIN appointments',
           i \notin unchecked' /\ Active(new) =>
              \/ /\ req[s].pc = "commit" /\ held[s] # {} /\ req[s].op # "cancel"
                 /\ Slot(new) = Slot(Want(s))
                 /\ req[s].id \notin DOMAIN appointments \ {i}
              \/ /\ i \in DOMAIN appointments \ unchecked
                 /\ Active(appointments[i]) /\ Slot(new) = Slot(appointments[i])
    PROVE  IInv'
<1>1. /\ TypeOK /\ SessionSoundFor(s)
      /\ \A j \in DOMAIN appointments : appointments[j] \in Appointments
  BY DEF IInv, TypeOK, SessionSound
<1>2. ASSUME i \notin unchecked', Active(new)
      PROVE  /\ Open(new)
             /\ \A j \in DOMAIN appointments \ (unchecked \cup {i}) :
                   Active(appointments[j]) => ~Conflict(new, appointments[j])
  <2>1. CASE /\ req[s].pc = "commit" /\ held[s] # {} /\ req[s].op # "cancel"
             /\ Slot(new) = Slot(Want(s))
             /\ req[s].id \notin DOMAIN appointments \ {i}
    <3>1. /\ Want(s) \in Appointments
          /\ Open(Want(s)) /\ Clear(Want(s), req[s].id)
      BY <1>1, <2>1, WantType DEF SessionSoundFor
    <3> QED
      BY <1>1, <2>1, <3>1, SameConflicts DEF Clear
  <2>2. CASE /\ i \in DOMAIN appointments \ unchecked
             /\ Active(appointments[i]) /\ Slot(new) = Slot(appointments[i])
    <3>1. Open(appointments[i])
      BY <1>1, <2>2, OpenIs DEF IInv, InOpenHours
    <3>2. \A j \in DOMAIN appointments \ (unchecked \cup {i}) :
             Active(appointments[j]) => ~Conflict(appointments[i], appointments[j])
      BY <2>2 DEF IInv, NoDoubleBooking
    <3> QED
      BY <1>1, <2>2, <3>1, <3>2, SameConflicts
  <2> QED
    BY <1>2, <2>1, <2>2
<1>3. ASSUME NEW t \in Sessions \ {s}, req[t].pc = "commit", held[t] # {},
             i \notin unchecked', Active(new), req[t].id # i
      PROVE  ~Conflict(Want(t), new)
  <2>1. /\ Want(t) \in Appointments /\ HoldsSlot(t) /\ Clear(Want(t), req[t].id)
    <3>1. SessionSoundFor(t)
      BY DEF IInv, SessionSound
    <3>2. req[t].op # "cancel"
      BY <1>3, <3>1 DEF SessionSoundFor
    <3> QED
      BY <1>1, <1>3, <3>1, <3>2, WantType DEF SessionSoundFor
  <2>2. CASE /\ req[s].pc = "commit" /\ held[s] # {} /\ req[s].op # "cancel"
             /\ Slot(new) = Slot(Want(s))
    <3>1. Want(s) \in Appointments /\ HoldsSlot(s)
      BY <1>1, <2>2, WantType DEF SessionSoundFor
    <3>2. held[s] \cap held[t] = {}
      BY DEF IInv, Exclusive
    <3>3. ~Conflict(Want(t), Want(s))
      BY <2>1, <3>1, <3>2, ConflictSymmetric DEF HoldsSlot
    <3> QED
      BY <2>1, <2>2, <3>1, <3>3, SameConflicts
  <2>3. CASE /\ i \in DOMAIN appointments \ unchecked
             /\ Active(appointments[i]) /\ Slot(new) = Slot(appointments[i])
    <3>1. ~Conflict(Want(t), appointments[i])
      BY <1>3, <2>1, <2>3 DEF Clear
    <3> QED
      BY <1>1, <2>1, <2>3, <3>1, SameConflicts
  <2> QED
    BY <1>3, <2>2, <2>3
<1>4. ASSUME NEW t \in Sessions \ {s}, req[t].pc = "commit", held[t] # {}
      PROVE  Clear(Want(t), req[t].id)'
  <2>1. Clear(Want(t), req[t].id)
    BY <1>4 DEF IInv, SessionSound, SessionSoundFor
  <2>2. Want(t)' = Want(t) /\ req'[t] = req[t]
    BY <1>1 DEF Want, Finish, TypeOK
  <2>3. ASSUME NEW j \in DOMAIN appointments' \ (unchecked' \cup {req[t].id}),
               Active(appointments'[j])
        PROVE  ~Conflict(Want(t), appointments'[j])
    <3>1. CASE j = i
      BY <1>3, <1>4, <2>3, <3>1
    <3>2. CASE j # i
      BY <2>1, <2>3, <3>2 DEF Clear
    <3> QED
      BY <3>1, <3>2
  <2> QED
    BY <2>2, <2>3 DEF Clear, Active, Conflict, TechnicianConflict, BayConflict
<1>5. NoDoubleBooking'
  <2> SUFFICES ASSUME NEW j \in DOMAIN appointments' \ unchecked',
                      NEW k \in DOMAIN appointments' \ unchecked',
                      j # k, Active(appointments'[j]), Active(appointments'[k])
               PROVE  ~Conflict(appointments'[j], appointments'[k])
    BY DEF NoDoubleBooking, Active, Conflict, TechnicianConflict, BayConflict
  <2>1. CASE j = i
    BY <1>2, <2>1
  <2>2. CASE k = i
    <3>1. ~Conflict(new, appointments[j]) /\ appointments'[j] = appointments[j]
      BY <1>2, <2>2
    <3> QED
      BY <1>1, <2>2, <3>1, ConflictSymmetric
  <2>3. CASE j # i /\ k # i
    BY <2>3 DEF IInv, NoDoubleBooking
  <2> QED
    BY <2>1, <2>2, <2>3
<1>6. InOpenHours'
  <2> SUFFICES ASSUME NEW j \in DOMAIN appointments' \ unchecked', Active(appointments'[j])
               PROVE  Open(appointments'[j])
    <3>1. \A j \in DOMAIN appointments' : appointments'[j] \in Appointments
      OBVIOUS
    <3> QED
      BY <3>1, OpenIs DEF InOpenHours, Active, BlockConflict
  <2>1. CASE j = i
    BY <1>2, <2>1
  <2>2. CASE j # i
    <3>1. /\ j \in DOMAIN appointments \ unchecked
          /\ appointments'[j] = appointments[j]
      BY <2>2
    <3> QED
      BY <1>1, <3>1, OpenIs DEF IInv, InOpenHours
  <2> QED
    BY <2>1, <2>2
<1>7. /\ held' \in [Sessions -> SUBSET (Technicians \cup Bays)]
      /\ req' \in [Sessions -> Requests \cup {Idle}]
      /\ SessionSound' /\ Exclusive'
  BY <1>4, FinishStep
<1>8. \A j \in DOMAIN appointments' : appointments'[j].start < appointments'[j].end
  BY <1>1 DEF TypeOK
<1> QED
  BY <1>5, <1>6, <1>7, <1>8 DEF IInv, TypeOK

LEMMA CreateCommitStep ==
    ASSUME IInv, NEW s \in Sessions, CreateCommit(s)
    PROVE  IInv'
<1> DEFINE i == Len(appointments) + 1
           new == req[s].seen
<1>1. /\ TypeOK /\ SessionSoundFor(s) /\ appointments \in Seq(Appointments)
      /\ req[s].pc = "commit" /\ req[s].op = "create"
      /\ appointments' = Append(appointments, new)
      /\ unchecked' = unchecked /\ Finish(s)
  BY DEF IInv, TypeOK, SessionSound, CreateCommit
<1>2. new \in CreatePayloads /\ new \in Appointments /\ new.start < new.end
  BY <1>1, CreatePayloadsAssumption DEF SessionSoundFor
<1>3. req[s].id = 0 /\ held[s] # {} /\ Slot(new) = Slot(Want(s))
  BY <1>1, WantType DEF SessionSoundFor
<1> HIDE DEF new
<1>4. /\ appointments' \in Seq(Appointments) /\ i \in Nat
      /\ DOMAIN appointments' = DOMAIN appointments \cup {i}
      /\ appointments'[i] = new
      /\ \A j \in DOMAIN appointments \ {i} : appointments'[j] = appointments[j]
  BY <1>1, <1>2, AppendProperties
<1>5. unchecked' \subseteq DOMAIN appointments' /\ 0 \notin DOMAIN appointments
  BY <1>1, <1>4 DEF TypeOK
<1> HIDE DEF i
<1> QED
  BY <1>1, <1>2, <1>3, <1>4, <1>5, StoreStep

\* What an update or a move writes is an appointment.
LEMMA WrittenType ==
    ASSUME TypeOK, NEW s \in Sessions, SessionSoundFor(s), req[s].pc # "idle",
           req[s].op \in {"update", "move"}
    PROVE  Written(s) \in Appointments
<1> DEFINE payload == req[s].payload
           changed == {f \in DOMAIN payload : payload[f] # req[s].seen[f]}
           part    == [f \in changed |-> payload[f]]
<1>1. payload \in UpdatePayloads /\ appointments[req[s].id] \in Appointments
  BY DEF SessionSoundFor, TypeOK
<1>2. \A x \in DOMAIN payload : \E row \in Appointments : payload[x] = row[x]
  BY <1>1, PayloadFields
<1>3. \A x \in DOMAIN part : \E row \in Appointments : part[x] = row[x]
  BY <1>2
<1>4. Written(s) = Merged(part, appointments[req[s].id])
  BY DEF Written
<1> HIDE DEF part
<1> QED
  BY <1>1, <1>3, <1>4, MergedType

LEMMA UpdateCommitStep ==
    ASSUME IInv, NEW s \in Sessions, UpdateCommit(s)
    PROVE  IInv'
<1> DEFINE i == req[s].id
           new == Written(s)
<1>1. /\ TypeOK /\ SessionSoundFor(s) /\ appointments \in Seq(Appointments)
      /\ req[s].pc = "commit" /\ req[s].op \in {"update", "move"}
      /\ appointments' = [appointments EXCEPT ![i] = new]
      /\ unchecked' = IF Justified(s) THEN unchecked \ {i} ELSE unchecked \cup {i}
      /\ new.start < new.end
      /\ Finish(s)
  BY DEF IInv, TypeOK, SessionSound, UpdateCommit
<1>2. i \in DOMAIN appointments /\ i \in 1 .. Len(appointments) /\ i \in Nat
  BY <1>1 DEF SessionSoundFor
<1>3. new \in Appointments
  BY <1>1, WrittenType
<1>4. i \notin unchecked' =>
         \/ held[s] # {} /\ Slot(new) = Slot(Want(s))
         \/ /\ Active(appointments[i]) /\ Slot(new) = Slot(appointments[i])
            /\ i \notin unchecked
  BY <1>1 DEF Justified
<1> HIDE DEF new
<1>5. /\ appointments' \in Seq(Appointments)
      /\ DOMAIN appointments' = DOMAIN appointments \cup {i}
      /\ appointments'[i] = new
      /\ \A j \in DOMAIN appointments \ {i} : appointments'[j] = appointments[j]
  BY <1>1, <1>2, <1>3, ExceptSeq
<1>6. unchecked' \cup {i} = unchecked \cup {i} /\ unchecked' \subseteq DOMAIN appointments'
  BY <1>1, <1>2, <1>5 DEF TypeOK
<1> HIDE DEF i
<1> QED
  BY <1>1, <1>2, <1>3, <1>4, <1>5, <1>6, StoreStep DEF i

LEMMA CancelCommitStep ==
    ASSUME IInv, NEW s \in Sessions, CancelCommit(s)
    PROVE  IInv'
<1> DEFINE i == req[s].id
           new == [appointments[i] EXCEPT !.status = "canceled", !.canceledAt = TRUE]
<1>1. /\ TypeOK /\ SessionSoundFor(s) /\ appointments \in Seq(Appointments)
      /\ req[s].pc = "commit" /\ req[s].op = "cancel"
      /\ unchecked' = unchecked /\ Finish(s)
  BY DEF IInv, TypeOK, SessionSound, CancelCommit
<1>2. /\ i \in DOMAIN appointments /\ i \in 1 .. Len(appointments) /\ i \in Nat
      /\ appointments[i] \in Appointments /\ appointments[i].start < appointments[i].end
  BY <1>1 DEF SessionSoundFor, TypeOK
<1>3. /\ new \in Appointments /\ new.start < new.end /\ ~Active(new)
  BY <1>2 DEF Appointments, Statuses, Active, ActiveStatuses
<1>4. appointments' = [appointments EXCEPT ![i] = new]
  BY <1>1, <1>2 DEF CancelCommit
<1> HIDE DEF new, i
<1>5. /\ appointments' \in Seq(Appointments)
      /\ DOMAIN appointments' = DOMAIN appointments \cup {i}
      /\ appointments'[i] = new
      /\ \A j \in DOMAIN appointments \ {i} : appointments'[j] = appointments[j]
  <2>1. /\ [appointments EXCEPT ![i] = new] \in Seq(Appointments)
        /\ Len([appointments EXCEPT ![i] = new]) = Len(appointments)
        /\ \A j \in 1 .. Len(appointments) :
              [appointments EXCEPT ![i] = new][j] = IF j = i THEN new ELSE appointments[j]
    BY <1>1, <1>2, <1>3, ExceptSeq
  <2> QED
    BY <1>1, <1>2, <1>4, <2>1
<1>6. unchecked' \subseteq DOMAIN appointments'
  BY <1>1, <1>5 DEF TypeOK
<1> QED
  BY <1>1, <1>2, <1>3, <1>5, <1>6, StoreStep

-----------------------------------------------------------------------------
(* The invariant                                                           *)

LEMMA InitIInv == Init => IInv
<1> SUFFICES ASSUME Init PROVE IInv
  OBVIOUS
<1>1. TypeOK
  <2>1. appointments \in Seq(Appointments) /\ DOMAIN appointments = {}
    BY DEF Init
  <2> QED
    BY <2>1 DEF Init, TypeOK
<1>2. SessionSound
  BY IdleIs DEF Init, SessionSound, SessionSoundFor
<1> QED
  BY <1>1, <1>2 DEF Init, IInv, NoDoubleBooking, InOpenHours, Exclusive

\* Locking a technician or a bay that is free.
LEMMA LockStep ==
    ASSUME IInv, NEW s \in Sessions, LockTechnician(s) \/ LockBay(s)
    PROVE  IInv'
<1>1. /\ TypeOK /\ SessionSoundFor(s) /\ req[s].pc \in {"technician", "bay"}
      /\ UNCHANGED <<appointments, unchecked>>
  BY DEF IInv, SessionSound, LockTechnician, LockBay
<1>2. /\ Want(s) \in Appointments
  BY <1>1, WantType DEF SessionSoundFor
<1>3. CASE LockTechnician(s)
  <2> DEFINE next == IF Want(s).bay = NoBay THEN "check" ELSE "bay"
             h    == {Want(s).technician}
  <2>1. held[s] = {} /\ \A t \in Sessions : h \cap held[t] = {}
    BY <1>1, <1>3 DEF LockTechnician, LockRow, Free, SessionSoundFor
  <2>2. req' = [req EXCEPT ![s].pc = next] /\ held' = [held EXCEPT ![s] = h]
    BY <1>1, <1>3, <2>1 DEF LockTechnician, LockRow, TypeOK
  <2>3. h \in SUBSET (Technicians \cup Bays)
    BY <1>2 DEF Appointments
  <2> QED
    BY <1>1, <2>1, <2>2, <2>3, PointStep
<1>4. CASE LockBay(s)
  <2> DEFINE h == {Want(s).technician, Want(s).bay}
  <2>1. held[s] = {Want(s).technician} /\ \A t \in Sessions : Want(s).bay \notin held[t]
    BY <1>1, <1>4 DEF LockBay, LockRow, Free, SessionSoundFor
  <2>2. \A t \in Sessions \ {s} : h \cap held[t] = {}
    BY <2>1 DEF IInv, Exclusive
  <2>3. req' = [req EXCEPT ![s].pc = "check"] /\ held' = [held EXCEPT ![s] = h]
    BY <1>1, <1>4, <2>1 DEF LockBay, LockRow, TypeOK
  <2>4. h \in SUBSET (Technicians \cup Bays)
    BY <1>1, <1>2, <1>4 DEF LockBay, SessionSoundFor, Appointments
  <2> HIDE DEF h
  <2> QED
    BY <1>1, <2>2, <2>3, <2>4, PointStep DEF h
<1> QED
  BY <1>3, <1>4

\* The check compares with every appointment stored by then.
LEMMA CheckStep ==
    ASSUME IInv, NEW s \in Sessions, Check(s)
    PROVE  IInv'
<1>1. /\ TypeOK /\ SessionSoundFor(s) /\ req[s].pc = "check"
      /\ SlotFree(Want(s), req[s].id)
      /\ req' = [req EXCEPT ![s].pc = "commit"]
      /\ UNCHANGED <<appointments, held, unchecked>>
  BY DEF IInv, SessionSound, Check
<1>2. HoldsSlot(s) /\ held[s] \in SUBSET (Technicians \cup Bays)
  BY <1>1 DEF SessionSoundFor, TypeOK
<1>3. Open(Want(s)) /\ Clear(Want(s), req[s].id)
  BY <1>1 DEF SlotFree, Open, Clear
<1> DEFINE h    == held[s]
           next == "commit"
<1>4. /\ req' = [req EXCEPT ![s].pc = next]
      /\ held' = [held EXCEPT ![s] = h]
  BY <1>1 DEF TypeOK
<1>5. \A t \in Sessions \ {s} : h \cap held[t] = {}
  BY DEF IInv, Exclusive
<1>6. /\ Want(s).technician \in h
      /\ Want(s).bay # NoBay => Want(s).bay \in h
      /\ h \in SUBSET (Technicians \cup Bays)
  BY <1>2 DEF HoldsSlot
<1>7. next \in {"bay", "check", "commit"} /\ next # "bay"
  OBVIOUS
<1>8. req[s].pc \in {"technician", "bay", "check"} /\ UNCHANGED <<appointments, unchecked>>
  BY <1>1
<1> HIDE DEF next, h
<1> QED
  BY <1>3, <1>4, <1>5, <1>6, <1>7, <1>8, PointStep

\* A load begins a request; only the slot of an update that changes it is locked.
LEMMA LoadStep ==
    ASSUME IInv, NEW s \in Sessions,
           CreateLoad(s) \/ UpdateLoad(s) \/ MoveLoad(s) \/ CancelLoad(s)
    PROVE  IInv'
<1> DEFINE request(op, pc, id, payload, seen) ==
              [op |-> op, pc |-> pc, id |-> id, payload |-> payload, seen |-> seen]
<1>1. TypeOK /\ \A i \in DOMAIN appointments : i \in Nat /\ appointments[i] \in Appointments
  BY DEF IInv, TypeOK
<1>2. CASE CreateLoad(s)
  <2>1. PICK p \in CreatePayloads : Begin(s, "create", "technician", 0, p, p)
    BY <1>2 DEF CreateLoad
  <2> DEFINE r == request("create", "technician", 0, p, p)
  <2>2. r \in Requests
    BY CreatePayloadsAssumption DEF Requests
  <2> QED
    BY <2>1, <2>2, BeginStep DEF Begin
<1>3. CASE UpdateLoad(s)
  <2>1. PICK i \in DOMAIN appointments, p \in UpdatePayloads, pc \in {"technician", "commit"} :
           Begin(s, "update", pc, i, p, appointments[i])
    BY <1>3 DEF UpdateLoad
  <2> DEFINE r == request("update", pc, i, p, appointments[i])
  <2>2. r \in Requests
    BY <1>1 DEF Requests
  <2> QED
    BY <2>1, <2>2, BeginStep DEF Begin
<1>4. CASE MoveLoad(s)
  <2>1. PICK i \in DOMAIN appointments, p \in UpdatePayloads :
           Begin(s, "move", "technician", i, p, appointments[i])
    BY <1>4 DEF MoveLoad
  <2> DEFINE r == request("move", "technician", i, p, appointments[i])
  <2>2. r \in Requests
    BY <1>1 DEF Requests
  <2> QED
    BY <2>1, <2>2, BeginStep DEF Begin
<1>5. CASE CancelLoad(s)
  <2>1. PICK i \in DOMAIN appointments :
           Begin(s, "cancel", "commit", i, [status |-> "canceled"], appointments[i])
    BY <1>5 DEF CancelLoad
  <2> DEFINE r == request("cancel", "commit", i, [status |-> "canceled"], appointments[i])
  <2>2. r \in Requests
    BY <1>1 DEF Requests
  <2> QED
    BY <2>1, <2>2, BeginStep DEF Begin
<1> QED
  BY <1>2, <1>3, <1>4, <1>5

\* Every step keeps the invariant.
LEMMA NextIInv == IInv /\ [Next]_vars => IInv'
<1> SUFFICES ASSUME IInv, [Next]_vars PROVE IInv'
  OBVIOUS
<1>1. ASSUME NEW s \in Sessions, Refuse(s) \/ Abort(s) PROVE IInv'
  <2>1. Finish(s) /\ UNCHANGED <<appointments, unchecked>>
    BY <1>1 DEF Refuse, Abort
  <2>2. ASSUME NEW t \in Sessions \ {s}, req[t].pc = "commit", held[t] # {}
        PROVE  Clear(Want(t), req[t].id)'
    <3>1. Clear(Want(t), req[t].id)
      BY <2>2 DEF IInv, SessionSound, SessionSoundFor
    <3>2. req'[t] = req[t] /\ Want(t)' = Want(t)
      BY <2>1 DEF Finish, IInv, TypeOK, Want
    <3> QED
      BY <2>1, <3>1, <3>2 DEF Clear
  <2>3. /\ held' \in [Sessions -> SUBSET (Technicians \cup Bays)]
        /\ req' \in [Sessions -> Requests \cup {Idle}]
        /\ SessionSound' /\ Exclusive'
    BY <2>1, <2>2, FinishStep
  <2> QED
    BY <2>1, <2>3 DEF IInv, TypeOK, NoDoubleBooking, InOpenHours
<1>2. CASE UNCHANGED vars
  <2>1. UNCHANGED <<appointments, held, req, unchecked>>
    BY <1>2 DEF vars
  <2>2. SessionSound'
    <3> SUFFICES ASSUME NEW t \in Sessions PROVE SessionSoundFor(t)'
      BY DEF SessionSound
    <3>1. SessionSoundFor(t) /\ Want(t)' = Want(t)
      BY <2>1 DEF IInv, SessionSound, Want
    <3>2. /\ HoldsSlot(t)' <=> HoldsSlot(t)
          /\ Open(Want(t))' <=> Open(Want(t))
          /\ Clear(Want(t), req[t].id)' <=> Clear(Want(t), req[t].id)
      BY <2>1, <3>1 DEF HoldsSlot, Open, Clear
    <3> QED
      BY <2>1, <3>1, <3>2 DEF SessionSoundFor
  <2> QED
    BY <2>1, <2>2 DEF IInv, TypeOK, NoDoubleBooking, InOpenHours, Exclusive
<1> QED
  BY <1>1, <1>2, LoadStep, LockStep, CheckStep, CreateCommitStep, UpdateCommitStep,
     CancelCommitStep DEF Next

-----------------------------------------------------------------------------
\* The columns, the locks and the loaded copies keep their types, and no
\* appointment ends before it starts, although updates merge stale copies.
THEOREM TypeCorrect == Spec => []TypeOK
<1>1. IInv => TypeOK
  BY DEF IInv
<1> QED
  BY <1>1, InitIInv, NextIInv, PTL DEF Spec

\* Two active appointments never share a technician or a bay, however many
\* requests race, unless one sits in a slot that was stored without a check.
THEOREM NoDoubleBookingTheorem == Spec => []NoDoubleBooking
<1>1. IInv => NoDoubleBooking
  BY DEF IInv
<1> QED
  BY <1>1, InitIInv, NextIInv, PTL DEF Spec

\* Such an appointment is outside the blocks, and within the working hours to
\* the minute: it may end up to 59 seconds past closing.
THEOREM InOpenHoursTheorem == Spec => []InOpenHours
<1>1. IInv => InOpenHours
  BY DEF IInv
<1> QED
  BY <1>1, InitIInv, NextIInv, PTL DEF Spec

-----------------------------------------------------------------------------
(* Final appointments                                                      *)

\* What the loads saw of an appointment that is updated, moved or canceled.
SawOpen(r) ==
    r.pc # "idle" => /\ r.op # "create" => r.seen.status # "canceled"
                     /\ r.op = "cancel" => r.seen.status # "completed"

SeenInv == \A s \in Sessions : SawOpen(req[s])

\* A session that ends, loads or goes on keeps what it saw.
LEMMA SeenStep ==
    ASSUME SeenInv, NEW s \in Sessions,
           \/ req'[s] = Idle
           \/ SawOpen(req'[s])
           \/ /\ req'[s].op = req[s].op /\ req'[s].seen = req[s].seen
              /\ req[s].pc # "idle",
           \A t \in Sessions \ {s} : req'[t] = req[t]
    PROVE  SeenInv'
<1>1. SawOpen(req[s])
  BY DEF SeenInv
<1>2. SawOpen(req'[s])
  BY <1>1, IdleIs DEF SawOpen
<1> QED
  BY <1>2 DEF SeenInv

LEMMA SeenNext == IInv /\ SeenInv /\ [Next]_vars => SeenInv'
<1> SUFFICES ASSUME IInv, SeenInv, [Next]_vars PROVE SeenInv'
  OBVIOUS
<1>1. req \in [Sessions -> Requests \cup {Idle}] /\ appointments \in Seq(Appointments)
  BY DEF IInv, TypeOK
<1>2. ASSUME NEW s \in Sessions, NEW r, req' = [req EXCEPT ![s] = r], SawOpen(r)
      PROVE  SeenInv'
  <2>1. req'[s] = r /\ \A t \in Sessions \ {s} : req'[t] = req[t]
    BY <1>1, <1>2
  <2> QED
    BY <1>2, <2>1, SeenStep
<1>3. ASSUME NEW s \in Sessions, CreateLoad(s) PROVE SeenInv'
  <2>1. PICK p \in CreatePayloads : Begin(s, "create", "technician", 0, p, p)
    BY <1>3 DEF CreateLoad
  <2> DEFINE r == [op |-> "create", pc |-> "technician", id |-> 0, payload |-> p, seen |-> p]
  <2>2. SawOpen(r)
    BY DEF SawOpen
  <2> QED
    BY <1>2, <2>1, <2>2 DEF Begin
<1>4. ASSUME NEW s \in Sessions, UpdateLoad(s) \/ MoveLoad(s) PROVE SeenInv'
  <2>1. PICK i \in DOMAIN appointments, p \in UpdatePayloads,
             pc \in {"technician", "commit"}, op \in {"update", "move"} :
           Begin(s, op, pc, i, p, appointments[i]) /\ appointments[i].status # "canceled"
    BY <1>4 DEF UpdateLoad, MoveLoad
  <2> DEFINE r == [op |-> op, pc |-> pc, id |-> i, payload |-> p, seen |-> appointments[i]]
  <2>2. SawOpen(r)
    BY <2>1 DEF SawOpen
  <2> QED
    BY <1>2, <2>1, <2>2 DEF Begin
<1>5. ASSUME NEW s \in Sessions, CancelLoad(s) PROVE SeenInv'
  <2>1. PICK i \in DOMAIN appointments :
           /\ Begin(s, "cancel", "commit", i, [status |-> "canceled"], appointments[i])
           /\ appointments[i].status \notin {"canceled", "completed"}
    BY <1>5 DEF CancelLoad
  <2> DEFINE r == [op |-> "cancel", pc |-> "commit", id |-> i,
                   payload |-> [status |-> "canceled"], seen |-> appointments[i]]
  <2>2. SawOpen(r)
    BY <2>1 DEF SawOpen
  <2> QED
    BY <1>2, <2>1, <2>2 DEF Begin
<1>6. ASSUME NEW s \in Sessions, LockTechnician(s) \/ LockBay(s) \/ Check(s) PROVE SeenInv'
  <2>1. PICK pc \in {"bay", "check", "commit"} : req' = [req EXCEPT ![s].pc = pc]
    BY <1>6 DEF LockTechnician, LockBay, LockRow, Check
  <2>2. req[s].pc # "idle" /\ req[s] \in Requests
    BY <1>1, <1>6, IdleIs DEF LockTechnician, LockBay, Check
  <2>3. /\ req'[s].op = req[s].op /\ req'[s].seen = req[s].seen
        /\ \A t \in Sessions \ {s} : req'[t] = req[t]
    BY <1>1, <2>1, <2>2 DEF Requests
  <2> QED
    BY <2>2, <2>3, SeenStep
<1>7. ASSUME NEW s \in Sessions, Finish(s) PROVE SeenInv'
  <2>1. req'[s] = Idle /\ \A t \in Sessions \ {s} : req'[t] = req[t]
    BY <1>1, <1>7 DEF Finish
  <2> QED
    BY <2>1, SeenStep
<1>8. CASE UNCHANGED vars
  BY <1>8 DEF vars, SeenInv
<1> QED
  BY <1>3, <1>4, <1>5, <1>6, <1>7, <1>8
     DEF Next, Refuse, Abort, CreateCommit, UpdateCommit, CancelCommit

\* A step that edits a canceled appointment, or cancels a completed one, ends a
\* request that saw it otherwise.
LEMMA FinalStep ==
    ASSUME IInv, SeenInv, [Next]_vars, NEW i \in DOMAIN appointments,
           \/ appointments[i].status = "canceled" /\ appointments'[i] # appointments[i]
           \/ appointments[i].status = "completed" /\ appointments'[i].status = "canceled"
    PROVE  \E s \in Sessions : /\ req[s].pc = "commit" /\ req[s].id = i
                               /\ req[s].seen.status # appointments[i].status
                               /\ req'[s] = Idle
<1>1. /\ req \in [Sessions -> Requests \cup {Idle}] /\ appointments \in Seq(Appointments)
      /\ SessionSound
  BY DEF IInv, TypeOK
<1>2. i \in 1 .. Len(appointments) /\ appointments[i] \in Appointments
  BY <1>1
<1>3. appointments'[i] # appointments[i]
  OBVIOUS
<1>4. ASSUME NEW s \in Sessions, CreateCommit(s) PROVE FALSE
  <2>1. appointments' = Append(appointments, req[s].seen)
    BY <1>4 DEF CreateCommit
  <2> QED
    BY <1>1, <1>2, <1>3, <2>1
<1>5. ASSUME NEW s \in Sessions, UpdateCommit(s)
      PROVE  /\ req[s].pc = "commit" /\ req[s].id = i
             /\ req[s].seen.status # appointments[i].status
             /\ req'[s] = Idle
  <2>1. /\ req[s].pc = "commit" /\ req[s].op \in {"update", "move"}
        /\ appointments' = [appointments EXCEPT ![req[s].id] = Written(s)]
        /\ Finish(s)
    BY <1>5 DEF UpdateCommit
  <2>2. req[s].id = i /\ appointments'[i] = Written(s)
    BY <1>1, <1>2, <1>3, <2>1
  <2>3. req[s].seen.status # "canceled"
    BY <2>1 DEF SeenInv, SawOpen
  <2>4. req'[s] = Idle
    BY <1>1, <2>1 DEF Finish
  <2>5. appointments[i].status # "completed"
    <3> SUFFICES ASSUME appointments[i].status = "completed" PROVE FALSE
      OBVIOUS
    <3> DEFINE payload == req[s].payload
               changed == {f \in DOMAIN payload : payload[f] # req[s].seen[f]}
               part    == [f \in changed |-> payload[f]]
    <3>1. payload \in UpdatePayloads
      BY <1>1, <2>1 DEF SessionSound, SessionSoundFor
    <3>2. "status" \in DOMAIN payload => payload["status"] # "canceled"
      BY <3>1, UpdatePayloadsAssumption
    <3>3. Written(s) = Merged(part, appointments[i])
      BY <2>2 DEF Written
    <3>4. "status" \in DOMAIN appointments[i]
      BY <1>2 DEF Appointments
    <3>5. Written(s).status = IF "status" \in DOMAIN part THEN part["status"]
                              ELSE appointments[i].status
      <4> HIDE DEF part
      <4> QED BY <3>3, <3>4 DEF Merged
    <3>6. "status" \in DOMAIN part => part["status"] # "canceled"
      BY <3>2
    <3> HIDE DEF part
    <3> QED
      BY <2>2, <3>5, <3>6
  <2> QED
    BY <2>1, <2>2, <2>3, <2>4, <2>5
<1>6. ASSUME NEW s \in Sessions, CancelCommit(s)
      PROVE  /\ req[s].pc = "commit" /\ req[s].id = i
             /\ req[s].seen.status # appointments[i].status
             /\ req'[s] = Idle
  <2>1. /\ req[s].pc = "commit" /\ req[s].op = "cancel" /\ Finish(s)
        /\ \A j \in DOMAIN appointments : j # req[s].id => appointments'[j] = appointments[j]
    BY <1>1, <1>6 DEF CancelCommit
  <2>2. req[s].id = i
    BY <1>3, <2>1
  <2>3. req[s].seen.status \notin {"canceled", "completed"}
    BY <2>1 DEF SeenInv, SawOpen
  <2>4. req'[s] = Idle
    BY <1>1, <2>1 DEF Finish
  <2> QED
    BY <2>1, <2>2, <2>3, <2>4
<1>7. ASSUME NEW s \in Sessions,
             \/ CreateLoad(s) \/ UpdateLoad(s) \/ MoveLoad(s) \/ CancelLoad(s)
             \/ LockTechnician(s) \/ LockBay(s) \/ Check(s) \/ Refuse(s) \/ Abort(s)
      PROVE  FALSE
  BY <1>3, <1>7 DEF CreateLoad, UpdateLoad, MoveLoad, CancelLoad, Begin, LockTechnician,
                    LockBay, Check, Refuse, Abort
<1>8. CASE UNCHANGED vars
  BY <1>3, <1>8 DEF vars
<1> QED
  BY <1>4, <1>5, <1>6, <1>7, <1>8 DEF Next

\* A canceled appointment is not edited and a completed one is not canceled,
\* unless by a request that had loaded it before it was.
THEOREM FinalOnceSeenTheorem == Spec => FinalOnceSeen
<1>1. Init => SeenInv
  BY IdleIs DEF Init, SeenInv, SawOpen
<1>2. IInv /\ SeenInv /\ [Next]_vars =>
         [\A i \in DOMAIN appointments :
             LET old == appointments[i]
                 new == appointments'[i]
                 edited == old.status = "canceled" /\ new # old
                 undone == old.status = "completed" /\ new.status = "canceled"
             IN  edited \/ undone =>
                    \E s \in Sessions : /\ req[s].pc = "commit" /\ req[s].id = i
                                        /\ req[s].seen.status # old.status
                                        /\ req'[s] = Idle]_vars
  BY FinalStep
<1> QED
  BY <1>1, <1>2, InitIInv, NextIInv, SeenNext, PTL DEF Spec, FinalOnceSeen
=============================================================================
