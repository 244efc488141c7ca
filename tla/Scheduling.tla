----------------------------- MODULE Scheduling -----------------------------
(***************************************************************************)
(* The appointments of a shop (app/scheduling_store.py): concurrent        *)
(* requests create, update, move and cancel them.                          *)
(*                                                                         *)
(* A request that changes a slot locks the technician and then the bay,    *)
(* compares the slot with the appointments stored by then, and commits.    *)
(* What it compares and writes is its payload merged with the appointment  *)
(* as it was loaded before the locks, and the commit writes only what      *)
(* differs from that copy.                                                 *)
(*                                                                         *)
(* Times and buffers are seconds of one local day, the windows of working  *)
(* hours its minutes.  Customer, vehicle, work order and notes are left    *)
(* out; working hours and schedule blocks are fixed.                       *)
(***************************************************************************)
EXTENDS Integers, Sequences, FiniteSets

CONSTANTS
    Sessions,         \* concurrent database sessions
    Technicians,      \* active technicians
    Bays, NoBay,      \* active bays, and bay_id NULL
    Shop,             \* the target of a block that names no technician or bay
    Times,            \* seconds of the day
    Pad,              \* _CONFLICT_QUERY_PAD
    WorkingHours,     \* the windows of each technician, in minutes
    Blocks,           \* schedule blocks
    CreatePayloads,   \* AppointmentCreate: full slots with a status
    UpdatePayloads,   \* AppointmentUpdate: the fields that are set
    MaxAppointments   \* bound on the rows of appointments

SlotFields == {"technician", "bay", "start", "end", "buffer"}
ActiveStatuses == {"tentative", "confirmed", "in_progress"}
Statuses == ActiveStatuses \cup {"completed", "canceled", "no_show"}

Appointments == [technician : Technicians, bay : Bays \cup {NoBay},
                 start : Times, end : Times, buffer : 0 .. Pad,
                 status : Statuses, canceledAt : BOOLEAN]

ASSUME TimesAssumption == Times \subseteq Nat /\ Pad \in Nat
ASSUME BaysAssumption == NoBay \notin Bays
ASSUME HoursAssumption == WorkingHours \in [Technicians -> SUBSET (Nat \X Nat)]
ASSUME BlocksAssumption ==
    Blocks \subseteq [target : Technicians \cup Bays \cup {Shop}, start : Times, end : Times]
ASSUME CreatePayloadsAssumption ==
    /\ CreatePayloads \subseteq Appointments
    /\ \A p \in CreatePayloads : /\ p.start < p.end
                                 /\ p.status \in {"tentative", "confirmed"}
                                 /\ ~p.canceledAt
ASSUME UpdatePayloadsAssumption ==
    \A p \in UpdatePayloads :
        /\ DOMAIN p \subseteq SlotFields \cup {"status"}
        /\ "status" \in DOMAIN p => p["status"] # "canceled"
        /\ \E row \in Appointments : \A f \in DOMAIN p : p[f] = row[f]

VARIABLES
    appointments,   \* the rows of appointments in order of their ids
    held,           \* the technicians and bays each session has locked
    req,            \* the progress and the loaded copy of each session
    unchecked       \* the appointments whose slot nobody checked (history)

vars == <<appointments, held, req, unchecked>>

\* seen is the loaded appointment, or the new one.
Requests == [op : {"create", "update", "move", "cancel"},
             pc : {"technician", "bay", "check", "commit"}, id : Nat,
             payload : CreatePayloads \cup UpdatePayloads \cup {[status |-> "canceled"]},
             seen : Appointments]

Idle == [pc |-> "idle"]

Slot(row) == [f \in SlotFields |-> row[f]]
Active(row) == row.status \in ActiveStatuses

\* The payload's fields, the row's where the payload leaves them alone.
Merged(payload, row) ==
    [f \in DOMAIN row |-> IF f \in DOMAIN payload THEN payload[f] ELSE row[f]]

Want(s) == Merged(req[s].payload, req[s].seen)

-----------------------------------------------------------------------------
(* _validate_slot                                                          *)

\* _technician_conflicts: the query with its pad, then the larger buffer.
TechnicianConflict(want, other) ==
    LET buffer == IF want.buffer > other.buffer THEN want.buffer ELSE other.buffer
    IN  /\ want.technician = other.technician
        /\ other.start < want.end + Pad /\ other.end > want.start - Pad
        /\ ~(other.end + buffer <= want.start \/ want.end + buffer <= other.start)

BayConflict(want, other) ==
    /\ want.bay = other.bay
    /\ want.bay # NoBay
    /\ other.start < want.end /\ other.end > want.start

Conflict(want, other) == TechnicianConflict(want, other) \/ BayConflict(want, other)

BlockConflict(want, block) ==
    /\ block.target \in {want.technician, want.bay, Shop}
    /\ block.start < want.end /\ block.end > want.start

\* The minute of the day: the seconds are dropped.
Minute(time) == time \div 60

\* Mutant: a window is left by starting or by ending inside it.
WithinHoursEither(want) ==
    \/ WorkingHours[want.technician] = {}
    \/ \E w \in WorkingHours[want.technician] :
          w[1] <= Minute(want.start) \/ Minute(want.end) <= w[2]

\* A technician without working hours is not restricted.
WithinHours(want) ==
    \/ WorkingHours[want.technician] = {}
    \/ \E w \in WorkingHours[want.technician] :
          w[1] <= Minute(want.start) /\ Minute(want.end) <= w[2]

\* id is excluded: the appointment that moves, or none when one is created.
SlotFree(want, id) ==
    /\ want.start < want.end
    /\ WithinHours(want)
    /\ \A i \in DOMAIN appointments \ {id} :
          Active(appointments[i]) => ~Conflict(want, appointments[i])
    /\ \A b \in Blocks : ~BlockConflict(want, b)

-----------------------------------------------------------------------------
Init ==
    /\ appointments = <<>>
    /\ held = [s \in Sessions |-> {}]
    /\ req = [s \in Sessions |-> Idle]
    /\ unchecked = {}

Finish(s) ==
    /\ req' = [req EXCEPT ![s] = Idle]
    /\ held' = [held EXCEPT ![s] = {}]

Begin(s, op, pc, id, payload, seen) ==
    /\ req[s].pc = "idle"
    /\ req' = [req EXCEPT ![s] = [op |-> op, pc |-> pc, id |-> id,
                                  payload |-> payload, seen |-> seen]]
    /\ UNCHANGED <<appointments, held, unchecked>>

Creating == {s \in Sessions : req[s].pc # "idle" /\ req[s].op = "create"}

CreateLoad(s) ==
    /\ Len(appointments) + Cardinality(Creating) < MaxAppointments
    /\ \E p \in CreatePayloads : Begin(s, "create", "technician", 0, p, p)

\* update_appointment: only a changed slot is locked and checked.
UpdateLoad(s) ==
    \E i \in DOMAIN appointments, p \in UpdatePayloads :
        LET seen == appointments[i]
        IN  /\ seen.status # "canceled"
            /\ Begin(s, "update",
                     IF Slot(Merged(p, seen)) = Slot(seen) THEN "commit" ELSE "technician",
                     i, p, seen)

\* move_appointment: the times are required, NULL leaves the bay alone, and
\* the slot is always checked.
MoveLoad(s) ==
    \E i \in DOMAIN appointments, p \in UpdatePayloads :
        /\ {"start", "end"} \subseteq DOMAIN p /\ "status" \notin DOMAIN p
        /\ "bay" \in DOMAIN p => p["bay"] # NoBay
        /\ appointments[i].status # "canceled"
        /\ Begin(s, "move", "technician", i, p, appointments[i])

\* Mutant: a completed appointment can be canceled.
CancelLoadCompleted(s) ==
    \E i \in DOMAIN appointments :
        /\ appointments[i].status # "canceled"
        /\ Begin(s, "cancel", "commit", i, [status |-> "canceled"], appointments[i])

CancelLoad(s) ==
    \E i \in DOMAIN appointments :
        /\ appointments[i].status \notin {"canceled", "completed"}
        /\ Begin(s, "cancel", "commit", i, [status |-> "canceled"], appointments[i])

-----------------------------------------------------------------------------
(* _lock_scheduling_rows, then the check                                   *)

Free(row) == \A s \in Sessions : row \notin held[s]

LockRow(s, row, next) ==
    /\ Free(row)
    /\ held' = [held EXCEPT ![s] = @ \cup {row}]
    /\ req' = [req EXCEPT ![s].pc = next]

\* Mutant: SELECT without FOR UPDATE.
LockTechnicianNoLock(s) ==
    /\ req[s].pc = "technician"
    /\ req' = [req EXCEPT ![s].pc = IF Want(s).bay = NoBay THEN "check" ELSE "bay"]
    /\ UNCHANGED <<appointments, held, unchecked>>

LockTechnician(s) ==
    /\ req[s].pc = "technician"
    /\ LockRow(s, Want(s).technician, IF Want(s).bay = NoBay THEN "check" ELSE "bay")
    /\ UNCHANGED <<appointments, unchecked>>

LockBay(s) ==
    /\ req[s].pc = "bay"
    /\ LockRow(s, Want(s).bay, "check")
    /\ UNCHANGED <<appointments, unchecked>>

Check(s) ==
    /\ req[s].pc = "check"
    /\ SlotFree(Want(s), req[s].id)
    /\ req' = [req EXCEPT ![s].pc = "commit"]
    /\ UNCHANGED <<appointments, held, unchecked>>

\* SchedulingConflictError ends the request.
Refuse(s) ==
    /\ req[s].pc = "check"
    /\ ~SlotFree(Want(s), req[s].id)
    /\ Finish(s)
    /\ UNCHANGED <<appointments, unchecked>>

-----------------------------------------------------------------------------
(* Commits                                                                 *)

CreateCommit(s) ==
    /\ req[s].pc = "commit" /\ req[s].op = "create"
    /\ appointments' = Append(appointments, req[s].seen)
    /\ Finish(s)
    /\ UNCHANGED unchecked

\* The UPDATE writes the fields that differ from the loaded ones.
Written(s) ==
    LET changed == {f \in DOMAIN req[s].payload : req[s].payload[f] # req[s].seen[f]}
    IN  Merged([f \in changed |-> req[s].payload[f]], appointments[req[s].id])

\* Either the request checked the slot that is now stored, or the stored slot
\* is unchanged and was taken already.
Justified(s) ==
    LET old == appointments[req[s].id]
        new == Written(s)
    IN  \/ /\ held[s] # {} /\ Slot(new) = Slot(Want(s))
        \/ /\ Active(old) /\ Slot(new) = Slot(old)
           /\ req[s].id \notin unchecked

UpdateCommit(s) ==
    LET i == req[s].id
    IN  /\ req[s].pc = "commit" /\ req[s].op \in {"update", "move"}
        /\ Written(s).start < Written(s).end    \* ck_appointments_end_after_start
        /\ appointments' = [appointments EXCEPT ![i] = Written(s)]
        /\ unchecked' = IF Justified(s) THEN unchecked \ {i} ELSE unchecked \cup {i}
        /\ Finish(s)

CancelCommit(s) ==
    /\ req[s].pc = "commit" /\ req[s].op = "cancel"
    /\ appointments' = [appointments EXCEPT ![req[s].id].status = "canceled",
                                            ![req[s].id].canceledAt = TRUE]
    /\ Finish(s)
    /\ UNCHANGED unchecked

\* A database error or CHECK, a lost connection, or a slot in the past.
Abort(s) ==
    /\ req[s].pc # "idle"
    /\ Finish(s)
    /\ UNCHANGED <<appointments, unchecked>>

Next ==
    \E s \in Sessions :
        \/ CreateLoad(s) \/ UpdateLoad(s) \/ MoveLoad(s) \/ CancelLoad(s)
        \/ LockTechnician(s) \/ LockBay(s) \/ Check(s) \/ Refuse(s)
        \/ CreateCommit(s) \/ UpdateCommit(s) \/ CancelCommit(s)
        \/ Abort(s)

Spec == Init /\ [][Next]_vars

-----------------------------------------------------------------------------
(* Properties                                                              *)

\* Every row has the type of its columns and the CHECK of its times, and a
\* session holds nothing but technicians and bays.
TypeOK ==
    /\ appointments \in Seq(Appointments)
    /\ \A i \in DOMAIN appointments : appointments[i].start < appointments[i].end
    /\ held \in [Sessions -> SUBSET (Technicians \cup Bays)]
    /\ req \in [Sessions -> Requests \cup {Idle}]
    /\ unchecked \subseteq DOMAIN appointments

\* No double booking: two active appointments never share a technician, travel
\* buffer included, or a bay, however many requests race, as long as neither is
\* in a slot that was stored without a check, which a PATCH of the status alone
\* and a merge with a stale copy do.
NoDoubleBooking ==
    \A i, j \in DOMAIN appointments \ unchecked :
        i # j /\ Active(appointments[i]) /\ Active(appointments[j])
            => ~Conflict(appointments[i], appointments[j])

\* Such an appointment is outside the blocks, does not start before a window of
\* the working hours opens, and ends before the minute after its last one: the
\* check drops the seconds, so a visit may end up to 59 seconds past closing.
InOpenHours ==
    \A i \in DOMAIN appointments \ unchecked :
        Active(appointments[i]) =>
            /\ \A b \in Blocks : ~BlockConflict(appointments[i], b)
            /\ LET hours == WorkingHours[appointments[i].technician]
               IN  hours # {} =>
                     \E w \in hours : /\ appointments[i].start >= 60 * w[1]
                                      /\ appointments[i].end < 60 * (w[2] + 1)

\* A canceled appointment is not edited and a completed one is not canceled,
\* unless by a request that had loaded it before it was.
FinalOnceSeen ==
    [][\A i \in DOMAIN appointments :
          LET old == appointments[i]
              new == appointments'[i]
              edited == old.status = "canceled" /\ new # old
              undone == old.status = "completed" /\ new.status = "canceled"
          IN  edited \/ undone =>
                 \E s \in Sessions : /\ req[s].pc = "commit" /\ req[s].id = i
                                     /\ req[s].seen.status # old.status
                                     /\ req'[s] = Idle]_vars

=============================================================================
