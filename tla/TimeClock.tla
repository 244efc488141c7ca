----------------------------- MODULE TimeClock ------------------------------
(***************************************************************************)
(* The time clock of one technician (technician_store.py): clock_in and    *)
(* clock_out read without a lock and write in the same transaction; the    *)
(* unique index ux_technician_time_entries_one_open_per_technician is all  *)
(* that keeps two clock-ins apart.  The owner may archive the technician   *)
(* meanwhile.                                                              *)
(***************************************************************************)
EXTENDS Naturals, Sequences, FiniteSets

CONSTANTS Punches,    \* requests of the technician at once
          MaxEntries, \* bound: time entries
          MaxTime     \* bound: the clock

VARIABLES
    entries,  \* sequence of [in, out], out = 0 while open
    archived, \* the technician is archived and the login disabled
    punch,    \* where each request is
    now

clockVars == <<entries, archived, punch, now>>

Open(e) == entries[e].out = 0
OpenEntries == {e \in DOMAIN entries : Open(e)}

\* clock_in: the login is live and no entry is open.
BeginClockIn(r) ==
    /\ punch[r].at = "idle" /\ ~archived
    /\ OpenEntries = {} /\ Len(entries) < MaxEntries
    /\ punch' = [punch EXCEPT ![r] = [at |-> "in", time |-> now]]
    /\ UNCHANGED <<entries, archived, now>>

\* Mutant: the table without the index.
CommitClockInAnyway(r) ==
    /\ punch[r].at = "in"
    /\ entries' = IF Len(entries) < MaxEntries
                  THEN Append(entries, [in |-> punch[r].time, out |-> 0])
                  ELSE entries
    /\ punch' = [punch EXCEPT ![r] = [at |-> "idle"]]
    /\ UNCHANGED <<archived, now>>

\* The commit of clock_in: the index refuses a second open entry.
CommitClockIn(r) ==
    /\ punch[r].at = "in"
    /\ entries' = IF OpenEntries = {} /\ Len(entries) < MaxEntries
                  THEN Append(entries, [in |-> punch[r].time, out |-> 0])
                  ELSE entries
    /\ punch' = [punch EXCEPT ![r] = [at |-> "idle"]]
    /\ UNCHANGED <<archived, now>>

\* clock_out: the open entry as it is read, and the time of the punch.
BeginClockOut(r) ==
    /\ punch[r].at = "idle" /\ ~archived
    /\ \E e \in OpenEntries :
          punch' = [punch EXCEPT ![r] = [at |-> "out", entry |-> e, time |-> now]]
    /\ UNCHANGED <<entries, archived, now>>

\* The commit of clock_out writes the entry by its id, open or not.
CommitClockOut(r) ==
    /\ punch[r].at = "out"
    /\ entries' = [entries EXCEPT ![punch[r].entry].out = punch[r].time]
    /\ punch' = [punch EXCEPT ![r] = [at |-> "idle"]]
    /\ UNCHANGED <<archived, now>>

\* archive_technician: sessions and login end; an open entry stays open.
Archive ==
    /\ ~archived /\ archived' = TRUE
    /\ UNCHANGED <<entries, punch, now>>

Tick == now < MaxTime /\ now' = now + 1 /\ UNCHANGED <<entries, archived, punch>>

ClockInit ==
    /\ entries = <<>> /\ archived = FALSE /\ now = 1
    /\ punch = [r \in Punches |-> [at |-> "idle"]]

ClockNext ==
    \/ \E r \in Punches :
          BeginClockIn(r) \/ CommitClockIn(r) \/ BeginClockOut(r) \/ CommitClockOut(r)
    \/ Archive \/ Tick

ClockSpec == ClockInit /\ [][ClockNext]_clockVars

-----------------------------------------------------------------------------
\* The hours paid are of one shift at a time: one entry is open at most,
\* whatever clock-ins and clock-outs race, and none ends before it began.
OneShiftOpen ==
    /\ Cardinality(OpenEntries) <= 1
    /\ \A e \in DOMAIN entries : ~Open(e) => entries[e].in <= entries[e].out
=============================================================================
