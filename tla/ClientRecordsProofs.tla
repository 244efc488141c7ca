------------------------ MODULE ClientRecordsProofs ------------------------
(***************************************************************************)
(* Proofs about ClientRecords for any sessions, VINs, payloads and numbers *)
(* of rows.                                                                *)
(*                                                                         *)
(* Two things make the properties inductive.  A VIN that is flushed and    *)
(* not committed is nobody else's: neither an active row nor another       *)
(* flushed one has it.  And a conversion that has read the intake request  *)
(* holds its lock, so what it read is what is there.                       *)
(***************************************************************************)
EXTENDS ClientRecords, SequenceTheorems, FiniteSetTheorems, TLAPS

Doings ==
    [pc : {"idle"}]
    \cup [pc : {"convert_lock"}, attach : Nat, override : Drafts \cup {"keep"}]
    \cup [pc : {"convert_resolve"}, attach : Nat, override : Drafts \cup {"keep"},
          seen : IntakeRows]
    \cup [pc : {"convert_flush", "convert_commit"}, attach : Nat, vehicle : Drafts]
    \cup [pc : {"update_intake"}, status : IntakeStatuses \cup {"keep"},
          draft : Drafts \cup {"keep"}, seen : IntakeRows]
    \cup [pc : {"update_customer"}, id : Nat, name : BOOLEAN, company : BOOLEAN,
          seenName : BOOLEAN, seenCompany : BOOLEAN]
    \cup [pc : {"update_vehicle"}, id : Nat, vin : VinFields, seenVin : VinFields]

Converting == {"convert_lock", "convert_resolve", "convert_flush", "convert_commit"}

\* The rows a request names are among those with the ids cs and vs.
Names(x, cs, vs) ==
    /\ x.pc \in Converting => x.attach \in {0} \cup cs
    /\ x.pc = "update_customer" => x.id \in cs
    /\ x.pc = "update_vehicle" => x.id \in vs

TypeInv ==
    /\ TypeOK
    /\ req \in [Sessions -> Doings]
    /\ \A s \in Sessions : Names(req[s], DOMAIN customers, DOMAIN vehicles)

\* The VIN of an active row, and a flushed one, belong to one vehicle.
VinInv ==
    /\ \A vin \in Vins : \A v, w \in ActiveWith(vin) : v = w
    /\ \A s \in Sessions, vin \in Vins :
          req[s].pc = "convert_commit" /\ req[s].vehicle = vin =>
              /\ ActiveWith(vin) = {}
              /\ Flushed(vin) \subseteq {s}

\* A conversion past its lock holds it, has read what is there, and goes on only
\* with a request that is not converted.
LockInv ==
    \A s \in Sessions :
        /\ req[s].pc \in {"convert_resolve", "convert_flush", "convert_commit"} => lock = s
        /\ req[s].pc = "convert_resolve" => req[s].seen = intake
        /\ req[s].pc \in {"convert_flush", "convert_commit"} => intake.status # "converted"

\* Where no PATCH has overlapped another request: one that is in flight is alone and
\* has read what is there, and leaves a converted request converted.
PatchInv ==
    ~raced => \A s \in Sessions :
        /\ req[s].pc \in Patches => \A t \in Sessions \ {s} : req[t] = Idle
        /\ req[s].pc = "update_intake" =>
              /\ req[s].seen.status = intake.status
              /\ intake.status = "converted" => req[s].status \in {"keep", "converted"}

OnceInv ==
    ~raced => \/ conversions = <<>>
              \/ Len(conversions) = 1 /\ intake.status = "converted"

HistoryInv == conversions \in Seq(Nat)

IInv == /\ TypeInv /\ VinInv /\ NoOrphanCustomer /\ ConversionSound
        /\ LockInv /\ PatchInv /\ OnceInv /\ HistoryInv

-----------------------------------------------------------------------------
(* Types                                                                   *)

LEMMA IdleIsDoing == Idle \in Doings /\ Idle.pc = "idle"
BY DEF Idle, Doings

LEMMA DoingFields ==
    ASSUME NEW x \in Doings
    PROVE  /\ x.pc = "convert_lock" => x.attach \in Nat /\ x.override \in Drafts \cup {"keep"}
           /\ x.pc = "convert_resolve" => /\ x.attach \in Nat /\ x.seen \in IntakeRows
                                          /\ x.override \in Drafts \cup {"keep"}
           /\ x.pc \in {"convert_flush", "convert_commit"} =>
                 /\ x.attach \in Nat /\ x.vehicle \in Drafts
                 /\ x = [pc |-> x.pc, attach |-> x.attach, vehicle |-> x.vehicle]
           /\ x.pc = "update_intake" => /\ x.status \in IntakeStatuses \cup {"keep"}
                                        /\ x.draft \in Drafts \cup {"keep"}
                                        /\ x.seen \in IntakeRows
           /\ x.pc = "update_customer" => x.name \in BOOLEAN /\ x.company \in BOOLEAN
           /\ x.pc = "update_vehicle" => x.vin \in VinFields /\ x.seenVin \in VinFields
BY DEF Doings

\* The rows stay, or grow, and one session takes another state or none does.
LEMMA TypeStep ==
    ASSUME TypeInv, NEW x \in Doings,
           req' = req \/ \E s \in Sessions : req' = [req EXCEPT ![s] = x],
           customers' \in Seq(Customers), DOMAIN customers \subseteq DOMAIN customers',
           vehicles' \in Seq(Vehicles), DOMAIN vehicles \subseteq DOMAIN vehicles',
           \A v \in DOMAIN vehicles' : vehicles'[v].customer \in DOMAIN customers',
           intake' \in IntakeRows, intake'.customer \in {0} \cup DOMAIN customers',
           intake'.vehicle \in {0} \cup DOMAIN vehicles',
           lock' \in Sessions \cup {NoSession},
           Names(x, DOMAIN customers, DOMAIN vehicles)
    PROVE  TypeInv'
<1>1. \A t \in Sessions : req'[t] \in {req[t], x}
  BY DEF TypeInv
<1>2. req' \in [Sessions -> Doings]
  BY DEF TypeInv
<1>3. \A t \in Sessions : Names(req'[t], DOMAIN customers, DOMAIN vehicles)
  BY <1>1 DEF TypeInv
<1>4. \A t \in Sessions : Names(req'[t], DOMAIN customers', DOMAIN vehicles')
  BY <1>3 DEF Names
<1> QED
  BY <1>2, <1>4 DEF TypeInv, TypeOK

\* Sessions move, and neither the rows nor the lock change.
LEMMA TypeQuiet ==
    ASSUME TypeInv, NEW s \in Sessions, NEW x \in Doings, req' = [req EXCEPT ![s] = x],
           UNCHANGED <<intake, customers, vehicles>>, lock' \in Sessions \cup {NoSession},
           Names(x, DOMAIN customers, DOMAIN vehicles)
    PROVE  TypeInv'
BY TypeStep DEF TypeInv, TypeOK

\* A session that has ended names nothing.
LEMMA IdleNames ==
    ASSUME NEW cs, NEW vs
    PROVE  Names(Idle, cs, vs)
BY DEF Names, Idle, Converting

\* Facts about the rows that the steps below use.
LEMMA RowFacts ==
    ASSUME TypeInv
    PROVE  /\ customers \in Seq(Customers) /\ vehicles \in Seq(Vehicles)
           /\ Len(customers) \in Nat /\ DOMAIN customers = 1 .. Len(customers)
           /\ Len(vehicles) \in Nat /\ DOMAIN vehicles = 1 .. Len(vehicles)
           /\ \A c \in DOMAIN customers : customers[c] \in Customers
           /\ \A v \in DOMAIN vehicles : /\ vehicles[v] \in Vehicles
                                         /\ vehicles[v].customer \in DOMAIN customers
           /\ intake \in IntakeRows /\ lock \in Sessions \cup {NoSession}
           /\ intake.customer \in {0} \cup DOMAIN customers
           /\ intake.vehicle \in {0} \cup DOMAIN vehicles
<1>1. customers \in Seq(Customers) /\ vehicles \in Seq(Vehicles)
  BY DEF TypeInv, TypeOK
<1>2. /\ Len(customers) \in Nat /\ DOMAIN customers = 1 .. Len(customers)
      /\ Len(vehicles) \in Nat /\ DOMAIN vehicles = 1 .. Len(vehicles)
  BY <1>1
<1>3. /\ \A c \in DOMAIN customers : customers[c] \in Customers
      /\ \A v \in DOMAIN vehicles : vehicles[v] \in Vehicles
  BY <1>1, <1>2, ElementOfSeq
<1> QED
  BY <1>1, <1>2, <1>3 DEF TypeInv, TypeOK

LEMMA TypeBegin ==
    ASSUME TypeInv, NEW s \in Sessions, NEW r \in Doings, Begin(s, r),
           Names(r, DOMAIN customers, DOMAIN vehicles)
    PROVE  TypeInv'
<1>1. lock \in Sessions \cup {NoSession}
  BY RowFacts
<1> QED
  BY <1>1, TypeQuiet DEF Begin, rowVars

\* The rows keep their types when a request ends.
LEMMA TypeFinish ==
    ASSUME TypeInv, NEW s \in Sessions, Finish(s),
           customers' \in Seq(Customers), DOMAIN customers \subseteq DOMAIN customers',
           vehicles' \in Seq(Vehicles), DOMAIN vehicles \subseteq DOMAIN vehicles',
           \A v \in DOMAIN vehicles' : vehicles'[v].customer \in DOMAIN customers',
           intake' \in IntakeRows, intake'.customer \in {0} \cup DOMAIN customers',
           intake'.vehicle \in {0} \cup DOMAIN vehicles'
    PROVE  TypeInv'
<1>1. lock' \in Sessions \cup {NoSession}
  BY RowFacts DEF Finish
<1>2. req' = [req EXCEPT ![s] = Idle]
  BY DEF Finish
<1> QED
  BY <1>1, <1>2, IdleIsDoing, IdleNames, TypeStep

LEMMA TypeEnd ==
    ASSUME TypeInv, NEW s \in Sessions, Finish(s), UNCHANGED <<intake, customers, vehicles>>
    PROVE  TypeInv'
BY TypeFinish, RowFacts

LEMMA TypeConvert ==
    ASSUME TypeInv, NEW s \in Sessions,
           \/ ConvertLoad(s) \/ ConvertLock(s) \/ ConvertResolve(s) \/ ConvertRefuse(s)
           \/ ConvertFlush(s) \/ ConvertDuplicateVin(s) \/ Abort(s)
    PROVE  TypeInv'
<1> /\ req[s] \in Doings /\ Names(req[s], DOMAIN customers, DOMAIN vehicles)
  BY DEF TypeInv
<1> lock \in Sessions \cup {NoSession} /\ intake \in IntakeRows
  BY RowFacts
<1>1. CASE ConvertLoad(s)
  <2>1. PICK attach \in 0 .. Len(customers), override \in PayloadDrafts \cup {"keep"} :
           Begin(s, [pc |-> "convert_lock", attach |-> attach, override |-> override])
    BY <1>1 DEF ConvertLoad
  <2> DEFINE r == [pc |-> "convert_lock", attach |-> attach, override |-> override]
  <2>2. attach \in Nat /\ attach \in {0} \cup DOMAIN customers
    BY RowFacts
  <2>3. r \in Doings
    BY <2>2, PayloadDraftsAssumption DEF Doings, Drafts
  <2>4. Names(r, DOMAIN customers, DOMAIN vehicles)
    BY <2>2 DEF Names
  <2> QED
    BY <2>1, <2>3, <2>4, TypeBegin
<1>2. CASE ConvertLock(s)
  <2> DEFINE x == [pc |-> "convert_resolve", attach |-> req[s].attach,
                   override |-> req[s].override, seen |-> intake]
  <2>1. req[s].pc = "convert_lock" /\ req' = [req EXCEPT ![s] = x]
    BY <1>2 DEF ConvertLock
  <2>2. x \in Doings
    BY <2>1, DoingFields DEF Doings
  <2>3. Names(x, DOMAIN customers, DOMAIN vehicles)
    BY <2>1 DEF Names, Converting
  <2> QED
    BY <1>2, <2>1, <2>2, <2>3, TypeQuiet DEF ConvertLock, rowVars
<1>3. CASE ConvertResolve(s)
  <2> DEFINE x == [pc |-> "convert_flush", attach |-> req[s].attach,
                   vehicle |-> ResolvedVehicle(req[s])]
  <2>1. req[s].pc = "convert_resolve" /\ req' = [req EXCEPT ![s] = x]
    BY <1>3 DEF ConvertResolve
  <2>2. ResolvedVehicle(req[s]) \in Drafts
    BY <2>1, DoingFields DEF ResolvedVehicle, IntakeRows
  <2>3. x \in Doings
    BY <2>1, <2>2, DoingFields DEF Doings
  <2>4. Names(x, DOMAIN customers, DOMAIN vehicles)
    BY <2>1 DEF Names, Converting
  <2> QED
    BY <1>3, <2>1, <2>3, <2>4, TypeQuiet DEF ConvertResolve, rowVars
<1>4. CASE ConvertRefuse(s) \/ ConvertDuplicateVin(s) \/ Abort(s)
  BY <1>4, TypeEnd DEF ConvertRefuse, ConvertDuplicateVin, Abort, rowVars
<1>5. CASE ConvertFlush(s)
  <2> DEFINE x == [pc |-> "convert_commit", attach |-> req[s].attach,
                   vehicle |-> req[s].vehicle]
  <2>1. req[s].pc = "convert_flush" /\ req' = [req EXCEPT ![s].pc = "convert_commit"]
    BY <1>5 DEF ConvertFlush
  <2>2. req[s] = [pc |-> req[s].pc, attach |-> req[s].attach, vehicle |-> req[s].vehicle]
    BY <2>1, DoingFields
  <2>3. [req[s] EXCEPT !.pc = "convert_commit"] = x
    BY <2>2
  <2>4. req' = [req EXCEPT ![s] = x]
    BY <2>1, <2>3
  <2>5. x \in Doings
    BY <2>1, DoingFields DEF Doings
  <2>6. Names(x, DOMAIN customers, DOMAIN vehicles)
    BY <2>1 DEF Names, Converting
  <2> QED
    BY <1>5, <2>4, <2>5, <2>6, TypeQuiet DEF ConvertFlush, rowVars
<1> QED
  BY <1>1, <1>2, <1>3, <1>4, <1>5

LEMMA TypeLoad ==
    ASSUME TypeInv, NEW s \in Sessions,
           UpdateIntakeLoad(s) \/ UpdateCustomerLoad(s) \/ UpdateVehicleLoad(s)
    PROVE  TypeInv'
<1>1. CASE UpdateIntakeLoad(s)
  <2>1. PICK want \in StatusPatches \cup {"keep"}, draft \in PayloadDrafts \cup {"keep"} :
           Begin(s, [pc |-> "update_intake", status |-> want, draft |-> draft,
                     seen |-> intake])
    BY <1>1 DEF UpdateIntakeLoad
  <2> DEFINE r == [pc |-> "update_intake", status |-> want, draft |-> draft, seen |-> intake]
  <2>2. r \in Doings
    BY RowFacts, PayloadDraftsAssumption, StatusPatchesAssumption
    DEF Doings, Drafts, IntakeStatuses
  <2>3. Names(r, DOMAIN customers, DOMAIN vehicles)
    BY DEF Names, Converting
  <2> QED
    BY <2>1, <2>2, <2>3, TypeBegin
<1>2. CASE UpdateCustomerLoad(s)
  <2>1. PICK c \in DOMAIN customers, name \in BOOLEAN, company \in BOOLEAN :
           Begin(s, [pc |-> "update_customer", id |-> c, name |-> name, company |-> company,
                     seenName |-> customers[c].name, seenCompany |-> customers[c].company])
    BY <1>2 DEF UpdateCustomerLoad
  <2> DEFINE r == [pc |-> "update_customer", id |-> c, name |-> name, company |-> company,
                   seenName |-> customers[c].name, seenCompany |-> customers[c].company]
  <2>2. c \in Nat /\ customers[c] \in Customers
    BY RowFacts
  <2>3. r \in Doings
    BY <2>2 DEF Doings, Customers
  <2>4. Names(r, DOMAIN customers, DOMAIN vehicles)
    BY DEF Names, Converting
  <2> QED
    BY <2>1, <2>3, <2>4, TypeBegin
<1>3. CASE UpdateVehicleLoad(s)
  <2>1. PICK v \in DOMAIN vehicles, vin \in VinFields :
           Begin(s, [pc |-> "update_vehicle", id |-> v, vin |-> vin,
                     seenVin |-> vehicles[v].vin])
    BY <1>3 DEF UpdateVehicleLoad
  <2> DEFINE r == [pc |-> "update_vehicle", id |-> v, vin |-> vin, seenVin |-> vehicles[v].vin]
  <2>2. v \in Nat /\ vehicles[v] \in Vehicles
    BY RowFacts
  <2>3. r \in Doings
    BY <2>2 DEF Doings, Vehicles
  <2>4. Names(r, DOMAIN customers, DOMAIN vehicles)
    BY DEF Names, Converting
  <2> QED
    BY <2>1, <2>3, <2>4, TypeBegin
<1> QED
  BY <1>1, <1>2, <1>3

-----------------------------------------------------------------------------
(* The actions that write rows                                             *)

LEMMA AppendRow ==
    ASSUME NEW R, NEW q \in Seq(R), NEW e \in R
    PROVE  /\ Append(q, e) \in Seq(R) /\ Len(Append(q, e)) = Len(q) + 1
           /\ DOMAIN Append(q, e) = DOMAIN q \cup {Len(q) + 1}
           /\ Len(q) + 1 \notin DOMAIN q
           /\ \A i \in DOMAIN q : Append(q, e)[i] = q[i]
           /\ Append(q, e)[Len(q) + 1] = e
OBVIOUS

LEMMA WriteRow ==
    ASSUME NEW R, NEW q \in Seq(R), NEW i \in DOMAIN q, NEW e \in R
    PROVE  /\ [q EXCEPT ![i] = e] \in Seq(R) /\ DOMAIN [q EXCEPT ![i] = e] = DOMAIN q
           /\ \A j \in DOMAIN q : [q EXCEPT ![i] = e][j] = IF j = i THEN e ELSE q[j]
OBVIOUS

\* What the commit of a conversion writes.
LEMMA CommitRows ==
    ASSUME TypeInv, NEW s \in Sessions, ConvertCommit(s)
    PROVE  /\ req[s].pc = "convert_commit" /\ req[s].vehicle \in Drafts
           /\ customers' \in Seq(Customers) /\ vehicles' \in Seq(Vehicles)
           /\ DOMAIN customers \subseteq DOMAIN customers'
           /\ DOMAIN vehicles \subseteq DOMAIN vehicles'
           /\ \A c \in DOMAIN customers : customers'[c] = customers[c]
           /\ \A v \in DOMAIN vehicles : vehicles'[v] = vehicles[v]
           /\ intake'.status = "converted" /\ intake' \in IntakeRows
           /\ intake'.customer \in DOMAIN customers'
           /\ \A c \in DOMAIN customers' \ DOMAIN customers : c = intake'.customer
           /\ intake'.vehicle \in {0} \cup DOMAIN vehicles'
           /\ intake'.vehicle # 0 =>
                 vehicles'[intake'.vehicle].customer = intake'.customer
           /\ \A v \in DOMAIN vehicles' \ DOMAIN vehicles :
                 vehicles'[v] = [customer |-> intake'.customer, vin |-> req[s].vehicle,
                                 archived |-> FALSE]
           /\ \A v, w \in DOMAIN vehicles' \ DOMAIN vehicles : v = w
           /\ conversions' = Append(conversions, intake'.customer)
<1> DEFINE r == req[s]
           new == [name |-> TRUE, company |-> FALSE, archived |-> FALSE, source |-> "intake"]
           customer == IF r.attach = 0 THEN Len(customers) + 1 ELSE r.attach
           row == [customer |-> customer, vin |-> r.vehicle, archived |-> FALSE]
<1>1. /\ r.pc = "convert_commit" /\ r.attach \in {0} \cup DOMAIN customers
      /\ r.vehicle \in Drafts /\ r.attach \in Nat
  BY DoingFields DEF ConvertCommit, TypeInv, Names, Converting
<1>2. /\ customers \in Seq(Customers) /\ vehicles \in Seq(Vehicles) /\ intake \in IntakeRows
      /\ Len(customers) \in Nat /\ Len(vehicles) \in Nat
  BY RowFacts
<1>3. new \in Customers
  BY DEF Customers
<1>4. customers' = IF r.attach = 0 THEN Append(customers, new) ELSE customers
  BY DEF ConvertCommit
<1>5. vehicles' = IF r.vehicle # "none" THEN Append(vehicles, row) ELSE vehicles
  BY DEF ConvertCommit
<1>6. intake' = [intake EXCEPT !.status = "converted", !.customer = customer,
                    !.vehicle = IF r.vehicle # "none" THEN Len(vehicles) + 1 ELSE 0]
  BY DEF ConvertCommit
<1>7. customer \in Nat
  BY <1>1, <1>2
<1>8. /\ customers' \in Seq(Customers) /\ DOMAIN customers \subseteq DOMAIN customers'
      /\ \A c \in DOMAIN customers : customers'[c] = customers[c]
      /\ customer \in DOMAIN customers'
      /\ \A c \in DOMAIN customers' \ DOMAIN customers : c = customer
  BY <1>1, <1>2, <1>3, <1>4, AppendRow
<1>9. r.vehicle # "none" => row \in Vehicles
  BY <1>1, <1>7 DEF Vehicles, Drafts
<1>10. /\ vehicles' \in Seq(Vehicles) /\ DOMAIN vehicles \subseteq DOMAIN vehicles'
       /\ \A v \in DOMAIN vehicles : vehicles'[v] = vehicles[v]
       /\ \A v \in DOMAIN vehicles' \ DOMAIN vehicles :
             r.vehicle # "none" /\ v = Len(vehicles) + 1 /\ vehicles'[v] = row
       /\ r.vehicle # "none" =>
             Len(vehicles) + 1 \in DOMAIN vehicles' /\ vehicles'[Len(vehicles) + 1] = row
  <2> HIDE DEF row, r
  <2>1. CASE r.vehicle # "none"
    BY <2>1, <1>2, <1>5, <1>9, AppendRow
  <2>2. CASE r.vehicle = "none"
    BY <2>2, <1>2, <1>5
  <2> QED
    BY <2>1, <2>2
<1>11. /\ intake'.status = "converted" /\ intake'.customer = customer
       /\ intake'.vehicle = IF r.vehicle # "none" THEN Len(vehicles) + 1 ELSE 0
       /\ intake' \in IntakeRows
  <2> DEFINE vehicle == IF r.vehicle # "none" THEN Len(vehicles) + 1 ELSE 0
  <2>1. intake' = [intake EXCEPT !.status = "converted", !.customer = customer,
                                 !.vehicle = vehicle]
    BY <1>6
  <2>2. vehicle \in Nat
    BY <1>2
  <2> HIDE DEF vehicle, customer
  <2>3. /\ intake'.status = "converted" /\ intake'.customer = customer
        /\ intake'.vehicle = vehicle /\ intake' \in IntakeRows
    BY <1>2, <1>7, <2>1, <2>2 DEF IntakeRows, IntakeStatuses
  <2> QED
    BY <2>3 DEF vehicle
<1>12. conversions' = Append(conversions, customer)
  BY DEF ConvertCommit
<1>13. row.customer = customer
  OBVIOUS
<1> HIDE DEF customer, row, r
<1> QED
  BY <1>1, <1>8, <1>10, <1>11, <1>12, <1>13, <1>2 DEF r, row

\* What a PATCH of a customer writes: never its archived flag nor its origin.
LEMMA CustomerPatch ==
    ASSUME TypeInv, NEW s \in Sessions, UpdateCustomerCommit(s)
    PROVE  /\ customers' \in Seq(Customers) /\ DOMAIN customers' = DOMAIN customers
           /\ \A c \in DOMAIN customers : customers'[c].source = customers[c].source
<1> DEFINE r == req[s]
           i == r.id
           e == [customers[i] EXCEPT !.name = Written(r.seenName, r.name, @),
                                     !.company = Written(r.seenCompany, r.company, @)]
<1>1. r \in Doings /\ r.pc = "update_customer" /\ i \in DOMAIN customers
  BY DEF UpdateCustomerCommit, TypeInv, Names
<1>2. customers \in Seq(Customers) /\ customers[i] \in Customers
  BY <1>1, RowFacts
<1>3. customers' = [customers EXCEPT ![i] = e]
  BY <1>2 DEF UpdateCustomerCommit
<1>4. r.name \in BOOLEAN /\ r.company \in BOOLEAN
  BY <1>1, DoingFields
<1>5. e \in Customers /\ e.source = customers[i].source
  BY <1>2, <1>4 DEF Customers, Written
<1> HIDE DEF e, i
<1> QED
  BY <1>1, <1>2, <1>3, <1>5, WriteRow

\* What archiving a customer writes.
LEMMA CustomerArchived ==
    ASSUME TypeInv, ArchiveCustomer
    PROVE  /\ customers' \in Seq(Customers) /\ DOMAIN customers' = DOMAIN customers
           /\ \A c \in DOMAIN customers : customers'[c].source = customers[c].source
<1>1. PICK i \in DOMAIN customers : customers' = [customers EXCEPT ![i].archived = TRUE]
  BY DEF ArchiveCustomer
<1> DEFINE e == [customers[i] EXCEPT !.archived = TRUE]
<1>2. customers \in Seq(Customers) /\ customers[i] \in Customers
  BY RowFacts
<1>3. customers' = [customers EXCEPT ![i] = e]
  BY <1>1
<1>4. e \in Customers /\ e.source = customers[i].source
  BY <1>2 DEF Customers
<1> HIDE DEF e
<1> QED
  BY <1>2, <1>3, <1>4, WriteRow

\* What a PATCH of a vehicle writes: a VIN that its vehicle had or that was free.
LEMMA VehiclePatch ==
    ASSUME TypeInv, NEW s \in Sessions, UpdateVehicleCommit(s)
    PROVE  \E i \in DOMAIN vehicles, vin \in VinFields :
              /\ req[s].pc = "update_vehicle"
              /\ vehicles' \in Seq(Vehicles) /\ DOMAIN vehicles' = DOMAIN vehicles
              /\ \A v \in DOMAIN vehicles : v # i => vehicles'[v] = vehicles[v]
              /\ vehicles'[i].customer = vehicles[i].customer
              /\ vehicles'[i].archived = vehicles[i].archived
              /\ vehicles'[i].vin = vin
              /\ \/ vin = vehicles[i].vin
                 \/ VinFree(vin, s, DOMAIN vehicles \ {i})
<1> DEFINE r == req[s]
           i == r.id
           vin == Written(r.seenVin, r.vin, vehicles[i].vin)
           e == [vehicles[i] EXCEPT !.vin = vin]
<1>1. r \in Doings /\ r.pc = "update_vehicle" /\ i \in DOMAIN vehicles
  BY DEF UpdateVehicleCommit, TypeInv, Names
<1>2. vehicles \in Seq(Vehicles) /\ vehicles[i] \in Vehicles
  BY <1>1, RowFacts
<1>3. vehicles' = [vehicles EXCEPT ![i] = e] /\ VinFree(r.vin, s, DOMAIN vehicles \ {i})
  BY <1>2 DEF UpdateVehicleCommit
<1>4. r.vin \in VinFields
  BY <1>1, DoingFields
<1>5. vin \in VinFields /\ (vin = vehicles[i].vin \/ vin = r.vin)
  BY <1>2, <1>4 DEF Vehicles, Written
<1>6. /\ e \in Vehicles /\ e.customer = vehicles[i].customer
      /\ e.archived = vehicles[i].archived /\ e.vin = vin
  BY <1>2, <1>5 DEF Vehicles
<1> HIDE DEF e, i, vin
<1>7. vehicles' \in Seq(Vehicles) /\ DOMAIN vehicles' = DOMAIN vehicles
      /\ \A v \in DOMAIN vehicles : vehicles'[v] = IF v = i THEN e ELSE vehicles[v]
  BY <1>1, <1>2, <1>3, <1>6, WriteRow
<1>8. vin = vehicles[i].vin \/ VinFree(vin, s, DOMAIN vehicles \ {i})
  BY <1>3, <1>5
<1> QED
  BY <1>1, <1>5, <1>6, <1>7, <1>8

\* What archiving a vehicle writes.
LEMMA VehicleArchived ==
    ASSUME TypeInv, ArchiveVehicle
    PROVE  /\ vehicles' \in Seq(Vehicles) /\ DOMAIN vehicles' = DOMAIN vehicles
           /\ \A v \in DOMAIN vehicles :
                 /\ vehicles'[v].customer = vehicles[v].customer
                 /\ vehicles'[v].vin = vehicles[v].vin
                 /\ vehicles[v].archived => vehicles'[v].archived
<1>1. PICK i \in DOMAIN vehicles : vehicles' = [vehicles EXCEPT ![i].archived = TRUE]
  BY DEF ArchiveVehicle
<1> DEFINE e == [vehicles[i] EXCEPT !.archived = TRUE]
<1>2. vehicles \in Seq(Vehicles) /\ vehicles[i] \in Vehicles
  BY RowFacts
<1>3. vehicles' = [vehicles EXCEPT ![i] = e]
  BY <1>1
<1>4. /\ e \in Vehicles /\ e.customer = vehicles[i].customer /\ e.vin = vehicles[i].vin
      /\ e.archived
  BY <1>2 DEF Vehicles
<1> HIDE DEF e
<1> QED
  BY <1>2, <1>3, <1>4, WriteRow

LEMMA TypeWrite ==
    ASSUME TypeInv, NEW s \in Sessions,
           \/ ConvertCommit(s) \/ UpdateIntakeCommit(s) \/ UpdateCustomerCommit(s)
           \/ UpdateVehicleCommit(s)
    PROVE  TypeInv'
<1>1. CASE ConvertCommit(s)
  <2>1. Finish(s)
    BY <1>1 DEF ConvertCommit
  <2>2. \A v \in DOMAIN vehicles' : vehicles'[v].customer \in DOMAIN customers'
    <3> TAKE v \in DOMAIN vehicles'
    <3>1. CASE v \in DOMAIN vehicles
      BY <3>1, <1>1, CommitRows, RowFacts
    <3>2. CASE v \notin DOMAIN vehicles
      BY <3>2, <1>1, CommitRows
    <3> QED
      BY <3>1, <3>2
  <2> QED
    BY <1>1, <2>1, <2>2, CommitRows, TypeFinish
<1>2. CASE UpdateIntakeCommit(s)
  <2> DEFINE r == req[s]
             Patched(field, new) == IF new = "keep" THEN intake[field]
                                    ELSE Written(r.seen[field], new, intake[field])
             status == Patched("status", r.status)
             draft == Patched("draft", r.draft)
  <2>1. r \in Doings /\ r.pc = "update_intake" /\ Finish(s)
    BY <1>2 DEF UpdateIntakeCommit, TypeInv
  <2>2. intake' = [intake EXCEPT !.status = status, !.draft = draft]
    BY <1>2 DEF UpdateIntakeCommit
  <2>3. /\ r.status \in IntakeStatuses \cup {"keep"} /\ r.draft \in Drafts \cup {"keep"}
        /\ intake \in IntakeRows
    BY <2>1, DoingFields, RowFacts
  <2>4. status \in IntakeStatuses /\ draft \in Drafts
    BY <2>3 DEF Written, IntakeRows
  <2> HIDE DEF status, draft
  <2>5. /\ intake' \in IntakeRows /\ intake'.customer = intake.customer
        /\ intake'.vehicle = intake.vehicle
    BY <2>2, <2>3, <2>4 DEF IntakeRows
  <2>6. UNCHANGED <<customers, vehicles>>
    BY <1>2 DEF UpdateIntakeCommit, rowVars
  <2> QED
    BY <2>1, <2>5, <2>6, RowFacts, TypeFinish
<1>3. CASE UpdateCustomerCommit(s)
  <2>1. Finish(s) /\ UNCHANGED <<intake, vehicles>>
    BY <1>3 DEF UpdateCustomerCommit
  <2> QED
    BY <1>3, <2>1, CustomerPatch, RowFacts, TypeFinish
<1>4. CASE UpdateVehicleCommit(s)
  <2>1. Finish(s) /\ UNCHANGED <<intake, customers>>
    BY <1>4 DEF UpdateVehicleCommit
  <2>2. /\ vehicles' \in Seq(Vehicles) /\ DOMAIN vehicles' = DOMAIN vehicles
        /\ \A v \in DOMAIN vehicles : vehicles'[v].customer = vehicles[v].customer
    BY <1>4, VehiclePatch
  <2> QED
    BY <2>1, <2>2, RowFacts, TypeFinish
<1> QED
  BY <1>1, <1>2, <1>3, <1>4

\* The actions that no session is needed for.
LEMMA TypeOwner ==
    ASSUME TypeInv,
           CreateCustomer \/ ArchiveCustomer \/ CreateVehicle \/ ArchiveVehicle
    PROVE  TypeInv'
<1>1. UNCHANGED <<intake, lock, req>>
  BY DEF CreateCustomer, ArchiveCustomer, CreateVehicle, ArchiveVehicle
<1>2. CASE CreateCustomer
  <2>1. PICK names \in NewNames :
           customers' = Append(customers, [name |-> names.name, company |-> names.company,
                                           archived |-> FALSE, source |-> "owner"])
    BY <1>2 DEF CreateCustomer
  <2> DEFINE e == [name |-> names.name, company |-> names.company, archived |-> FALSE,
                   source |-> "owner"]
  <2>2. e \in Customers
    BY NewNamesAssumption DEF Customers, CustomerNames
  <2> HIDE DEF e
  <2>3. customers' \in Seq(Customers) /\ DOMAIN customers \subseteq DOMAIN customers'
    BY <2>1, <2>2, RowFacts, AppendRow DEF e
  <2>4. UNCHANGED vehicles
    BY <1>2 DEF CreateCustomer
  <2> QED
    BY <1>1, <2>3, <2>4, RowFacts, IdleIsDoing, IdleNames, TypeStep
<1>3. CASE ArchiveCustomer
  <2>1. UNCHANGED vehicles
    BY <1>3 DEF ArchiveCustomer
  <2> QED
    BY <1>1, <1>3, <2>1, CustomerArchived, RowFacts, IdleIsDoing, IdleNames, TypeStep
<1>4. CASE CreateVehicle
  <2>1. PICK c \in DOMAIN customers, vin \in VinFields :
           vehicles' = Append(vehicles, [customer |-> c, vin |-> vin, archived |-> FALSE])
    BY <1>4 DEF CreateVehicle
  <2> DEFINE e == [customer |-> c, vin |-> vin, archived |-> FALSE]
  <2>2. e \in Vehicles /\ e.customer \in DOMAIN customers
    BY RowFacts DEF Vehicles
  <2> HIDE DEF e
  <2>3. /\ vehicles' \in Seq(Vehicles) /\ DOMAIN vehicles \subseteq DOMAIN vehicles'
        /\ \A v \in DOMAIN vehicles' : vehicles'[v].customer \in DOMAIN customers
    BY <2>1, <2>2, RowFacts, AppendRow DEF e
  <2>4. UNCHANGED customers
    BY <1>4 DEF CreateVehicle
  <2> QED
    BY <1>1, <2>3, <2>4, RowFacts, IdleIsDoing, IdleNames, TypeStep
<1>5. CASE ArchiveVehicle
  <2>1. UNCHANGED customers
    BY <1>5 DEF ArchiveVehicle
  <2>2. /\ vehicles' \in Seq(Vehicles) /\ DOMAIN vehicles' = DOMAIN vehicles
        /\ \A v \in DOMAIN vehicles : vehicles'[v].customer = vehicles[v].customer
    BY <1>5, VehicleArchived
  <2> QED
    BY <1>1, <2>1, <2>2, RowFacts, IdleIsDoing, IdleNames, TypeStep
<1> QED
  BY <1>2, <1>3, <1>4, <1>5

LEMMA TypeNext ==
    ASSUME TypeInv, [Next]_vars
    PROVE  TypeInv'
<1>1. CASE UNCHANGED vars
  BY <1>1 DEF TypeInv, TypeOK, vars, rowVars
<1>2. CASE Next
  BY <1>2, TypeConvert, TypeLoad, TypeWrite, TypeOwner DEF Next
<1> QED
  BY <1>1, <1>2

-----------------------------------------------------------------------------
(* The lock, and what it protects                                          *)

\* The steps of a request, as the request itself sees them.
Loading(s) ==
    \/ ConvertLoad(s) \/ UpdateIntakeLoad(s) \/ UpdateCustomerLoad(s) \/ UpdateVehicleLoad(s)

Ending(s) ==
    \/ ConvertRefuse(s) \/ ConvertDuplicateVin(s) \/ ConvertCommit(s) \/ UpdateIntakeCommit(s)
    \/ UpdateCustomerCommit(s) \/ UpdateVehicleCommit(s) \/ Abort(s)

Owner == CreateCustomer \/ ArchiveCustomer \/ CreateVehicle \/ ArchiveVehicle

LEMMA LoadIsBegin ==
    ASSUME NEW s \in Sessions, Loading(s)
    PROVE  \E r : /\ Begin(s, r)
                  /\ r.pc \in {"convert_lock"} \cup Patches
                  /\ r.pc = "update_intake" =>
                        /\ r.seen = intake
                        /\ intake.status = "converted" => r.status \in {"keep", "converted"}
<1>1. CASE ConvertLoad(s)
  BY <1>1 DEF ConvertLoad
<1>2. CASE UpdateIntakeLoad(s)
  BY <1>2 DEF UpdateIntakeLoad, MayPatchStatus, Patches
<1>3. CASE UpdateCustomerLoad(s)
  BY <1>3 DEF UpdateCustomerLoad, Patches
<1>4. CASE UpdateVehicleLoad(s)
  BY <1>4 DEF UpdateVehicleLoad, Patches
<1> QED
  BY <1>1, <1>2, <1>3, <1>4 DEF Loading

LEMMA EndIsFinish ==
    ASSUME NEW s \in Sessions, Ending(s)
    PROVE  /\ req[s] # Idle /\ Finish(s) /\ UNCHANGED raced
           /\ UNCHANGED intake \/ ConvertCommit(s) \/ UpdateIntakeCommit(s)
           /\ UNCHANGED conversions \/ ConvertCommit(s)
BY DEF Ending, ConvertRefuse, ConvertDuplicateVin, ConvertCommit, UpdateIntakeCommit,
       UpdateCustomerCommit, UpdateVehicleCommit, Abort, Idle

\* A PATCH keeps the status of a request that is converted, unless it loaded another one.
LEMMA IntakePatch ==
    ASSUME TypeInv, NEW s \in Sessions, UpdateIntakeCommit(s)
    PROVE  /\ lock = NoSession /\ req[s].pc = "update_intake"
           /\ \/ intake'.status = intake.status
              \/ req[s].status # "keep" /\ intake'.status = req[s].status
           /\ intake'.customer = intake.customer /\ intake'.vehicle = intake.vehicle
<1> DEFINE r == req[s]
           Patched(field, new) == IF new = "keep" THEN intake[field]
                                  ELSE Written(r.seen[field], new, intake[field])
           status == Patched("status", r.status)
           draft == Patched("draft", r.draft)
<1>1. intake' = [intake EXCEPT !.status = status, !.draft = draft] /\ intake \in IntakeRows
  BY RowFacts DEF UpdateIntakeCommit
<1>2. status = intake.status \/ (r.status # "keep" /\ status = r.status)
  BY DEF Written
<1> HIDE DEF status, draft
<1>3. /\ intake'.status = status /\ intake'.customer = intake.customer
      /\ intake'.vehicle = intake.vehicle
  BY <1>1 DEF IntakeRows
<1> QED
  BY <1>2, <1>3 DEF UpdateIntakeCommit

LEMMA NextCases ==
    ASSUME Next
    PROVE  \/ \E s \in Sessions : \/ Loading(s) \/ Ending(s)
                                  \/ ConvertLock(s) \/ ConvertResolve(s) \/ ConvertFlush(s)
           \/ Owner
BY DEF Next, Loading, Ending, Owner

LEMMA LockNext ==
    ASSUME TypeInv, LockInv, [Next]_vars
    PROVE  LockInv'
<1>1. CASE UNCHANGED vars
  BY <1>1 DEF LockInv, vars
<1>2. ASSUME NEW s \in Sessions, Loading(s)
      PROVE  LockInv'
  <2>1. PICK r : Begin(s, r) /\ r.pc \in {"convert_lock"} \cup Patches
    BY <1>2, LoadIsBegin
  <2>2. UNCHANGED <<intake, lock>> /\ req' = [req EXCEPT ![s] = r]
    BY <2>1 DEF Begin
  <2> QED
    BY <2>1, <2>2 DEF LockInv, Patches, TypeInv
<1>3. ASSUME NEW s \in Sessions, Ending(s)
      PROVE  LockInv'
  <2>1. req' = [req EXCEPT ![s] = Idle] /\ lock' = IF lock = s THEN NoSession ELSE lock
    BY <1>3, EndIsFinish DEF Finish
  <2>2. CASE ConvertCommit(s)
    <3>1. lock = s
      BY <2>2 DEF LockInv, ConvertCommit
    <3> QED
      BY <2>1, <3>1, IdleIsDoing DEF LockInv, TypeInv
  <2>3. CASE UpdateIntakeCommit(s)
    <3>1. lock = NoSession
      BY <2>3 DEF UpdateIntakeCommit
    <3> QED
      BY <2>1, <3>1, IdleIsDoing, NoSessionAssumption DEF LockInv, TypeInv
  <2>4. CASE UNCHANGED intake
    BY <2>1, <2>4, IdleIsDoing DEF LockInv, TypeInv
  <2> QED
    BY <1>3, <2>2, <2>3, <2>4, EndIsFinish
<1>4. ASSUME NEW s \in Sessions, ConvertLock(s)
      PROVE  LockInv'
  <2> DEFINE x == [pc |-> "convert_resolve", attach |-> req[s].attach,
                   override |-> req[s].override, seen |-> intake]
  <2>1. /\ req' = [req EXCEPT ![s] = x] /\ lock = NoSession /\ lock' = s
        /\ UNCHANGED intake
    BY <1>4 DEF ConvertLock
  <2>2. x.pc = "convert_resolve" /\ x.seen = intake
    OBVIOUS
  <2> HIDE DEF x
  <2> QED
    BY <2>1, <2>2, NoSessionAssumption DEF LockInv, TypeInv
<1>5. ASSUME NEW s \in Sessions, ConvertResolve(s)
      PROVE  LockInv'
  <2> DEFINE x == [pc |-> "convert_flush", attach |-> req[s].attach,
                   vehicle |-> ResolvedVehicle(req[s])]
  <2>1. /\ req' = [req EXCEPT ![s] = x] /\ UNCHANGED <<intake, lock>>
        /\ req[s].pc = "convert_resolve" /\ req[s].seen.status # "converted"
    BY <1>5 DEF ConvertResolve
  <2>2. x.pc = "convert_flush"
    OBVIOUS
  <2> HIDE DEF x
  <2> QED
    BY <2>1, <2>2 DEF LockInv, TypeInv
<1>6. ASSUME NEW s \in Sessions, ConvertFlush(s)
      PROVE  LockInv'
  <2> DEFINE x == [req[s] EXCEPT !.pc = "convert_commit"]
  <2>1. /\ req' = [req EXCEPT ![s] = x] /\ UNCHANGED <<intake, lock>>
        /\ req[s].pc = "convert_flush"
    BY <1>6 DEF ConvertFlush
  <2>2. x.pc = "convert_commit"
    BY <2>1, DoingFields DEF TypeInv
  <2> HIDE DEF x
  <2> QED
    BY <2>1, <2>2 DEF LockInv, TypeInv
<1>7. CASE Owner
  BY <1>7 DEF Owner, CreateCustomer, ArchiveCustomer, CreateVehicle, ArchiveVehicle, LockInv
<1> QED
  BY <1>1, <1>2, <1>3, <1>4, <1>5, <1>6, <1>7, NextCases

LEMMA PatchNext ==
    ASSUME TypeInv, PatchInv, [Next]_vars
    PROVE  PatchInv'
<1>1. CASE UNCHANGED vars
  BY <1>1 DEF PatchInv, vars
<1>2. ASSUME NEW s \in Sessions, Loading(s)
      PROVE  PatchInv'
  <2>1. PICK r : /\ Begin(s, r)
                 /\ r.pc = "update_intake" =>
                       /\ r.seen = intake
                       /\ intake.status = "converted" => r.status \in {"keep", "converted"}
    BY <1>2, LoadIsBegin
  <2>2. /\ UNCHANGED intake /\ req' = [req EXCEPT ![s] = r]
        /\ raced' = (raced \/ \E t \in Sessions \ {s} :
                        /\ req[t] # Idle
                        /\ r.pc \in Patches \/ req[t].pc \in Patches)
    BY <2>1 DEF Begin
  <2>3. \A t \in Sessions : req'[t] = IF t = s THEN r ELSE req[t]
    BY <2>2 DEF TypeInv
  <2>4. "idle" \notin Patches
    BY DEF Patches
  <2> SUFFICES ASSUME ~raced', NEW u \in Sessions
               PROVE  /\ req'[u].pc \in Patches => \A t \in Sessions \ {u} : req'[t] = Idle
                      /\ req'[u].pc = "update_intake" =>
                            /\ req'[u].seen.status = intake'.status
                            /\ intake'.status = "converted" =>
                                  req'[u].status \in {"keep", "converted"}
    BY DEF PatchInv
  <2>5. ~raced /\ \A t \in Sessions \ {s} :
           req[t] = Idle \/ (r.pc \notin Patches /\ req[t].pc \notin Patches)
    BY <2>2
  <2>6. CASE u = s
    BY <2>1, <2>2, <2>3, <2>5, <2>6
  <2>7. CASE u # s
    <3>1. req'[u] = req[u] /\ req[u].pc \notin Patches
      BY <2>3, <2>4, <2>5, <2>7, IdleIsDoing
    <3>2. req[u].pc # "update_intake"
      BY <3>1 DEF Patches
    <3> QED
      BY <3>1, <3>2
  <2> QED
    BY <2>6, <2>7
<1>3. ASSUME NEW s \in Sessions, Ending(s)
      PROVE  PatchInv'
  <2>1. /\ req' = [req EXCEPT ![s] = Idle] /\ UNCHANGED raced /\ req[s] # Idle
        /\ UNCHANGED intake \/ ConvertCommit(s) \/ UpdateIntakeCommit(s)
    BY <1>3, EndIsFinish DEF Finish
  <2>2. \A t \in Sessions : req'[t] = IF t = s THEN Idle ELSE req[t]
    BY <2>1 DEF TypeInv
  <2>3. Idle.pc \notin Patches /\ Idle.pc # "update_intake"
    BY IdleIsDoing DEF Patches
  \* A PATCH in flight is alone, so the one that writes the row is not beside it.
  <2>4. ~raced => \A t \in Sessions : t # s => req[t].pc \notin Patches
    BY <2>1 DEF PatchInv
  <2>5. "update_intake" \in Patches
    BY DEF Patches
  <2> QED
    BY <2>1, <2>2, <2>3, <2>4, <2>5 DEF PatchInv
<1>4. ASSUME NEW s \in Sessions, ConvertLock(s) \/ ConvertResolve(s) \/ ConvertFlush(s)
      PROVE  PatchInv'
  <2>1. /\ req[s].pc \notin Patches /\ req[s] # Idle /\ UNCHANGED <<intake, raced>>
        /\ \A t \in Sessions \ {s} : req'[t] = req[t]
    BY <1>4, IdleIsDoing
    DEF ConvertLock, ConvertResolve, ConvertFlush, Patches, TypeInv
  <2>2. req'[s].pc \notin Patches
    <3>1. CASE ConvertLock(s)
      BY <3>1 DEF ConvertLock, Patches, TypeInv
    <3>2. CASE ConvertResolve(s)
      BY <3>2 DEF ConvertResolve, Patches, TypeInv
    <3>3. CASE ConvertFlush(s)
      BY <3>3, DoingFields DEF ConvertFlush, Patches, TypeInv
    <3> QED
      BY <1>4, <3>1, <3>2, <3>3
  <2>3. "update_intake" \in Patches
    BY DEF Patches
  <2> QED
    BY <2>1, <2>2, <2>3 DEF PatchInv
<1>5. CASE Owner
  BY <1>5 DEF Owner, CreateCustomer, ArchiveCustomer, CreateVehicle, ArchiveVehicle, PatchInv
<1> QED
  BY <1>1, <1>2, <1>3, <1>4, <1>5, NextCases

\* Every step but the commit of a conversion leaves the conversions alone, and every
\* step but that and the PATCH of the request leaves the request alone.
LEMMA WhoWrites ==
    ASSUME [Next]_vars
    PROVE  /\ UNCHANGED conversions \/ \E s \in Sessions : ConvertCommit(s)
           /\ UNCHANGED intake \/ \E s \in Sessions : ConvertCommit(s) \/ UpdateIntakeCommit(s)
           /\ raced => raced'
<1>1. CASE UNCHANGED vars
  BY <1>1 DEF vars
<1>2. ASSUME NEW s \in Sessions, Loading(s)
      PROVE  UNCHANGED <<conversions, intake>> /\ (raced => raced')
  BY <1>2, LoadIsBegin DEF Begin
<1>3. ASSUME NEW s \in Sessions, ConvertLock(s) \/ ConvertResolve(s) \/ ConvertFlush(s)
      PROVE  UNCHANGED <<conversions, intake, raced>>
  BY <1>3 DEF ConvertLock, ConvertResolve, ConvertFlush
<1>4. Owner => UNCHANGED <<conversions, intake, raced>>
  BY DEF Owner, CreateCustomer, ArchiveCustomer, CreateVehicle, ArchiveVehicle
<1> QED
  BY <1>1, <1>2, <1>3, <1>4, NextCases, EndIsFinish

LEMMA OnceNext ==
    ASSUME TypeInv, LockInv, PatchInv, OnceInv, HistoryInv, [Next]_vars
    PROVE  OnceInv' /\ HistoryInv'
<1>1. ASSUME NEW s \in Sessions, ConvertCommit(s)
      PROVE  OnceInv' /\ HistoryInv'
  <2>1. /\ intake'.status = "converted" /\ intake'.customer \in Nat
        /\ conversions' = Append(conversions, intake'.customer)
    BY <1>1, CommitRows DEF IntakeRows
  <2>2. intake.status # "converted" /\ UNCHANGED raced
    BY <1>1 DEF LockInv, ConvertCommit
  <2>3. ~raced => conversions = <<>>
    BY <2>2 DEF OnceInv
  <2> QED
    BY <2>1, <2>2, <2>3 DEF OnceInv, HistoryInv
<1>2. ASSUME NEW s \in Sessions, UpdateIntakeCommit(s)
      PROVE  OnceInv' /\ HistoryInv'
  <2>1. /\ req[s].pc = "update_intake"
        /\ \/ intake'.status = intake.status
           \/ req[s].status # "keep" /\ intake'.status = req[s].status
    BY <1>2, IntakePatch
  <2>2. UNCHANGED <<raced, conversions>>
    BY <1>2 DEF UpdateIntakeCommit
  <2> QED
    BY <2>1, <2>2 DEF PatchInv, OnceInv, HistoryInv
<1> QED
  BY <1>1, <1>2, WhoWrites DEF OnceInv, HistoryInv

-----------------------------------------------------------------------------
(* The rows of a conversion                                                *)

\* How customers change where no conversion commits: none that an intake made is new.
LEMMA CustomersMove ==
    ASSUME TypeInv, [Next]_vars
    PROVE  \/ \E s \in Sessions : ConvertCommit(s)
           \/ \A c \in DOMAIN customers' : customers'[c].source = "intake" =>
                 c \in DOMAIN customers /\ customers[c].source = "intake"
<1> DEFINE Kept == \A c \in DOMAIN customers' : customers'[c].source = "intake" =>
                      c \in DOMAIN customers /\ customers[c].source = "intake"
<1>1. ASSUME UNCHANGED customers
      PROVE  Kept
  BY <1>1
<1>2. ASSUME NEW s \in Sessions, UpdateCustomerCommit(s)
      PROVE  Kept
  BY <1>2, CustomerPatch
<1>3. ASSUME ArchiveCustomer
      PROVE  Kept
  BY <1>3, CustomerArchived
<1>4. ASSUME CreateCustomer
      PROVE  Kept
  <2>1. PICK names \in NewNames :
           customers' = Append(customers, [name |-> names.name, company |-> names.company,
                                           archived |-> FALSE, source |-> "owner"])
    BY <1>4 DEF CreateCustomer
  <2> DEFINE e == [name |-> names.name, company |-> names.company, archived |-> FALSE,
                   source |-> "owner"]
  <2>2. e \in Customers /\ e.source = "owner"
    BY NewNamesAssumption DEF Customers, CustomerNames
  <2> HIDE DEF e
  <2>3. customers' = Append(customers, e) /\ customers \in Seq(Customers)
    BY <2>1, RowFacts DEF e
  <2> QED
    BY <2>2, <2>3, AppendRow
<1>5. ASSUME NEW s \in Sessions, Loading(s)
      PROVE  UNCHANGED customers
  BY <1>5, LoadIsBegin DEF Begin, rowVars
<1>6. ASSUME NEW s \in Sessions, ConvertLock(s) \/ ConvertResolve(s) \/ ConvertFlush(s)
      PROVE  UNCHANGED customers
  BY <1>6 DEF ConvertLock, ConvertResolve, ConvertFlush, rowVars
<1>7. ASSUME NEW s \in Sessions, Ending(s)
      PROVE  UNCHANGED customers \/ ConvertCommit(s) \/ UpdateCustomerCommit(s)
  BY <1>7 DEF Ending, ConvertRefuse, ConvertDuplicateVin, UpdateIntakeCommit,
              UpdateVehicleCommit, Abort, rowVars
<1>8. Owner => UNCHANGED customers \/ CreateCustomer \/ ArchiveCustomer
  BY DEF Owner, CreateVehicle, ArchiveVehicle
<1>9. UNCHANGED vars => UNCHANGED customers
  BY DEF vars, rowVars
<1> HIDE DEF Kept
<1>10. Kept \/ \E s \in Sessions : ConvertCommit(s)
  BY <1>1, <1>2, <1>3, <1>4, <1>5, <1>6, <1>7, <1>8, <1>9, NextCases
<1> QED
  BY <1>10 DEF Kept

LEMMA OrphanNext ==
    ASSUME TypeInv, HistoryInv, NoOrphanCustomer, [Next]_vars
    PROVE  NoOrphanCustomer'
<1>1. ASSUME NEW s \in Sessions, ConvertCommit(s)
      PROVE  NoOrphanCustomer'
  <2> SUFFICES ASSUME NEW c \in DOMAIN customers', customers'[c].source = "intake"
               PROVE  \E k \in DOMAIN conversions' : conversions'[k] = c
    BY DEF NoOrphanCustomer
  <2>1. conversions' = Append(conversions, intake'.customer) /\ intake'.customer \in Nat
    BY <1>1, CommitRows DEF IntakeRows
  <2>2. /\ DOMAIN conversions' = DOMAIN conversions \cup {Len(conversions) + 1}
        /\ \A k \in DOMAIN conversions : conversions'[k] = conversions[k]
        /\ conversions'[Len(conversions) + 1] = intake'.customer
    BY <2>1, AppendRow DEF HistoryInv
  <2>3. CASE c \in DOMAIN customers
    BY <2>2, <2>3, <1>1, CommitRows DEF NoOrphanCustomer
  <2>4. CASE c \notin DOMAIN customers
    BY <2>2, <2>4, <1>1, CommitRows
  <2> QED
    BY <2>3, <2>4
<1>2. ASSUME UNCHANGED conversions,
             \A c \in DOMAIN customers' : customers'[c].source = "intake" =>
                c \in DOMAIN customers /\ customers[c].source = "intake"
      PROVE  NoOrphanCustomer'
  BY <1>2 DEF NoOrphanCustomer
<1> QED
  BY <1>1, <1>2, CustomersMove, WhoWrites

\* What becomes of the vehicles where no conversion commits.
LEMMA VehiclesMove ==
    ASSUME [Next]_vars
    PROVE  \/ UNCHANGED vehicles
           \/ \E s \in Sessions : ConvertCommit(s) \/ UpdateVehicleCommit(s)
           \/ CreateVehicle
           \/ ArchiveVehicle
<1>1. ASSUME NEW s \in Sessions, Loading(s)
      PROVE  UNCHANGED vehicles
  BY <1>1, LoadIsBegin DEF Begin, rowVars
<1>2. ASSUME NEW s \in Sessions, ConvertLock(s) \/ ConvertResolve(s) \/ ConvertFlush(s)
      PROVE  UNCHANGED vehicles
  BY <1>2 DEF ConvertLock, ConvertResolve, ConvertFlush, rowVars
<1>3. ASSUME NEW s \in Sessions, Ending(s)
      PROVE  UNCHANGED vehicles \/ ConvertCommit(s) \/ UpdateVehicleCommit(s)
  BY <1>3 DEF Ending, ConvertRefuse, ConvertDuplicateVin, UpdateIntakeCommit,
              UpdateCustomerCommit, Abort, rowVars
<1>4. Owner => UNCHANGED vehicles \/ CreateVehicle \/ ArchiveVehicle
  BY DEF Owner, CreateCustomer, ArchiveCustomer
<1>5. UNCHANGED vars => UNCHANGED vehicles
  BY DEF vars, rowVars
<1> QED
  BY <1>1, <1>2, <1>3, <1>4, <1>5, NextCases

\* A vehicle stays its customer's.
LEMMA OwnerKept ==
    ASSUME TypeInv, [Next]_vars
    PROVE  \/ \E s \in Sessions : ConvertCommit(s)
           \/ \A v \in DOMAIN vehicles : /\ v \in DOMAIN vehicles'
                                         /\ vehicles'[v].customer = vehicles[v].customer
<1>1. ASSUME CreateVehicle
      PROVE  \A v \in DOMAIN vehicles : v \in DOMAIN vehicles' /\ vehicles'[v] = vehicles[v]
  <2>1. PICK c \in DOMAIN customers, vin \in VinFields :
           vehicles' = Append(vehicles, [customer |-> c, vin |-> vin, archived |-> FALSE])
    BY <1>1 DEF CreateVehicle
  <2> DEFINE e == [customer |-> c, vin |-> vin, archived |-> FALSE]
  <2>2. e \in Vehicles
    BY RowFacts DEF Vehicles
  <2> HIDE DEF e
  <2>3. vehicles' = Append(vehicles, e) /\ vehicles \in Seq(Vehicles)
    BY <2>1, RowFacts DEF e
  <2> QED
    BY <2>2, <2>3, AppendRow
<1>2. ASSUME NEW s \in Sessions, UpdateVehicleCommit(s)
      PROVE  \A v \in DOMAIN vehicles : /\ v \in DOMAIN vehicles'
                                        /\ vehicles'[v].customer = vehicles[v].customer
  BY <1>2, VehiclePatch
<1>3. CASE UNCHANGED vehicles
  BY <1>3
<1>4. CASE ArchiveVehicle
  BY <1>4, VehicleArchived
<1> QED
  BY <1>1, <1>2, <1>3, <1>4, VehiclesMove

LEMMA SoundNext ==
    ASSUME TypeInv, ConversionSound, [Next]_vars
    PROVE  ConversionSound'
<1>1. ASSUME NEW s \in Sessions, ConvertCommit(s)
      PROVE  ConversionSound'
  <2>1. 0 \notin DOMAIN customers'
    BY <1>1, CommitRows
  <2> QED
    BY <1>1, <2>1, CommitRows DEF ConversionSound
<1>2. ASSUME ~ \E s \in Sessions : ConvertCommit(s)
      PROVE  ConversionSound'
  <2>1. intake'.customer = intake.customer /\ intake'.vehicle = intake.vehicle
    BY <1>2, WhoWrites, IntakePatch
  <2>2. intake.vehicle \in {0} \cup DOMAIN vehicles
    BY RowFacts
  <2> QED
    BY <1>2, <2>1, <2>2, OwnerKept DEF ConversionSound
<1> QED
  BY <1>1, <1>2

-----------------------------------------------------------------------------
(* VINs                                                                    *)

\* No two vehicles that are active have one VIN; the flushed ones stay their session's.
LEMMA VinFlush ==
    ASSUME TypeInv, VinInv, NEW s \in Sessions, ConvertFlush(s)
    PROVE  VinInv'
<1> DEFINE x == [req[s] EXCEPT !.pc = "convert_commit"]
<1>1. /\ req' = [req EXCEPT ![s] = x] /\ UNCHANGED vehicles
      /\ VinFree(req[s].vehicle, s, DOMAIN vehicles) /\ req[s].pc = "convert_flush"
  BY DEF ConvertFlush, rowVars
<1>2. x.pc = "convert_commit" /\ x.vehicle = req[s].vehicle
  BY <1>1, DoingFields DEF TypeInv
<1>3. \A t \in Sessions : req'[t] = IF t = s THEN x ELSE req[t]
  BY <1>1 DEF TypeInv
<1> HIDE DEF x
<1>4. \A vin \in Vins : ActiveWith(vin)' = ActiveWith(vin)
  BY <1>1 DEF ActiveWith
<1>5. \A vin \in Vins : vin # req[s].vehicle => Flushed(vin)' = Flushed(vin)
  BY <1>1, <1>2, <1>3 DEF Flushed
<1>6. req[s].vehicle \in Vins => /\ ActiveWith(req[s].vehicle) = {}
                                 /\ Flushed(req[s].vehicle)' \subseteq {s}
                                 /\ Flushed(req[s].vehicle) \subseteq {s}
  BY <1>1, <1>2, <1>3 DEF Flushed, VinFree, ActiveWith
<1> SUFFICES ASSUME NEW t \in Sessions, NEW vin \in Vins,
                    req'[t].pc = "convert_commit", req'[t].vehicle = vin
             PROVE  ActiveWith(vin)' = {} /\ Flushed(vin)' \subseteq {t}
  BY <1>4 DEF VinInv
<1>7. CASE t = s
  BY <1>2, <1>3, <1>4, <1>6, <1>7
<1>8. CASE t # s
  <2>1. req'[t] = req[t] /\ t \in Flushed(vin)
    BY <1>3, <1>8 DEF Flushed
  <2>2. vin # req[s].vehicle
    BY <1>6, <1>8, <2>1
  <2> QED
    BY <1>4, <1>5, <2>1, <2>2 DEF VinInv
<1> QED
  BY <1>7, <1>8

\* Only ConvertFlush flushes a row.
LEMMA FlushedMove ==
    ASSUME TypeInv, [Next]_vars
    PROVE  \/ \E s \in Sessions : ConvertFlush(s)
           \/ \A t \in Sessions : req'[t].pc = "convert_commit" => req'[t] = req[t]
<1> DEFINE Kept == \A t \in Sessions : req'[t].pc = "convert_commit" => req'[t] = req[t]
<1>1. ASSUME NEW s \in Sessions, Loading(s)
      PROVE  Kept
  <2>1. PICK r : Begin(s, r) /\ r.pc \in {"convert_lock"} \cup Patches
    BY <1>1, LoadIsBegin
  <2> QED
    BY <2>1 DEF Begin, TypeInv, Patches
<1>2. ASSUME NEW s \in Sessions, ConvertLock(s) \/ ConvertResolve(s)
      PROVE  Kept
  BY <1>2 DEF ConvertLock, ConvertResolve, TypeInv
<1>3. ASSUME NEW s \in Sessions, Ending(s)
      PROVE  Kept
  BY <1>3, EndIsFinish, IdleIsDoing DEF Finish, TypeInv
<1>4. ASSUME Owner \/ UNCHANGED vars
      PROVE  Kept
  BY <1>4 DEF Owner, CreateCustomer, ArchiveCustomer, CreateVehicle, ArchiveVehicle, vars
<1> HIDE DEF Kept
<1>5. Kept \/ \E s \in Sessions : ConvertFlush(s)
  BY <1>1, <1>2, <1>3, <1>4, NextCases
<1> QED
  BY <1>5 DEF Kept

\* A VIN may come to one vehicle if nobody has flushed it.
LEMMA VinKeep ==
    ASSUME TypeInv, VinInv,
           \A t \in Sessions : req'[t].pc = "convert_commit" => req'[t] = req[t],
           \A vin \in Vins :
              \/ ActiveWith(vin)' \subseteq ActiveWith(vin)
              \/ /\ \A v, w \in ActiveWith(vin)' : v = w
                 /\ Flushed(vin)' = {}
    PROVE  VinInv'
<1>1. \A vin \in Vins : Flushed(vin)' \subseteq Flushed(vin)
  BY DEF Flushed
<1>2. \A t \in Sessions, vin \in Vins :
         req'[t].pc = "convert_commit" /\ req'[t].vehicle = vin =>
            t \in Flushed(vin)' /\ req[t].pc = "convert_commit" /\ req[t].vehicle = vin
  BY DEF Flushed
<1> QED
  BY <1>1, <1>2 DEF VinInv

LEMMA VinCommit ==
    ASSUME TypeInv, VinInv, NEW s \in Sessions, ConvertCommit(s)
    PROVE  VinInv'
<1>1. /\ req' = [req EXCEPT ![s] = Idle] /\ req[s].pc = "convert_commit"
  BY DEF ConvertCommit, Finish
<1>2. \A t \in Sessions : req'[t].pc = "convert_commit" => req'[t] = req[t] /\ t # s
  BY <1>1, IdleIsDoing DEF TypeInv
<1>3. ASSUME NEW vin \in Vins, vin # req[s].vehicle
      PROVE  ActiveWith(vin)' \subseteq ActiveWith(vin)
  BY <1>3, CommitRows DEF ActiveWith
<1>4. ASSUME NEW vin \in Vins, vin = req[s].vehicle
      PROVE  /\ \A v, w \in ActiveWith(vin)' : v = w
             /\ Flushed(vin)' = {}
  <2>1. ActiveWith(vin) = {} /\ Flushed(vin) \subseteq {s}
    BY <1>1, <1>4 DEF VinInv
  <2>2. \A v \in DOMAIN vehicles : vehicles'[v] = vehicles[v]
    BY CommitRows
  <2>3. \A v \in ActiveWith(vin)' : v \in DOMAIN vehicles' \ DOMAIN vehicles
    BY <2>1, <2>2 DEF ActiveWith
  <2>4. \A v, w \in DOMAIN vehicles' \ DOMAIN vehicles : v = w
    BY CommitRows
  <2>5. Flushed(vin)' = {}
    BY <1>2, <2>1 DEF Flushed
  <2> QED
    BY <2>3, <2>4, <2>5
<1> QED
  BY <1>2, <1>3, <1>4, VinKeep

LEMMA VinPatch ==
    ASSUME TypeInv, VinInv, NEW s \in Sessions, UpdateVehicleCommit(s)
    PROVE  VinInv'
<1>1. \A t \in Sessions : req'[t].pc = "convert_commit" => req'[t] = req[t]
  BY IdleIsDoing DEF UpdateVehicleCommit, Finish, TypeInv
<1>2. PICK i \in DOMAIN vehicles, new \in VinFields :
         /\ req[s].pc = "update_vehicle"
         /\ DOMAIN vehicles' = DOMAIN vehicles
         /\ \A v \in DOMAIN vehicles : v # i => vehicles'[v] = vehicles[v]
         /\ vehicles'[i].archived = vehicles[i].archived
         /\ vehicles'[i].vin = new
         /\ new = vehicles[i].vin \/ VinFree(new, s, DOMAIN vehicles \ {i})
  BY VehiclePatch
<1>3. ASSUME NEW vin \in Vins, vin # new \/ new = vehicles[i].vin
      PROVE  ActiveWith(vin)' \subseteq ActiveWith(vin)
  BY <1>2, <1>3 DEF ActiveWith
<1>4. ASSUME NEW vin \in Vins, vin = new, new # vehicles[i].vin
      PROVE  /\ \A v, w \in ActiveWith(vin)' : v = w
             /\ Flushed(vin)' = {}
  <2>1. ActiveWith(vin) \cap (DOMAIN vehicles \ {i}) = {} /\ Flushed(vin) \subseteq {s}
    BY <1>2, <1>4 DEF VinFree
  <2>2. ActiveWith(vin)' \subseteq {i}
    BY <1>2, <2>1 DEF ActiveWith
  <2>3. Flushed(vin)' \subseteq Flushed(vin) /\ s \notin Flushed(vin)
    BY <1>1, <1>2 DEF Flushed
  <2> QED
    BY <2>1, <2>2, <2>3
<1> QED
  BY <1>1, <1>3, <1>4, VinKeep

LEMMA VinCreate ==
    ASSUME TypeInv, VinInv, CreateVehicle
    PROVE  VinInv'
<1>1. PICK c \in DOMAIN customers, new \in VinFields :
         /\ VinFree(new, NoSession, DOMAIN vehicles)
         /\ vehicles' = Append(vehicles, [customer |-> c, vin |-> new, archived |-> FALSE])
  BY DEF CreateVehicle
<1>2. UNCHANGED req
  BY DEF CreateVehicle
<1> DEFINE e == [customer |-> c, vin |-> new, archived |-> FALSE]
<1>3. e \in Vehicles /\ e.vin = new
  BY RowFacts DEF Vehicles
<1> HIDE DEF e
<1>4. /\ DOMAIN vehicles' = DOMAIN vehicles \cup {Len(vehicles) + 1}
      /\ \A v \in DOMAIN vehicles : vehicles'[v] = vehicles[v]
      /\ vehicles'[Len(vehicles) + 1] = e
  BY <1>1, <1>3, RowFacts, AppendRow DEF e
<1>5. ASSUME NEW vin \in Vins, vin # new
      PROVE  ActiveWith(vin)' \subseteq ActiveWith(vin)
  BY <1>3, <1>4, <1>5 DEF ActiveWith
<1>6. ASSUME NEW vin \in Vins, vin = new
      PROVE  /\ \A v, w \in ActiveWith(vin)' : v = w
             /\ Flushed(vin)' = {}
  <2>1. ActiveWith(vin) = {} /\ Flushed(vin) \subseteq {NoSession}
    BY <1>1, <1>6 DEF VinFree, ActiveWith
  <2>2. \A v \in DOMAIN vehicles : v \notin ActiveWith(vin)'
    BY <1>4, <2>1 DEF ActiveWith
  <2>3. ActiveWith(vin)' \subseteq {Len(vehicles) + 1}
    BY <1>4, <2>2 DEF ActiveWith
  <2>4. Flushed(vin) = {}
    BY <2>1, NoSessionAssumption DEF Flushed
  <2>5. Flushed(vin)' = Flushed(vin)
    BY <1>2 DEF Flushed
  <2> QED
    BY <2>3, <2>4, <2>5
<1> QED
  BY <1>2, <1>5, <1>6, VinKeep

LEMMA VinNext ==
    ASSUME TypeInv, VinInv, [Next]_vars
    PROVE  VinInv'
<1>1. CASE \E s \in Sessions : ConvertFlush(s)
  BY <1>1, VinFlush
<1>2. CASE \E s \in Sessions : ConvertCommit(s) \/ UpdateVehicleCommit(s)
  BY <1>2, VinCommit, VinPatch
<1>3. CASE CreateVehicle
  BY <1>3, VinCreate
<1>4. ASSUME \A t \in Sessions : req'[t].pc = "convert_commit" => req'[t] = req[t],
             UNCHANGED vehicles \/ ArchiveVehicle
      PROVE  VinInv'
  <2>1. ASSUME NEW vin \in Vins
        PROVE  ActiveWith(vin)' \subseteq ActiveWith(vin)
    <3>1. CASE UNCHANGED vehicles
      BY <3>1 DEF ActiveWith
    <3>2. CASE ArchiveVehicle
      BY <3>2, VehicleArchived DEF ActiveWith
    <3> QED
      BY <1>4, <3>1, <3>2
  <2> QED
    BY <1>4, <2>1, VinKeep
<1> QED
  BY <1>1, <1>2, <1>3, <1>4, FlushedMove, VehiclesMove

-----------------------------------------------------------------------------
LEMMA InvInit == Init => IInv
<1> SUFFICES ASSUME Init
             PROVE  IInv
  OBVIOUS
<1>1. /\ customers = <<>> /\ vehicles = <<>> /\ lock = NoSession /\ conversions = <<>>
      /\ req = [s \in Sessions |-> Idle]
      /\ intake \in [status : {"new"}, draft : Drafts, customer : {0}, vehicle : {0}]
  BY DEF Init
<1>2. intake \in IntakeRows /\ intake.customer = 0 /\ intake.vehicle = 0
  BY <1>1 DEF IntakeRows, IntakeStatuses
<1>3. TypeInv
  BY <1>1, <1>2, IdleIsDoing, IdleNames DEF TypeInv, TypeOK
<1>4. VinInv
  BY <1>1, IdleIsDoing DEF VinInv, ActiveWith, Flushed
<1>5. LockInv /\ PatchInv
  BY <1>1, IdleIsDoing DEF LockInv, PatchInv, Patches
<1>6. OnceInv /\ HistoryInv /\ ConversionSound /\ NoOrphanCustomer
  BY <1>1, <1>2 DEF OnceInv, HistoryInv, ConversionSound, NoOrphanCustomer
<1> QED
  BY <1>3, <1>4, <1>5, <1>6 DEF IInv

THEOREM Invariance == Spec => []IInv
<1>1. IInv /\ [Next]_vars => IInv'
  BY TypeNext, VinNext, OrphanNext, SoundNext, LockNext, PatchNext, OnceNext DEF IInv
<1> QED
  BY <1>1, InvInit, PTL DEF Spec

\* Every row keeps its type, and the ids that rows name exist.
THEOREM TypeCorrect == Spec => []TypeOK
<1>1. IInv => TypeOK
  BY DEF IInv, TypeInv
<1> QED
  BY <1>1, Invariance, PTL

\* No two active vehicles of a shop have one VIN, however many sessions create, patch
\* and convert at once.
THEOREM ActiveVinUniqueTheorem == Spec => []ActiveVinUnique
<1>1. IInv => ActiveVinUnique
  <2> SUFFICES ASSUME IInv, NEW vin \in Vins
               PROVE  Cardinality(ActiveWith(vin)) <= 1
    BY DEF ActiveVinUnique
  <2>1. \A v, w \in ActiveWith(vin) : v = w
    BY DEF IInv, VinInv
  <2>2. CASE ActiveWith(vin) = {}
    BY <2>2, FS_EmptySet
  <2>3. CASE ActiveWith(vin) # {}
    <3>1. PICK v : ActiveWith(vin) = {v}
      BY <2>1, <2>3
    <3>2. Cardinality({v}) = 1
      BY FS_Singleton
    <3> QED
      BY <3>1, <3>2
  <2> QED
    BY <2>2, <2>3
<1> QED
  BY <1>1, Invariance, PTL

\* A conversion that does not commit leaves no customer behind.
THEOREM NoOrphanCustomerTheorem == Spec => []NoOrphanCustomer
<1>1. IInv => NoOrphanCustomer
  BY DEF IInv
<1> QED
  BY <1>1, Invariance, PTL

\* An intake request becomes one customer's vehicle, once and for good, where no PATCH
\* overlaps another request.
THEOREM ConversionFinalTheorem == Spec => []ConversionFinal
<1>1. IInv => ConversionFinal
  <2> SUFFICES ASSUME IInv
               PROVE  ConversionFinal
    OBVIOUS
  <2>1. ~raced => \/ conversions = <<>>
                  \/ Len(conversions) = 1 /\ intake.status = "converted"
    BY DEF IInv, OnceInv
  <2>2. ConvertedOnce
    <3>1. CASE raced
      BY <3>1 DEF ConvertedOnce
    <3>2. CASE conversions = <<>>
      BY <3>2 DEF ConvertedOnce
    <3>3. CASE Len(conversions) = 1
      BY <3>3 DEF ConvertedOnce
    <3> QED
      BY <2>1, <3>1, <3>2, <3>3
  <2>3. StaysConverted
    BY <2>1 DEF StaysConverted
  <2> QED
    BY <2>2, <2>3 DEF IInv, ConversionFinal
<1> QED
  BY <1>1, Invariance, PTL
=============================================================================
