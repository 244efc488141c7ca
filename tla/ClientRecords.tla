---------------------------- MODULE ClientRecords ----------------------------
(***************************************************************************)
(* The customers and vehicles of a shop and one intake request that is     *)
(* converted into them (app/intake_store.py, app/customer_store.py,        *)
(* app/vehicle_store.py).                                                  *)
(*                                                                         *)
(* A conversion locks the intake request, reads it again, and creates a    *)
(* customer and a vehicle in one transaction: both rows are flushed, then  *)
(* committed together or rolled back.  PATCHes of the intake request and   *)
(* of a customer take no lock: they merge their fields with the copy they  *)
(* loaded and write those that differ from it.                             *)
(***************************************************************************)
EXTENDS Integers, Sequences, FiniteSets

CONSTANTS
    Sessions, NoSession,   \* concurrent database sessions; nobody
    Vins,                  \* VINs in their normalized form
    StatusPatches,         \* the statuses that PATCHes set
    PayloadDrafts,         \* the vehicles that payloads name
    NewNames,              \* the names that new customers are given
    MaxCustomers, MaxVehicles, MaxConversions,  \* bounds on the rows
    MaxEdits               \* bound on the PATCHes and archivings

ASSUME NoSessionAssumption == NoSession \notin Sessions
ASSUME VinsAssumption == Vins \cap {"none", "no_vin", "keep"} = {}
ASSUME StatusPatchesAssumption ==
    StatusPatches \subseteq {"new", "contacted", "scheduled", "converted", "dismissed"}

\* What the name fields of a payload hold; what the VIN field of one holds.
CustomerNames == [name : BOOLEAN, company : BOOLEAN]
VinFields == {"no_vin"} \cup Vins

ASSUME NewNamesAssumption == NewNames \subseteq CustomerNames
ASSUME PayloadDraftsAssumption == PayloadDrafts \subseteq {"none"} \cup VinFields

VARIABLES
    intake,       \* the intake_requests row
    customers,    \* customers in order of their ids
    vehicles,     \* vehicles in order of their ids
    lock,         \* the session that holds the intake row FOR UPDATE
    req,          \* the progress and the loaded copies of each session
    conversions,  \* the customers of the committed conversions (history)
    edits,        \* PATCHes and archivings so far
    raced         \* a PATCH has overlapped another request (history)

rowVars == <<customers, vehicles>>
vars == <<intake, customers, vehicles, lock, req, conversions, edits, raced>>

IntakeStatuses == {"new", "contacted", "scheduled", "converted", "dismissed"}

\* What a draft says of the vehicle: nothing that identifies one (no make and
\* model), a vehicle without a VIN, or its VIN.
Drafts == {"none"} \cup VinFields

IntakeRows == [status : IntakeStatuses, draft : Drafts, customer : Nat, vehicle : Nat]

\* name stands for first and last name; source tells who created the row (history).
Customers == [name : BOOLEAN, company : BOOLEAN, archived : BOOLEAN,
              source : {"owner", "intake"}]

Vehicles == [customer : Nat, vin : VinFields, archived : BOOLEAN]

Idle == [pc |-> "idle"]

-----------------------------------------------------------------------------
\* create_intake_request stores a new request; the shop has no customer yet.
Init ==
    /\ intake \in [status : {"new"}, draft : Drafts, customer : {0}, vehicle : {0}]
    /\ customers = <<>>
    /\ vehicles = <<>>
    /\ lock = NoSession
    /\ req = [s \in Sessions |-> Idle]
    /\ conversions = <<>>
    /\ edits = 0
    /\ raced = FALSE

Patches == {"update_intake", "update_customer", "update_vehicle"}

Edit == edits < MaxEdits /\ edits' = edits + 1

\* A request arrives; raced becomes true when it or one in flight is a PATCH.
Begin(s, r) ==
    /\ req[s] = Idle
    /\ IF r.pc \in Patches THEN Edit ELSE UNCHANGED edits
    /\ req' = [req EXCEPT ![s] = r]
    /\ raced' = (raced \/ \E t \in Sessions \ {s} :
                    /\ req[t] # Idle
                    /\ r.pc \in Patches \/ req[t].pc \in Patches)
    /\ UNCHANGED <<intake, rowVars, lock, conversions>>

\* Its session is closed, which ends the transaction and frees its lock.
Finish(s) ==
    /\ req' = [req EXCEPT ![s] = Idle]
    /\ lock' = IF lock = s THEN NoSession ELSE lock

\* The request ends without a commit, at any point: an error or a lost connection.
Abort(s) ==
    /\ req[s] # Idle
    /\ Finish(s)
    /\ UNCHANGED <<intake, rowVars, conversions, edits, raced>>

\* The UPDATE of an attribute: none when the new value is the loaded one.
Written(seen, new, stored) == IF new = seen THEN stored ELSE new

ActiveWith(vin) == {v \in DOMAIN vehicles : vehicles[v].vin = vin /\ ~vehicles[v].archived}

\* The sessions whose flushed, uncommitted vehicle row has this VIN: an INSERT or
\* UPDATE that enters it in uq_vehicles_owner_active_vin waits for them.
Flushed(vin) == {t \in Sessions : req[t].pc = "convert_commit" /\ req[t].vehicle = vin}

\* Mutant: the unique index covers no VIN.
VinFreeAlways(vin, s, others) == TRUE

\* The unique index admits an active vehicle with this VIN.
VinFree(vin, s, others) ==
    vin \in Vins => /\ ActiveWith(vin) \cap others = {}
                    /\ Flushed(vin) \subseteq {s}

-----------------------------------------------------------------------------
(* convert_intake_request                                                  *)

\* The payload attaches to a customer of the shop, or to none (0), and may
\* override the draft's vehicle.
ConvertLoad(s) ==
    \E attach \in 0 .. Len(customers), override \in PayloadDrafts \cup {"keep"} :
        Begin(s, [pc |-> "convert_lock", attach |-> attach, override |-> override])

\* Mutant: the request is read without the lock.
ConvertLockSkipped(s) ==
    LET r == req[s]
    IN  /\ r.pc = "convert_lock"
        /\ req' = [req EXCEPT ![s] = [pc |-> "convert_resolve", attach |-> r.attach,
                                      override |-> r.override, seen |-> intake]]
        /\ UNCHANGED <<intake, rowVars, lock, conversions, edits, raced>>

\* Take the row lock, then read the row again, whatever the first read said.
ConvertLock(s) ==
    LET r == req[s]
    IN  /\ r.pc = "convert_lock"
        /\ lock = NoSession
        /\ lock' = s
        /\ req' = [req EXCEPT ![s] = [pc |-> "convert_resolve", attach |-> r.attach,
                                      override |-> r.override, seen |-> intake]]
        /\ UNCHANGED <<intake, rowVars, conversions, edits, raced>>

\* _resolve_vehicle_fields: each field of the payload overrides the draft's.
ResolvedVehicle(r) == IF r.override = "keep" THEN r.seen.draft ELSE r.override

\* _resolve_customer: no customer is asked for, or it may be attached.
MayAttach(r) ==
    r.attach # 0 => /\ r.seen.customer = 0
                    /\ ~customers[r.attach].archived

\* Mutant: create_customer commits the new row at once.
ConvertResolveCommits(s) ==
    LET r == req[s]
    IN  /\ r.pc = "convert_resolve"
        /\ r.seen.status # "converted"
        /\ MayAttach(r)
        /\ r.attach = 0 => Len(customers) < MaxCustomers
        /\ req' = [req EXCEPT ![s] = [pc |-> "convert_flush", vehicle |-> ResolvedVehicle(r),
                                        attach |-> IF r.attach = 0 THEN Len(customers) + 1
                                                                   ELSE r.attach]]
        /\ customers' = IF r.attach # 0 THEN customers
                        ELSE Append(customers, [name |-> TRUE, company |-> FALSE,
                                                archived |-> FALSE, source |-> "intake"])
        /\ UNCHANGED <<intake, vehicles, lock, conversions, edits, raced>>

\* The request is not converted yet and the customer is found; a new customer is
\* flushed in this transaction and seen by nobody else.
ConvertResolve(s) ==
    LET r == req[s]
    IN  /\ r.pc = "convert_resolve"
        /\ r.seen.status # "converted"
        /\ MayAttach(r)
        /\ req' = [req EXCEPT ![s] = [pc |-> "convert_flush", attach |-> r.attach,
                                        vehicle |-> ResolvedVehicle(r)]]
        /\ UNCHANGED <<intake, rowVars, lock, conversions, edits, raced>>

\* Converted already, or a customer that may not be attached: nothing is written.
ConvertRefuse(s) ==
    /\ req[s].pc = "convert_resolve"
    /\ req[s].seen.status = "converted" \/ ~MayAttach(req[s])
    /\ Finish(s)
    /\ UNCHANGED <<intake, rowVars, conversions, edits, raced>>

\* create_vehicle(commit=False): the new row is flushed.
ConvertFlush(s) ==
    /\ req[s].pc = "convert_flush"
    /\ VinFree(req[s].vehicle, s, DOMAIN vehicles)
    /\ req' = [req EXCEPT ![s].pc = "convert_commit"]
    /\ UNCHANGED <<intake, rowVars, lock, conversions, edits, raced>>

\* The VIN is taken, found by the check before the INSERT or by the unique index:
\* the whole transaction is rolled back.
ConvertDuplicateVin(s) ==
    /\ req[s].pc = "convert_flush"
    /\ ActiveWith(req[s].vehicle) # {}
    /\ Finish(s)
    /\ UNCHANGED <<intake, rowVars, conversions, edits, raced>>

\* Customer, vehicle and intake request are committed together.
ConvertCommit(s) ==
    LET r        == req[s]
        isNew    == r.attach = 0
        customer == IF isNew THEN Len(customers) + 1 ELSE r.attach
        made     == r.vehicle # "none"
    IN  /\ r.pc = "convert_commit"
        /\ Len(conversions) < MaxConversions
        /\ isNew => Len(customers) < MaxCustomers
        /\ made => Len(vehicles) < MaxVehicles
        /\ customers' = IF isNew THEN Append(customers, [name |-> TRUE, company |-> FALSE,
                                                 archived |-> FALSE, source |-> "intake"])
                                 ELSE customers
        /\ vehicles' = IF made THEN Append(vehicles, [customer |-> customer, vin |-> r.vehicle,
                                                      archived |-> FALSE])
                               ELSE vehicles
        /\ intake' = [intake EXCEPT !.status = "converted", !.customer = customer,
                                    !.vehicle = IF made THEN Len(vehicles) + 1 ELSE 0]
        /\ conversions' = Append(conversions, customer)
        /\ Finish(s)
        /\ UNCHANGED <<edits, raced>>

-----------------------------------------------------------------------------
(* update_intake_request                                                   *)

\* A converted request keeps its status; "keep" leaves the field out of the PATCH.
MayPatchStatus(want) ==
    want # "keep" /\ intake.status = "converted" => want = "converted"

UpdateIntakeLoad(s) ==
    \E want \in StatusPatches \cup {"keep"}, draft \in PayloadDrafts \cup {"keep"} :
        /\ MayPatchStatus(want)
        /\ Begin(s, [pc |-> "update_intake", status |-> want, draft |-> draft,
                     seen |-> intake])

\* The UPDATE waits for the lock of a conversion.
UpdateIntakeCommit(s) ==
    LET r == req[s]
        Patched(field, new) == IF new = "keep" THEN intake[field]
                               ELSE Written(r.seen[field], new, intake[field])
    IN  /\ r.pc = "update_intake"
        /\ lock = NoSession
        /\ intake' = [intake EXCEPT !.status = Patched("status", r.status),
                                    !.draft = Patched("draft", r.draft)]
        /\ Finish(s)
        /\ UNCHANGED <<rowVars, conversions, edits, raced>>

-----------------------------------------------------------------------------
(* customer_store                                                          *)

\* validate_name_or_company.
ValidNames(name, company) == name \/ company

CreateCustomer ==
    \E names \in NewNames :
        /\ ValidNames(names.name, names.company)
        /\ Len(customers) < MaxCustomers
        /\ customers' = Append(customers, [name |-> names.name, company |-> names.company,
                                           archived |-> FALSE, source |-> "owner"])
        /\ UNCHANGED <<intake, vehicles, lock, req, conversions, edits, raced>>

\* The names are validated as they will be in the loaded copy.
UpdateCustomerLoad(s) ==
    \E c \in DOMAIN customers, name, company \in BOOLEAN :
        /\ ValidNames(name, company)
        /\ Begin(s, [pc |-> "update_customer", id |-> c, name |-> name, company |-> company,
                     seenName |-> customers[c].name, seenCompany |-> customers[c].company])

UpdateCustomerCommit(s) ==
    LET r == req[s]
    IN  /\ r.pc = "update_customer"
        /\ customers' =
              [customers EXCEPT ![r.id].name = Written(r.seenName, r.name, @),
                                ![r.id].company = Written(r.seenCompany, r.company, @)]
        /\ Finish(s)
        /\ UNCHANGED <<intake, vehicles, conversions, edits, raced>>

ArchiveCustomer ==
    \E c \in DOMAIN customers :
        /\ Edit
        /\ customers' = [customers EXCEPT ![c].archived = TRUE]
        /\ UNCHANGED <<intake, vehicles, lock, req, conversions, raced>>

-----------------------------------------------------------------------------
(* vehicle_store                                                           *)

\* A customer that is archived may get one too.
CreateVehicle ==
    \E c \in DOMAIN customers, vin \in VinFields :
        /\ VinFree(vin, NoSession, DOMAIN vehicles)
        /\ Len(vehicles) < MaxVehicles
        /\ vehicles' = Append(vehicles, [customer |-> c, vin |-> vin, archived |-> FALSE])
        /\ UNCHANGED <<intake, customers, lock, req, conversions, edits, raced>>

UpdateVehicleLoad(s) ==
    \E v \in DOMAIN vehicles, vin \in VinFields :
        Begin(s, [pc |-> "update_vehicle", id |-> v, vin |-> vin, seenVin |-> vehicles[v].vin])

\* The VIN is compared with the other active vehicles, even for an archived one;
\* the unique index compares it again when it is written.
UpdateVehicleCommit(s) ==
    LET r   == req[s]
        vin == Written(r.seenVin, r.vin, vehicles[r.id].vin)
    IN  /\ r.pc = "update_vehicle"
        /\ VinFree(r.vin, s, DOMAIN vehicles \ {r.id})
        /\ vehicles' = [vehicles EXCEPT ![r.id].vin = vin]
        /\ Finish(s)
        /\ UNCHANGED <<intake, customers, conversions, edits, raced>>

ArchiveVehicle ==
    \E v \in DOMAIN vehicles :
        /\ Edit
        /\ vehicles' = [vehicles EXCEPT ![v].archived = TRUE]
        /\ UNCHANGED <<intake, customers, lock, req, conversions, raced>>

-----------------------------------------------------------------------------
Next ==
    \/ \E s \in Sessions :
          \/ ConvertLoad(s) \/ ConvertLock(s) \/ ConvertResolve(s) \/ ConvertRefuse(s)
          \/ ConvertFlush(s) \/ ConvertDuplicateVin(s) \/ ConvertCommit(s)
          \/ UpdateIntakeLoad(s) \/ UpdateIntakeCommit(s)
          \/ UpdateCustomerLoad(s) \/ UpdateCustomerCommit(s)
          \/ UpdateVehicleLoad(s) \/ UpdateVehicleCommit(s)
          \/ Abort(s)
    \/ CreateCustomer \/ ArchiveCustomer \/ CreateVehicle \/ ArchiveVehicle

Spec == Init /\ [][Next]_vars

-----------------------------------------------------------------------------
\* Every row keeps its type, and an id that a row names exists.
TypeOK ==
    /\ intake \in IntakeRows
    /\ customers \in Seq(Customers)
    /\ vehicles \in Seq(Vehicles)
    /\ lock \in Sessions \cup {NoSession}
    /\ \A v \in DOMAIN vehicles : vehicles[v].customer \in DOMAIN customers
    /\ intake.customer \in {0} \cup DOMAIN customers
    /\ intake.vehicle \in {0} \cup DOMAIN vehicles

\* No two active vehicles of a shop have one VIN, whichever of create, update and
\* conversion race for it (_ensure_unique_active_vin only reads).
ActiveVinUnique == \A vin \in Vins : Cardinality(ActiveWith(vin)) <= 1

\* A customer that a conversion created belongs to a conversion that committed: one
\* that fails at the vehicle leaves no customer behind.
NoOrphanCustomer ==
    \A c \in DOMAIN customers :
        customers[c].source = "intake" => \E k \in DOMAIN conversions : conversions[k] = c

\* The vehicle a conversion names belongs to the customer it names, however many
\* conversions of whichever payloads were committed.
ConversionSound ==
    intake.vehicle # 0 => /\ intake.customer # 0
                          /\ vehicles[intake.vehicle].customer = intake.customer

\* An intake request is converted once, however many conversions are asked for at the
\* same time, unless a PATCH that loaded it before puts its status back.
ConvertedOnce == ~raced => Len(conversions) <= 1

\* A converted request stays converted, by the same condition.
StaysConverted == ~raced /\ conversions # <<>> => intake.status = "converted"

\* What becomes of an intake request: one conversion, to records that belong together,
\* for good.
ConversionFinal == ConversionSound /\ ConvertedOnce /\ StaysConverted

=============================================================================
