# A verification project for OptimusOS

OptimusOS (`src/app`) is the back office of an auto repair shop: a FastAPI
application over PostgreSQL in which a shop researches and quotes a repair,
gets the customer's approval, runs the work order, invoices it, and records
payments, with clients and intake, parts, purchase orders, scheduling,
technicians, subscription, accounts and support around it. This directory models
the parts of it in which several requests meet on the same rows, checks the
models with TLC, and proves with TLAPS that every safety property the passing runs
check holds for every value of the constants.

Paths below are relative to `src/`.

## 1. The system

### How a request runs

A request of `app/main.py` passes the gate of its route (`app/auth.py`: session,
role, mailbox, standing of the shop), perhaps a rate limiter, and then hands its
work to a store function on the thread pool (`asyncio.to_thread`): requests
interleave. Each takes a database session from `app/db.py` (`get_db_session`),
and closing the session rolls back whatever was not committed. Four facts about
sessions decide what can go wrong, and every module models them:

1. PostgreSQL runs them at READ COMMITTED. What a request read may be out of
   date by the time it commits.
2. `build_session_factory` sets `autoflush=False` and `expire_on_commit=False`.
   A row read once stays in the session's identity map as it was read, and a
   later query, even with `FOR UPDATE`, does not refresh it unless
   `populate_existing` or `refresh` asks for it. (The map holds its rows weakly: a
   row nobody refers to any more is read afresh, which is what makes the seat
   limit right.)
3. A flush writes only the attributes whose value differs from the *loaded* one.
   A request that assigns the value it had loaded writes nothing, whatever
   the row holds by now. (`Written`, `StatusAfterFlush` in the modules.)
4. An `UPDATE` waits for the row lock of another transaction and then goes
   ahead; it does not re-check what the request checked when it loaded the row.
   Only a unique key, a CHECK or a lock taken before the read stops it.

So a request is modelled as: a *load* (the checks that need only the loaded row
are made here), possibly *locks* and *reads*, and a *commit*; `Abort` may end it
at any point. What happens between two of these steps is local to the request.

### Inventory

| Component | Source | State | Operations | What is hard | What makes it correct |
|---|---|---|---|---|---|
| Payments | `payment_store.py` | append-only `invoice_payments`, cached `invoices.status` | record, void, list | sum compared before the insert; void takes no lock; cache derived from a stale sum | never overpaid; a payment voided once; cache is the derived status |
| Invoices | `invoice_store.py` | `invoices`, `payment_schedules` | create with the completion, issue, read | issue checks an unlocked row; cents of a split schedule | issued once; schedule adds up; none without a completed order |
| Work orders | `work_order_store.py` | `work_orders`, status events, notes | convert, patch, transition, assign, note | transition checked on an unlocked row; completion commits in another store | one order per approved revision; completion atomic with the invoice; trail matches status |
| Estimates, approval | `estimate_store.py` | `estimates`, revisions, approval requests, approval events | create, update, revise, send, revoke, approve, decline, view | `await` of minutes between read and write of a revision; public links; due dates | revisions without gaps; a link used once; approvals on record |
| Jobs | `job_compiler.py`, `job_proposal.py`, `job_release.py` | compilations and their events, proposals | compile, propose, dispose, release | compile under the finding's lock, release under the revision's, edits under none; estimate numbers that are counts; rounding | one chain of revisions; one estimate per released revision; it says what was compiled |
| Diagnostics, inspections | `diagnostics_store.py`, `inspection_store.py` | rows of findings and checks | create, update, confirm, archive | edited while it is compiled | a compile uses current evidence |
| Part allocation | `part_allocation_store.py` | `part_allocations` and their events, `parts.quantity_on_hand` | create, allocate, use, return | three-row locks; override; CHECKs that disagree with the store | stock conserved; quantities are the sums of the events; no deadlock |
| Purchase orders | `purchase_order_store.py` | `purchase_orders`, lines, receipts | create, submit, cancel, receive | submit and cancel take no lock, receiving does | status says how much arrived; final statuses final |
| Parts | `part_store.py` | `parts` | create, update (absolute count), archive | the count overwrites what was loaded | stock conserved but for counts |
| Scheduling | `scheduling_store.py` | appointments, blocks, bays | create, update, move, status, cancel, confirm | slots checked under technician and bay locks, but the payload is merged with a copy loaded before | no two live appointments in one slot |
| Intake | `intake_store.py` | intake requests | create, update, convert | two conversions; a conversion that fails at its second insert | converted once, to records that belong together |
| Customers, vehicles | `customer_store.py`, `vehicle_store.py` | their rows | create, update, archive | VIN compared before the insert | one active vehicle per VIN |
| Accounts | `auth.py`, `account_security_store.py`, `email_verification_store.py`, `technician_store.py` | accounts, sessions, reset and verification codes, failed logins | login, logout, change, reset, verify, suspend, archive, invite | counters and codes under concurrency; a login that runs on the event loop; a session minted after its password was checked; an archive that revokes only the sessions it has read | no guess lost; one active code; sessions end with password and membership |
| Support | `support_store.py`, `auth.py` | impersonation sessions, shop events | start, end, sweep | start and end are three commits each, and may be cut short; a lock that does not refresh what is tested; a sweep in front of every request of support | each impersonation on the shop's record, with its end |
| Subscription, seats | `subscription_store.py`, `services/square.py` | plan, standing, seats; subscriptions at Square | subscribe, change tier, cancel, card, refresh | several remote calls before a commit; a seat count | seats within tier; Square and the row agree |
| Technicians | `technician_store.py` | technicians, time entries, logins | create, archive, provision, clock in and out | open-entry race; seat limit | one open entry each |
| Square invoices | `square_store.py`, `services/square.py` | remote invoice ids and status | push, refresh | four remote calls before one commit; answers that are lost | published once, whatever is retried |
| Mode transitions | `mode_transition_store.py` | shop mode, its events | preview, change, onboarding | a preview that is out of date | a change does what was previewed |
| Capabilities | `capability_gate.py`, `capability_store.py` | overrides | evaluate, set | a matrix kept beside the gates of the routes | what is hidden is closed |
| Rate limit | `rate_limit.py` | window per key, Redis or memory | allow | add before count; fallback | a bound on every window |
| HTTP layer | `main.py`, `api/routers`, `models.py`, `security.py` | none of its own | nearly 200 routes and their gates | standing that lapses unseen; tables kept by hand | suspension exact; support leaves nothing in a shop but the events of its impersonations |
| Notifications, security events | `notification_store.py`, `security_events.py` | appended rows | append, read | none | append-only |
| Monitors | `runtime_monitor.py`, `operations_monitor.py`, `storage_monitor.py`, `runtime_metrics.py` | samples | sample, report | thresholds | read-only |
| Vendors, context, shop settings | their stores | independent rows | create, update, archive | little | scoped to the shop |
| Dashboard, reports, history, gaps | their stores | none | read | cached statuses they filter on | the caches are right |
| Research, AI services | `orchestrator.py`, `services/*`, `control.py` | none | research | slow, may fail | seen by stores as an `await` that may fail |
| Startup, migrations, browser client | `config.py`, `static/app.js`, ... | none | | | constraints appear as guards |

### How they interact

An intake request becomes a customer and a vehicle; a diagnostic finding is
compiled into priced revisions, one of which is released as an estimate. An
approved estimate revision becomes a work order
(`create_work_order_from_estimate` reads the estimate and its approved
revision). Completing a work order makes the draft invoice in the same
transaction (`transition_work_order_status` stages status, event and
notification and calls `ensure_draft_invoice_for_work_order`, which commits or
rolls back all of it). Issuing makes the schedule; a payment writes the ledger,
the cached status and, for a deposit, the work order's `deposit_received`; a push
publishes the invoice at Square. Allocating and returning move stock between a part
and a work order; receiving moves it from a purchase order to the part. The
subscription decides the shop's standing, which the gate of nearly every route
asks for, and its seats, which creating a technician and accepting an invitation
count. Notifications are appended in the transaction of the event. Outside calls
(research, Square, mail) happen in a request, between its reads and its commit.

## 2. Modules

| Module | Models | Kind |
|---|---|---|
| `PaymentLedger` | what the ledger promises: payments that never exceed the total, each voided at most once | abstract specification |
| `InvoicePayments` | `record_payment`, `void_payment`, `issue_invoice` on one invoice | detailed, implements `PaymentLedger` |
| `WorkOrders` | `create_work_order_from_estimate`, `update_work_order`, `transition_work_order_status`, `ensure_draft_invoice_for_work_order` for one approved revision | detailed |
| `EstimateApproval` | `update_estimate`, `create_estimate_revision`, `send_estimate_for_approval`, `revoke_...`, `approve_estimate`, `decline_estimate` on one estimate | detailed |
| `JobPricing` | the amounts of a compiled job and the check of an estimate's amounts, in cents | operators |
| `JobPipeline` | one finding, its compilations and proposals, the estimates they become; composes `JobPricing` | detailed |
| `PartStock` | `allocate_part`, `use_part_allocation`, `return_part_allocation`, `receive_purchase_order_line_item`, `submit_`/`cancel_purchase_order`, `update_part` on one part and one order | detailed |
| `Scheduling` | `create_`, `update_`, `move_`, `cancel_appointment` over the technicians and bays of a shop | detailed |
| `ClientRecords` | intake, customers and vehicles of one shop | detailed |
| `Accounts` | one member's account, codes, sessions, suspension and archive | detailed |
| `SupportAccess` | the sessions support opens in a shop owner's name, and the shop's events about them | detailed |
| `ShopPlan` | one shop's subscription, seats and subscriptions at Square | detailed |
| `TimeClock` | one technician's time entries | detailed |
| `SquareInvoices` | one invoice's push to Square | detailed |
| `RateLimiter` | one key's window in Redis and in each instance | detailed |
| `Capabilities` | levels by mode and role; what a change of mode hides | operators |
| `OperatingMode` | a shop's mode, under changes from pages out of date; composes `Capabilities` | detailed |
| `HttpRoutes` | every route: gate, data, effect, limiter, answers | tables |
| `HttpRequests` | a request on its way through gates, limiter, operation and answer; composes `HttpRoutes` and `Capabilities` | detailed |
| `SumTheorems` | what the sum of a function over a finite set is and how it changes | lemmas for the proofs |
| `BillingProofs` | theorems about `InvoicePayments`, `SquareInvoices`, `ShopPlan` | proofs |
| `ShopFloorProofs` | theorems about `WorkOrders`, `TimeClock`, `JobPipeline` | proofs |
| `AccessProofs` | theorems about `Accounts`, `SupportAccess`, `OperatingMode`, `HttpRequests`, `RateLimiter` | proofs |
| `EstimateApprovalProofs`, `PartStockProofs`, `SchedulingProofs`, `ClientRecordsProofs` | theorems about the module of that name | proofs |
| `MC*` | symmetry sets and the payloads of requests for TLC; `MCBackOffice` (seven modules) and `MCAccess` (three) run modules that share no row, each on its own, and `MCPartStock` a part's allocations and an order's lines in turn | model checking |

`PROJECT.json` maps every definition to its lines. A module's mutants (operators
marked "Mutant:" just above the definition they replace) are plausible bugs of
that definition; each property is violated by the mutant listed with it.

### InvoicePayments

State: the invoice row (`status`, `dueAt`, total, option), its `schedule`, the
ledger `rows` with their sum, the row `lock` (FOR UPDATE), and per session the
copy it loaded. `RecordLoad` .. `RecordCommit` are `record_payment`: load, lock,
reject a draft, sum, reject an overpayment, commit. The draft check uses the
status loaded *before* the lock, as the code does. `VoidLoad`, `VoidRead`,
`VoidCommit`, `VoidDuplicate` are `void_payment`, without a lock but behind the
unique key. `IssueLoad`, `IssueCommit` are `issue_invoice`. `Tick` lets due dates
pass. Amounts are cents; `Share` rounds half up as `_money` does.

### WorkOrders

State: `status`, the two prerequisites, the numbers of work orders and invoices,
and the audit trail. `TransitionLoad` checks the table `TRANSITIONS`, refuses
`waiting_for_approval`, and checks the prerequisites, all on the loaded row;
`TransitionCommit` writes. A transition to completed goes through
`CompleteRead`, `CompleteCommit`, or the two ways it ends without effect:
`CompleteFindsInvoice` (an invoice exists: return, no commit) and
`CompleteDuplicate` (unique key: rollback).

### EstimateApproval

State: the estimate's status, current and approved revision, the revision its
total comes from; the revisions; the approval links with stored status and
whether they lapsed; the audit events. The revisions are rows in the order of their
inserts, and the number of each is what its request computed, so two of one number
can be stored, but for the unique key (`NumberFree`). A revision's content is one
number, a new one for every edit, and stands for `content_hash`. `Written` is the flush of
a loaded attribute. `LinkLapses` and `DuePasses` are time. `ResolveLapsed` is the
commit `_resolve_active_approval_request` makes when it finds a lapsed link.

### JobPipeline and JobPricing

State: the finding's evidence (a conclusion that is missing, short, or too long for
an estimate's summary; a confidence), the price of one catalog part, the sequence
of compilations, the estimates, the proposals. `CompileLock`, `CompilePrice`,
`CompileCommit` are `compile_job`: the finding is locked first, the request is
priced, and at the commit the same content leaves the draft alone. `ReleaseLock`,
`ReleaseNumber` and `ReleaseCommit` are `release_job_compilation`: the revision is
locked and judged (`MayRelease`), a bundle that its model refuses ends the release
(`ReleaseBuilds`), and the number of the estimate is a count read before the
insert, on which `NumberTaken` rolls back. Edits of the finding load, then wait for a compile's lock.
`JobPricing` has the arithmetic: lines, fees and totals in cents rounded half up,
and the second computation with which an estimate is validated.

### PartStock

State: stock, the quantities of the allocations, the sums of the append-only
histories, the order's lines and status, the rows each session holds. `Lock`
takes the next row of `Route(op, row)` and reloads it (`Refreshed`);
allocate, use, return and receive commit under their locks; submit, cancel and
count write what they loaded earlier.

### Scheduling

State: the appointments and the technician and bay rows each session holds. Times are
seconds of one day; the working hours are minutes, and the comparison with them drops
the seconds of a visit (`Minute`), as the code does, while conflicts and blocks are
compared to the second. A
payload is a function from the fields it sets to values; `Merged` fills the rest
from the *loaded* appointment, `Want` is the slot that is locked and checked, and
`Written` is what the flush stores: only the fields that differ from the loaded
copy, over whatever the row holds by then. Where that makes a slot nobody
checked, or where a PATCH of the status alone makes an inactive appointment
active, the commit enters it in the history variable `unchecked`
(`Justified` says when it need not); a later checked move takes it out again.
`NoDoubleBooking` and `InOpenHours` say that these are the only ways into a bad
slot; a checked visit begins within the hours and is over before the minute after
them is. Working hours and blocks are constants, a slot in the past is one of the
failures `Abort` stands for; so is the CHECK that an appointment ends after it
starts, which a merge with a stale copy could break.

### ClientRecords

State: one intake request, the customers, the vehicles, the intake's row lock.
`ConvertLoad`, `ConvertLock` (which reads the row again), `ConvertResolve`,
`ConvertFlush` (the customer, then the vehicle), `ConvertDuplicateVin` and
`ConvertCommit` are `convert_intake_request`, one transaction. The unique index on
active VINs waits for and sees the uncommitted insert of a conversion (`VinFree`).
A PATCH of the intake loads, then writes what differs. `raced` is set when a PATCH
ran beside another request: it can put a converted request's status back.

### Accounts

State: the member's row, the codes, the sessions; of each request where it stands,
the locks it holds and the copy it loaded. The event loop is modelled: a request
begins and ends on it, store functions run off it, but the login route calls the
database on it (`LoginPcs`), so while a login waits for the user's row nothing
begins or ends (`LoopFree`). A store function that raises keeps its locks until the loop
closes its session (`Raise`, `Close`). Verification locks the code and then the user,
resending the user and then the codes: `DeadlockVictim` is the one PostgreSQL ends.
`guesses` counts wrong passwords since the counter last had a reason to restart;
`late` marks a session whose login had passed the check that a change of password, a
suspension or an archive would have failed.

Suspending a member (`MemberStatus`) locks the membership and the account; archiving a
technician does not: `ArchiveBegin` reads the sessions, `ArchiveTokens` the reset codes,
which it locks, and `ArchiveCommit` disables account and membership and revokes what was
read. A login that commits in between keeps its session, and counts as `late`.

### SupportAccess

State: the sessions opened for support in an owner's name (`visits`), each with its tag,
its revocation, whether it lapsed, and how many events of each type the shop has about
it; of each request of support where it stands. `StartMint`, `StartTag`, `StartEvent`
are the three commits of a start, after which the cookie is handed out; `EndRevoke`,
`EndMint`, `EndEvent` those of an end. `CutShort` ends a request between any two of its
steps. `Enter` is the gate of support's routes, which reads the lapsed sessions, without a
lock, and `CloseAbandoned` revokes and records those it has read: the directory
(`ListShops`) passes through it too. `EndRevoke` has no condition although the code
tests the session again under a lock: the copy it tests is the one that the
authentication loaded and refreshed, which the query with `FOR UPDATE` does not replace.

### ShopPlan, SquareInvoices, TimeClock

`ShopPlan`: a billing request holds the subscription row from its first read to its
commit; Square is called between, one action per call, with its idempotency keys
(`keys`); `FailsAtSquare` ends a request after any call, with the effects Square has
had. Adding a technician and accepting an invitation wait for that row, count, and
insert; archiving takes no lock. `excused` names subscriptions that a failed
request, Square itself, or a key used before left in a state of their own.

`SquareInvoices`: a push finds or makes the customer, the order, the invoice and
publishes it, then commits. `PushFails` is a failure or a lost answer after any of the
calls, or a stopped server, and another push may begin; two may run at once.

`TimeClock`: clock-in and clock-out read without a lock; the index on open entries
decides at the commit; clock-out writes the entry it read by its id.

### RateLimiter, OperatingMode, HttpRequests

`RateLimiter`: the sorted set as the number of members of each age; a refused check
takes its member back, which may fail; when Redis fails each instance decides by its
own window.

`OperatingMode`: a change carries the mode its page showed; the shop is read, locked,
refreshed and compared, then written with its event.

`HttpRequests`: one request at a time moves through its gate, the limiter, its
operation and its answer, while sessions expire and the subscription lapses between
these steps. `HttpRoutes` is the table of every handler of `main.py` and
`api/routers`; routes that differ only in their name are one kind, except those that
change sessions, accounts or standing (`Steering`). A refused operation may answer
any of the statuses its handler turns store errors into, 422, or 500, and may have
committed some of what it does to the shop's data by then (`OperateRefused`); a start or
end of an impersonation may be cut short after its first commit (`OperateCutShort`).
`stray` are the impersonations left open, which the gate of support's routes closes once
they have lapsed (`Swept`), and `wrote` is what the request has written so far: rows of
accounts, events of impersonations, the cached standing, or the shop's own data.

## 3. Runs

`raced`, in several modules, is a history variable: it becomes (and stays) true once
a request starts while another is in flight (in `PartStock` it collects
the unlocked operations this happened to, in `ClientRecords` only PATCHes count).
Some properties hold only where
requests of a kind do not overlap, because the code checks without a lock; they
are stated under `~raced`, so that one run shows what holds always and what holds
then. They are not statements about single runs only: with `raced` false, any
number of requests of any session follow one another, and fail at any step.

| Run | Instance | Shows |
|---|---|---|
| `InvoicePayments` | 2 sessions, amounts 1 and 2 of a total of 2, 3 rows, clock to 3 | nothing paid on a draft or beyond the total (`PaidWithinInvoice`); voided once, by its exact reverse; schedule made once and adding up; cache in sync (unraced); every request ends; implements `PaymentLedger` |
| `EstimateApproval` | 2 sessions, 3 revisions, 1 link, 1 edit | revisions contiguous, no two of one number, and the total of the newest (`IsNewestRevision`); what is approved or closed is on record |
| `EstimateLinkRace` | 2 sessions, 1 revision, 1 link | **violated**: a link decides twice |
| `PartStock` | 2 sessions, stock 1, 2 lines of 2, quantities 1 and 2; either 1 allocation beside one line, or both lines beside a count | stock conserved, with the owner's counts; histories match; order status says how much arrived and follows its table; no two requests wait for each other |
| `BackOffice` | seven modules, each alone. `WorkOrders`: 2 sessions, 6 events. `JobPipeline`: 2 sessions, 3 pieces of evidence, 2 job requests, 2 prices, 3 compilations, 2 estimates, a proposal, an edit. `ShopPlan`: 2 requests, 3 subscriptions, 5 operations, 3 seats. `SquareInvoices`: 2 pushes, 3 tries. `TimeClock`: 2 punches, 3 entries. `RateLimiter`: 2 instances, 2 calls, limit 2 in a window of 2. `OperatingMode`: 2 changers, 3 events | one order, one invoice, completed only with it (`InvoicedOnce`), for one recorded completion; status is the end of the trail; trail and status along `TRANSITIONS`, prerequisites block scheduling (unraced). One chain of revisions, whose events tell its life; one estimate per released revision, saying what was compiled; amounts that validate; evidence current at the commit. Seats within tier; Square and the row agree when nothing is under way; published once; one open shift; at most the limit per window; mode events chain and do what was previewed |
| `ClientRecords` | 2 sessions, 1 VIN, 2 customers, 2 vehicles, 2 conversions, 2 edits | one active vehicle per VIN; a failed conversion leaves nothing; one conversion, for good (where no PATCH overlapped) |
| `Scheduling` | 2 sessions, 2 technicians, 1 bay, 2 appointments, slots of the first, second and third minute of the hours, ends 30 seconds into a minute, a pad of a minute | no double booking, and open hours to the minute, but for unchecked slots; canceled and completed are final to requests that saw them so |
| `Access` | three modules, each alone. `Accounts`: 2 requests, 2 passwords, threshold 2, 2 sessions, 2 codes, 6 requests in all. `SupportAccess`: 2 requests of support, 2 visits. `HttpRequests`: every kind of route by owner, technician and support, where routes are of one kind that differ only in their name or in an error status that nothing tells apart (`Behaviour`) | no wrong guess lost; one active code of a kind, a verification granted once; no session outlives its grounds; impersonations on record; suspension neither late nor loose; hidden data closed; support leaves nothing in a shop but the events of its impersonations |
| `DormantSession` | `Accounts` with 1 session, 1 code, 3 requests in all | **violated**: a login in flight leaves a live session of a member who was suspended or archived meanwhile |
| `LoginOnTheLoop` | the same | **violated**: a login waits on the loop for a row whose holder needs the loop |
| `EndedTwice` | `SupportAccess` with 2 requests, 2 visits | **violated**: two Ends of one visit record two ends |
| `DirectoryWrites` | the same | **violated**: the directory writes an event to a shop |

Why the bounds suffice. The hazards are pairs: one request between the load and
the commit of another. Two sessions give every such pair, and
sessions are reused, so a third request can follow. Three rows of the ledger are
two payments and a void; totals of 2 with amounts 1 and 2 give exact, partial and
over-payment, and a split of 2 in three is where rounding bites. Six events reach every
status. Three revisions of an estimate are the first, one that a request commits between the load and the
commit of another, and the number both of these wanted. The job requests
and prices are chosen so that products and percentages end in half a cent, where
rounding line by line and rounding sums differ; three compilations are a chain with
a middle. A stock of 1 with
quantities 1 and 2 gives refusal and override; two lines give partial receipt.
Two technicians who
share a bay, a visit without a bay, and a buffer that reaches into the next slot give
every kind of conflict, and an end half a minute past closing is what the dropped seconds
let through. One VIN is what two vehicles race for. Six requests on an
account are two failed guesses up to the threshold, a cooldown, a reset and a login
beside it. Three subscriptions at Square are a change of tier there and back; the
tiers have 1, 2 and no limit of seats. Two limits' worth of calls and a Redis that
turns off and on fill the shared window and both fallbacks. Two visits are one that has
lapsed and one under way, and two requests are two Ends, two sweeps, or one of either
beside a start.

Deadlock is not checked where a bound or final statuses stop the
system (`MaxRows`, `MaxLinks`, `MaxAppointments`, `MaxEdits`, ...); it is checked in
`PartStock`.

Fairness is assumed in `InvoicePayments` only (`FairSpec`): strong fairness of each
session's next step. A request is a thread that runs to its end, and PostgreSQL
grants a row lock in queue order, so a waiter that could go on again and again
does. `Abort`, new requests and the clock are not fair. Nothing of the kind can be
assumed of `Accounts`, as `LoginOnTheLoop` shows: there a request can wait for ever.

## 4. Findings

Five runs show a disagreement between the code and what its comments or documents say:

1. Two decisions on one link both commit (`EstimateLinkRace`).
2. A login waits for a row lock on the event loop, while the holder of the lock can let
   go of it only when the loop runs (`LoginOnTheLoop`).
3. A login that is past its check while the member is suspended or archived leaves a
   session that works again once the member is reactivated, although no dormant session
   is to be minted (`DormantSession`).
4. Two Ends of one impersonation both record its end, the lock notwithstanding that is
   to prevent it (`EndedTwice`).
5. The support directory, which "must never trigger a write to a shop", writes an event
   to every shop whose impersonation has lapsed: its gate does (`DirectoryWrites`).

Estimates:

- A link sent for an older revision still approves it, while the estimate's
  total is the new revision's. Without a race: declining through the link of an older
  revision moves an approved estimate to declined, after which `update_estimate`,
  whose lock is the status, lets the approved revision be edited.

Invoices and work orders:

- Two issues that loaded one draft both store `issued_at` and `due_at`, and the
  second resets the cached status, even over paid; a cached status is derived from
  a sum a concurrent request changes (`CacheInSync`).
- Of two transitions that loaded one status the later wins, out of `completed` and
  `cancelled` too; an order brought back from `completed` can never complete
  again, because its invoice is found and nothing is committed. A PATCH withdraws a
  prerequisite between the check and the commit of `ready_to_schedule`
  (`StatusFollowsTransitions`).
- The push to Square asks only whether the invoice is a draft, void or pushed: one
  already paid in the shop's own ledger can be pushed and paid again at Square. No code
  makes an invoice void.

Jobs:

- A conclusion may have 4000 characters, the summary of an estimate 3000
  (`models.py`, `ResearchBundle`): such a compilation can never be released, and the
  release answers 500 (`ReleaseBuilds`).
- The events of a compilation are ordered by `created_at`, which is the start of their
  transaction, so what a reader sees may differ from the order of the commits, which
  `RevisionHistory` is about.

Parts:

- `use_part_allocation` forgets returned units: allocate, use, return, use stores more
  than was allocated.
- `ck_part_allocations_returned_le_used` refuses returns that the store allows.
- A submit or cancel of a purchase order overlaps a receipt or each other
  (`StatusMatchesReceipts`); a count overwrites what moved meanwhile (`StockConserved`).

Scheduling:

- A visit may last up to 59 seconds past closing, because its end is compared without
  its seconds (`InOpenHours`).
- A PATCH of the status alone brings an appointment back into a slot that was
  booked since; two moves of one appointment merge into a slot neither checked
  (`unchecked` in `NoDoubleBooking`).

Intake:

- A PATCH that loaded an intake request before it was converted puts its status back,
  and it can be converted again (`raced` in `ConversionFinal`).

Accounts:

- `confirm_password_reset` judges the code as it was loaded before the lock, so one
  reset code is used twice by two requests at once (`CodesUnderControl` says "granted
  once" of verification codes only). `change_password` judges the password hash that
  the authentication loaded.
- A session minted between the check of the password and its insert survives the change
  of password or the reset that commits in between, which is to revoke every session
  (`docs/context/GOAL_EVIDENCE_MATRIX.md:66`), as it survives a suspension or an archive
  (`late`). Archiving a technician widens the window from the login's side to its own: it
  revokes the sessions it read at its start.
- Archiving locks the reset codes and then the account, a reset the other way round; there
  is no route that brings an archived technician back, so their session stays dormant.

Support:

- An End that is cut short after the revocation leaves the shop without an event: the
  event is the third commit (`support_store.py:148-151` says it is logged before the session
  is gone), and the sweep passes over what is revoked (`cut` in `ImpersonationOnRecord`). A
  logout in the owner's name, or the owner's revocation, leaves none either (`elsewhere`).
- Two sweeps at once record one end twice, and a sweep beside an End records it as both.
- A start that is cut short after its tag leaves a session nobody holds, whose expiry is
  recorded for a visit that never began; cut short before, one without a tag that lives
  as long as any login of the owner.

Subscription, technicians:

- A failure between cancelling and creating at Square leaves a plan that names a
  cancelled subscription; a retry with another tier after a lost answer leaves two that
  collect; returning to a tier resubscribed to before is answered, by the key
  `resubscribe:{tier}`, with the old, cancelled subscription; changing the tier of a
  cancelled plan starts a live subscription while the row says cancelled until a refresh
  (`excused` in `SquareAgrees`).
- Two clock-outs at once: the second overwrites the time, and can reach into the next
  entry. Archiving a technician leaves an open entry open.

HTTP:

- The comment at `capability_store.py:106` has the matrix match the gates of the routes;
  the matrix gives technicians customers and vehicles in full, and the routes under
  `/api/customers` and `/api/vehicles` are the owner's, those of parts too. The other
  direction, which `HiddenStaysClosed` states, holds.
- Chat, location and context are not behind the standing of the shop (`OpenToLapsed`).
- Errors that some handlers do not catch are answered with 500: `CustomerStoreError` in
  the conversion, customer and vehicle errors in the release, `InvoiceStoreError` in
  the customer's history and the dashboard.

## 5. Proofs

Every theorem holds for any values of the constants that satisfy the named `ASSUME`s
of its module (`NoSession` is no session, amounts are positive, payloads have the types
the request models validate, rows of different tables differ, tables and the set of
servers are finite, a limit is a natural and its window not empty), so for any number of
sessions or requests and any bounds.

| Module | Theorem | Statement |
|---|---|---|
| `BillingProofs` | `TypeCorrect` | `Spec => []TypeOK`, of `InvoicePayments` |
|  | `PaidWithinInvoiceTheorem` | `Spec => []PaidWithinInvoice` |
|  | `SumCurrentUnderLockTheorem` | `Spec => []SumCurrentUnderLock` |
|  | `ReversedOnceTheorem` | `Spec => []ReversedOnce` |
|  | `ImplementsLedgerTheorem` | `Spec => ImplementsLedger` |
|  | `ScheduleSumsToTotalTheorem` | `Spec => []ScheduleSumsToTotal` |
|  | `CacheInSyncTheorem` | `Spec => []CacheInSync` |
|  | `PushedOnceTheorem` | `PushSpec => []PushedOnce` |
|  | `PlanTypeCorrect` | `PlanSpec => []PlanTypeOK` |
|  | `SeatsWithinTierTheorem` | `PlanSpec => []SeatsWithinTier` |
|  | `SquareAgreesTheorem` | `PlanSpec => []SquareAgrees` |
| `ShopFloorProofs` | `TypeCorrect` | `Spec => []TypeOK`, of `WorkOrders` |
|  | `InvoicedOnceTheorem` | `Spec => []InvoicedOnce` |
|  | `StatusIsLastEventTheorem` | `Spec => []StatusIsLastEvent` |
|  | `OneCompletionPerInvoiceTheorem` | `Spec => []OneCompletionPerInvoice` |
|  | `StatusFollowsTransitionsTheorem` | `Spec => StatusFollowsTransitions` |
|  | `OneShiftOpenTheorem` | `ClockSpec => []OneShiftOpen` |
|  | `JobTypeCorrect` | `JobSpec => []JobTypeOK` |
|  | `RevisionHistoryTheorem` | `JobSpec => []RevisionHistory` |
|  | `ReleasedEstimatesTheorem` | `JobSpec => []ReleasedEstimates` |
|  | `CompiledJobsAddUpTheorem` | `JobSpec => []CompiledJobsAddUp` |
|  | `CompilesCurrentEvidenceTheorem` | `JobSpec => CompilesCurrentEvidence` |
| `EstimateApprovalProofs` | `TypeCorrect` | `Spec => []TypeOK` |
|  | `IsNewestRevisionTheorem` | `Spec => []IsNewestRevision` |
|  | `DecisionsOnRecordTheorem` | `Spec => []DecisionsOnRecord` |
| `PartStockProofs` | `TypeCorrect` | `Spec => []TypeOK`: stock never negative, no line over-received |
|  | `QuantitiesMatchHistoryTheorem` | `Spec => []QuantitiesMatchHistory` |
|  | `NoMutualWaitTheorem` | `Spec => []NoMutualWait` |
|  | `StatusMatchesReceiptsTheorem` | `Spec => []StatusMatchesReceipts` |
|  | `StockConservedTheorem` | `Spec => []StockConserved` |
| `SchedulingProofs` | `TypeCorrect` | `Spec => []TypeOK` |
|  | `NoDoubleBookingTheorem` | `Spec => []NoDoubleBooking` |
|  | `InOpenHoursTheorem` | `Spec => []InOpenHours` |
|  | `FinalOnceSeenTheorem` | `Spec => FinalOnceSeen` |
| `ClientRecordsProofs` | `TypeCorrect` | `Spec => []TypeOK` |
|  | `ActiveVinUniqueTheorem` | `Spec => []ActiveVinUnique` |
|  | `NoOrphanCustomerTheorem` | `Spec => []NoOrphanCustomer` |
|  | `ConversionFinalTheorem` | `Spec => []ConversionFinal` |
| `AccessProofs` | `TypeCorrect` | `Spec => []TypeOK`, of `Accounts` |
|  | `CodesUnderControlTheorem` | `Spec => []CodesUnderControl` |
|  | `LockoutHoldsTheorem` | `Spec => []LockoutHolds` |
|  | `SessionsEndWithTheirGroundsTheorem` | `Spec => []SessionsEndWithTheirGrounds` |
|  | `SupportTypeCorrect` | `SupportSpec => []SupportTypeOK` |
|  | `ImpersonationOnRecordTheorem` | `SupportSpec => []ImpersonationOnRecord` |
|  | `ModeEventsChainTheorem` | `ModeSpec => []ModeEventsChain` |
|  | `SuspensionIsExactTheorem` | `HttpSpec => []SuspensionIsExact` |
|  | `HiddenStaysClosedTheorem` | `HttpSpec => []HiddenStaysClosed` |
|  | `SupportLeavesShopsAloneTheorem` | `HttpSpec => []SupportLeavesShopsAlone` |
|  | `WindowBoundTheorem` | `LimiterSpec => []WindowBound` |
| `SumTheorems` | `SumUpdate` and its companions | sums over finite sets: one value changes, one element more, bounds, differences, renamings |

The arguments:

*InvoicePayments.* `NeverOverpaid` is not inductive: a commit adds an amount checked
against `seenPaid`, a sum read some steps before. `IInv` adds
`SumCurrentUnderLock` (from the read to the commit the session holds the lock, and
what it read is still the sum, because payments need the lock and a void's
commit waits for it), `SessionSound` (what each session loaded is what its row
says: a void's target is a payment of that amount, a request past the draft check
finds a status that is no longer draft, and the status it will write is not
draft) and `SignSound` (a row that reverses nothing is positive, so a void only
lowers the sum). Each action has its lemma: the actions that only move
a session (`QuietActions`) and the three commits. The refinement uses `IInv` again:
`RecordCommitIsPay` and `VoidCommitIsVoid` show that each commit is a step of
`PaymentLedger`, where the sum it was checked against is the current one.
The schedule is made once, by an issue that holds a draft (`IssuesDraft`), and what each
payment plan splits adds up to the total (`ScheduleAdded`), rounding included. For the
cached status `CacheInv` says that where no two requests overlap one request at most is
under way and what it loaded is what is stored, so the status it writes is derived from
the ledger it leaves; a due date that passes in between can only make that status
overdue (`DerivedLater`).

*WorkOrders.* `CompletedHasInvoice` is not inductive: the commit of an ordinary
transition writes a target chosen at the load. `TargetSound` says what the code's
dispatch on the target guarantees: a request at that commit never carries
`completed`. The steps that only move a session share `QuietStep` and `QuietEnd`, those
that write a status share `StatusStep`; `NextIInv` has a step per action. For the path
of the status, `PathInv` adds that while nothing has overlapped a request is alone
(`Alone`) and what it is about to write is a successor of what is there
(`CopyCurrent`).

*JobPipeline.* `JobsSound` says what a request may rely on at each of its points: a
compile past its lock that the finding is as it loaded it and not archived, at its
commit that its count of revisions is still right and that the last one differs; a
release that its revision may still be released, and that the number it has chosen was
free once. `JobsExclude` is what the two locks buy: one compile of the finding, one
release of a revision. With `JobTypeOK`, `SourcesExist`, `RevisionHistory` and
`ReleasedEstimates` this is inductive. `CompiledJobsAddUp` needs no step: it is a fact
about the arithmetic, for every request and price (`CompiledAmounts`), because both
computations add the same rounded lines.

*EstimateApproval.* Nothing is locked, so what a request loaded may be stale by any
number of commits. `SessionSound` bounds how stale: the revision and link it is
about exist (none is ever deleted), and the current revision it loaded is at most
the stored one. `ReviseIsNext` is the heart: the number a request inserts is one more than its copy of
the current one, which is at most the stored one, and the unique key refuses every number
that exists, so only a request whose copy is still right commits: the row at every place
carries the number of its place.

*PartStock.* `Rank` orders the rows: the purchase order, then allocations and
lines, then the part; `RouteRanked` shows that every operation locks in that order,
so what a session waits for outranks what it holds, and two sessions cannot wait
for each other. For the quantities, `Fresh` says that a copy reloaded under its lock
stays current until the lock is released, because writers without a lock wait for
it (`UnlockedCommitStep`); that is what `populate_existing` buys.

For the two properties that hold where operations without a lock were not raced,
`RaceInv` adds that such an operation has been alone since it loaded (`Alone`), so that
what it writes is based on what is stored, and that a receipt knows the status of the
order it holds (`OrderKnown`). `StatusMatchesReceipts` is then inductive. The balance of
the stock is a sum over all lines and allocations; each commit changes one of them, by
what it changes the stock by (`AllocationBalances`, `ReceiptBalances`,
`CountBalances`), and `SumUpdate` says that the total changes by as much.

*Sums.* The folds of the community modules pick their elements in an unspecified order, so
none of the sums of the models has its laws by definition. `SumTheorems` proves them by
induction on subsets: among the subsets that refute a claim there would be one that
contains no other (`MinimalSubset`), and one element less refutes it again.

*Scheduling.* A slot is stored some steps after it was compared. `SessionSound`
says that the comparison still holds: a conflict needs a technician or a bay in
common (`ConflictSymmetric`), whoever stores such a slot after checking it holds
that lock, and the session that compared holds it too (`Exclusive`). `StoreStep`
covers the three commits. For the open hours, a visit that was compared without its
seconds begins no earlier than the hours and ends less than a minute after them.
For the final statuses `SeenInv` says what a load saw: nothing canceled is updated or
moved, nothing completed canceled, unless the row changed after it was loaded.

*ClientRecords.* `VinInv` strengthens uniqueness by what the index sees and a reader
does not: a conversion that has flushed its vehicle is the only one with that VIN, and
no active row has it. `LockInv` says that a conversion past its lock is alone, has read
what is there and goes on only with a request that is not converted; `PatchInv` and
`OnceInv` say what a request that is in flight knows where no PATCH overlapped.

*Accounts.* `CodeInv` adds to "one active code" that a verification code about to be
granted is active, was not granted before, and has one request about to grant it, which
its row lock buys. `OwnerInv` says that an owner is never suspended or archived.
`ArchiveInv` says that every live session an archive has not read is `late`, from its read
to its commit; that is what lets it revoke a list that is out of date. The lockout and the sessions are inductive with
`TypeInv`: each action has a lemma about the rows it writes, and the ones that write
none are together.

*SupportAccess.* A step changes one visit, or closes those that a sweep has read.
`SupportInv` says what each request knows of the visits it is about (`Knows`): a start past
its tag that the visit is tagged, past its event that it is on record. What is known stays true, because events are never taken
back (`GrownKnows`), and a revocation without an event is that of an End which is still
about to record it, was cut short, or of somebody else.

*ShopPlan, SquareInvoices, TimeClock, OperatingMode.* `OneHolder` and `CountHolds`: whoever
counted seats holds the subscription's row and what it counted is still true.
`SquareInv`: while nobody is between a call to Square and the commit the row is right, and
in between nothing collects but the subscription about to be recorded. `PunchesSound`: a
clock-out carries a time not before its entry. `PushKnows`: a push that records has seen
its bill out. `LockKnows` and `EventsKnow`: the mode compared under the lock is the mode
shown, so the event starts where the last one ended.

*HttpRequests.* `GateInv` says that a request past its gate has shown what that gate asks
for, that a 402 came from a gate that asks for the standing in a shop that had lapsed,
and that what the request saw of the standing includes how it is now. That the gates are
the right ones is a fact about the table: `KindsAreSound` proves it for every row of
`HttpRoutes`, table by table. `TraceInv` follows what a request has written through every
step, the sweep of the gate and the request that is cut short included; that nothing else
is written in support's own name rests on the table as well (`SupportWrites`).

*RateLimiter.* `RedisCounts` keeps the books of the shared window age by age: its members are
those that passed, those whose removal failed and those being taken back. `MemoryCounts`
does so for each server's own window, each of which is within the limit; `SumBounded`
bounds their sum.

Model-checked only: `RequestsEnd`, which is a liveness property, and the five properties that
a run refutes (section 4). The theorems say nothing of the
fairness under which requests end. Conversely TLC remains the check that the properties
are not vacuous: each is violated by a mutant of the code.

## 6. Not modelled

- Notifications, security events, login history: rows appended with the event they
  report, read back by nobody who decides.
- Dashboard, reports, customer history, workflow gaps, monitors: reads.
- Vendors, context, shop settings, inspections, work-order notes: single rows or lists
  that no other row depends on.
- The wording of estimates, PDF, mail, research and chat: an `await` that may fail.
- `provision_login`, whose race is decided by the technician's row lock and the unique
  key on user names; skills and profiles of technicians.
- A server without Square credentials, whose shops change tier without Square.
- Synthetic test accounts, switched off outside of tests; startup and migrations, whose
  constraints appear as guards; the browser client.

The modules abstract each component to one row of its kind, or as many as compete:
one invoice, one estimate, one finding, one part and order, one member. Rows of
different shops never meet in one query (`shop_id` is part of every one).
`HttpRequests` serves one request at a time: requests side by side are the subject of
the other modules, there only time runs beside the request.

## 7. Plan

1. *Done*: the modules of section 2 and the theorems of section 5.
2. *Done*: a theorem for every safety and action property of a passing run.
3. Worth modelling next: the reactivation of an appointment beside its work order; a
   work order's technician assignment beside the archiving of the technician.
