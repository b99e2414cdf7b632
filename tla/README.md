# Verification of the event-ticketing backend

TLA+ models of the backend's orders, payments, check-in, reminders, pictures, tickets and
caches, the TLC runs that check them on small instances, and TLAPS proofs for every
instance. Paths are relative to the repository root, with the application under `src/`.

## 1. The system

A NestJS application over PostgreSQL (TypeORM), Redis (ioredis, BullMQ) and MinIO.
Administrators publish events with ticket types, customers order tickets and pay
through a provider, the backend issues QR-coded tickets and the gates check them.

| Component | State it keeps | Operations | Status |
|---|---|---|---|
| Orders (`orders/order.service.ts`) | `orders.status`, `tickets.sold`, generated tickets | create, pay, expire, fail, cancel, release, generate | `OrderLifecycle` |
| Order expiration worker | none; acts on overdue orders each minute | cron sweep | `OrderLifecycle` |
| Ticket lock (`cache/ticket-lock.service.ts`) | Redis counter per ticket, lock key per ticket and order | initialise, lock, confirm, release | `TicketLock` |
| Payment transactions (`payments/payment.service.ts`) | `transactions.status`, `expiresAt` | create, settle by webhook, expire | `PaymentQueue` |
| Payment jobs (two processors, a cron) | the BullMQ queue `payment` | enqueue, process, retry | `PaymentQueue` |
| Tickets (`tickets/ticket.service.ts`) | rows of `tickets` | create, update, remove | `TicketEdits` |
| Check-in and QR codes | issued signatures in memory, `isUsed` per ticket | generate, revoke, validate | `CheckIn` |
| Reminders | `event_reminders` rows, delayed jobs | schedule, send, retry, cancel | `Reminders` |
| Events and media (`events`, `infrastructure/storage`) | rows of `events`, `event_media`, `media_objects`; objects in MinIO | presign, confirm, attach, update, delete | `EventMedia` |
| Cache (`cache.service.ts`) | cached values, stampede lock | getOrSet, clear, clearByPattern | `CacheAside` |
| Roles, users, categories | their rows, their caches | create, update, delete, assign | `AdminCaches` |
| Job queues (`infrastructure/queue`) | BullMQ queues and workers | register, add, shut down | with their users; see below |
| Authentication, dashboard, notifications, PDF, email, plumbing | little or none | see `PROJECT.json` | not modelled |

**How they interact.** An HTTP request creates an order: in one database
transaction it locks the ticket rows, takes the units from the Redis counters and
inserts the order; then it asks the payment provider for a bill. The provider
reports to webhooks, which put jobs on the queue `payment`; a processor settles the
transaction and calls the order service, which sells the units, confirms the locks
and issues the tickets. Two crons look for overdue orders and overdue transactions.
Cancellation, expiry and failure give the units back to Redis. Administrators edit the
ticket rows that sales write, and the roles, users and categories that readers see
through the cache; pictures are put in storage by clients and linked by events.

**What is hard.** Each call is a chain of awaits over two stores without a common
transaction. Calls on one order overlap (a job, a cancellation, two crons, several
instances of the application); statuses are read in one query and saved in another;
Redis keys lapse by themselves; jobs are repeated, reordered, retried from their
start and taken by the wrong worker; a cached value may be stored after it was
invalidated; an object may be put after its row is gone. `PROJECT.json` lists every such
hazard under `hazards`, at its line, with the properties that watch it.

## 2. Modules

| Module | What it is | Uses |
|---|---|---|
| `TicketLock` | Redis operators of a reservation, one per round trip | |
| `OrderLifecycle` | orders over both stores, one action per await | extends `TicketLock` |
| `OrderBook` | the abstract promise: place, pay, end, each in one step | |
| `SumTheorems` | lemmas about sums over finite sets | |
| `OrderProofs` | what calls know, owe and may give back, and the theorems | extends `OrderLifecycle`, `SumTheorems` |
| `TicketEdits` | edits and removals of ticket types while orders are paid | extends `OrderBook` |
| `TicketEditProofs` | theorems | extends `TicketEdits`, `SumTheorems` |
| `PaymentQueue` | provider, transactions, the queue and its two kinds of worker | |
| `PaymentProofs` | theorems | extends `PaymentQueue` |
| `CheckIn` | gates, QR signatures and the ticket rows | |
| `CheckInProofs` | theorems | extends `CheckIn` |
| `Reminders` | the rows and jobs of one order's reminders, and the calls that work on them | |
| `ReminderProofs` | theorems | extends `Reminders` |
| `EventMedia` | pictures: rows, objects, links, and the calls that move them | |
| `MediaProofs` | theorems | extends `EventMedia` |
| `CacheAside` | the cache in Redis and its readers | |
| `AdminCaches` | roles, users and categories, each operation with the caches it clears | extends `CacheAside` |
| `CacheProofs` | theorems about the lock, the rows, stale values, the types and the steps left | extends `AdminCaches` |
| `MCOrders`, `MCTicketEdits`, `MCPayments`, `MCCheckIn`, `MCReminders`, `MCMedia`, `MCCaches` | instances for TLC | extend the modules of the same name |

### OrderLifecycle and TicketLock

A *worker* is one call in progress. `call[w]` records its operation, its stage (the
await it is at), its order, and what it has read and still uses: `line` (the line
`createOrder` is at), `todo` (lines to go), `got` (lock values or ticket counts it
read), `rounds` (another release to come) and `rows` (database rows its transaction
holds). One action stands for the code between two awaits:

| Code | Actions |
|---|---|
| `createOrder` | `BeginCreate`, `CheckLine`, `InitQuota`, `LockLine`, `UndoLine`, `UnsetLine`, `CommitOrder`, `BillOpen` / `BillSettled` / `BillFails` |
| `handleSuccessfulPayment` | `StartPaid` or `PayRead`, `SellRow` per ticket, `CommitSale`, `ConfirmLock` per ticket, `CountIssued`, `IssueLine` |
| `updateOrderStatus`, `cancelOrderInternal` | `StartExpired` / `StartFailed` / `StartCancel` / `StartCron`, `ReadStatus`, `SaveStatus` |
| `releaseTicketQuotas`, `releaseRedisLocks` | `RereadOrder`, `GetLock`, `ReturnLock` |
| outside | `RedisFails`, `DatabaseFails`, `UploadFails`, `Crash`, `FallDue`, `LockExpires`, `DeadlockVictim` |

A transaction's writes appear at its commit; the rows it has locked are in `rows`,
others wait for them, and a cycle of waiting transactions loses one of them
(`DeadlockVictim`). The constant `Overlap` says whether two calls on one order may be
in progress together. Each processor takes one job at a time, so overlapping
*payment* calls of one order need a second instance of the application, a stalled
job, or the payment that `createOrder` itself settles; a cancellation, a cron and a
payment overlap in a single instance.

`OrderBook` knows `status`, `sold` and `quota` only. `ImplementsOrderBook` is its
specification with `Demand` instantiated by the summed lines of each order.

Where a statement fails in a stage without a `catch` the call ends there, which `Crash`
has already.

### TicketEdits

Composes the orders of `OrderBook` with administrators. `update` is two reads and a write:
`Preload` (TypeORM's `preload` merges the payload into the row it reads), `Compare` (`save`
reads the row again, softly deleted or not, and keeps the columns in which the two
differ) and `Write`. A payment between the two reads makes `sold` such a column, and a
removal makes `deletedAt` one, since `preload` finds only rows that are not deleted: the
write then brings the ticket back. `Remove` deletes softly; `PlaceOrder` does not find what
is removed. A payment is `StartPayment`, which reads the order with those of its tickets
that are there (`found`), and `PayOrder` or `FailPayment`: it counts what it has found, also
if the ticket is removed after that, and skips the rest (`skipped`). Placing an order and the
counting may be single steps because a payment holds the row of its ticket from the
comparison with the quota to the commit.

### PaymentQueue

`bill` is the provider's truth, `tx` the row, `ord` the order's status, `waiting` the
jobs on the queue (a bag: BullMQ's delays let any job overtake another), `work` the job
of each worker. `Hooks` are workers of `PaymentWebhookProcessor`, `Reapers` of
`PaymentExpiryProcessor`: each `Take`s a job of its own kind or `Swallow`s one of the
other (`if (job.name !== ...) return`). A report says what became of the bill, or is a *stray*
(`DeliverStray`): its status is one that the code's `statusMap` does not know (the DTOs take
any string), so that the status read is the one saved. A job is `ReadTransaction`, `SaveStatus`,
`ApplyToOrder`, `SendMail`; at each point it may `Throw` (tried again from its start
until `MaxAttempts`) or `Stall`. The order's part is one step here, since its stages
are the subject of `OrderLifecycle`. Merged or left out: SETTLED is PAID; amounts are
taken to match; the callback token is right; e-wallet transactions have no `expiresAt`;
the mock provider, which saves transactions as settled or paid at once
(`payment.service.ts:96-105`, `151-158`, `208-216`, `518-551`), so that `SaveTransaction` always
writes PENDING;
mails change nothing in the model, but sending them may throw.

### CheckIn

`issued[p]` is `issuedSignatures` of process `p`, `rows` the saved tickets, `used` the
column `isUsed`, `minted`, `revoked` and `admits` the history that the properties speak
of. A scan is `Decode`, `FindTicket`, `MarkUsed` and `Answer`, so gates interleave and
`Revoke` or `Restart` may come between. A ticket may be found without its ticket type,
which was softly deleted: the scan then ends with an error (`check-in.service.ts:41`). When
that is so is left open. The signature's HMAC is modelled by what it
does: a code nobody issued is in no process's memory.

### Reminders

`status`, `plan` and `retries` are the columns of a row, `jobs[r]` the delayed jobs
that name it, `call[c]` a call in progress: it schedules a list of plans (`FindExisting`,
`Insert`, `AddJob`), or it processes one reminder after the other (`ReadReminder`, `Send`
per channel, `MarkSent` or `RecordFailure`), for a job, for a sweep of overdue rows, or
because a new reminder's time is past. A row is read with its user, who is not found if the
account was softly deleted: `sendEmailReminder` then returns without sending
(`reminder.service.ts:241`), so the e-mail is not among the channels that the attempt serves
(`Served`), and the call is in `mute`. Accounts go and come back whatever the calls here do,
so each read may find its user or not. What a reminder is about (type, subject, message)
is a *plan*, by which `scheduleReminder` recognises it. When a job's delay ends and when
a row is overdue are left open (`scheduledAt` is not kept: a sweep finds any of the
`PENDING` rows), as are the attempts of a job that breaks off: it may come back or not
(`attempts: 1` of `reminder.worker.ts:25` is not passed on by `QueueService`). `sent`,
`twice`, `excused`, `mute` and `raced` are history: the properties say that the exceptions the
code allows (overlapping attempts, an attempt cut short, two requests that look before
either inserts) are the only ones.

### EventMedia

`rows` is `media_objects`, `links` is `event_media`, `objects` what MinIO has, `urls` the
presigned URLs that clients may still use. A call is at one await of `getPresignedUrl`
(`SaveRow`, `Sign`), `confirmUpload` (`Confirm`, `Stat`, `SaveConfirmed` or `RemoveRow`),
`attachMedia` (`SeeBanner`, `Attach`), `update` of an event that is told another banner
(`Update`, `FindOld`, `Erase`, `RemoveRow`) or `deleteFile` (`EraseFile`, `Erase`). Clients
`Put` objects whenever they like. `RetryStrategy` is `AttemptFails`: an attempt that
fails is followed by another, and the last by what its caller does about it. A failed
removal may have removed the object.

### CacheAside and AdminCaches

`CacheAside` is `getOrSet`: `Miss`, `AcquireLock` (SET NX), `Fetched` or `FetchThrows`,
`Store`, `Release` (compare and delete), `Publish`; those without the lock `Subscribe`,
wait until woken or `TimeOut`, `Reread`, and fetch for themselves. Every command may fail
(`RedisFails`, `ReadFails`), every key lapse. A lock's value is the clock in
milliseconds, so two readers may have the same: `Stamps`.

`AdminCaches` gives the readers something to fetch. An operation is a list of commands,
`DatabaseOf(o) \o CachesOf(o)`, one action each: statements by themselves (`Wipe`, `Insert`
of `assignPermissions`), transactions that see what they delete (`See`, `Replace`), and
the commands of `clear` and `clearByPattern`. `Put` is `preload` and `save`: a row that was
deleted between the two is written back and so is there again. `assignRoles` saves the
user it has read, and may bring it back in the same way (`row`). A role that users hold
cannot be deleted (`Refused`), the foreign key of `user_roles` having no action. A mutation writes its number, so the
contents of a cell tell who wrote them. `BlindSpot` lists, line by line, which
operations leave a key as it is although they change what it shows; `excused` holds the
keys that are stale for such a reason, because a reader stored what it had fetched
before, or because an operation broke off before clearing; `StaleExcused` says that
there is no other.

## 3. Runs

| Run | Question | Answer |
|---|---|---|
| `OrdersOverlap` | What holds however calls overlap and one fault strikes? | no overselling, tickets issued are sold, `sold` covers what is paid and never falls, ended orders stay ended |
| `OrdersSerial` | What holds in addition, with two tickets and two faults, if calls on one order never overlap? | Redis and PostgreSQL agree, `sold` is what is paid, the service implements `OrderBook`; without faults only units of overdue orders leak and paid orders get their tickets |
| `OrdersExpiry` | Does every order leave PENDING? | yes, under fairness, two faults allowed |
| `OrdersQuotaLeak` | Do the units of an order that the cron expires return? | no: the lock key lapses first |
| `TicketEdits` | Do edits of ticket types respect sales? | yes, but for a payment between the two reads of an edit, a quota set below `sold`, and a payment that did not find a removed ticket |
| `Payments` | Is everything PAID paid at the provider, is a saved payment ever forgotten by a retry, does every dated transaction leave PENDING? | yes; no, and a transaction reopens by a stray report only; yes, although jobs are swallowed, fail and stall |
| `PaymentsSwallowed` | Is every report acted on? | no: the wrong worker completes it |
| `CheckInGates` | Is a ticket admitted once, with a code issued for its event and not revoked before? | yes, with two gates, two processes and restarts |
| `Reminders` | One row per plan, each reminder sent once and tried as often as it may, through jobs, sweeps, failures and cancellations? | yes, but for the exceptions named, among them an e-mail without its reader; an ended reminder stays ended |
| `EventPictures` | One banner per event? Are pictures lost, or objects forgotten in storage? | one; only when somebody gave them up; only by a confirmation or a late upload |
| `RoleCaches` | Who may hold a lock together, which cached values are stale, do roles hold what the last operation wanted? | only those deprived of it; those excused; yes unless operations overlapped or one broke off between its statements |
| `CacheWaits` | Do readers return, and stale values go? | yes, under fairness |

The violation runs quote, in `PROJECT.json` under `findings`, the document or comment
whose statement the code does not keep. What else the code does that a reader may not
expect, seen while modelling or by weakening the runs above:

*Orders and payments*

* Two payments of one order that both read PENDING both add its units to `sold`, as
  the affected count of the update at `order.service.ts:453` is not looked at: `SoldIsPaid`
  needs `Overlap = FALSE`; `SoldCoversPaid` holds anyway.
* A cancellation that read the order before its payment saves CANCELLED over PAID
  (`order.service.ts:554`): `ImplementsOrderBook` needs `Overlap = FALSE`.
* An upload that fails after the sale committed leaves a PAID order without tickets: the
  retry finds it PAID and returns (`order.service.ts:428`). `PaidHasTickets` therefore
  speaks of runs without faults.
* A cancellation and the cron can both return the units of one order, as
  `ticket-lock.service.ts:63-66` reads and increments in two round trips: `CounterHonest`
  needs `Overlap = FALSE`; `NoOversell` holds anyway.
* An order that names its ticket on two lines keeps only the last line's units in
  its lock key (`ticket-lock.service.ts:32`): `OnlyOverdueLeak` fails with `ItemsOne`.
  If its creation aborts later, the request returns what that one key says once for
  each of the two lines (`order.service.ts:636`, the lines taken before the current one
  being listed at `order.service.ts:116`): with lines of 1 and 2 units that aborts at a
  third line, the counter ends above what is free. `CounterHonest` therefore needs that no
  line repeats a ticket with more units (`NoLargerRepeat`); `NoOversell` holds anyway.
* If Redis fails while a counter is set up and works again for the command after it, the
  units are taken from a counter that is missing (`ticket-lock.service.ts:16-20`, `30`), which
  ends at zero with its key there: nothing sets it again, and the ticket is no longer on sale.
* `markExpired` (`payment.service.ts:431-440`) and the webhooks read and save without a
  lock, so an expiry may be saved over a payment; the order keeps what it was told.
* A webhook with a status that is in no `statusMap` saves the status that it read
  (`payment.service.ts:310`, `380`, `417`): if another one settles the transaction in between,
  it is PENDING again, and the reports after that act on it (`ReopenedByStray` says that
  nothing else reopens one).
* A webhook that arrives before its transaction is saved is dropped
  (`payment.service.ts:289-292`): `ReportsHandled` fails without any swallowed job.
* Each repetition of a paid webhook mails the confirmation again
  (`payment-webhook.processor.ts:91-93`).

*Tickets*

* An edit whose `save` reads the row again after a payment writes the old `sold` back, and
  the units are sold a second time (`ticket.service.ts:46-51`); a quota may be set below
  `sold`; the Redis counter of a ticket on sale does not follow its quota.
* A ticket type removed while orders for it are pending: their payment skips it
  (`order.service.ts:433`), its units are not counted, and issuing tickets throws on the
  missing ticket (`order.service.ts:399`), which leaves a PAID order without tickets.
* An edit whose `save` reads the row again after the ticket type was removed writes
  `deletedAt` back to NULL: the ticket is on sale again, without what was skipped meanwhile.

*Check-in and reminders*

* Codes issued by a process are refused by every other process, and by itself after a
  restart (`qr-code.service.ts:9`).
* A reminder's job and the minute sweep fall due together and can both send it
  (`reminder.service.ts:186`); the test "should send only one reminder email even when
  overdue processing runs multiple times" sees sweeps that follow each other.
* A reminder whose reader's account is gone is marked SENT with no e-mail sent
  (`reminder.service.ts:241`, `201`).
* Reminders are recognised by their message too, which holds the event's place and
  time: after an event was edited, a second scheduling adds new rows.

*Pictures*

* An update of an event with another `bannerMediaId` erases the old banner's object, but
  cannot remove its row, to which `event_media` refers (the error is only logged), and
  writes no link to the new one: the event keeps a picture that is gone
  (`event.service.ts:198`).
* A confirmation whose `stat` fails, or one that comes after the first, removes the row of
  an object that is there (`media.controller.ts:148`); an object may be put for as long as
  its URL lives after its row is gone. Softly deleted events keep links and objects.

*Caches*

* `createRole` clears no key of the role itself, so a reader that saw it before its
  permissions keeps it for its time to live; nothing clears `roles:permissions:*`;
  changes of a role clear none of the users' keys; `removeRole`, `update` and `remove` of a
  user leave `user:roles:*`; a sign-up clears no list.
* An update of a category that overlaps its removal can bring it back
  (`event-category.service.ts:37-44`), and then clears the category's key and the list but not
  the list of ids, which a reader may have filled without it (`BlindSpot`); an update of a user
  and an assignment of roles can bring a user back (`user.service.ts:125-133`).
* Two transactions that update one role delete what each sees and insert their own: the
  role may be left with both (`role-permission.service.ts:90`).
* `clear` deletes the lock of a key with its value, so a second reader fetches beside the
  first; a reader that fetched before a change stores what it has after the invalidation.

**Bounds.** Two workers suffice for every race of the order model, since each involves two
calls; two orders compete for a ticket whose quota they cannot share. In `OrdersOverlap`
one of them names it on two lines, in `OrdersSerial` they name two tickets in opposite
order, so that their transactions can wait for each other. One or two faults place a
failure at every stage of every call. Quantities of 1 to 3 against quotas of 2 to 4
let orders fit alone and not together. Two edits of a ticket can overlap each other, a payment and
a removal, with a quota below and one above what is sold (`NewQuotas`). For payments, two
reports of a bill make a duplicate, a stray one can overtake them (`MaxStrays`; none in
`PaymentsSwallowed`, whose question does not need it), two attempts let a job fail, be
retried and fail for good, and `MaxWaiting` bounds only what the cron adds. At the gates a ticket has one
code per event and process; two tickets tell a scan of one from a scan of the other.
For reminders, two calls and two rows: one list of two plans, for both channels and
for one, that two requests schedule at once; two failures exhaust one retry. For pictures,
two calls and two media of one event: a banner and its replacement; two faults exhaust
the attempts of one removal, or fail two calls once. For caches, two readers and two
operations with one fault, and two lock values: readers of the same or of different
milliseconds; keys are asked for one at a time (`OneKeyEach`), since keys share nothing
but the database, each with the operations that change what it shows; that a fetch outlasts
its lock counts as a fault, while the lock of a reader that has died lapses in any case; four kinds
of key stand for the ways in which caches are cleared (by name, by pattern, by a pattern
without wildcard, by another service). Liveness
(`CacheWaits`) has one operation and one lock value. Calls, processes, gates, readers,
operations, media and lock values are interchangeable (`Symmetry`; no liveness is checked
there). Deadlock checking is off where an instance finishes: orders end, bills are settled,
queues run empty, pictures and operations are used up.

**Constraint.** `SavedFirst` leaves reports that precede their transaction out of
`PaymentsSwallowed`.

**Fairness.** `OrderLifecycle!Fairness`: a call in progress goes on (the event loop),
deadlines pass (time), and the cron keeps coming: strong, because the bound on calls
in progress is the model's and a sweep never fails to find room in the server.
Creation, payments and cancellations are not fair: customers may do nothing.
`PaymentQueue!FairSpec`: workers go on with their job, deadlines pass, the cron
enqueues whenever it can again and again, and an expiry job that is offered again and
again is at last taken by its own processor, the queue being a first-in first-out
list that both processors serve; the number of swallowed jobs is bounded by
`MaxSwallows`. `AdminCaches!FairSpec`: readers and operations in progress go on, waits end
(a timer), values lapse (every SET has a time to live). That a lock lapses is not assumed.

## 4. Proofs

`OrderProofs` holds for any sets of workers, orders and tickets, any lines and
quotas, any number of faults.

* `TypeCorrect`: `Spec => []TypeOK`. `TypeOK` is inductive since it records that only
  a call inside a transaction holds rows and that `createOrder` is at a line which
  exists.
* `OrderInvariant`: `Spec => []OrderInv`. A transaction's effect depends on what it
  compared earlier, so the invariant says what a call knows at its stage: a sale
  holds the row of each ticket it compared and the comparison still is true
  (`RowsExclusive`, `SaleChecked`: nobody else writes `sold` of a row that is held);
  one call creates an order and until it commits the order is absent (`CreatedOnce`,
  `AbsentBeforeCommit`); and releases concern ended orders or ones that never came to
  be (`ReleasesEnded`). The proof first classifies steps (`StepWrites`: which variables
  each can write), then shows each conjunct for each class.
* From it: `QuotaKept` (`NoOversell`), `SoldMonotonic` (`SoldNeverFalls`) and `NoRevival`
  (`EndedStaysEnded`), with calls overlapping freely.
* Assuming `~Overlap`: `SerialInvariant`, `SerialImplements` (refinement of `OrderBook`)
  and `SerialFinal`. That they need the assumption is described above.
* `PaidAreSold` (`SoldCoversPaid`), for calls that overlap: a sale adds the units of its
  order before the order can be PAID, and nothing is ever taken off. `SerialSold`
  (`SoldIsPaid`) assumes `~Overlap`, as the two payments of one order above need.
* `TicketsAreSold` (`IssuedAreSold`), for calls that overlap, by `IssueInv`. The tickets that
  exist say too little: two payment jobs of an order may each be about to generate what
  they counted as missing. So the invariant adds what each call may still generate
  (`Owed`): every unit of its lines until it has counted, then what it found missing, line by
  line. A commit adds as much to `sold` as to what is owed.
* `SerialTickets` (`PaidHasTickets`) assumes `~Overlap`, by `TicketInv` (`TicketInvariant`): while nothing has
  failed, a call knows which tickets its order has, and orders that are not PAID have none.
* `SerialHonest` (`CounterHonest`) assumes `~Overlap` and `NoLargerRepeat`, for both of which a
  counterexample is described in section 3. What Redis offers, what orders hold
  and what is sold fit the quota only as long as nobody gives back more than was taken, so
  `CounterInv` counts what everybody may still give back: a PENDING order its units, an
  ended one what its lock key says, a call the lines that it has taken or the lock values it
  has read (`Claims`). It is inductive with `LockInv`: a lock key says no more than its
  order took, and a call has read one key of an ended order at a time, because
  `releaseTicketQuotas` awaits line by line while `releaseRedisLocks` starts all at once. The
  proof follows each step by what it adds to one claim and takes from another.
* `SerialLeak` (`OnlyOverdueLeak`) assumes `~Overlap` and `NoRepeats` (no order names a ticket
  on two lines; section 3 describes the counterexample). `CounterInv` bounds the counters
  from above and `BackedInv` from below: if nothing has failed, what a counter lacks is sold
  or kept by an order (`Kept`), that is, by one that is being created, as far as its lines
  are taken, by a PENDING one, by an ended one as far as its lock keys stand, or by one that
  is overdue and not PAID. It is inductive with `KeysInv`: until an order is overdue its lock
  keys say what it took, and while an ended one has keys left, or one that never came to be,
  a call is there to release them (`BackedInvariant`). The property itself follows because a
  unit kept when nobody works is kept by a PENDING order or an overdue one (`KeptAtRest`).
* `NobodyStuck`, for calls that overlap and fail: `SomeCallMayGoOn`, which says with what
  the guards of `Step(w)` come to (`MayGoOn`) that some call in progress can take a step.
  If all calls in progress wait for rows, a smallest set of calls each of which waits for
  another one of the set is a deadlock that PostgreSQL ends (`WaitersDeadlock`); a call that
  works line by line has a line left (`LinesLeftInv`). That `MayGoOn(w)` is
  `ENABLED Step(w)` is not proved; TLC finds it in all states of `OrdersSerial` and `OrdersOverlap`
  when asked for the invariant `\A w \in Workers : MayGoOn(w) <=> ENABLED Step(w)`.
* `CallsRunOut`: calls come to an end. `StepsToGo` is computed from a call's stage, lines,
  tickets and releases to come; a call of an order with n lines has between 1 and
  12n + 12 steps to go (`StepsBounded`), each step of it and each fault that strikes it
  leaves it fewer, and no other call moves it (`StepsRunOut`). Nothing is assumed about
  overlaps or faults.

`OrdersAssumption` types the constants, and says that workers and orders are finitely
many. Sums are those of the community modules, folds over a set in no
particular order; `SumTheorems` proves of them, for any finite set, that they are
naturals, can be split, compared and change with a summand (`SumIsNat`, `SumSplits`,
`SumMonotone`, `SumWithinPart`, `SumChanges`). Induction theorems take operators, which the provers cannot
instantiate, so these are proved by the smallest counterexample, a set of sets being
something that `WFMin` can be told of.

`TicketEditProofs` holds for any ticket types, orders, edits and quotas.

* `TypeCorrect` (`TypeOK`), by the record of each stage of an edit.
* `EditsKeepSales` (`SalesSurviveEdits`) by `SalesInv`: an edit whose ticket was not paid
  for between its two reads has read the `sold` that the row holds, and so does not write
  that column (`EditsAhead`). Nothing is said of removed tickets apart: what a payment has
  found it counts, and what it has not found is `skipped`.

`PaymentProofs` holds for any sets of orders and workers, any attempts, reports and
faults.

* `PaymentTypes`: `Spec => []TypeOK`.
* `PaidOnlyIfReported`: `Spec => []PaidIsReported`. The status a processor saves comes
  from its job, so `JobsTrue` is needed: the event of every report that waits or is
  worked on is what became of its bill. It is kept because bills end once (a bill that
  may still change has no report) and because workers invent no jobs (`WorkersInvent`:
  retries and stalls return the job they had).
* `OnlyStraysReopen` (`ReopenedByStray`): a settled transaction becomes PENDING again only when
  a worker saves what it read for a stray report.
* `PaymentKept`: `Spec => []PaidNotForgotten`, strengthened by `ToldBeforeMail` (who sends
  the mail has told the order). The property speaks of behaviours in which no job has been
  swallowed yet (`swallows = 0`); `PaymentsSwallowed` shows that reports are lost in others.
* `ReportsLostThreeWays`: a report of a transaction that is PENDING is acted on or in hand
  (its job waits, is worked on, or is kept among those that failed for good) until the wrong worker takes its job, a stray report reopens
  its transaction, or the transaction was inserted only after its
  report had come in (`LosesReport`); no other step leaves a reported transaction PENDING
  and forgotten, not even an attempt that fails or stalls. So
  `ReportsAreHandled`: in a behaviour in which these three never happen, every
  reported transaction that is still PENDING has such a job, and the job says what became
  of its bill.

`CheckInProofs` holds for any sets of processes, gates, tickets and codes.

* `CheckInTypes`, `GenuineOnly`: by `ScanInv`, what a scan knows at its stage and nobody
  else can take from it: its code was issued, its ticket found for the code's event.
* `AdmittedAtMostOnce`: by `OnceInv`: a ticket that lets somebody in, or is about to, is
  used, and one gate only is about to.
* `RevokedStaysRefused`: by `RevokedInv`: only one process remembers a code, so the one
  that revokes it is the only one that could still accept it.

`ReminderProofs` holds for any rows, plans and calls, any retries and faults; every
property of the run `Reminders` is proved.

* `ReminderTypes`, by `RemindersInv`: what each call knows at its await, above all that
  the row it names is there. One lemma per action; each also says where the action leaves
  its call.
* `OneReminderEach` (`OneRowEach`) needs `ClaimsAreRaced`: a call about to insert a
  plan has overlooked only rows of a plan that was raced for.
* `SentOnce` (`DuplicatesExcused`), `MarkedIsDelivered` (`SentIsDelivered`, an action property:
  a mark is excused by what the attempt that makes it has left out) and `GivenUpAtLast`
  (`RetriesUsedUp`) by `SendInv`: an attempt has exactly those channels left that it has
  not served (`SendCovers`, `SendFresh`), two attempts excuse their reminder (`TryAlone`),
  nothing of a PENDING reminder was sent while nobody is at it (`PendingClean`), and
  nobody is at a FAILED one (`FailedRests`), each but for excused reminders.
* `EndedRemindersRest` (`EndedRests`) from the types.
* `DesertedByBreaks`: a PENDING reminder has a job that waits or a call at it, and it loses
  the last of them, so that only the sweep of `processDueReminders` can find it, only by
  a call that breaks off at it: the process died, or adding the job or marking the
  reminder failed. So `NoneForgotten`: while no call breaks off no reminder depends on
  the sweep, whatever sending does and however calls, sweeps and cancellations overlap.

`MediaProofs` holds for any events, media and calls, any attempts and faults.

* `MediaInvariant`, `MediaTypes`: what calls know, in particular that the banners an
  attachment replaces are the event's.
* `BannerAlone` (`OneBanner`): every step that writes links leaves each event one.
* `PicturesStay` (`PicturesKept`): who erases an object has resigned it (`LostResigned`).
* `OrphansHaveReasons` (`OrphansExcused`): an update removes a row only after its object
  (`ErasedFirst`), so what is left without a row was put late or given up by a
  confirmation.
* `MediaCallsRunOut`: calls come to an end, `RetryStrategy` included: each has between 1 and
  `MaxAttempts` + 2 awaits before it (`AwaitsBounded`), and its own steps, failed attempts
  and errors leave it fewer (`AwaitsFall`).

`CacheProofs` holds for any sets of readers, of operations in progress and of keys asked for,
any lock values, any number of mutations and faults; every safety property of the run
`RoleCaches` is proved.

* `LockHeldAlone` (`HoldersAlone`) by `LockInv`: a reader that has not lost its lock has its
  value in the lock key (`OwnersMark`); so who finds the key free, or a value of its own,
  takes the lock from nobody who does not know.
* `WritesOK` says where an operation is: at its first statement, at its second (`TwoSteps`),
  or among commands on keys in which what a SCAN finds is deleted next (`KeyLists`).
  `CachesAre` computes which keys each operation clears.
* `RowsAsWanted` (`AsWanted`) by `RowsWhole`: while operations on a cell do not overlap, a
  transaction has seen what is there, and between two statements nothing is there.
* `StaleIsExcused` (`StaleExcused`) by `StaleInv`: every stale key is excused or will be
  cleared by an operation that is `Underway`, that is, cannot find its row gone and give
  up. `ChangeCovers` is the heart: whatever a change makes stale the operation clears, or
  `BlindSpot` names it, or it was stale before.
* `CachesTyped` (`TypeOK`). `WritesTyped` says what an operation has seen and found;
  `RowsTyped` adds to the types of the rows that the roles of a user are never gone and that
  a row is gone when it is wanted gone and at no other time; `RestTyped` says what a reader
  that rests has kept.
* `CachesRunOut`: a reader has a step at each of at most eight stages and an operation one
  for each of at most eight commands, among them always one it can name (`CallsHaveSteps`),
  and whatever happens to one of them, by its own step, a message, a lapse or a fault,
  leaves it fewer (`ReadersFall`, `OperationsFall`). A reader that waits does not wait for
  ever, because the wait is bounded in the code, not because the other one answers.

**Only model-checked.** Every liveness property, which is out of the prover's reach; and of course the violations. Every other property of the
passing runs is the statement of a theorem. Of what liveness rests on, the part without
fairness is proved: calls have finitely many steps to go (`CallsRunOut`, `CachesRunOut`,
`MediaCallsRunOut`), and while any order call is in progress one may go on
(`NobodyStuck`). `SerialInvariant`, `SerialFinal` and the
invariants behind the other theorems are proved, and not run again.

## 5. Plan and what is not modelled

1. *Done:* orders over both stores with ticket locks and the order book; payment jobs;
   check-in; reminders; ticket edits; pictures of events; caches of roles, users and
   categories.
2. *Done:* the theorems of section 4, for every safety property of the runs; that some call
   can always go on (`NobodyStuck`); that calls come to an end; how
   reports and reminders may be lost, and that it happens in no other way.
3. A composition of `PaymentQueue` and `OrderLifecycle`, with the order's side of
   `PaymentQueue` refined by the stages of the call.

**Not modelled.**

* *Job queues* by themselves: what callers depend on (workers that take any job of a queue,
  jobs run again, jobs in any order) is modelled with the jobs, in `PaymentQueue` and
  `Reminders`. `QueueService` ignores per-job options and refuses jobs during shutdown.
  The queues for e-mails, PDFs, notifications and clean-up have workers, two of them even
  competing ones (`job-handler.service.ts:63` and `EmailProcessor` on `email`), but nothing
  in the source adds their jobs, and `queue.error-handler.ts` and `order.processor.ts` have no
  callers.
* *Authentication* but for the sign-up's effect on caches; guards and tokens are decisions per
  request without state that steps could break.
* *Dashboard*: aggregating queries behind `getOrSet`; its `invalidate()` clears all keys as
  `clearByPattern` does in `AdminCaches`.
* *Rate limits and counters* of the cache service: no callers.
* *Storage transport* but for its retries; files uploaded through the server, which have no
  rows; *notifications* (single inserts); *PDF tickets* and *e-mail*, whose failures are steps
  of the order and payment models; connections, configuration and the HTTP shell.
* `src/src/assets/js/pdf/pdf.mjs` is vendored.

## 6. Reproducing

`tlc -config <run>.cfg <module>.tla` for each run of `PROJECT.json`, `tlapm <X>Proofs.tla`
for the proofs (about a quarter of an hour for `OrderProofs`, five minutes for `CacheProofs`). No run takes more than a minute or two.
