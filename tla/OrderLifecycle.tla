--------------------------- MODULE OrderLifecycle ---------------------------
(***************************************************************************)
(* The life of ticket orders (src/src/modules/orders/order.service.ts and  *)
(* workers/order-expiration.worker.ts) over its two stores: PostgreSQL,    *)
(* which holds the orders, the tickets sold and the tickets issued, and    *)
(* Redis (module TicketLock), which holds the reservations.                *)
(*                                                                         *)
(* A worker is one asynchronous call in progress: an HTTP request, a       *)
(* payment job, or one order of a cron sweep.  Every await in the code is  *)
(* a point where the other workers may run, so every stage of a call below *)
(* is an action of its own, and a call keeps what it read in its record.   *)
(* A database transaction commits in one action; the rows it locked until  *)
(* then are kept in `rows`.                                                *)
(***************************************************************************)
EXTENDS Integers, Sequences, FiniteSets, FiniteSetsExt, TicketLock

CONSTANTS
  Workers,    \* calls that may be in progress at a time
  Quota,      \* Quota[t]: column `quota` of ticket t
  Items,      \* Items[o]: the lines [ticket, qty] of the request for order o
  Ops,        \* the operations in use, a subset of AllOps
  Overlap,    \* whether two calls on one order may be in progress at a time
  MaxFaults   \* bound on failing Redis calls, failing uploads and crashes

AllOps == {"create", "paid", "expired", "failed", "cancel", "cron"}

Lines(o) == DOMAIN Items[o]

(***************************************************************************)
(* The lines of o that name ticket t, and quantityByTicketId: how many     *)
(* units of t the lines of o sum up to.  Nothing rejects a request that    *)
(* names a ticket on two of its lines.                                     *)
(***************************************************************************)
LinesOf(o, t) == {i \in Lines(o) : Items[o][i].ticket = t}

Need(o, t) == SumFunctionOnSet([i \in Lines(o) |-> Items[o][i].qty], LinesOf(o, t))

ASSUME OrdersAssumption ==
  /\ IsFiniteSet(Orders) /\ IsFiniteSet(Workers)
  /\ Quota \in [Tickets -> Nat]
  /\ Items \in [Orders -> Seq([ticket : Tickets, qty : Nat \ {0}])]
  /\ \A o \in Orders : Items[o] # <<>>
  /\ Ops \subseteq AllOps
  /\ Overlap \in BOOLEAN
  /\ MaxFaults \in Nat

VARIABLES
  status,     \* status[o]: column `status`; "absent" until the order is committed
  sold,       \* sold[t]: column `sold`
  issued,     \* issued[o][i]: generated tickets of line i
  begun,      \* the orders whose request has come in
  due,        \* the orders whose `expiredAt` has passed
  billed,     \* the orders that have a payment transaction
  settled,    \* the orders whose payment transaction is SETTLED
  call,       \* call[w]: what worker w is doing
  faults      \* faults so far

dbVars == <<status, sold, issued>>
orderVars == <<begun, due, billed, settled>>
vars == <<redisVars, dbVars, orderVars, call, faults>>

OrderStatus == {"PENDING", "PAID", "EXPIRED", "CANCELLED"}

(***************************************************************************)
(* ORDER_STATUS_TRANSITIONS, and a slip in such a table.                   *)
(***************************************************************************)
TransitionsWithoutExpiry(s) == IF s = "PENDING" THEN {"PAID", "CANCELLED"} ELSE {}

Transitions(s) == IF s = "PENDING" THEN {"PAID", "EXPIRED", "CANCELLED"} ELSE {}

-----------------------------------------------------------------------------
(***************************************************************************)
(* Calls in progress.                                                      *)
(***************************************************************************)
Stages == {"row", "init", "take", "undo", "unset", "commit", "bill",
           "payread", "sell", "confirm", "count", "issue",
           "read", "save", "reread", "release"}

PerLine == {"row", "init", "take", "undo", "unset"}

InTransaction == PerLine \cup {"commit", "sell"}

Idle == [pc |-> "idle", rows |-> {}]

CallOn(o) == [op : Ops, pc : Stages, order : {o}, line : Nat,
              todo : SUBSET Lines(o), got : [Lines(o) -> Nat],
              rounds : 0..1, rows : SUBSET Tickets]

CallTyped(c) ==
  \/ c = Idle
  \/ /\ \E o \in Orders : c \in CallOn(o)
     /\ c.pc \in InTransaction \/ c.rows = {}
     /\ c.pc \in PerLine => c.line \in Lines(c.order)

CallsTyped == DOMAIN call = Workers /\ \A w \in Workers : CallTyped(call[w])

NewCall(o, op, stage, todo) ==
  [op |-> op, pc |-> stage, order |-> o, line |-> 1, todo |-> todo,
   got |-> [i \in Lines(o) |-> 0], rounds |-> 0, rows |-> {}]

Ticket(w, i) == Items[call[w].order][i].ticket
Qty(w, i) == Items[call[w].order][i].qty

\* One line per ticket of the order: the keys of quantityByTicketId.
FirstLines(o) == {i \in Lines(o) : \A j \in Lines(o) : j < i => Items[o][j].ticket # Items[o][i].ticket}

\* No call is in progress on o; if calls may overlap, one may begin anyway.
Untouched(o) == \A w \in Workers : call[w] # Idle => call[w].order # o

Free(o) == ~Overlap => Untouched(o)

Start(w, o, op, stage, todo) ==
  /\ call[w] = Idle
  /\ op \in Ops
  /\ Free(o)
  /\ call' = [call EXCEPT ![w] = NewCall(o, op, stage, todo)]

At(w, stage) == call[w].pc = stage

Goto(w, stage) == call' = [call EXCEPT ![w].pc = stage]

Finish(w) == call' = [call EXCEPT ![w] = Idle]

(***************************************************************************)
(* Row locks of PostgreSQL.                                                *)
(***************************************************************************)
RowFree(w, t) == \A v \in Workers \ {w} : t \notin call[v].rows

\* The rows a call needs next: SELECT ... FOR UPDATE takes the lines in
\* request order, the sale the rows it has not updated yet.
WantedRows(w) ==
  CASE At(w, "row")  -> {Ticket(w, call[w].line)}
    [] At(w, "sell") -> {Ticket(w, i) : i \in call[w].todo}
    [] OTHER         -> {}

Blocks(v, w) == v # w /\ WantedRows(w) \cap call[v].rows # {}

\* Every call of a set waits for another one of the set.
Deadlocked(w) ==
  \E S \in SUBSET Workers :
    /\ w \in S
    /\ \A u \in S : /\ \E v \in S : Blocks(v, u)
                    /\ \E v \in S : Blocks(u, v)

-----------------------------------------------------------------------------
(***************************************************************************)
(* createOrder.                                                            *)
(***************************************************************************)

\* Slip: the line before the failing one is forgotten.
LockedButLast(w) == {i \in Lines(call[w].order) : i < call[w].line - 1}

\* lockedTicketIds: the lines done so far.
Locked(w) == {i \in Lines(call[w].order) : i < call[w].line}

\* Slip: locks are released before the transaction is.
AbortHoldingRows(w) ==
  IF Locked(w) = {}
  THEN Finish(w)
  ELSE call' = [call EXCEPT ![w].pc = "release", ![w].todo = Locked(w)]

\* The transaction is rolled back, which frees its rows, and what lockedTicketIds
\* names is released.
Abort(w) ==
  IF Locked(w) = {}
  THEN Finish(w)
  ELSE call' = [call EXCEPT ![w].pc = "release", ![w].todo = Locked(w), ![w].rows = {}]

BeginCreate(w, o) ==
  /\ o \notin begun
  /\ Start(w, o, "create", "row", {})
  /\ begun' = begun \cup {o}
  /\ UNCHANGED <<redisVars, dbVars, due, billed, settled, faults>>

\* SELECT ... FOR UPDATE on the line's ticket and the check against `sold`.
CheckLine(w) ==
  LET i == call[w].line IN
  /\ At(w, "row")
  /\ RowFree(w, Ticket(w, i))
  /\ IF Quota[Ticket(w, i)] - sold[Ticket(w, i)] < Qty(w, i)
     THEN Abort(w)
     ELSE call' = [call EXCEPT ![w].pc = "init", ![w].rows = @ \cup {Ticket(w, i)}]
  /\ UNCHANGED <<redisVars, dbVars, orderVars, faults>>

InitQuota(w) ==
  LET t == Ticket(w, call[w].line) IN
  /\ At(w, "init")
  /\ InitializeQuotaIfAbsent(t, Quota[t] - sold[t])
  /\ Goto(w, "take")
  /\ UNCHANGED <<dbVars, orderVars, faults>>

\* lockTicketQuota; the last line is followed by the commit.
LockLine(w) ==
  LET i == call[w].line IN
  /\ At(w, "take")
  /\ TakeQuota(Ticket(w, i), call[w].order, Qty(w, i))
  /\ IF Overdrawn(Ticket(w, i), Qty(w, i))
     THEN Goto(w, "undo")
     ELSE call' = [call EXCEPT ![w].line = i + 1,
                     ![w].pc = IF i = Len(Items[call[w].order]) THEN "commit" ELSE "row"]
  /\ UNCHANGED <<dbVars, orderVars, faults>>

UndoLine(w) ==
  LET i == call[w].line IN
  /\ At(w, "undo")
  /\ ReturnOverdraft(Ticket(w, i), Qty(w, i))
  /\ Goto(w, "unset")
  /\ UNCHANGED <<dbVars, orderVars, faults>>

UnsetLine(w) ==
  /\ At(w, "unset")
  /\ DeleteLock(Ticket(w, call[w].line), call[w].order)
  /\ Abort(w)
  /\ UNCHANGED <<dbVars, orderVars, faults>>

CommitOrder(w) ==
  /\ At(w, "commit")
  /\ status' = [status EXCEPT ![call[w].order] = "PENDING"]
  /\ call' = [call EXCEPT ![w].pc = "bill", ![w].rows = {}]
  /\ UNCHANGED <<redisVars, sold, issued, orderVars, faults>>

\* createPaymentForOrder: the transaction stays open, is settled at once (the
\* providers' sandbox does that for QRIS and e-wallets), or cannot be created.
BillOpen(w) ==
  /\ At(w, "bill")
  /\ billed' = billed \cup {call[w].order}
  /\ Finish(w)
  /\ UNCHANGED <<redisVars, dbVars, begun, due, settled, faults>>

BillSettled(w) ==
  /\ At(w, "bill")
  /\ "paid" \in Ops
  /\ billed' = billed \cup {call[w].order}
  /\ settled' = settled \cup {call[w].order}
  /\ Goto(w, "payread")
  /\ UNCHANGED <<redisVars, dbVars, begun, due, faults>>

BillFails(w) ==
  /\ At(w, "bill")
  /\ Goto(w, "read")
  /\ UNCHANGED <<redisVars, dbVars, orderVars, faults>>

\* handleSuccessfulPayment throws.  A payment job has failed; createOrder
\* catches it and cancels the order.
PaymentThrows(w) ==
  IF call[w].op = "create"
  THEN call' = [call EXCEPT ![w].pc = "read", ![w].todo = {}, ![w].rows = {},
                            ![w].got = [i \in Lines(call[w].order) |-> 0]]
  ELSE Finish(w)

\* PostgreSQL ends a deadlock by failing the transaction of one of its calls.
DeadlockVictim(w) ==
  /\ Deadlocked(w)
  /\ \/ At(w, "row")  /\ Abort(w)
     \/ At(w, "sell") /\ PaymentThrows(w)
  /\ UNCHANGED <<redisVars, dbVars, orderVars, faults>>

-----------------------------------------------------------------------------
(***************************************************************************)
(* handleSuccessfulPayment.  A payment job starts it when the provider has *)
(* reported the payment, as often as the report is delivered; createOrder  *)
(* calls it when the payment is settled at once.  Each reads the order     *)
(* first and does nothing more unless it is PENDING.                       *)
(***************************************************************************)
StartPaid(w, o) ==
  /\ o \in billed
  /\ status[o] = "PENDING"
  /\ Start(w, o, "paid", "sell", FirstLines(o))
  /\ settled' \in {settled, settled \cup {o}}
  /\ UNCHANGED <<redisVars, dbVars, begun, due, billed, faults>>

PayRead(w) ==
  /\ At(w, "payread")
  /\ IF status[call[w].order] = "PENDING"
     THEN call' = [call EXCEPT ![w].pc = "sell", ![w].todo = FirstLines(call[w].order)]
     ELSE Finish(w)
  /\ UNCHANGED <<redisVars, dbVars, orderVars, faults>>

\* Slip: the units of the order are left out of the comparison.
FitsBefore(o, t) == sold[t] < Quota[t]

Fits(o, t) == sold[t] + Need(o, t) <= Quota[t]

\* UPDATE tickets SET sold = sold + quantity WHERE sold + quantity <= quota,
\* one ticket after the other; a row that does not match rolls all of them back.
SellRow(w) ==
  /\ At(w, "sell")
  /\ \E i \in call[w].todo :
       LET t == Ticket(w, i) IN
       /\ RowFree(w, t)
       /\ IF Fits(call[w].order, t)
          THEN call' = [call EXCEPT ![w].todo = @ \ {i}, ![w].rows = @ \cup {t}]
          ELSE PaymentThrows(w)
  /\ UNCHANGED <<redisVars, dbVars, orderVars, faults>>

\* Slips: units counted only for an order that is still pending, although its
\* tickets are generated anyway; lines that name a ticket again not summed up.
SoldIfPending(o) ==
  IF status[o] = "PENDING" THEN [t \in Tickets |-> sold[t] + Need(o, t)] ELSE sold

SoldFirstLine(o) ==
  [t \in Tickets |-> IF LinesOf(o, t) = {} THEN sold[t]
                     ELSE sold[t] + Items[o][Min(LinesOf(o, t))].qty]

SoldAfter(o) == [t \in Tickets |-> sold[t] + Need(o, t)]

\* Slips: the update of the order misses its condition; it demands more.
PaidAnyway(o) == [status EXCEPT ![o] = "PAID"]

PaidUnlessDue(o) ==
  IF status[o] = "PENDING" /\ o \notin due THEN [status EXCEPT ![o] = "PAID"] ELSE status

\* UPDATE orders SET PAID WHERE status = PENDING.
PaidIfPending(o) == IF status[o] = "PENDING" THEN [status EXCEPT ![o] = "PAID"] ELSE status

\* The end of the transaction.  Nobody looks how many orders were updated.
CommitSale(w) ==
  LET o == call[w].order IN
  /\ At(w, "sell")
  /\ call[w].todo = {}
  /\ sold' = SoldAfter(o)
  /\ status' = PaidIfPending(o)
  /\ call' = [call EXCEPT ![w].pc = "confirm", ![w].todo = FirstLines(o), ![w].rows = {}]
  /\ UNCHANGED <<redisVars, issued, orderVars, faults>>

\* The lock of line i's ticket is dealt with; the last one is followed by
\* generateTicketsForOrder.
ConfirmNext(w, i) ==
  call' = [call EXCEPT ![w].todo = @ \ {i},
                       ![w].pc = IF call[w].todo = {i} THEN "count" ELSE "confirm"]

ConfirmLock(w) ==
  /\ At(w, "confirm")
  /\ \E i \in call[w].todo :
       /\ DeleteLock(Ticket(w, i), call[w].order)
       /\ ConfirmNext(w, i)
  /\ UNCHANGED <<dbVars, orderVars, faults>>

(***************************************************************************)
(* generateTicketsForOrder, called at the end of handleSuccessfulPayment:  *)
(* one query counts the tickets the lines have, then each line gets the    *)
(* ones it lacks.  The reminders scheduled afterwards never fail the call. *)
(***************************************************************************)
\* Slip: only a settled transaction counts.
MayIssueSettled(o) == o \in settled

MayIssue(o) == status[o] = "PAID" \/ o \in settled

CountIssued(w) ==
  LET o == call[w].order IN
  /\ At(w, "count")
  /\ IF MayIssue(o)
     THEN call' = [call EXCEPT ![w].pc = "issue", ![w].todo = Lines(o), ![w].got = issued[o]]
     ELSE PaymentThrows(w)
  /\ UNCHANGED <<redisVars, dbVars, orderVars, faults>>

Missing(w, i) == IF Qty(w, i) > call[w].got[i] THEN Qty(w, i) - call[w].got[i] ELSE 0

IssueLine(w) ==
  LET o == call[w].order IN
  /\ At(w, "issue")
  /\ \E i \in call[w].todo :
       /\ issued' = [issued EXCEPT ![o][i] = @ + Missing(w, i)]
       /\ IF call[w].todo = {i}
          THEN Finish(w)
          ELSE call' = [call EXCEPT ![w].todo = @ \ {i}]
  /\ UNCHANGED <<redisVars, status, sold, orderVars, faults>>

\* The upload of a ticket's PDF fails and the call throws: the lines already
\* saved stay, the order stays PAID.
UploadFails(w) ==
  /\ At(w, "issue")
  /\ faults < MaxFaults
  /\ faults' = faults + 1
  /\ PaymentThrows(w)
  /\ UNCHANGED <<redisVars, dbVars, orderVars>>

-----------------------------------------------------------------------------
(***************************************************************************)
(* The ways out of PENDING without a payment.  Each handler reads the      *)
(* order and goes on only if it is PENDING (the guard below); then the     *)
(* operation that changes it reads it again, and saves what it read.       *)
(***************************************************************************)
StartCancel(w, o) ==
  /\ status[o] = "PENDING"
  /\ Start(w, o, "cancel", "read", {})
  /\ UNCHANGED <<redisVars, dbVars, orderVars, faults>>

StartExpired(w, o) ==
  /\ o \in billed
  /\ status[o] = "PENDING"
  /\ Start(w, o, "expired", "read", {})
  /\ UNCHANGED <<redisVars, dbVars, orderVars, faults>>

StartFailed(w, o) ==
  /\ o \in billed
  /\ status[o] = "PENDING"
  /\ Start(w, o, "failed", "read", {})
  /\ UNCHANGED <<redisVars, dbVars, orderVars, faults>>

\* checkExpiredOrders finds the order, processExpiredOrder handles it.
StartCron(w, o) ==
  /\ o \in due
  /\ status[o] = "PENDING"
  /\ Start(w, o, "cron", "read", {})
  /\ UNCHANGED <<redisVars, dbVars, orderVars, faults>>

Target(op) == IF op \in {"cron", "expired"} THEN "EXPIRED" ELSE "CANCELLED"

\* cancelOrderInternal returns unless the order is PENDING.  updateOrderStatus
\* returns if the order has the status already, and throws if the transition
\* is not allowed; only the cron goes on after it returned.
ReadStatus(w) ==
  LET s == status[call[w].order]  op == call[w].op IN
  /\ At(w, "read")
  /\ \/ Target(op) \in Transitions(s) /\ Goto(w, "save")
     \/ op = "cron" /\ s = "EXPIRED" /\ Goto(w, "reread")
     \/ /\ Target(op) \notin Transitions(s)
        /\ ~(op = "cron" /\ s = "EXPIRED")
        /\ Finish(w)
  /\ UNCHANGED <<redisVars, dbVars, orderVars, faults>>

\* save(order) writes by primary key, whatever the row holds by now.
\* processExpiredOrder releases once more after updateOrderStatus did.
SaveStatus(w) ==
  /\ At(w, "save")
  /\ status' = [status EXCEPT ![call[w].order] = Target(call[w].op)]
  /\ call' = [call EXCEPT ![w].pc = "reread",
                          ![w].rounds = IF call[w].op = "cron" THEN 1 ELSE 0]
  /\ UNCHANGED <<redisVars, sold, issued, orderVars, faults>>

(***************************************************************************)
(* releaseTicketQuotas reads the order anew: the units of a PAID order are *)
(* taken off `sold`.  Then it releases the lock of each ticket.            *)
(***************************************************************************)
\* Slip: units are taken off `sold` for every order that is released.
CountsAlways(o) == status[o] # "absent"

CountsAsSold(o) == status[o] = "PAID"

RereadOrder(w) ==
  LET o == call[w].order IN
  /\ At(w, "reread")
  /\ sold' = IF CountsAsSold(o)
             THEN [t \in Tickets |-> IF sold[t] > Need(o, t) THEN sold[t] - Need(o, t) ELSE 0]
             ELSE sold
  /\ call' = [call EXCEPT ![w].pc = "release", ![w].todo = FirstLines(o)]
  /\ UNCHANGED <<redisVars, status, issued, orderVars, faults>>

(***************************************************************************)
(* releaseTicketQuota for the lines in `todo`: first GET, which puts what  *)
(* it read into `got`, then MULTI.  releaseTicketQuotas awaits one ticket  *)
(* after the other; a create request that aborts (its order is not in the  *)
(* database) does so with all its lines at once, so every GET comes before *)
(* the first MULTI.                                                        *)
(***************************************************************************)
Aborting(w) == status[call[w].order] = "absent"

NothingRead(w) == \A i \in Lines(call[w].order) : call[w].got[i] = 0

Released(w, todo, got) ==
  call' = IF todo # {} \/ \E i \in DOMAIN got : got[i] > 0
          THEN [call EXCEPT ![w].todo = todo, ![w].got = got]
          ELSE IF call[w].rounds > 0
          THEN [call EXCEPT ![w].pc = "reread", ![w].todo = todo, ![w].got = got, ![w].rounds = 0]
          ELSE [call EXCEPT ![w] = Idle]

MayGet(w, i) == At(w, "release") /\ i \in call[w].todo /\ (Aborting(w) \/ NothingRead(w))

MayReturn(w, i) == At(w, "release") /\ call[w].got[i] > 0 /\ (Aborting(w) => call[w].todo = {})

GetLock(w) ==
  LET o == call[w].order IN
  /\ At(w, "release")
  /\ \E i \in Lines(o) :
       /\ MayGet(w, i)
       /\ Released(w, call[w].todo \ {i}, [call[w].got EXCEPT ![i] = lock[Ticket(w, i)][o]])
  /\ UNCHANGED <<redisVars, dbVars, orderVars, faults>>

ReturnLock(w) ==
  LET o == call[w].order IN
  /\ At(w, "release")
  /\ \E i \in Lines(o) :
       /\ MayReturn(w, i)
       /\ ReturnQuota(Ticket(w, i), o, call[w].got[i])
       /\ Released(w, call[w].todo, [call[w].got EXCEPT ![i] = 0])
  /\ UNCHANGED <<dbVars, orderVars, faults>>

-----------------------------------------------------------------------------
(***************************************************************************)
(* What goes wrong around the calls.                                       *)
(***************************************************************************)

\* A command to Redis fails without effect.  TicketLockService catches the
\* error: lockTicketQuota answers false, the others answer as ever.
RedisFails(w) ==
  /\ faults < MaxFaults
  /\ faults' = faults + 1
  /\ \/ At(w, "init") /\ Goto(w, "take")
     \/ call[w].pc \in {"take", "undo", "unset"} /\ Abort(w)
     \/ At(w, "confirm") /\ \E i \in call[w].todo : ConfirmNext(w, i)
     \/ /\ At(w, "release")
        /\ \E i \in Lines(call[w].order) :
             \/ MayGet(w, i) /\ Released(w, call[w].todo \ {i}, call[w].got)
             \/ MayReturn(w, i) /\ Released(w, call[w].todo, [call[w].got EXCEPT ![i] = 0])
  /\ UNCHANGED <<redisVars, dbVars, orderVars>>

\* A statement, or the commit of the transaction, fails.  (In the stages left out here
\* nobody catches the error, and the call ends as if its process died.)
DatabaseFails(w) ==
  /\ faults < MaxFaults
  /\ faults' = faults + 1
  /\ \/ call[w].pc \in {"row", "commit"} /\ Abort(w)
     \/ call[w].pc \in {"payread", "sell"} /\ PaymentThrows(w)
  /\ UNCHANGED <<redisVars, dbVars, orderVars>>

\* The process of a call dies; PostgreSQL rolls its open transaction back.
Crash(w) ==
  /\ call[w] # Idle
  /\ faults < MaxFaults
  /\ faults' = faults + 1
  /\ Finish(w)
  /\ UNCHANGED <<redisVars, dbVars, orderVars>>

\* `expiredAt`, taken when the request comes in, passes.
FallDue(o) ==
  /\ o \in begun \ due
  /\ due' = due \cup {o}
  /\ UNCHANGED <<redisVars, dbVars, begun, billed, settled, call, faults>>

\* The lock keys of an order are written after its `expiredAt` is computed
\* and live as long, so they lapse after it has passed.
LockExpires(t, o) ==
  /\ o \in due
  /\ LockLapses(t, o)
  /\ UNCHANGED <<dbVars, orderVars, call, faults>>

-----------------------------------------------------------------------------
Init ==
  /\ RedisInit
  /\ status = [o \in Orders |-> "absent"]
  /\ sold = [t \in Tickets |-> 0]
  /\ issued = [o \in Orders |-> [i \in Lines(o) |-> 0]]
  /\ begun = {} /\ due = {} /\ billed = {} /\ settled = {}
  /\ call = [w \in Workers |-> Idle]
  /\ faults = 0

CreateStep(w) ==
  \/ CheckLine(w) \/ InitQuota(w) \/ LockLine(w) \/ UndoLine(w) \/ UnsetLine(w)
  \/ CommitOrder(w) \/ BillOpen(w) \/ BillSettled(w) \/ BillFails(w)
  \/ DeadlockVictim(w)

PaymentStep(w) ==
  \/ PayRead(w) \/ SellRow(w) \/ CommitSale(w) \/ ConfirmLock(w)
  \/ CountIssued(w) \/ IssueLine(w)

EndStep(w) ==
  \/ ReadStatus(w) \/ SaveStatus(w) \/ RereadOrder(w) \/ GetLock(w) \/ ReturnLock(w)

\* A call goes on by itself.
Step(w) == CreateStep(w) \/ PaymentStep(w) \/ EndStep(w)

Begin(w, o) ==
  \/ BeginCreate(w, o) \/ StartPaid(w, o) \/ StartExpired(w, o)
  \/ StartFailed(w, o) \/ StartCancel(w, o) \/ StartCron(w, o)

Fault(w) == RedisFails(w) \/ DatabaseFails(w) \/ UploadFails(w) \/ Crash(w)

Next ==
  \/ \E w \in Workers : Step(w) \/ Fault(w)
  \/ \E w \in Workers, o \in Orders : Begin(w, o)
  \/ \E o \in Orders : FallDue(o)
  \/ \E t \in Tickets, o \in Orders : LockExpires(t, o)

Spec == Init /\ [][Next]_vars

(***************************************************************************)
(* The event loop runs every call in progress on, time passes, and the     *)
(* cron comes round every minute: strong fairness, because the bound on    *)
(* calls in progress is the model's and not the server's.                  *)
(***************************************************************************)
Fairness ==
  /\ \A w \in Workers : WF_vars(Step(w))
  /\ \A o \in Orders : WF_vars(FallDue(o)) /\ SF_vars(\E w \in Workers : StartCron(w, o))

FairSpec == Spec /\ Fairness
-----------------------------------------------------------------------------
(***************************************************************************)
(* Properties.                                                             *)
(***************************************************************************)

\* Every variable has its type: the database rows, the Redis keys, and the
\* calls in progress with what they read; only a call inside a transaction
\* holds rows, and createOrder works on a line that the request has.
TypeOK ==
  /\ RedisTypeOK
  /\ status \in [Orders -> OrderStatus \cup {"absent"}]
  /\ sold \in [Tickets -> Nat]
  /\ DOMAIN issued = Orders /\ \A o \in Orders : issued[o] \in [Lines(o) -> Nat]
  /\ begun \in SUBSET Orders /\ due \in SUBSET begun
  /\ billed \in SUBSET Orders /\ settled \in SUBSET billed
  /\ CallsTyped
  /\ faults \in 0..MaxFaults

UnitsOf(S, t) == SumFunctionOnSet([o \in Orders |-> Need(o, t)], S)

Having(s) == {o \in Orders : status[o] = s}

IssuedUnits(t) ==
  SumFunction([o \in Orders |-> SumFunctionOnSet(issued[o], LinesOf(o, t))])

AllIdle == \A w \in Workers : call[w] = Idle

\* The units sold never exceed the quota of a ticket, whatever calls overlap.
NoOversell == \A t \in Tickets : sold[t] <= Quota[t]

\* Every ticket anyone can be admitted with is backed by a unit of `sold`, so
\* together with NoOversell no more tickets exist than the quota allows: also
\* when two payment jobs work on one order, and when an upload failed halfway.
IssuedAreSold == \A t \in Tickets : IssuedUnits(t) <= sold[t]

\* `sold` counts every PAID order at least once.
SoldCoversPaid == \A t \in Tickets : UnitsOf(Having("PAID"), t) <= sold[t]

\* `sold` never goes down: releaseTicketQuotas takes units of a PAID order off
\* it, but it runs after the order was saved EXPIRED or CANCELLED, and an order
\* that has left PENDING never becomes PAID.
SoldNeverFalls == [][\A t \in Tickets : sold'[t] >= sold[t]]_sold

\* An order that has expired or been cancelled never becomes PAID or PENDING.
EndedStaysEnded ==
  [][\A o \in Orders : status[o] \in {"EXPIRED", "CANCELLED"}
                           => status'[o] \in {"EXPIRED", "CANCELLED"}]_status

\* PAID, EXPIRED and CANCELLED are final (ORDER_STATUS_TRANSITIONS).
FinalStatesStay ==
  [][\A o \in Orders : status[o] \in {"PAID", "EXPIRED", "CANCELLED"}
                           => status'[o] = status[o]]_status

\* Redis promises no unit twice: what it still offers, what pending orders hold
\* and what is sold fit the quota.
CounterHonest ==
  \A t \in quotaKeys : counter[t] + UnitsOf(Having("PENDING"), t) + sold[t] <= Quota[t]

\* `sold` is the units of the PAID orders, no more and no less.
SoldIsPaid == \A t \in Tickets : sold[t] = UnitsOf(Having("PAID"), t)

\* A PAID order that no call works on has all its tickets, if nothing has failed.
PaidHasTickets ==
  faults = 0 =>
    \A o \in Having("PAID") : Untouched(o) => \A i \in Lines(o) : issued[o][i] = Items[o][i].qty

\* When nothing is going on, and every order is pending, paid or found overdue by the
\* cron, the counter has back the units of the expired orders.
QuotaRestored ==
  AllIdle /\ begun \subseteq Having("PENDING") \cup Having("PAID") \cup Having("EXPIRED") =>
    \A t \in quotaKeys : counter[t] = Quota[t] - sold[t] - UnitsOf(Having("PENDING"), t)

\* When nothing is going on and nothing has failed, the counter has back every unit that
\* is neither sold nor held by a pending order, but for the units of orders that outlived
\* their `expiredAt`.
OnlyOverdueLeak ==
  LET overdue == {o \in due : status[o] \notin {"PENDING", "PAID"}} IN
  AllIdle /\ faults = 0 => \A t \in quotaKeys :
               /\ counter[t] <= Quota[t] - sold[t] - UnitsOf(Having("PENDING"), t)
               /\ counter[t] >= Quota[t] - sold[t] - UnitsOf(Having("PENDING") \cup overdue, t)

\* No order stays pending for ever: the cron finds it when it is overdue.
PendingEnds == \A o \in Orders : status[o] = "PENDING" ~> status[o] # "PENDING"

(***************************************************************************)
(* The promise that OrderBook states.                                      *)
(***************************************************************************)
Book == INSTANCE OrderBook
          WITH Demand <- [o \in Orders |-> [t \in Tickets |-> Need(o, t)]], quota <- Quota

\* Placing, paying and ending an order look like single steps to the outside.
ImplementsOrderBook == Book!Spec
=============================================================================
