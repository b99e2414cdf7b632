---------------------------- MODULE PaymentQueue ----------------------------
(***************************************************************************)
(* Payment transactions and the jobs that settle them                      *)
(* (src/src/modules/payments: payment.service.ts, payment-expiry.cron.ts   *)
(* and the processors).                                                    *)
(*                                                                         *)
(* The provider reports what became of a bill, as often as it likes; the   *)
(* controller puts each report on the BullMQ queue `payment`.  A cron puts *)
(* an expiry job there for each transaction that is overdue.  Two classes  *)
(* are processors of that one queue, so two pools of workers take jobs     *)
(* from it, and each gives up the jobs that are not its own.               *)
(*                                                                         *)
(* Each order has at most one transaction (externalId is the order's id),  *)
(* so a transaction is named by its order.  What the processors make       *)
(* OrderService do is one step here; OrderLifecycle has its stages.        *)
(* The mock provider (for tests), whose bills are saved as paid at once,   *)
(* is left out.                                                            *)
(***************************************************************************)
EXTENDS Integers, FiniteSets

CONSTANTS
  Txs,          \* orders with a payment
  Wallets,      \* those paid by e-wallet, which have no `expiresAt`
  Hooks,        \* workers of PaymentWebhookProcessor
  Reapers,      \* workers of PaymentExpiryProcessor
  MaxAttempts,  \* MAX_RETRY_ATTEMPTS
  MaxReports,   \* bound on the reports of one bill
  MaxStrays,    \* bound on those of a status that the code does not know
  MaxWaiting,   \* bound on equal jobs in the queue
  MaxFaults,    \* bound on attempts that fail and workers that stall
  MaxSwallows   \* bound on jobs given up by the wrong worker

ASSUME PaymentsAssumption ==
  /\ Wallets \subseteq Txs
  /\ Hooks \cap Reapers = {}
  /\ MaxAttempts \in Nat \ {0}
  /\ {MaxReports, MaxStrays, MaxWaiting, MaxFaults, MaxSwallows} \subseteq Nat

VARIABLES
  bill,       \* bill[x]: the bill at the provider
  tx,         \* tx[x]: column `status` of the transaction; "none" before it is saved
  ord,        \* ord[x]: column `status` of the order
  overdue,    \* transactions whose `expiresAt` has passed
  waiting,    \* waiting[j]: how many jobs j wait in the queue
  dead,       \* jobs that have failed for good
  work,       \* work[w]: what worker w is doing
  reports,    \* reports[x]: how often the bill was reported as ended
  strays,     \* strays[x]: how often with a status that the code does not know
  faults, swallows

rows == <<tx, ord>>
outside == <<bill, overdue, reports, strays>>
vars == <<rows, outside, waiting, dead, work, faults, swallows>>

Outcomes == {"paid", "expired", "failed"}
Endings(x) == IF x \in Wallets THEN {"paid", "failed"} ELSE {"paid", "expired"}

Timed == Txs \ Wallets

\* Jobs: a report, or the expiry of a transaction; and the attempts made.  A report
\* says what has become of the bill, or has a status that is in no `statusMap`.
Jobs ==
  [kind : {"webhook"}, tx : Txs, event : Outcomes \cup {"other"}, tries : 0..MaxAttempts - 1]
    \cup [kind : {"expiry"}, tx : Txs, event : {"expired"}, tries : 0..MaxAttempts - 1]

Report(x, event) == [kind |-> "webhook", tx |-> x, event |-> event, tries |-> 0]
Expiry(x) == [kind |-> "expiry", tx |-> x, event |-> "expired", tries |-> 0]

Workers == Hooks \cup Reapers
Kind(w) == IF w \in Hooks THEN "webhook" ELSE "expiry"

Idle == [pc |-> "idle"]
Telling == {j \in Jobs : j.event # "other"}
Busy == [pc : {"read", "save"}, job : Jobs] \cup [pc : {"apply", "mail"}, job : Telling]

Add(j) == waiting' = [waiting EXCEPT ![j] = @ + 1]

Finish(w) == work' = [work EXCEPT ![w] = Idle]
Goto(w, stage) == work' = [work EXCEPT ![w].pc = stage]

-----------------------------------------------------------------------------
(***************************************************************************)
(* Outside: the provider, the customer, time.                              *)
(***************************************************************************)

\* createInvoice and its kin ask the provider for a bill and save the
\* transaction when they have the answer.
CreateBill(x) ==
  /\ bill[x] = "none" /\ ord[x] = "PENDING"
  /\ bill' = [bill EXCEPT ![x] = "open"]
  /\ UNCHANGED <<rows, overdue, reports, strays, waiting, dead, work, faults, swallows>>

SaveTransaction(x) ==
  /\ bill[x] # "none" /\ tx[x] = "none"
  /\ tx' = [tx EXCEPT ![x] = "PENDING"]
  /\ UNCHANGED <<ord, outside, waiting, dead, work, faults, swallows>>

EndBill(x) ==
  /\ bill[x] = "open"
  /\ \E event \in Endings(x) : bill' = [bill EXCEPT ![x] = event]
  /\ UNCHANGED <<rows, overdue, reports, strays, waiting, dead, work, faults, swallows>>

\* A POST to /payments/webhook/...: enqueueWebhook.
Deliver(x) ==
  /\ bill[x] \in Outcomes
  /\ reports[x] < MaxReports
  /\ reports' = [reports EXCEPT ![x] = @ + 1]
  /\ Add(Report(x, bill[x]))
  /\ UNCHANGED <<rows, bill, overdue, strays, dead, work, faults, swallows>>

\* ... whose status (any string, for an invoice, a QRIS code or an e-wallet) the
\* code has no meaning for, before or after the bill has ended.
DeliverStray(x) ==
  /\ bill[x] # "none"
  /\ strays[x] < MaxStrays
  /\ strays' = [strays EXCEPT ![x] = @ + 1]
  /\ Add(Report(x, "other"))
  /\ UNCHANGED <<rows, bill, overdue, reports, dead, work, faults, swallows>>

PassDeadline(x) ==
  /\ x \in Timed \ overdue /\ tx[x] # "none"
  /\ overdue' = overdue \cup {x}
  /\ UNCHANGED <<rows, bill, reports, strays, waiting, dead, work, faults, swallows>>

\* The order ends without its payment: the customer cancels, or the order
\* worker finds it expired.  The transaction is left as it is.
EndOrder(x) ==
  /\ ord[x] = "PENDING"
  /\ \E s \in {"EXPIRED", "CANCELLED"} : ord' = [ord EXCEPT ![x] = s]
  /\ UNCHANGED <<tx, outside, waiting, dead, work, faults, swallows>>

(***************************************************************************)
(* PaymentExpiryCron: an expiry job for every overdue transaction that is  *)
(* PENDING, also if it has one already.                                    *)
(***************************************************************************)
EnqueueExpiry(x) ==
  /\ x \in overdue /\ tx[x] = "PENDING"
  /\ waiting[Expiry(x)] < MaxWaiting
  /\ Add(Expiry(x))
  /\ UNCHANGED <<rows, outside, dead, work, faults, swallows>>

-----------------------------------------------------------------------------
(***************************************************************************)
(* The workers.                                                            *)
(***************************************************************************)

Take(w, j) ==
  /\ work[w] = Idle /\ waiting[j] > 0 /\ j.kind = Kind(w)
  /\ waiting' = [waiting EXCEPT ![j] = @ - 1]
  /\ work' = [work EXCEPT ![w] = [pc |-> "read", job |-> j]]
  /\ UNCHANGED <<rows, outside, dead, faults, swallows>>

\* `if (job.name !== ...) return`: a job of the other kind counts as done.
Swallow(w, j) ==
  /\ work[w] = Idle /\ waiting[j] > 0 /\ j.kind # Kind(w)
  /\ swallows < MaxSwallows
  /\ swallows' = swallows + 1
  /\ waiting' = [waiting EXCEPT ![j] = @ - 1]
  /\ UNCHANGED <<rows, outside, dead, work, faults>>

\* Slip: a report is not passed on to the order once the transaction is settled.
PassesOnPending(w, s) == s = "PENDING"

\* What is left to do when the transaction is not PENDING: a report is passed on
\* to the order as it is; an expiry job and a stray are skipped.
PassesOn(w, s) == Kind(w) = "webhook" /\ s # "none" /\ work[w].job.event # "other"

\* process...Webhook and markExpired read the transaction.
ReadTransaction(w) ==
  LET s == tx[work[w].job.tx] IN
  /\ work[w].pc = "read"
  /\ \/ s = "PENDING" /\ Goto(w, "save")
     \/ s # "PENDING" /\ PassesOn(w, s) /\ Goto(w, "apply")
     \/ s # "PENDING" /\ ~PassesOn(w, s) /\ Finish(w)
  /\ UNCHANGED <<rows, outside, waiting, dead, faults, swallows>>

\* Slip: the status is saved as reported.
StatusAsReported(event) == event

\* Slip: an expired bill leaves the transaction alone.
SettledOnly(event) == CASE event = "paid" -> "PAID" [] event = "failed" -> "FAILED" [] OTHER -> "PENDING"

\* `statusMap[payload.status] ?? transaction.status`: a stray leaves the status that
\* was read, which is PENDING.
StatusOf(event) ==
  CASE event = "paid" -> "PAID" [] event = "expired" -> "EXPIRED" [] event = "failed" -> "FAILED"
    [] event = "other" -> "PENDING"

\* ... and save it with its new status, whatever the row holds by now.  A stray has
\* nothing to say to the order.
SaveStatus(w) ==
  LET j == work[w].job IN
  /\ work[w].pc = "save"
  /\ tx' = [tx EXCEPT ![j.tx] = StatusOf(j.event)]
  /\ \/ j.event # "other" /\ Goto(w, "apply")
     \/ j.event = "other" /\ Finish(w)
  /\ UNCHANGED <<ord, outside, waiting, dead, faults, swallows>>

\* Slip: whatever is reported of a settled bill, the order is paid.
PaidWhenever(event) ==
  CASE event = "failed" -> "CANCELLED" [] OTHER -> "PAID"

OrderStatusOf(event) ==
  CASE event = "paid" -> "PAID" [] event = "expired" -> "EXPIRED" [] event = "failed" -> "CANCELLED"

\* handleSuccessfulPayment, handleExpiredPayment, handleFailedPayment: chosen by
\* what the job says, not by what the transaction holds.
ApplyToOrder(w) ==
  LET j == work[w].job IN
  /\ work[w].pc = "apply"
  /\ ord' = IF ord[j.tx] = "PENDING"
            THEN [ord EXCEPT ![j.tx] = OrderStatusOf(j.event)] ELSE ord
  /\ IF j.kind = "expiry" \/ j.event = "paid" THEN Goto(w, "mail") ELSE Finish(w)
  /\ UNCHANGED <<tx, outside, waiting, dead, faults, swallows>>

\* sendPaymentEmail and its kin for expiry: what they change is outside, but they
\* may throw, with the transaction and the order already saved.
SendMail(w) ==
  /\ work[w].pc = "mail"
  /\ Finish(w)
  /\ UNCHANGED <<rows, outside, waiting, dead, faults, swallows>>

\* An attempt throws: the job is tried again from its start, or is given up.
Throw(w) ==
  LET j == work[w].job IN
  /\ work[w] # Idle
  /\ faults < MaxFaults
  /\ faults' = faults + 1
  /\ IF j.tries + 1 < MaxAttempts
     THEN Add([j EXCEPT !.tries = @ + 1]) /\ UNCHANGED dead
     ELSE dead' = dead \cup {j} /\ UNCHANGED waiting
  /\ Finish(w)
  /\ UNCHANGED <<rows, outside, swallows>>

\* A worker dies with its process; its job stalls and goes back to the queue.
Stall(w) ==
  /\ work[w] # Idle
  /\ faults < MaxFaults
  /\ faults' = faults + 1
  /\ Add(work[w].job)
  /\ Finish(w)
  /\ UNCHANGED <<rows, outside, dead, swallows>>

-----------------------------------------------------------------------------
Init ==
  /\ bill = [x \in Txs |-> "none"]
  /\ tx = [x \in Txs |-> "none"]
  /\ ord = [x \in Txs |-> "PENDING"]
  /\ overdue = {}
  /\ waiting = [j \in Jobs |-> 0]
  /\ dead = {}
  /\ work = [w \in Workers |-> Idle]
  /\ reports = [x \in Txs |-> 0] /\ strays = [x \in Txs |-> 0]
  /\ faults = 0 /\ swallows = 0

Step(w) == ReadTransaction(w) \/ SaveStatus(w) \/ ApplyToOrder(w) \/ SendMail(w)

Outside(x) ==
  \/ CreateBill(x) \/ SaveTransaction(x) \/ EndBill(x) \/ Deliver(x) \/ DeliverStray(x)
  \/ PassDeadline(x) \/ EndOrder(x)

Next ==
  \/ \E x \in Txs : Outside(x) \/ EnqueueExpiry(x)
  \/ \E w \in Workers, j \in Jobs : Take(w, j) \/ Swallow(w, j)
  \/ \E w \in Workers : Step(w) \/ Throw(w) \/ Stall(w)

Spec == Init /\ [][Next]_vars

(***************************************************************************)
(* Workers go on with their jobs, deadlines pass, the cron comes round     *)
(* every five minutes, and an expiry job that is offered again and again   *)
(* reaches its own processor at last.                                      *)
(***************************************************************************)
FairSpec ==
  /\ Spec
  /\ \A w \in Workers : WF_vars(Step(w))
  /\ \A x \in Txs :
       /\ WF_vars(PassDeadline(x))
       /\ SF_vars(EnqueueExpiry(x))
       /\ SF_vars(\E w \in Reapers, j \in Jobs : j.tx = x /\ Take(w, j))
-----------------------------------------------------------------------------
(***************************************************************************)
(* Properties.                                                             *)
(***************************************************************************)

\* The rows, the jobs and the workers have their types.
TypeOK ==
  /\ bill \in [Txs -> {"none", "open"} \cup Outcomes]
  /\ tx \in [Txs -> {"none", "PENDING", "PAID", "EXPIRED", "FAILED"}]
  /\ ord \in [Txs -> {"PENDING", "PAID", "EXPIRED", "CANCELLED"}]
  /\ overdue \in SUBSET Timed
  /\ waiting \in [Jobs -> Nat] /\ dead \in SUBSET Jobs
  /\ DOMAIN work = Workers
  /\ \A w \in Workers :
       work[w] = Idle \/ (work[w] \in Busy /\ work[w].job.kind = Kind(w))
  /\ reports \in [Txs -> 0..MaxReports] /\ strays \in [Txs -> 0..MaxStrays]
  /\ faults \in 0..MaxFaults /\ swallows \in 0..MaxSwallows

\* The jobs that still have to do with x.
InHand(x, event) ==
  \/ \E j \in Jobs : j.tx = x /\ j.event = event /\ waiting[j] > 0
  \/ \E w \in Workers : work[w] # Idle /\ work[w].job.tx = x /\ work[w].job.event = event
  \/ \E j \in dead : j.tx = x /\ j.event = event

\* An order is PAID, and a transaction PAID, only if the provider was paid.
PaidIsReported ==
  \A x \in Txs : ord[x] = "PAID" \/ tx[x] = "PAID" => bill[x] = "paid"

\* The job that made a transaction PAID stays in hand until the order knows of
\* it: also when an attempt fails in between, and the next one finds the
\* transaction settled.  (Not if the wrong worker takes the next attempt.)
PaidNotForgotten ==
  swallows = 0 =>
    \A x \in Txs : tx[x] = "PAID" /\ ord[x] = "PENDING" => InHand(x, "paid")

\* A report that came in while the transaction was saved is acted on, unless it
\* has failed for good.
ReportsHandled ==
  \A x \in Txs :
    reports[x] > 0 /\ tx[x] = "PENDING" => InHand(x, bill[x])

\* A transaction that another worker settles meanwhile goes back to PENDING in one
\* way only: a stray report of it, read while it was PENDING, is saved over it.
ReopenedByStray ==
  [][\A x \in Txs :
       tx[x] \notin {"none", "PENDING"} /\ tx'[x] = "PENDING" =>
         \E w \in Hooks :
           work[w].pc = "save" /\ work[w].job.tx = x /\ work[w].job.event = "other"]_tx

\* A transaction with a deadline does not stay PENDING for ever, although its
\* expiry jobs may be swallowed, fail, or stall.
PendingEnds == \A x \in Timed : tx[x] = "PENDING" ~> tx[x] # "PENDING"
=============================================================================
