--------------------------- MODULE PaymentProofs ---------------------------
(***************************************************************************)
(* Theorems about PaymentQueue for any number of transactions, workers,    *)
(* attempts, reports and faults.                                           *)
(***************************************************************************)
EXTENDS PaymentQueue, TLAPS

Doing(w, j) == work[w] # Idle /\ work[w].job = j

\* Somebody has job j still to do.
Live(j) == waiting[j] > 0 \/ \E w \in Workers : Doing(w, j)

\* What a report says of its bill, if it says anything, stays true while it waits, is
\* retried or stalls: bills end once.
JobsTrue ==
  \A j \in Jobs : Live(j) /\ j.kind = "webhook" /\ j.event # "other" => j.event = bill[j.tx]

\* A processor sends its mail after the order has been told.
ToldBeforeMail ==
  \A w \in Workers : work[w].pc = "mail" => ord[work[w].job.tx] # "PENDING"

ReportInv == JobsTrue /\ PaidIsReported

KeptInv == ToldBeforeMail /\ PaidNotForgotten

-----------------------------------------------------------------------------
(***************************************************************************)
(* Types.                                                                  *)
(***************************************************************************)

\* What the fields of a job may be.
LEMMA JobFields ==
  ASSUME NEW j \in Jobs
  PROVE  /\ j.tx \in Txs /\ j.event \in Outcomes \cup {"other"} /\ j.kind \in {"webhook", "expiry"}
         /\ j.tries \in 0..MaxAttempts - 1
         /\ j.kind = "expiry" => j.event = "expired"
  BY DEF Jobs, Outcomes

\* A job that has thrown is a job again if it may be tried once more.
LEMMA Retried ==
  ASSUME NEW j \in Jobs, j.tries + 1 < MaxAttempts
  PROVE  LET r == [j EXCEPT !.tries = @ + 1] IN
         r \in Jobs /\ r.tx = j.tx /\ r.event = j.event /\ r.kind = j.kind
  BY PaymentsAssumption DEF Jobs

\* A worker that is not idle has a job of its own kind.
LEMMA WorkFields ==
  ASSUME TypeOK, NEW w \in Workers, work[w] # Idle
  PROVE  /\ work[w] \in Busy /\ work[w].job \in Jobs
         /\ work[w].job.kind = Kind(w)
         /\ work[w].pc \in {"apply", "mail"} => work[w].job.event # "other"
  BY DEF TypeOK, Busy, Telling

\* Reports of ended bills and expiries of transactions are jobs.
LEMMA NewJobs ==
  ASSUME NEW x \in Txs
  PROVE  /\ Expiry(x) \in Jobs
         /\ \A event \in Outcomes \cup {"other"} : Report(x, event) \in Jobs
  BY PaymentsAssumption DEF Jobs, Expiry, Report

\* One more or one less equal job keeps the type of the queue.
LEMMA QueueTyped ==
  ASSUME TypeOK, NEW j \in Jobs
  PROVE  /\ Add(j) => waiting' \in [Jobs -> Nat]
         /\ waiting[j] > 0 /\ waiting' = [waiting EXCEPT ![j] = @ - 1]
              => waiting' \in [Jobs -> Nat]
  BY DEF TypeOK, Add

\* A step of worker w leaves the others with what they do.
LEMMA WorkTyped ==
  ASSUME TypeOK, NEW w \in Workers,
         \/ Finish(w)
         \/ \E s \in {"read", "save", "apply", "mail"} :
              /\ work[w] # Idle /\ Goto(w, s)
              /\ s \in {"apply", "mail"} => work[w].job.event # "other"
  PROVE  /\ DOMAIN work' = Workers
         /\ \A v \in Workers :
              work'[v] = Idle \/ (work'[v] \in Busy /\ work'[v].job.kind = Kind(v))
<1>1. CASE Finish(w)
  BY <1>1 DEF TypeOK, Finish
<1>2. ASSUME NEW s \in {"read", "save", "apply", "mail"}, work[w] # Idle, Goto(w, s),
             s \in {"apply", "mail"} => work[w].job.event # "other"
      PROVE  work'[w] \in Busy /\ work'[w].job.kind = Kind(w)
  <2>1. PICK j \in Jobs : work[w].job = j /\ j.kind = Kind(w)
    BY <1>2, WorkFields
  <2>2. work'[w] = [pc |-> s, job |-> j]
    BY <1>2, <2>1, WorkFields DEF Goto, TypeOK, Busy
  <2> QED
    BY <1>2, <2>1, <2>2 DEF Busy, Telling
<1> QED
  BY <1>1, <1>2 DEF TypeOK, Finish, Goto

\* A worker on its way through a job keeps it, and the others theirs.
LEMMA StageKept ==
  ASSUME TypeOK, NEW w \in Workers, work[w] # Idle,
         NEW s \in {"read", "save", "apply", "mail"}, Goto(w, s)
  PROVE  /\ work'[w] # Idle /\ work'[w].job = work[w].job /\ work'[w].pc = s
         /\ \A v \in Workers \ {w} : work'[v] = work[v]
<1>1. work[w] \in Busy
  BY WorkFields
<1>2. work'[w] = [work[w] EXCEPT !.pc = s] /\ \A v \in Workers \ {w} : work'[v] = work[v]
  BY DEF Goto, TypeOK
<1>3. work'[w].pc = s /\ work'[w].job = work[w].job
  BY <1>1, <1>2 DEF Busy
<1> QED
  BY <1>2, <1>3 DEF Idle

\* A worker that ends its job leaves the others theirs.
LEMMA Finished ==
  ASSUME TypeOK, NEW w \in Workers, Finish(w)
  PROVE  work'[w] = Idle /\ \A v \in Workers \ {w} : work'[v] = work[v]
  BY DEF Finish, TypeOK

\* The variables start with their types.
LEMMA TypeInit == Init => TypeOK
  BY PaymentsAssumption DEF Init, TypeOK

\* Every step keeps the types.
LEMMA TypeNext == TypeOK /\ [Next]_vars => TypeOK'
<1> SUFFICES ASSUME TypeOK, [Next]_vars PROVE TypeOK'
  OBVIOUS
<1> USE DEF rows, outside
<1>1. ASSUME NEW x \in Txs, Outside(x) \/ EnqueueExpiry(x) PROVE TypeOK'
  <2>1. CASE CreateBill(x) \/ SaveTransaction(x) \/ EndBill(x) \/ PassDeadline(x) \/ EndOrder(x)
    BY <2>1 DEF TypeOK, CreateBill, SaveTransaction, EndBill, PassDeadline, EndOrder,
                Endings, Outcomes
  <2>2. CASE Deliver(x)
    <3>1. waiting' \in [Jobs -> Nat]
      BY <2>2, NewJobs, QueueTyped DEF Deliver
    <3>2. reports' \in [Txs -> 0..MaxReports]
      BY <2>2, PaymentsAssumption DEF Deliver, TypeOK
    <3> QED
      BY <2>2, <3>1, <3>2 DEF Deliver, TypeOK
  <2>3. CASE EnqueueExpiry(x)
    <3>1. waiting' \in [Jobs -> Nat]
      BY <2>3, NewJobs, QueueTyped DEF EnqueueExpiry
    <3> QED
      BY <2>3, <3>1 DEF EnqueueExpiry, TypeOK
  <2>4. CASE DeliverStray(x)
    <3>1. waiting' \in [Jobs -> Nat]
      BY <2>4, NewJobs, QueueTyped DEF DeliverStray
    <3>2. strays' \in [Txs -> 0..MaxStrays]
      BY <2>4, PaymentsAssumption DEF DeliverStray, TypeOK
    <3> QED
      BY <2>4, <3>1, <3>2 DEF DeliverStray, TypeOK
  <2> QED
    BY <1>1, <2>1, <2>2, <2>3, <2>4 DEF Outside
<1>2. ASSUME NEW w \in Workers, NEW j \in Jobs, Take(w, j) PROVE TypeOK'
  <2>1. waiting' \in [Jobs -> Nat]
    BY <1>2, QueueTyped DEF Take
  <2>2. [pc |-> "read", job |-> j] \in Busy
    BY DEF Busy
  <2> QED
    BY <1>2, <2>1, <2>2 DEF Take, TypeOK
<1>3. ASSUME NEW w \in Workers, NEW j \in Jobs, Swallow(w, j) PROVE TypeOK'
  <2>1. waiting' \in [Jobs -> Nat]
    BY <1>3, QueueTyped DEF Swallow
  <2>2. swallows' \in 0..MaxSwallows
    BY <1>3, PaymentsAssumption DEF Swallow, TypeOK
  <2> QED
    BY <1>3, <2>1, <2>2 DEF Swallow, TypeOK
<1>4. ASSUME NEW w \in Workers, Step(w) PROVE TypeOK'
  <2>1. work[w] # Idle
    BY <1>4 DEF Step, ReadTransaction, SaveStatus, ApplyToOrder, SendMail, Idle
  <2> DEFINE j == work[w].job
  <2>2. j \in Jobs /\ j.tx \in Txs /\ j.event \in Outcomes \cup {"other"}
    BY <2>1, WorkFields, JobFields
  <2> HIDE DEF j
  <2>3. CASE ReadTransaction(w) \/ SendMail(w)
    <3>1. \/ Finish(w)
          \/ \E s \in {"save", "apply"} :
               /\ Goto(w, s)
               /\ s = "apply" => work[w].job.event # "other"
      BY <2>3 DEF ReadTransaction, SendMail, PassesOn
    <3> QED
      BY <2>1, <2>3, <3>1, WorkTyped DEF ReadTransaction, SendMail, TypeOK
  <2>4. CASE SaveStatus(w)
    <3>1. /\ tx' = [tx EXCEPT ![j.tx] = StatusOf(j.event)]
          /\ (Goto(w, "apply") /\ work[w].job.event # "other") \/ Finish(w)
      BY <2>4 DEF SaveStatus, j
    <3>2. StatusOf(j.event) \in {"PENDING", "PAID", "EXPIRED", "FAILED"}
      BY <2>2 DEF StatusOf, Outcomes
    <3>3. /\ DOMAIN work' = Workers
          /\ \A v \in Workers :
               work'[v] = Idle \/ (work'[v] \in Busy /\ work'[v].job.kind = Kind(v))
      BY <2>1, <3>1, WorkTyped
    <3>4. UNCHANGED <<ord, outside, waiting, dead, faults, swallows>>
      BY <2>4 DEF SaveStatus
    <3> QED
      BY <2>2, <3>1, <3>2, <3>3, <3>4 DEF TypeOK
  <2>5. CASE ApplyToOrder(w)
    <3>1. /\ ord' = ord \/ ord' = [ord EXCEPT ![j.tx] = OrderStatusOf(j.event)]
          /\ Finish(w) \/ Goto(w, "mail")
      BY <2>5 DEF ApplyToOrder, j
    <3>2. work[w].job.event # "other"
      BY <2>1, <2>5, WorkFields DEF ApplyToOrder
    <3>3. OrderStatusOf(j.event) \in {"PAID", "EXPIRED", "CANCELLED"}
      BY <2>2, <3>2 DEF OrderStatusOf, Outcomes, j
    <3> QED
      BY <2>1, <2>2, <2>5, <3>1, <3>2, <3>3, WorkTyped DEF ApplyToOrder, TypeOK
  <2> QED
    BY <1>4, <2>3, <2>4, <2>5 DEF Step
<1>5. ASSUME NEW w \in Workers, Throw(w) \/ Stall(w) PROVE TypeOK'
  <2>1. work[w] # Idle /\ Finish(w) /\ UNCHANGED <<rows, outside, swallows>>
    BY <1>5 DEF Throw, Stall
  <2>2. work[w].job \in Jobs
    BY <2>1, WorkFields
  <2>3. faults' \in 0..MaxFaults
    BY <1>5, PaymentsAssumption DEF Throw, Stall, TypeOK
  <2>4. waiting' \in [Jobs -> Nat] /\ dead' \subseteq Jobs
    BY <1>5, <2>2, Retried, QueueTyped DEF Throw, Stall, TypeOK
  <2> QED
    BY <2>1, <2>3, <2>4, WorkTyped DEF TypeOK
<1>6. CASE UNCHANGED vars
  BY <1>6 DEF TypeOK, vars
<1> QED
  BY <1>1, <1>2, <1>3, <1>4, <1>5, <1>6 DEF Next

\* Rows, jobs and workers always have their types.
THEOREM PaymentTypes == Spec => []TypeOK
  BY TypeInit, TypeNext, PTL DEF Spec

\* A settled transaction becomes PENDING again in one way only, however reports, expiry
\* jobs, retries and stalls overlap: a worker that read it while it was PENDING saves a
\* report whose status the code has no meaning for.
THEOREM OnlyStraysReopen == Spec => ReopenedByStray
<1> DEFINE Kept ==
      \A x \in Txs :
        tx[x] \notin {"none", "PENDING"} /\ tx'[x] = "PENDING" =>
          \E w \in Hooks :
            work[w].pc = "save" /\ work[w].job.tx = x /\ work[w].job.event = "other"
<1>1. ASSUME TypeOK, Next PROVE [Kept]_tx
  <2>1. ASSUME NEW x \in Txs, SaveTransaction(x) PROVE Kept
    BY <1>1, <2>1 DEF SaveTransaction, TypeOK
  <2>2. ASSUME NEW w \in Workers, SaveStatus(w) PROVE Kept
    <3>1. PICK j \in Jobs : j = work[w].job /\ j.kind = Kind(w)
      BY <1>1, <2>2, WorkFields DEF SaveStatus, Idle
    <3>2. tx' = [tx EXCEPT ![j.tx] = StatusOf(j.event)] /\ work[w].pc = "save"
      BY <2>2, <3>1 DEF SaveStatus
    <3>3. StatusOf(j.event) = "PENDING" => j.event = "other"
      BY <3>1, JobFields DEF StatusOf, Outcomes
    <3>4. j.event = "other" => w \in Hooks
      BY <3>1, JobFields DEF Kind
    <3> QED
      BY <1>1, <3>1, <3>2, <3>3, <3>4, JobFields DEF TypeOK
  <2>3. ASSUME NEW x \in Txs PROVE Outside(x) \/ EnqueueExpiry(x) => SaveTransaction(x) \/ UNCHANGED tx
    BY DEF Outside, EnqueueExpiry, CreateBill, EndBill, Deliver, DeliverStray, PassDeadline,
           EndOrder, rows
  <2>4. ASSUME NEW w \in Workers
        PROVE  Step(w) \/ Throw(w) \/ Stall(w) => SaveStatus(w) \/ UNCHANGED tx
    BY DEF Step, ReadTransaction, ApplyToOrder, SendMail, Throw, Stall, rows
  <2>5. ASSUME NEW w \in Workers, NEW j \in Jobs
        PROVE  Take(w, j) \/ Swallow(w, j) => UNCHANGED tx
    BY DEF Take, Swallow, rows
  <2> QED
    BY <1>1, <2>1, <2>2, <2>3, <2>4, <2>5 DEF Next
<1>2. TypeOK /\ [Next]_vars => [Kept]_tx
  BY <1>1 DEF vars, rows
<1> QED
  BY <1>2, PaymentTypes, PTL DEF Spec, ReopenedByStray

-----------------------------------------------------------------------------
(***************************************************************************)
(* Only paid bills pay orders.                                             *)
(***************************************************************************)

\* Two jobs about the same report or expiry, perhaps at different attempts.
Same(i, j) == i.tx = j.tx /\ i.event = j.event /\ i.kind = j.kind

\* Every job somebody has to do was there before, at this or an earlier attempt.
NoNewJobs == \A j \in Jobs : Live(j)' => \E i \in Jobs : Live(i) /\ Same(i, j)

\* Taking, retrying and returning jobs invents none.
LEMMA WorkersInvent ==
  ASSUME TypeOK,
         \/ \E w \in Workers, j \in Jobs : Take(w, j) \/ Swallow(w, j)
         \/ \E w \in Workers : Step(w) \/ Throw(w) \/ Stall(w)
  PROVE  NoNewJobs
<1> USE DEF Live, Doing, Same, NoNewJobs
<1>1. ASSUME NEW w \in Workers, NEW j \in Jobs, Take(w, j) PROVE NoNewJobs
  <2>1. /\ waiting[j] > 0 /\ \A i \in Jobs \ {j} : waiting'[i] = waiting[i]
        /\ work'[w].job = j /\ \A v \in Workers \ {w} : work'[v] = work[v]
    BY <1>1 DEF Take, TypeOK
  <2> QED
    BY <2>1
<1>2. ASSUME NEW w \in Workers, NEW j \in Jobs, Swallow(w, j) PROVE NoNewJobs
  BY <1>2 DEF Swallow, TypeOK
<1>3. ASSUME NEW w \in Workers, Step(w) PROVE NoNewJobs
  <2>1. work[w] # Idle /\ UNCHANGED waiting
    BY <1>3 DEF Step, ReadTransaction, SaveStatus, ApplyToOrder, SendMail, Idle
  <2>2. Finish(w) \/ \E s \in {"save", "apply", "mail"} : Goto(w, s)
    BY <1>3 DEF Step, ReadTransaction, SaveStatus, ApplyToOrder, SendMail
  <2>3. /\ work'[w] = Idle \/ work'[w].job = work[w].job
        /\ \A v \in Workers \ {w} : work'[v] = work[v]
    BY <2>1, <2>2, StageKept, Finished
  <2> QED
    BY <2>1, <2>3
<1>4. ASSUME NEW w \in Workers, Throw(w) \/ Stall(w) PROVE NoNewJobs
  <2> DEFINE mine == work[w].job
             again == [mine EXCEPT !.tries = @ + 1]
  <2>1. work[w] # Idle /\ mine \in Jobs /\ Finish(w)
    BY <1>4, WorkFields DEF Throw, Stall
  <2>2. work'[w] = Idle /\ \A v \in Workers \ {w} : work'[v] = work[v]
    BY <2>1, Finished
  <2>3. \A i \in Jobs : waiting'[i] > 0 => waiting[i] > 0 \/ Same(mine, i)
    <3>1. CASE UNCHANGED waiting
      BY <3>1
    <3>2. CASE Add(mine)
      BY <2>1, <3>2 DEF Add, TypeOK
    <3>3. CASE mine.tries + 1 < MaxAttempts /\ Add(again)
      <4>1. again \in Jobs /\ Same(mine, again)
        BY <2>1, <3>3, Retried
      <4>2. \A i \in Jobs \ {again} : waiting'[i] = waiting[i]
        BY <3>3, <4>1 DEF Add, TypeOK
      <4> HIDE DEF again, mine
      <4> QED
        BY <4>1, <4>2
    <3> QED
      BY <1>4, <3>1, <3>2, <3>3 DEF Throw, Stall
  <2>4. Live(mine)
    BY <2>1
  <2> HIDE DEF mine
  <2>5. \A i \in Jobs : Live(i)' => Live(i) \/ Same(mine, i)
    BY <2>2, <2>3
  <2> QED
    BY <2>1, <2>4, <2>5
<1> QED
  BY <1>1, <1>2, <1>3, <1>4

\* As long as bills do not change and no job is new, what jobs say stays true.
LEMMA TrueKept ==
  ASSUME JobsTrue, UNCHANGED bill, NoNewJobs
  PROVE  JobsTrue'
<1> SUFFICES ASSUME NEW j \in Jobs, Live(j)', j.kind = "webhook", j.event # "other"
             PROVE  j.event = bill'[j.tx]
  BY DEF JobsTrue
<1>1. PICK i \in Jobs : Live(i) /\ Same(i, j)
  BY DEF NoNewJobs
<1> QED
  BY <1>1 DEF JobsTrue, Same

\* Nothing was reported or paid at the start.
LEMMA ReportInit == Init => ReportInv
  BY DEF Init, ReportInv, JobsTrue, Live, Doing, PaidIsReported, Idle

\* A bill that may still change has no report in hand; a report is of a bill that
\* has ended; and only a report of payment pays a transaction or an order.
LEMMA ReportNext == TypeOK /\ ReportInv /\ [Next]_vars => ReportInv'
<1> SUFFICES ASSUME TypeOK, ReportInv, [Next]_vars PROVE ReportInv'
  OBVIOUS
<1> USE DEF rows, outside
<1>1. ASSUME NEW x \in Txs, CreateBill(x) \/ EndBill(x) PROVE ReportInv'
  <2>1. /\ bill[x] \in {"none", "open"}
        /\ \A y \in Txs \ {x} : bill'[y] = bill[y]
        /\ UNCHANGED <<rows, waiting, work>>
    BY <1>1 DEF CreateBill, EndBill, TypeOK
  <2>2. JobsTrue'
    <3> SUFFICES ASSUME NEW j \in Jobs, Live(j)', j.kind = "webhook", j.event # "other"
                 PROVE  j.event = bill'[j.tx]
      BY DEF JobsTrue
    <3>1. j.event = bill[j.tx] /\ j.event \in Outcomes /\ j.tx \in Txs
      BY <2>1, JobFields DEF Live, Doing, ReportInv, JobsTrue
    <3>2. j.tx # x
      BY <2>1, <3>1 DEF Outcomes
    <3> QED
      BY <2>1, <3>1, <3>2
  <2> QED
    BY <2>1, <2>2 DEF ReportInv, PaidIsReported
<1>2. ASSUME NEW x \in Txs, Deliver(x) PROVE ReportInv'
  <2> DEFINE new == Report(x, bill[x])
  <2>1. new \in Jobs /\ new.tx = x /\ new.event = bill[x]
    BY <1>2, NewJobs DEF Deliver, Report
  <2>2. /\ \A j \in Jobs \ {new} : waiting'[j] = waiting[j]
        /\ UNCHANGED <<rows, bill, work>>
    BY <1>2, <2>1 DEF Deliver, Add, TypeOK
  <2> HIDE DEF new
  <2>3. \A j \in Jobs : Live(j)' => Live(j) \/ j = new
    BY <2>2 DEF Live, Doing
  <2> QED
    BY <2>1, <2>2, <2>3 DEF ReportInv, JobsTrue, PaidIsReported
<1>3. ASSUME NEW x \in Txs, EnqueueExpiry(x) PROVE ReportInv'
  <2>1. Expiry(x) \in Jobs /\ Expiry(x).kind = "expiry"
    BY NewJobs DEF Expiry
  <2>2. /\ \A j \in Jobs \ {Expiry(x)} : waiting'[j] = waiting[j]
        /\ UNCHANGED <<rows, bill, work>>
    BY <1>3, <2>1 DEF EnqueueExpiry, Add, TypeOK
  <2>3. \A j \in Jobs : Live(j)' => Live(j) \/ j.kind = "expiry"
    BY <2>1, <2>2 DEF Live, Doing
  <2> QED
    BY <2>2, <2>3 DEF ReportInv, JobsTrue, PaidIsReported
<1>9. ASSUME NEW x \in Txs, DeliverStray(x) PROVE ReportInv'
  <2> DEFINE new == Report(x, "other")
  <2>1. new \in Jobs /\ new.event = "other"
    BY NewJobs DEF Report
  <2>2. /\ \A j \in Jobs \ {new} : waiting'[j] = waiting[j]
        /\ UNCHANGED <<rows, bill, work>>
    BY <1>9, <2>1 DEF DeliverStray, Add, TypeOK
  <2> HIDE DEF new
  <2>3. \A j \in Jobs : Live(j)' => Live(j) \/ j = new
    BY <2>2 DEF Live, Doing
  <2> QED
    BY <2>1, <2>2, <2>3 DEF ReportInv, JobsTrue, PaidIsReported
<1>4. ASSUME NEW x \in Txs, SaveTransaction(x) \/ PassDeadline(x) \/ EndOrder(x) PROVE ReportInv'
  BY <1>4 DEF SaveTransaction, PassDeadline, EndOrder, ReportInv, JobsTrue, Live, Doing,
              PaidIsReported, TypeOK
<1>5. ASSUME NEW w \in Workers, SaveStatus(w) \/ ApplyToOrder(w) PROVE ReportInv'
  <2> DEFINE j == work[w].job
  <2>1. work[w] # Idle /\ UNCHANGED bill
    BY <1>5 DEF SaveStatus, ApplyToOrder, Idle
  <2>2. /\ j \in Jobs /\ j.tx \in Txs /\ j.event \in Outcomes \cup {"other"}
        /\ work[w].pc = "apply" => j.event # "other"
    BY <2>1, WorkFields, JobFields
  <2>3. j.event = "paid" => bill[j.tx] = "paid"
    BY <2>1, <2>2, JobFields DEF ReportInv, JobsTrue, Live, Doing
  <2>4. JobsTrue'
    BY <1>5, <2>1, WorkersInvent, TrueKept DEF Step, ReportInv
  <2>5. /\ tx' = tx \/ tx' = [tx EXCEPT ![j.tx] = StatusOf(j.event)]
        /\ \/ ord' = ord
           \/ work[w].pc = "apply" /\ ord' = [ord EXCEPT ![j.tx] = OrderStatusOf(j.event)]
    BY <1>5 DEF SaveStatus, ApplyToOrder
  <2>6. /\ StatusOf(j.event) = "PAID" => j.event = "paid"
        /\ work[w].pc = "apply" /\ OrderStatusOf(j.event) = "PAID" => j.event = "paid"
    BY <2>2 DEF StatusOf, OrderStatusOf, Outcomes
  <2> HIDE DEF j
  <2>7. PaidIsReported'
    BY <2>1, <2>2, <2>3, <2>5, <2>6 DEF ReportInv, PaidIsReported, TypeOK
  <2> QED
    BY <2>4, <2>7 DEF ReportInv
<1>6. ASSUME NEW w \in Workers,
             ReadTransaction(w) \/ SendMail(w) \/ Throw(w) \/ Stall(w)
      PROVE  ReportInv'
  <2>1. UNCHANGED <<rows, bill>>
    BY <1>6 DEF ReadTransaction, SendMail, Throw, Stall
  <2>2. JobsTrue'
    BY <1>6, <2>1, WorkersInvent, TrueKept DEF Step, ReportInv
  <2> QED
    BY <2>1, <2>2 DEF ReportInv, PaidIsReported
<1>7. ASSUME NEW w \in Workers, NEW j \in Jobs, Take(w, j) \/ Swallow(w, j) PROVE ReportInv'
  <2>1. UNCHANGED <<rows, bill>>
    BY <1>7 DEF Take, Swallow
  <2>2. JobsTrue'
    BY <1>7, <2>1, WorkersInvent, TrueKept DEF ReportInv
  <2> QED
    BY <2>1, <2>2 DEF ReportInv, PaidIsReported
<1>8. CASE UNCHANGED vars
  BY <1>8 DEF vars, ReportInv, JobsTrue, Live, Doing, PaidIsReported
<1> QED
  BY <1>1, <1>2, <1>3, <1>4, <1>5, <1>6, <1>7, <1>8, <1>9 DEF Next, Outside, Step

\* No order and no transaction becomes PAID unless the provider was paid, however
\* reports are repeated, delayed, retried, and overtaken by expiry jobs.
THEOREM PaidOnlyIfReported == Spec => []PaidIsReported
<1>1. Spec => [](TypeOK /\ ReportInv)
  BY TypeInit, ReportInit, TypeNext, ReportNext, PTL DEF Spec
<1>2. ReportInv => PaidIsReported
  BY DEF ReportInv
<1> QED
  BY <1>1, <1>2, PTL

-----------------------------------------------------------------------------
(***************************************************************************)
(* Payments that reach their order.                                        *)
(***************************************************************************)

\* A step that does not settle a transaction or reopen an order, and loses no
\* report of payment, keeps payments in hand.
LEMMA HandKept ==
  ASSUME PaidNotForgotten, UNCHANGED swallows,
         \A x \in Txs : tx'[x] = "PAID" /\ ord'[x] = "PENDING" =>
           /\ tx[x] = "PAID" /\ ord[x] = "PENDING"
           /\ InHand(x, "paid") => InHand(x, "paid")'
  PROVE  PaidNotForgotten'
  BY DEF PaidNotForgotten

\* A job that is added is in hand, and no other leaves the queue.
LEMMA Added ==
  ASSUME TypeOK, NEW j \in Jobs, Add(j)
  PROVE  /\ waiting'[j] > 0
         /\ \A i \in Jobs : waiting[i] > 0 => waiting'[i] > 0
  BY DEF Add, TypeOK

\* Nothing is settled at the start.
LEMMA KeptInit == Init => KeptInv
  BY DEF Init, KeptInv, ToldBeforeMail, PaidNotForgotten, Idle

\* A processor lets go of a report of payment only when its order is no longer
\* PENDING; an attempt that throws leaves the job to another, which finds the
\* transaction settled and goes on to the order all the same.
LEMMA KeptNext ==
  ASSUME TypeOK, KeptInv, [Next]_vars
  PROVE  KeptInv'
<1> USE DEF rows, outside
<1>1. ASSUME NEW x \in Txs, Outside(x) \/ EnqueueExpiry(x) PROVE KeptInv'
  <2>1. UNCHANGED <<work, dead, swallows>> /\ \A y \in Txs : ord'[y] = "PENDING" => ord[y] = "PENDING"
    BY <1>1 DEF Outside, EnqueueExpiry, CreateBill, SaveTransaction, EndBill, Deliver,
                DeliverStray, PassDeadline, EndOrder, TypeOK
  <2>2. \A y \in Txs : tx'[y] = "PAID" => tx[y] = "PAID"
    BY <1>1 DEF Outside, EnqueueExpiry, CreateBill, SaveTransaction, EndBill, Deliver,
                DeliverStray, PassDeadline, EndOrder, TypeOK
  <2>3. \A j \in Jobs : waiting[j] > 0 => waiting'[j] > 0
    <3>1. CASE UNCHANGED waiting
      BY <3>1
    <3>2. CASE Deliver(x)
      BY <3>2, NewJobs, Added DEF Deliver
    <3>3. CASE EnqueueExpiry(x)
      BY <3>3, NewJobs, Added DEF EnqueueExpiry
    <3>4. CASE DeliverStray(x)
      BY <3>4, NewJobs, Added DEF DeliverStray
    <3> QED
      BY <1>1, <3>1, <3>2, <3>3, <3>4 DEF Outside, CreateBill, SaveTransaction, EndBill,
                                    PassDeadline, EndOrder
  <2>4. PaidNotForgotten'
    BY <2>1, <2>2, <2>3, HandKept DEF KeptInv, InHand
  <2>5. ToldBeforeMail'
    <3> SUFFICES ASSUME NEW w \in Workers, work[w].pc = "mail"
                 PROVE  ord'[work[w].job.tx] # "PENDING"
      BY <2>1 DEF ToldBeforeMail
    <3>1. work[w].job.tx \in Txs
      BY WorkFields, JobFields DEF Idle
    <3> QED
      BY <2>1, <3>1 DEF KeptInv, ToldBeforeMail
  <2> QED
    BY <2>4, <2>5 DEF KeptInv
<1>2. ASSUME NEW w \in Workers, NEW j \in Jobs, Take(w, j) PROVE KeptInv'
  <2>1. /\ UNCHANGED <<rows, dead, swallows>>
        /\ \A i \in Jobs \ {j} : waiting'[i] = waiting[i]
        /\ \A v \in Workers \ {w} : work'[v] = work[v]
        /\ work'[w].job = j /\ work'[w].pc = "read" /\ work[w] = Idle
    BY <1>2 DEF Take, TypeOK
  <2>2. work'[w] # Idle
    BY <2>1 DEF Idle
  <2>3. \A x \in Txs : InHand(x, "paid") => InHand(x, "paid")'
    BY <2>1, <2>2 DEF InHand
  <2> QED
    BY <2>1, <2>3, HandKept DEF KeptInv, ToldBeforeMail
<1>3. ASSUME NEW w \in Workers, NEW j \in Jobs, Swallow(w, j) PROVE KeptInv'
  BY <1>3, PaymentsAssumption DEF Swallow, TypeOK, KeptInv, ToldBeforeMail, PaidNotForgotten
<1>4. ASSUME NEW w \in Workers, Step(w) PROVE KeptInv'
  <2>1. work[w] # Idle /\ UNCHANGED <<waiting, dead, swallows>>
    BY <1>4 DEF Step, ReadTransaction, SaveStatus, ApplyToOrder, SendMail, Idle
  <2>job. PICK j \in Jobs : j = work[w].job
    BY <2>1, WorkFields
  <2>2. /\ j.tx \in Txs /\ j.event \in Outcomes \cup {"other"} /\ j.kind = Kind(w)
        /\ work[w].pc = "apply" => j.event # "other"
    BY <2>job, <2>1, WorkFields, JobFields
  \* The worker stays with its job.
  <2>3. ASSUME NEW s \in {"save", "apply", "mail"}, Goto(w, s)
        PROVE  /\ \A x \in Txs : InHand(x, "paid") => InHand(x, "paid")'
               /\ j.event = "paid" => InHand(j.tx, "paid")'
               /\ work'[w].job = j /\ work'[w].pc = s
               /\ \A v \in Workers \ {w} : work'[v] = work[v]
    <3>1. /\ work'[w] # Idle /\ work'[w].job = j /\ work'[w].pc = s
          /\ \A v \in Workers \ {w} : work'[v] = work[v]
      BY <2>job, <2>1, <2>3, StageKept
    <3>2. InHand(j.tx, j.event)'
      BY <3>1 DEF InHand
    <3>3. \A x \in Txs : InHand(x, "paid") => InHand(x, "paid")'
      <4> SUFFICES ASSUME NEW x \in Txs, InHand(x, "paid") PROVE InHand(x, "paid")'
        OBVIOUS
      <4>1. CASE work[w].job.tx = x /\ work[w].job.event = "paid"
        BY <2>job, <3>2, <4>1
      <4>2. CASE ~(work[w].job.tx = x /\ work[w].job.event = "paid")
        BY <2>1, <3>1, <4>2 DEF InHand
      <4> QED
        BY <4>1, <4>2
    <3> QED
      BY <3>1, <3>2, <3>3
  \* The worker lets its job go.
  <2>4. ASSUME Finish(w), \A x \in Txs : tx'[x] = "PAID" => tx[x] = "PAID",
               \A x \in Txs : ord'[x] = "PENDING" => ord[x] = "PENDING",
               j.event = "paid" => tx[j.tx] # "PAID" \/ ord'[j.tx] # "PENDING"
        PROVE  KeptInv'
    <3>1. work'[w] = Idle /\ \A v \in Workers \ {w} : work'[v] = work[v]
      BY <2>4, Finished
    <3>2. \A x \in Txs : InHand(x, "paid") =>
            InHand(x, "paid")' \/ (j.tx = x /\ j.event = "paid")
      BY <2>job, <2>1, <3>1 DEF InHand
    <3>3. PaidNotForgotten'
      BY <2>1, <2>4, <3>2, HandKept DEF KeptInv
    <3>4. ToldBeforeMail'
      <4> SUFFICES ASSUME NEW v \in Workers \ {w}, work[v].pc = "mail"
                   PROVE  ord'[work[v].job.tx] # "PENDING"
        BY <3>1 DEF ToldBeforeMail, Idle
      <4>1. work[v].job.tx \in Txs
        BY WorkFields, JobFields DEF Idle
      <4> QED
        BY <2>4, <4>1 DEF KeptInv, ToldBeforeMail
    <3> QED
      BY <3>3, <3>4 DEF KeptInv
  <2>5. CASE ReadTransaction(w)
    <3>1. UNCHANGED rows
      BY <2>5 DEF ReadTransaction
    <3>2. CASE \E s \in {"save", "apply"} : Goto(w, s)
      <4>1. PICK s \in {"save", "apply"} : Goto(w, s)
        BY <3>2
      <4> QED
        BY <2>1, <2>3, <3>1, <4>1, HandKept DEF KeptInv, ToldBeforeMail
    <3>3. CASE tx[j.tx] # "PENDING" /\ ~PassesOn(w, tx[j.tx]) /\ Finish(w)
      <4>1. j.event = "paid" => tx[j.tx] # "PAID"
        BY <2>job, <2>2, <3>3, JobFields DEF PassesOn, Kind
      <4> QED
        BY <2>4, <3>1, <3>3, <4>1
    <3> QED
      BY <2>job, <2>5, <3>2, <3>3 DEF ReadTransaction
  <2>6. CASE SaveStatus(w)
    <3>1. /\ tx' = [tx EXCEPT ![j.tx] = StatusOf(j.event)] /\ UNCHANGED ord
          /\ \/ Goto(w, "apply")
             \/ j.event = "other" /\ Finish(w)
      BY <2>job, <2>6 DEF SaveStatus
    <3>2. /\ StatusOf(j.event) = "PAID" => j.event = "paid"
          /\ j.event = "other" => StatusOf(j.event) = "PENDING"
      BY <2>2 DEF StatusOf, Outcomes
    <3>3. CASE Goto(w, "apply")
      <4>1. PaidNotForgotten'
        BY <2>1, <2>2, <2>3, <3>1, <3>2, <3>3 DEF KeptInv, PaidNotForgotten, TypeOK
      <4>2. ToldBeforeMail'
        BY <2>3, <3>1, <3>3 DEF KeptInv, ToldBeforeMail
      <4> QED
        BY <4>1, <4>2 DEF KeptInv
    <3>4. CASE j.event = "other" /\ Finish(w)
      <4>1. \A x \in Txs : tx'[x] = "PAID" => tx[x] = "PAID"
        BY <2>2, <3>1, <3>2, <3>4 DEF TypeOK
      <4> QED
        BY <2>4, <3>1, <3>4, <4>1
    <3> QED
      BY <3>1, <3>3, <3>4
  <2>7. CASE ApplyToOrder(w)
    <3>1. /\ ord' = IF ord[j.tx] = "PENDING"
                    THEN [ord EXCEPT ![j.tx] = OrderStatusOf(j.event)] ELSE ord
          /\ UNCHANGED tx
          /\ Finish(w) \/ Goto(w, "mail")
      BY <2>job, <2>7 DEF ApplyToOrder
    <3>2. OrderStatusOf(j.event) # "PENDING"
      BY <2>2, <2>7 DEF ApplyToOrder, OrderStatusOf, Outcomes
    <3>3. ord'[j.tx] # "PENDING" /\ \A x \in Txs : ord'[x] = "PENDING" => ord[x] = "PENDING"
      BY <2>2, <3>1, <3>2 DEF TypeOK
    <3>4. CASE Finish(w)
      BY <2>4, <3>1, <3>3, <3>4
    <3>5. CASE Goto(w, "mail")
      <4>1. PaidNotForgotten'
        BY <2>1, <2>3, <3>1, <3>3, <3>5, HandKept DEF KeptInv
      <4>2. ToldBeforeMail'
        <5> SUFFICES ASSUME NEW v \in Workers, work'[v].pc = "mail"
                     PROVE  ord'[work'[v].job.tx] # "PENDING"
          BY DEF ToldBeforeMail
        <5>1. CASE v = w
          BY <2>3, <3>3, <3>5, <5>1
        <5>2. CASE v # w
          <6>1. work'[v] = work[v]
            BY <2>3, <3>5, <5>2
          <6>2. work[v].job.tx \in Txs
            BY <6>1, WorkFields, JobFields DEF Idle
          <6> QED
            BY <3>3, <6>1, <6>2 DEF KeptInv, ToldBeforeMail
        <5> QED
          BY <5>1, <5>2
      <4> QED
        BY <4>1, <4>2 DEF KeptInv
    <3> QED
      BY <3>1, <3>4, <3>5
  <2>8. CASE SendMail(w)
    <3>1. Finish(w) /\ UNCHANGED rows /\ ord[j.tx] # "PENDING"
      BY <2>job, <2>8 DEF SendMail, KeptInv, ToldBeforeMail
    <3> QED
      BY <2>4, <3>1
  <2> QED
    BY <1>4, <2>5, <2>6, <2>7, <2>8 DEF Step
<1>5. ASSUME NEW w \in Workers, Throw(w) \/ Stall(w) PROVE KeptInv'
  <2>1. work[w] # Idle /\ Finish(w) /\ UNCHANGED <<rows, swallows>>
    BY <1>5 DEF Throw, Stall
  <2>job. PICK j \in Jobs : j = work[w].job
    BY <2>1, WorkFields
  <2> DEFINE again == [j EXCEPT !.tries = @ + 1]
  <2>2. work'[w] = Idle /\ \A v \in Workers \ {w} : work'[v] = work[v]
    BY <2>1, Finished
  <2>3. /\ dead \subseteq dead' /\ \A i \in Jobs : waiting[i] > 0 => waiting'[i] > 0
        /\ InHand(j.tx, j.event)'
    <3>1. CASE j.tries + 1 < MaxAttempts /\ Add(again) /\ UNCHANGED dead
      <4>1. again \in Jobs /\ again.tx = j.tx /\ again.event = j.event
        BY <2>1, <3>1, Retried
      <4> HIDE DEF again
      <4> QED
        BY <3>1, <4>1, Added DEF InHand
    <3>2. CASE dead' = dead \cup {j} /\ UNCHANGED waiting
      BY <3>2 DEF InHand
    <3>3. CASE Add(j) /\ UNCHANGED dead
      <4> QED
        BY <2>1, <3>3, Added DEF InHand
    <3> QED
      BY <1>5, <2>job, <3>1, <3>2, <3>3 DEF Throw, Stall
  <2>4. \A x \in Txs : InHand(x, "paid") => InHand(x, "paid")'
    <3> SUFFICES ASSUME NEW x \in Txs, InHand(x, "paid") PROVE InHand(x, "paid")'
      OBVIOUS
    <3>1. CASE j.tx = x /\ j.event = "paid"
      BY <2>3, <3>1
    <3>2. CASE ~(j.tx = x /\ j.event = "paid")
      BY <2>job, <2>2, <2>3, <3>2 DEF InHand
    <3> QED
      BY <3>1, <3>2
  <2>5. ToldBeforeMail'
    BY <2>1, <2>2 DEF KeptInv, ToldBeforeMail, Idle
  <2> QED
    BY <2>1, <2>4, <2>5, HandKept DEF KeptInv
<1>6. CASE UNCHANGED vars
  BY <1>6 DEF vars, KeptInv, ToldBeforeMail, PaidNotForgotten, InHand
<1> QED
  BY <1>1, <1>2, <1>3, <1>4, <1>5, <1>6 DEF Next

\* As long as no job has been swallowed by the wrong worker, a payment that settled
\* its transaction stays in hand until its order is no longer PENDING.
THEOREM PaymentKept == Spec => []PaidNotForgotten
<1>1. TypeOK /\ KeptInv /\ [Next]_vars => KeptInv'
  BY KeptNext
<1>2. KeptInv => PaidNotForgotten
  BY DEF KeptInv
<1> QED
  BY <1>1, <1>2, TypeInit, KeptInit, TypeNext, PTL DEF Spec

-----------------------------------------------------------------------------
(***************************************************************************)
(* Reports that are lost.                                                  *)
(***************************************************************************)

\* A job about x that has still to settle it.
ToSettle(x, event) ==
  \/ \E j \in Jobs : j.tx = x /\ j.event = event /\ waiting[j] > 0
  \/ \E w \in Workers : /\ work[w].pc \in {"read", "save"}
                        /\ work[w].job.tx = x /\ work[w].job.event = event
  \/ \E j \in dead : j.tx = x /\ j.event = event

\* A report is acted on, or has failed for good, or has still to settle its transaction.
Handled(x) == reports[x] > 0 /\ tx[x] = "PENDING" => ToSettle(x, bill[x])

\* The transaction is saved after a report of it came in; the wrong worker takes a job
\* that says what the bill has come to; or a stray reopens the settled transaction.
LosesReport(x) ==
  \/ SaveTransaction(x) /\ reports[x] > 0
  \/ \E w \in Workers, j \in Jobs : Swallow(w, j) /\ j.tx = x /\ j.event = bill[x]
  \/ \E w \in Workers : /\ SaveStatus(w) /\ tx[x] # "PENDING"
                        /\ work[w].job.tx = x /\ work[w].job.event = "other"

ReportsLostOnly == [][\A x \in Txs : Handled(x) /\ ~Handled(x)' => LosesReport(x)]_vars

\* Only bills that have ended are reported as ended.
ReportedEnded == \A x \in Txs : reports[x] > 0 => bill[x] \in Outcomes

LEMMA ReportedInit == Init => ReportedEnded
  BY DEF Init, ReportedEnded

\* Bills end once, so what was reported stays ended.
LEMMA ReportedNext ==
  ASSUME TypeOK, ReportedEnded, [Next]_vars
  PROVE  /\ ReportedEnded'
         /\ \A x \in Txs : reports[x] > 0 => bill'[x] = bill[x]
         /\ \A x \in Txs : reports'[x] # reports[x] => Deliver(x)
<1> USE DEF rows, outside
<1>1. ASSUME NEW y \in Txs, CreateBill(y) \/ EndBill(y)
      PROVE  /\ bill[y] \notin Outcomes /\ UNCHANGED reports
             /\ \A x \in Txs \ {y} : bill'[x] = bill[x]
  BY <1>1 DEF CreateBill, EndBill, Outcomes, TypeOK
<1>2. ASSUME NEW y \in Txs, Deliver(y)
      PROVE  /\ bill[y] \in Outcomes /\ UNCHANGED bill
             /\ \A x \in Txs \ {y} : reports'[x] = reports[x]
  BY <1>2 DEF Deliver, TypeOK
<1>3. CASE UNCHANGED <<bill, reports>>
  BY <1>3 DEF ReportedEnded
<1>4. CASE \E y \in Txs : CreateBill(y) \/ EndBill(y)
  BY <1>1, <1>4 DEF ReportedEnded
<1>5. CASE \E y \in Txs : Deliver(y)
  BY <1>2, <1>5 DEF ReportedEnded
<1> QED
  BY <1>3, <1>4, <1>5 DEF Next, vars, Outside, SaveTransaction, PassDeadline, EndOrder,
       EnqueueExpiry, DeliverStray, Take, Swallow, Step, ReadTransaction, SaveStatus, ApplyToOrder, SendMail,
       Throw, Stall

\* What becomes of a transaction in a step: it is saved, or settled by a worker, or
\* reopened by a stray.
LEMMA TransactionMoves ==
  ASSUME TypeOK, [Next]_vars, NEW x \in Txs, tx'[x] # tx[x]
  PROVE  \/ SaveTransaction(x)
         \/ tx'[x] \notin {"none", "PENDING"}
         \/ \E w \in Workers : /\ SaveStatus(w)
                               /\ work[w].job.tx = x /\ work[w].job.event = "other"
<1> USE DEF rows, outside
<1>1. ASSUME NEW w \in Workers, SaveStatus(w)
      PROVE  \/ tx'[x] \notin {"none", "PENDING"}
             \/ work[w].job.tx = x /\ work[w].job.event = "other"
  <2>1. PICK j \in Jobs : j = work[w].job
    BY <1>1, WorkFields DEF SaveStatus, Idle
  <2>2. tx' = [tx EXCEPT ![j.tx] = StatusOf(j.event)]
    BY <1>1, <2>1 DEF SaveStatus
  <2>3. StatusOf(j.event) \in {"none", "PENDING"} => j.event = "other"
    BY JobFields DEF StatusOf, Outcomes
  <2> QED
    BY <2>1, <2>2, <2>3, JobFields DEF TypeOK
<1>2. ASSUME NEW y \in Txs, SaveTransaction(y)
      PROVE  y = x
  BY <1>2 DEF SaveTransaction, TypeOK
<1> QED
  BY <1>1, <1>2 DEF Next, vars, Outside, CreateBill, EndBill, Deliver, DeliverStray,
       PassDeadline, EndOrder, EnqueueExpiry, Take, Swallow, Step, ReadTransaction, ApplyToOrder,
       SendMail, Throw, Stall

\* A job that has still to settle its transaction has to when it is taken, thrown or
\* stalled: until a worker swallows it, or goes on from the transaction with it.
LEMMA LetGo ==
  ASSUME TypeOK, [Next]_vars, NEW x \in Txs, NEW event, ToSettle(x, event), ~ToSettle(x, event)'
  PROVE  \/ \E w \in Workers, j \in Jobs : Swallow(w, j) /\ j.tx = x /\ j.event = event
         \/ \E w \in Workers : /\ (ReadTransaction(w) /\ ~Goto(w, "save")) \/ SaveStatus(w)
                               /\ work[w] # Idle
                               /\ work[w].job.tx = x /\ work[w].job.event = event
<1> USE DEF rows, outside
<1>1. CASE \E y \in Txs : Outside(y) \/ EnqueueExpiry(y)
  <2>1. PICK y \in Txs : Outside(y) \/ EnqueueExpiry(y)
    BY <1>1
  <2>2. UNCHANGED <<work, dead>>
    BY <2>1 DEF Outside, EnqueueExpiry, CreateBill, SaveTransaction, EndBill, Deliver,
                DeliverStray, PassDeadline, EndOrder
  <2>3. \A j \in Jobs : waiting[j] > 0 => waiting'[j] > 0
    <3>1. CASE UNCHANGED waiting
      BY <3>1
    <3>2. CASE Deliver(y)
      BY <3>2, NewJobs, Added DEF Deliver
    <3>3. CASE EnqueueExpiry(y)
      BY <3>3, NewJobs, Added DEF EnqueueExpiry
    <3>4. CASE DeliverStray(y)
      BY <3>4, NewJobs, Added DEF DeliverStray
    <3> QED
      BY <2>1, <3>1, <3>2, <3>3, <3>4 DEF Outside, CreateBill, SaveTransaction, EndBill,
                                    PassDeadline, EndOrder
  <2> QED
    BY <2>2, <2>3 DEF ToSettle
<1>2. ASSUME NEW w \in Workers, NEW j \in Jobs, Take(w, j) PROVE FALSE
  <2>1. /\ UNCHANGED dead
        /\ \A i \in Jobs \ {j} : waiting'[i] = waiting[i]
        /\ \A v \in Workers \ {w} : work'[v] = work[v]
        /\ work'[w].job = j /\ work'[w].pc = "read" /\ work[w] = Idle
    BY <1>2 DEF Take, TypeOK
  <2>2. work[w].pc = "idle"
    BY <2>1 DEF Idle
  <2> QED
    BY <2>1, <2>2 DEF ToSettle
<1>3. ASSUME NEW w \in Workers, NEW j \in Jobs, Swallow(w, j)
      PROVE  j.tx = x /\ j.event = event
  <2>1. UNCHANGED <<work, dead>> /\ \A i \in Jobs \ {j} : waiting'[i] = waiting[i]
    BY <1>3 DEF Swallow, TypeOK
  <2> QED
    BY <2>1 DEF ToSettle
<1>4. ASSUME NEW w \in Workers, Step(w)
      PROVE  /\ (ReadTransaction(w) /\ ~Goto(w, "save")) \/ SaveStatus(w)
             /\ work[w] # Idle
             /\ work[w].job.tx = x /\ work[w].job.event = event
  <2>1. work[w] # Idle /\ UNCHANGED <<waiting, dead>>
    BY <1>4 DEF Step, ReadTransaction, SaveStatus, ApplyToOrder, SendMail, Idle
  <2>2. Finish(w) \/ \E s \in {"save", "apply", "mail"} : Goto(w, s)
    BY <1>4 DEF Step, ReadTransaction, SaveStatus, ApplyToOrder, SendMail
  <2>3. \A v \in Workers \ {w} : work'[v] = work[v]
    BY <2>1, <2>2, StageKept, Finished
  <2>4. work[w].pc \in {"read", "save"} /\ work[w].job.tx = x /\ work[w].job.event = event
    BY <2>1, <2>3 DEF ToSettle
  <2>5. ReadTransaction(w) \/ SaveStatus(w)
    BY <1>4, <2>4 DEF Step, ApplyToOrder, SendMail
  <2>6. ~Goto(w, "save")
    <3> SUFFICES ASSUME Goto(w, "save") PROVE FALSE
      OBVIOUS
    <3>1. work'[w].pc = "save" /\ work'[w].job = work[w].job
      BY <2>1, StageKept
    <3> QED
      BY <2>4, <3>1 DEF ToSettle
  <2> QED
    BY <2>1, <2>4, <2>5, <2>6
<1>5. ASSUME NEW w \in Workers, Throw(w) \/ Stall(w) PROVE FALSE
  <2>1. work[w] # Idle /\ Finish(w)
    BY <1>5 DEF Throw, Stall
  <2>job. PICK j \in Jobs : j = work[w].job
    BY <2>1, WorkFields
  <2> DEFINE again == [j EXCEPT !.tries = @ + 1]
  <2>2. work'[w] = Idle /\ \A v \in Workers \ {w} : work'[v] = work[v]
    BY <2>1, Finished
  <2>3. /\ dead \subseteq dead' /\ \A i \in Jobs : waiting[i] > 0 => waiting'[i] > 0
        /\ ToSettle(j.tx, j.event)'
    <3>1. CASE j.tries + 1 < MaxAttempts /\ Add(again) /\ UNCHANGED dead
      <4>1. again \in Jobs /\ again.tx = j.tx /\ again.event = j.event
        BY <2>1, <3>1, Retried
      <4> HIDE DEF again
      <4> QED
        BY <3>1, <4>1, Added DEF ToSettle
    <3>2. CASE dead' = dead \cup {j} /\ UNCHANGED waiting
      BY <3>2 DEF ToSettle
    <3>3. CASE Add(j) /\ UNCHANGED dead
      BY <2>1, <3>3, Added DEF ToSettle
    <3> QED
      BY <1>5, <2>job, <3>1, <3>2, <3>3 DEF Throw, Stall
  <2> QED
    BY <2>job, <2>2, <2>3 DEF ToSettle
<1>6. CASE UNCHANGED vars
  BY <1>6 DEF vars, ToSettle
<1> QED
  BY <1>1, <1>2, <1>3, <1>4, <1>5, <1>6 DEF Next

\* A report is lost in three ways only: it comes in before its transaction is saved, the
\* wrong worker takes its job, or a stray reopens the transaction that it has settled.
\* Neither retries nor stalls, nor a transaction that was settled meanwhile, nor expiry
\* jobs that overtake it, lose one.
THEOREM ReportsLostThreeWays == Spec => ReportsLostOnly
<1>1. ASSUME TypeOK, TypeOK', ReportedEnded, [Next]_vars, NEW x \in Txs, Handled(x), ~Handled(x)'
      PROVE  LosesReport(x)
  <2>1. reports'[x] > 0 /\ tx'[x] = "PENDING" /\ ~ToSettle(x, bill[x])'
    BY <1>1 DEF Handled
  <2>2. CASE tx[x] # "PENDING"
    <3>1. CASE SaveTransaction(x)
      BY <2>1, <3>1 DEF LosesReport, SaveTransaction, outside
    <3>2. CASE ~SaveTransaction(x)
      BY <1>1, <2>1, <2>2, <3>2, TransactionMoves DEF LosesReport
    <3> QED
      BY <3>1, <3>2
  <2>3. CASE tx[x] = "PENDING" /\ reports[x] = 0
    <3>1. Deliver(x)
      BY <1>1, <2>1, <2>3, ReportedNext
    <3>2. Report(x, bill[x]) \in Jobs /\ Add(Report(x, bill[x])) /\ UNCHANGED bill
      BY <3>1, NewJobs DEF Deliver
    <3>3. waiting'[Report(x, bill[x])] > 0
      BY <1>1, <3>2, Added
    <3>4. Report(x, bill[x]).tx = x /\ Report(x, bill[x]).event = bill[x]
      BY DEF Report
    <3>5. bill'[x] = bill[x]
      BY <3>2
    <3>6. ToSettle(x, bill[x])'
      BY <3>2, <3>3, <3>4, <3>5 DEF ToSettle
    <3> QED
      BY <2>1, <3>6
  <2>4. CASE tx[x] = "PENDING" /\ reports[x] > 0
    <3>1. bill'[x] = bill[x]
      BY <1>1, <2>4, ReportedNext
    <3>2. PICK event \in Outcomes : event = bill[x]
      BY <1>1, <2>4 DEF ReportedEnded
    <3>3. ASSUME NEW w \in Workers, (ReadTransaction(w) /\ ~Goto(w, "save")) \/ SaveStatus(w),
                 work[w].job.tx = x, work[w].job.event = event
          PROVE  FALSE
      <4>1. CASE ReadTransaction(w) /\ ~Goto(w, "save")
        BY <2>4, <3>3, <4>1 DEF ReadTransaction
      <4>2. CASE SaveStatus(w)
        <5>1. tx' = [tx EXCEPT ![x] = StatusOf(event)]
          BY <3>3, <4>2 DEF SaveStatus
        <5>2. StatusOf(event) # "PENDING"
          BY <3>2 DEF StatusOf, Outcomes
        <5> QED
          BY <1>1, <2>1, <5>1, <5>2 DEF TypeOK
      <4> QED
        BY <3>3, <4>1, <4>2
    <3>4. ToSettle(x, event)
      BY <1>1, <2>4, <3>2 DEF Handled
    <3>5. ~ToSettle(x, event)'
      BY <2>1, <3>1, <3>2 DEF ToSettle
    <3>6. \E w \in Workers, j \in Jobs : Swallow(w, j) /\ j.tx = x /\ j.event = event
      BY <1>1, <3>3, <3>4, <3>5, LetGo
    <3> QED
      BY <3>2, <3>6 DEF LosesReport
  <2> QED
    BY <1>1, <2>2, <2>3, <2>4 DEF TypeOK
<1>2. TypeOK /\ ReportedEnded /\ [Next]_vars => ReportedEnded'
  BY ReportedNext
<1>3. TypeOK /\ TypeOK' /\ ReportedEnded /\ [Next]_vars
        => [\A x \in Txs : Handled(x) /\ ~Handled(x)' => LosesReport(x)]_vars
  BY <1>1
<1> QED
  BY <1>2, <1>3, PaymentTypes, ReportedInit, PTL DEF Spec, ReportsLostOnly

\* If reports come in after their transaction is saved, no worker takes a job that is
\* not its own, and no stray reopens a transaction, every report is acted on unless it
\* has failed for good.
THEOREM ReportsAreHandled ==
  Spec /\ [][\A x \in Txs : ~LosesReport(x)]_vars => []ReportsHandled
<1> DEFINE AllHandled == \A x \in Txs : Handled(x)
<1>1. TypeOK /\ AllHandled => ReportsHandled
  <2> SUFFICES ASSUME TypeOK, NEW x \in Txs, ToSettle(x, bill[x]) PROVE InHand(x, bill[x])
    BY DEF ReportsHandled, Handled
  <2> QED
    BY DEF ToSettle, InHand, Idle
<1>2. Init => AllHandled
  BY DEF Init, Handled
<1>3. /\ AllHandled
      /\ [\A x \in Txs : Handled(x) /\ ~Handled(x)' => LosesReport(x)]_vars
      /\ [\A x \in Txs : ~LosesReport(x)]_vars
      => AllHandled'
  BY DEF Handled, vars, rows, outside, ToSettle
<1> QED
  BY <1>1, <1>2, <1>3, PaymentTypes, ReportsLostThreeWays, PTL DEF Spec, ReportsLostOnly
=============================================================================
