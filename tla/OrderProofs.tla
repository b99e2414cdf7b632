---------------------------- MODULE OrderProofs ----------------------------
(***************************************************************************)
(* Theorems about OrderLifecycle for any number of workers, orders,        *)
(* tickets and faults.                                                     *)
(***************************************************************************)
EXTENDS OrderLifecycle, SumTheorems, TLAPS

(***************************************************************************)
(* Why the database stays right: what the calls in progress know about the *)
(* rows they are about to write.  Together with TypeOK the conjuncts of    *)
(* OrderInv are inductive.                                                 *)
(***************************************************************************)

Ended == {"EXPIRED", "CANCELLED"}

\* A row lock has one holder.
RowsExclusive == \A v, w \in Workers : v # w => call[v].rows \cap call[w].rows = {}

\* A sale has compared each ticket it is done with, and holds its row since.
SaleChecked ==
  \A w \in Workers :
    At(w, "sell") =>
      LET o == call[w].order IN
      \A i \in FirstLines(o) :
        \/ i \in call[w].todo
        \/ Ticket(w, i) \in call[w].rows /\ Fits(o, Ticket(w, i))

\* A request to create an order is handled once, and nothing else puts the
\* order in the database, where every other operation finds it.
CreatedOnce ==
  /\ \A o \in Orders : status[o] # "absent" => o \in begun
  /\ \A w \in Workers : call[w] # Idle /\ call[w].op = "create" => call[w].order \in begun
  /\ \A v, w \in Workers :
       /\ call[v] # Idle /\ call[w] # Idle
       /\ call[v].op = "create" /\ call[w].op = "create"
       /\ call[v].order = call[w].order
       => v = w
  /\ \A w \in Workers :
       call[w] # Idle /\ call[w].op # "create" => status[call[w].order] # "absent"

\* The order of a call that has not committed it yet is not in the database.
AbsentBeforeCommit ==
  \A w \in Workers :
    call[w].pc \in {"row", "init", "take", "undo", "unset", "commit"} =>
      /\ call[w].op = "create"
      /\ call[w].rounds = 0
      /\ status[call[w].order] = "absent"

\* releaseTicketQuotas works on orders that have ended, releaseRedisLocks on
\* orders that never came to be.
ReleasesEnded ==
  \A w \in Workers :
    /\ At(w, "reread") => status[call[w].order] \in Ended
    /\ At(w, "release") =>
         \/ status[call[w].order] \in Ended
         \/ /\ status[call[w].order] = "absent"
            /\ call[w].op = "create"
            /\ call[w].rounds = 0

\* The steps of a sale and of a release rest on these facts, whatever calls
\* overlap: a sale writes rows it has compared and holds, and units are taken
\* off `sold` for no order that could be PAID.
OrderInv ==
  /\ RowsExclusive
  /\ SaleChecked
  /\ CreatedOnce
  /\ AbsentBeforeCommit
  /\ ReleasesEnded

\* If calls on one order do not overlap, a call that is about to write the
\* status still finds the order as it read it.
SerialInv ==
  /\ \A v, w \in Workers :
       /\ call[v] # Idle /\ call[w] # Idle
       /\ call[v].order = call[w].order
       => v = w
  /\ \A w \in Workers : call[w].pc \in {"sell", "save"} => status[call[w].order] = "PENDING"

-----------------------------------------------------------------------------
(***************************************************************************)
(* Tickets that a sale has paid for and not generated yet.                 *)
(***************************************************************************)

\* The sale is committed and its tickets are not all generated.
Issuing == {"confirm", "count", "issue"}

\* What call w may still generate for line i of its order.
Owed(w, i) ==
  IF At(w, "issue")
  THEN IF i \in call[w].todo THEN Missing(w, i) ELSE 0
  ELSE Qty(w, i)

OwedUnits(w, t) ==
  IF call[w].pc \in Issuing
  THEN SumFunctionOnSet([i \in Lines(call[w].order) |-> Owed(w, i)], LinesOf(call[w].order, t))
  ELSE 0

\* `sold` backs the tickets that exist and those the calls in progress may add.
IssueInv ==
  \A t \in Tickets : IssuedUnits(t) + SumFunction([w \in Workers |-> OwedUnits(w, t)]) <= sold[t]

\* If calls on one order do not overlap and nothing has failed, a call knows
\* which tickets its order has.
TicketInv ==
  faults = 0 =>
    /\ \A w \in Workers :
         /\ call[w].pc \in {"bill", "payread", "read"} => status[call[w].order] = "PENDING"
         /\ call[w].pc \in Issuing => status[call[w].order] = "PAID"
         /\ call[w].pc \in {"confirm", "count"} =>
              \A i \in Lines(call[w].order) : issued[call[w].order][i] = 0
         /\ At(w, "issue") =>
              \A i \in Lines(call[w].order) :
                /\ call[w].got[i] = 0
                /\ issued[call[w].order][i] = IF i \in call[w].todo THEN 0 ELSE Qty(w, i)
    /\ \A o \in Orders : status[o] # "PAID" => \A i \in Lines(o) : issued[o][i] = 0

-----------------------------------------------------------------------------
(***************************************************************************)
(* Units of the counters that somebody may still give back.                *)
(***************************************************************************)

\* Where a call has not committed its order yet.
Creating == PerLine \cup {"commit"}

\* createOrder has taken the lines before the current one, and the current one
\* while it has still to give back what it overdrew.
Taken(w) ==
  {i \in Lines(call[w].order) : i < call[w].line \/ (At(w, "undo") /\ i = call[w].line)}

\* What call w may give back for line i, apart from what the lock key of an
\* ended order says: a request that aborts will give back what it reads in a
\* lock key, a call that releases an ended order what it has read.
LineClaim(w, i) ==
  LET o == call[w].order  got == call[w].got[i]  held == lock[Ticket(w, i)][o] IN
  IF call[w].pc \in Creating
  THEN IF i \in Taken(w) THEN Qty(w, i) ELSE 0
  ELSE IF ~At(w, "release") THEN 0
  ELSE IF status[o] = "absent"
  THEN IF i \in call[w].todo THEN Qty(w, i) ELSE got
  ELSE IF got > held THEN got - held ELSE 0

CallClaim(w, t) ==
  IF At(w, "idle") THEN 0
  ELSE SumFunctionOnSet([i \in Lines(call[w].order) |-> LineClaim(w, i)], LinesOf(call[w].order, t))

\* What order o keeps from being reserved again.
OrderClaim(o, t) ==
  CASE status[o] = "PENDING" -> Need(o, t)
    [] status[o] \in Ended   -> lock[t][o]
    [] OTHER                 -> 0

Claims(t) ==
  SumFunction([o \in Orders |-> OrderClaim(o, t)]) + SumFunction([w \in Workers |-> CallClaim(w, t)])

\* A line of an order takes no more of a ticket than the lines before it did.
NoLargerRepeat ==
  \A o \in Orders : \A i, j \in Lines(o) :
    i < j /\ Items[o][i].ticket = Items[o][j].ticket => Items[o][j].qty <= Items[o][i].qty

\* A call that creates an order commits it when it has taken every line.  What
\* the lock key of a line says that was taken, or that is to be released, is no
\* more than the line took.  A call has read at most one lock key of an order
\* that has ended, and none before it releases any.
CallLocks(w) ==
  LET o == call[w].order  c == call[w] IN
  /\ c.pc \in Creating =>
       \A i \in Lines(o) :
         i < c.line \/ (c.pc \in {"undo", "unset"} /\ i = c.line) => lock[Ticket(w, i)][o] <= Qty(w, i)
  /\ c.pc = "commit" => \A i \in Lines(o) : i < c.line
  /\ c.pc = "release" /\ status[o] = "absent" =>
       \A i \in c.todo : lock[Ticket(w, i)][o] <= Qty(w, i) /\ c.got[i] = 0
  /\ c.pc = "release" /\ status[o] # "absent" =>
       \A i, j \in Lines(o) : c.got[i] > 0 /\ c.got[j] > 0 => i = j
  /\ c.pc \notin {"idle", "issue", "release"} => \A i \in Lines(o) : c.got[i] = 0

\* A lock key never says more than what its order has taken.
LockInv ==
  /\ \A t \in Tickets, o \in Orders : lock[t][o] <= Need(o, t)
  /\ \A w \in Workers : CallLocks(w)

\* Counters, claims and `sold` fit the quota; a ticket whose counter does not
\* exist has not been claimed.
CounterInv ==
  \A t \in Tickets :
    IF t \in quotaKeys
    THEN counter[t] + Claims(t) + sold[t] <= Quota[t]
    ELSE counter[t] = 0 /\ Claims(t) = 0
-----------------------------------------------------------------------------
(***************************************************************************)
(* Units that the counters lack, and who has them.                         *)
(***************************************************************************)

\* No order names a ticket on two of its lines.
NoRepeats ==
  \A o \in Orders : \A i, j \in Lines(o) : Items[o][i].ticket = Items[o][j].ticket => i = j

Works(w, o) == ~At(w, "idle") /\ call[w].order = o

Creates(w, o) == Works(w, o) /\ call[w].pc \in Creating

\* What line i of an order that no call creates keeps off the counter, apart
\* from what is sold.  What an ended order took may never come back once the
\* order is overdue.
RestKept(o, i) ==
  CASE status[o] = "PENDING" -> Items[o][i].qty
    [] status[o] = "PAID"    -> 0
    [] OTHER                 -> IF o \in due THEN Items[o][i].qty ELSE lock[Items[o][i].ticket][o]

LineKept(o, i) ==
  IF \E w \in Workers : Creates(w, o)
  THEN IF \E w \in Workers : Creates(w, o) /\ i \in Taken(w) THEN Items[o][i].qty ELSE 0
  ELSE RestKept(o, i)

Kept(o, t) == SumFunctionOnSet([i \in Lines(o) |-> LineKept(o, i)], LinesOf(o, t))

\* The lines whose lock keys a call has written, or has still to release.
InHand(w) ==
  IF call[w].pc \in Creating
  THEN {i \in Lines(call[w].order) :
          i < call[w].line \/ (call[w].pc \in {"undo", "unset"} /\ i = call[w].line)}
  ELSE IF At(w, "reread") THEN Lines(call[w].order)
  ELSE IF At(w, "release")
  THEN {i \in Lines(call[w].order) : i \in call[w].todo \/ call[w].got[i] > 0}
  ELSE {}

\* A call reserves and gives back where the counter exists, and until its order
\* is overdue it knows what the lock keys say.
CallKeys(w) ==
  LET c == call[w]  o == call[w].order  Held(i) == lock[Ticket(w, i)][o] IN
  /\ c.pc \in {"take", "undo", "unset"} => Ticket(w, c.line) \in quotaKeys
  /\ c.pc = "release" => \A i \in Lines(o) : c.got[i] > 0 => Ticket(w, i) \in quotaKeys
  /\ c.pc \in Creating /\ o \notin due => \A i \in InHand(w) : Held(i) = Qty(w, i)
  /\ c.pc = "release" /\ o \notin due => \A i \in Lines(o) : c.got[i] > 0 => c.got[i] = Held(i)

\* Until an order is overdue its lock keys stay while it is PENDING, and when it
\* has ended, or never came to be, there is a call to release them.
OrderKeys(o) ==
  \A i \in Lines(o) :
    LET t == Items[o][i].ticket IN
    /\ lock[t][o] > 0 => t \in quotaKeys
    /\ o \notin due /\ status[o] = "PENDING" => lock[t][o] = Items[o][i].qty
    /\ o \notin due /\ status[o] \notin {"PENDING", "PAID"} /\ lock[t][o] > 0 =>
         \E w \in Workers : Works(w, o) /\ i \in InHand(w)

\* If nothing has failed, lock keys are as the calls and the orders expect.
KeysInv ==
  faults = 0 =>
    /\ \A w \in Workers : call[w].pc # "idle" => CallKeys(w)
    /\ \A o \in Orders : OrderKeys(o)

\* If nothing has failed, whatever a counter lacks is sold or kept by an order.
BackedInv ==
  faults = 0 =>
    \A t \in quotaKeys : counter[t] + SumFunction([o \in Orders |-> Kept(o, t)]) + sold[t] >= Quota[t]
-----------------------------------------------------------------------------
(***************************************************************************)
(* Calls that wait.                                                        *)
(***************************************************************************)

\* Every row that the call needs next is held by another transaction.
Waits(w) ==
  /\ WantedRows(w) # {}
  /\ \A t \in WantedRows(w) : ~RowFree(w, t)

\* A call that works through its lines one by one has some left.
LinesLeft(c) ==
  /\ c.pc \in {"confirm", "issue"} => c.todo # {}
  /\ c.pc = "release" => c.todo # {} \/ \E i \in Lines(c.order) : c.got[i] > 0

LinesLeftInv == \A w \in Workers : LinesLeft(call[w])

\* What the guards of Step(w) come to.
MayGoOn(w) ==
  /\ call[w].pc # "idle"
  /\ Waits(w) => Deadlocked(w)
  /\ call[w].pc \in {"confirm", "issue"} => call[w].todo # {}
  /\ At(w, "release") => \E i \in Lines(call[w].order) : MayGet(w, i) \/ MayReturn(w, i)

SomeCallMayGoOn == AllIdle \/ \E w \in Workers : MayGoOn(w)

-----------------------------------------------------------------------------

(***************************************************************************)
(* Requests, and the lines of an order.                                    *)
(***************************************************************************)

\* A line of a request names a ticket and a positive number of units.
LEMMA LineFields ==
  ASSUME NEW o \in Orders, NEW i \in Lines(o)
  PROVE  /\ i \in Nat \ {0}
         /\ Items[o][i].ticket \in Tickets
         /\ Items[o][i].qty \in Nat \ {0}
<1> DEFINE Line == [ticket : Tickets, qty : Nat \ {0}]
<1>1. Items[o] \in Seq(Line)
  BY OrdersAssumption
<1> HIDE DEF Line
<1>2. DOMAIN Items[o] = 1..Len(Items[o]) /\ Len(Items[o]) \in Nat
  BY <1>1
<1>3. i \in Nat \ {0} /\ Items[o][i] \in Line
  BY <1>1, <1>2 DEF Lines
<1> QED
  BY <1>3 DEF Line

\* An order has a first line, and the line after one that is not the last.
LEMMA LinesRange ==
  ASSUME NEW o \in Orders
  PROVE  /\ Lines(o) = 1..Len(Items[o])
         /\ 1 \in Lines(o)
         /\ \A i \in Lines(o) : i # Len(Items[o]) => i + 1 \in Lines(o)
<1>1. /\ Len(Items[o]) \in Nat
      /\ DOMAIN Items[o] = 1..Len(Items[o])
      /\ Items[o] # <<>>
  BY OrdersAssumption
<1>2. Len(Items[o]) # 0
  BY <1>1, OrdersAssumption
<1> QED
  BY <1>1, <1>2 DEF Lines

\* A ticket that a request names is the ticket of one of its first lines.
LEMMA FirstLineExists ==
  ASSUME NEW o \in Orders, NEW t, LinesOf(o, t) # {}
  PROVE  \E i \in FirstLines(o) : Items[o][i].ticket = t
<1>1. LinesOf(o, t) \subseteq Nat
  BY LineFields DEF LinesOf
<1>2. PICK i \in LinesOf(o, t) : \A j \in LinesOf(o, t) : i <= j
  BY <1>1, SmallestNumber
<1>3. \A j \in LinesOf(o, t) : ~(j < i)
  BY <1>1, <1>2
<1> QED
  BY <1>2, <1>3 DEF FirstLines, LinesOf

\* An order has finitely many lines.
LEMMA LinesFinite ==
  ASSUME NEW o \in Orders
  PROVE  /\ IsFiniteSet(Lines(o))
         /\ \A t : IsFiniteSet(LinesOf(o, t)) /\ LinesOf(o, t) \subseteq Lines(o)
<1>1. Len(Items[o]) \in Nat /\ Lines(o) = 1..Len(Items[o])
  BY LinesRange, OrdersAssumption
<1>2. IsFiniteSet(Lines(o))
  BY <1>1, FS_Interval
<1>3. ASSUME NEW t
      PROVE  IsFiniteSet(LinesOf(o, t)) /\ LinesOf(o, t) \subseteq Lines(o)
  BY <1>2, FS_Subset DEF LinesOf
<1> QED
  BY <1>2, <1>3

\* What an order needs of a ticket is a number of units: none if no line
\* names the ticket, and no less than any line that does.
LEMMA NeedFacts ==
  ASSUME NEW o \in Orders, NEW t \in Tickets
  PROVE  /\ Need(o, t) \in Nat
         /\ LinesOf(o, t) = {} => Need(o, t) = 0
         /\ \A i \in LinesOf(o, t) : Items[o][i].qty <= Need(o, t)
<1> DEFINE f == [i \in Lines(o) |-> Items[o][i].qty]
<1>1. IsFiniteSet(LinesOf(o, t)) /\ LinesOf(o, t) \subseteq Lines(o)
  BY LinesFinite
<1>2. \A i \in LinesOf(o, t) : f[i] = Items[o][i].qty /\ f[i] \in Nat
  BY <1>1, LineFields
<1> HIDE DEF f
<1>3. SumFunctionOnSet(f, LinesOf(o, t)) \in Nat
  BY <1>1, <1>2, SumIsNat
<1>4. \A i \in LinesOf(o, t) : f[i] <= SumFunctionOnSet(f, LinesOf(o, t))
  BY <1>1, <1>2, SumCovers
<1> QED
  BY <1>2, <1>3, <1>4, SumOfNone DEF Need, f

(***************************************************************************)
(* Calls in progress and their records.                                    *)
(***************************************************************************)

\* What the record of a call in progress holds.
LEMMA CallRecord ==
  ASSUME NEW c, CallTyped(c), c.pc # "idle"
  PROVE  /\ c.order \in Orders
         /\ c \in CallOn(c.order)
         /\ c.pc \in InTransaction \/ c.rows = {}
         /\ c.pc \in PerLine => c.line \in Lines(c.order)
  BY DEF CallTyped, CallOn, Idle

\* A record with these fields is a call.
LEMMA CallIntro ==
  ASSUME NEW o \in Orders, NEW c \in CallOn(o),
         c.pc \in InTransaction \/ c.rows = {},
         c.pc \in PerLine => c.line \in Lines(o)
  PROVE  CallTyped(c)
  BY DEF CallTyped, CallOn

\* A call has begun unless it is idle, and then it is in one of its stages.
LEMMA CallBegun ==
  ASSUME NEW c, CallTyped(c)
  PROVE  /\ c # Idle <=> c.pc # "idle"
         /\ c.pc # "idle" <=> c.pc \in Stages
  BY DEF CallTyped, CallOn, Idle, Stages

\* A new call has the type of calls.
LEMMA NewCallTyped ==
  ASSUME NEW o \in Orders, NEW op \in Ops, NEW stage \in Stages, NEW todo \in SUBSET Lines(o)
  PROVE  CallTyped(NewCall(o, op, stage, todo))
<1>1. NewCall(o, op, stage, todo) \in CallOn(o)
  BY DEF NewCall, CallOn
<1>2. NewCall(o, op, stage, todo).rows = {} /\ NewCall(o, op, stage, todo).line \in Lines(o)
  BY LinesRange DEF NewCall
<1> QED
  BY <1>1, <1>2, CallIntro

\* The call of a worker is replaced by another one.
LEMMA CallReplaced ==
  ASSUME CallsTyped, NEW w \in Workers, NEW c, CallTyped(c), call' = [call EXCEPT ![w] = c]
  PROVE  CallsTyped'
<1>1. DOMAIN call' = Workers /\ \A v \in Workers : CallTyped(call'[v])
  BY DEF CallsTyped
<1> QED
  BY <1>1 DEF CallsTyped, CallTyped, Idle, CallOn, Lines, InTransaction, PerLine, Stages

\* No call moves.
LEMMA CallsUnchanged ==
  ASSUME CallsTyped, UNCHANGED call
  PROVE  CallsTyped'
<1>1. DOMAIN call' = Workers /\ \A v \in Workers : CallTyped(call'[v])
  BY DEF CallsTyped
<1> QED
  BY <1>1 DEF CallsTyped, CallTyped, Idle, CallOn, Lines, InTransaction, PerLine, Stages

\* A worker's call ends.
LEMMA FinishTyped ==
  ASSUME CallsTyped, NEW w \in Workers, Finish(w)
  PROVE  CallsTyped'
<1>1. CallTyped(Idle)
  BY DEF CallTyped
<1> QED
  BY <1>1, CallReplaced DEF Finish

\* A worker's call begins.
LEMMA StartTyped ==
  ASSUME CallsTyped, NEW w \in Workers, NEW o \in Orders, NEW op, NEW stage \in Stages,
         NEW todo \in SUBSET Lines(o), Start(w, o, op, stage, todo)
  PROVE  CallsTyped'
<1>1. CallTyped(NewCall(o, op, stage, todo))
  BY NewCallTyped DEF Start
<1> QED
  BY <1>1, CallReplaced DEF Start

\* A call goes on to another stage.
LEMMA GotoTyped ==
  ASSUME CallsTyped, NEW w \in Workers, call[w].pc # "idle", NEW stage \in Stages,
         stage \in InTransaction \/ call[w].rows = {},
         stage \in PerLine => call[w].pc \in PerLine,
         Goto(w, stage)
  PROVE  CallsTyped'
<1> DEFINE c == [call[w] EXCEPT !.pc = stage]
<1>1. /\ call[w].order \in Orders /\ call[w] \in CallOn(call[w].order)
      /\ call[w].pc \in PerLine => call[w].line \in Lines(call[w].order)
  BY CallRecord DEF CallsTyped
<1>2. /\ c \in CallOn(call[w].order) /\ c.pc = stage
      /\ c.rows = call[w].rows /\ c.line = call[w].line
  BY <1>1 DEF CallOn
<1>3. CallTyped(c)
  BY <1>1, <1>2, CallIntro
<1>4. call' = [call EXCEPT ![w] = c]
  BY DEF Goto
<1> QED
  BY <1>3, <1>4, CallReplaced

\* createOrder rolls back.
LEMMA AbortTyped ==
  ASSUME CallsTyped, NEW w \in Workers, call[w].pc # "idle", Abort(w)
  PROVE  CallsTyped'
<1> DEFINE c == [call[w] EXCEPT !.pc = "release", !.todo = Locked(w), !.rows = {}]
<1>1. CASE Locked(w) = {}
  BY <1>1, FinishTyped DEF Abort
<1>2. CASE Locked(w) # {}
  <2>1. call[w].order \in Orders /\ call[w] \in CallOn(call[w].order)
    BY CallRecord DEF CallsTyped
  <2>2. Locked(w) \subseteq Lines(call[w].order)
    BY DEF Locked
  <2>3. c \in CallOn(call[w].order) /\ c.pc = "release" /\ c.rows = {}
    BY <2>1, <2>2 DEF CallOn, Stages
  <2>4. CallTyped(c)
    BY <2>1, <2>3, CallIntro DEF PerLine
  <2>5. call' = [call EXCEPT ![w] = c]
    BY <1>2 DEF Abort
  <2> QED
    BY <2>4, <2>5, CallReplaced
<1> QED
  BY <1>1, <1>2

\* handleSuccessfulPayment throws.
LEMMA PaymentThrowsTyped ==
  ASSUME CallsTyped, NEW w \in Workers, call[w].pc # "idle", PaymentThrows(w)
  PROVE  CallsTyped'
<1> DEFINE none == [i \in Lines(call[w].order) |-> 0]
           c == [call[w] EXCEPT !.pc = "read", !.todo = {}, !.rows = {}, !.got = none]
<1>1. CASE call[w].op = "create"
  <2>1. call[w].order \in Orders /\ call[w] \in CallOn(call[w].order)
    BY CallRecord DEF CallsTyped
  <2>2. c \in CallOn(call[w].order) /\ c.pc = "read" /\ c.rows = {}
    BY <2>1 DEF CallOn, Stages
  <2>3. CallTyped(c)
    BY <2>1, <2>2, CallIntro DEF PerLine
  <2>4. call' = [call EXCEPT ![w] = c]
    BY <1>1 DEF PaymentThrows
  <2> QED
    BY <2>3, <2>4, CallReplaced
<1>2. CASE call[w].op # "create"
  BY <1>2, FinishTyped DEF PaymentThrows
<1> QED
  BY <1>1, <1>2

\* One lock of a paid order is dealt with.
LEMMA ConfirmNextTyped ==
  ASSUME CallsTyped, NEW w \in Workers, At(w, "confirm"), NEW i, ConfirmNext(w, i)
  PROVE  CallsTyped'
<1> DEFINE stage == IF call[w].todo = {i} THEN "count" ELSE "confirm"
           c == [call[w] EXCEPT !.todo = @ \ {i}, !.pc = stage]
<1>1. /\ call[w].order \in Orders /\ call[w] \in CallOn(call[w].order)
      /\ call[w].rows = {}
  BY CallRecord DEF CallsTyped, At, InTransaction, PerLine
<1>2. stage \in Stages /\ stage \notin PerLine
  BY DEF Stages, PerLine
<1> HIDE DEF stage
<1>3. c \in CallOn(call[w].order) /\ c.pc = stage /\ c.rows = {}
  BY <1>1, <1>2 DEF CallOn
<1>4. CallTyped(c)
  BY <1>1, <1>2, <1>3, CallIntro
<1>5. call' = [call EXCEPT ![w] = c]
  BY DEF ConfirmNext, stage
<1> QED
  BY <1>4, <1>5, CallReplaced

\* One step of releasing locks is done.
LEMMA ReleasedTyped ==
  ASSUME CallsTyped, NEW w \in Workers, At(w, "release"),
         NEW todo \in SUBSET Lines(call[w].order), NEW got \in [Lines(call[w].order) -> Nat],
         Released(w, todo, got)
  PROVE  CallsTyped'
<1>1. /\ call[w].order \in Orders /\ call[w] \in CallOn(call[w].order)
      /\ call[w].rows = {}
  BY CallRecord DEF CallsTyped, At, InTransaction, PerLine
<1>2. CASE todo # {} \/ \E i \in DOMAIN got : got[i] > 0
  <2> DEFINE c == [call[w] EXCEPT !.todo = todo, !.got = got]
  <2>1. c \in CallOn(call[w].order) /\ c.pc = "release" /\ c.rows = {}
    BY <1>1 DEF CallOn, At
  <2>2. CallTyped(c)
    BY <1>1, <2>1, CallIntro DEF PerLine
  <2>3. call' = [call EXCEPT ![w] = c]
    BY <1>2 DEF Released
  <2> QED
    BY <2>2, <2>3, CallReplaced
<1>3. CASE ~(todo # {} \/ \E i \in DOMAIN got : got[i] > 0) /\ call[w].rounds > 0
  <2> DEFINE c == [call[w] EXCEPT !.pc = "reread", !.todo = todo, !.got = got, !.rounds = 0]
  <2>1. c \in CallOn(call[w].order) /\ c.pc = "reread" /\ c.rows = {}
    <3>1. "reread" \in Stages /\ 0 \in 0..1
      BY DEF Stages
    <3>2. c \in CallOn(call[w].order)
      BY <1>1, <3>1 DEF CallOn
    <3>3. c.pc = "reread" /\ c.rows = {}
      BY <1>1 DEF CallOn
    <3> QED
      BY <3>2, <3>3
  <2>2. CallTyped(c)
    BY <1>1, <2>1, CallIntro DEF PerLine
  <2>3. call' = [call EXCEPT ![w] = c]
    BY <1>3 DEF Released
  <2> QED
    BY <2>2, <2>3, CallReplaced
<1>4. CASE ~(todo # {} \/ \E i \in DOMAIN got : got[i] > 0) /\ ~(call[w].rounds > 0)
  BY <1>4, FinishTyped DEF Released, Finish
<1> QED
  BY <1>2, <1>3, <1>4

(***************************************************************************)
(* The stores.                                                             *)
(***************************************************************************)

\* A step that leaves Redis alone leaves its types alone.
LEMMA RedisUnchanged ==
  ASSUME RedisTypeOK, UNCHANGED redisVars
  PROVE  RedisTypeOK'
  BY DEF RedisTypeOK, redisVars

\* The commands that change Redis keep the type of its keys.
LEMMA RedisTyped ==
  ASSUME RedisTypeOK, NEW t \in Tickets, NEW o \in Orders, NEW n \in Nat, NEW available \in Int,
         \/ InitializeQuotaIfAbsent(t, available)
         \/ TakeQuota(t, o, n)
         \/ ReturnOverdraft(t, n)
         \/ DeleteLock(t, o)
         \/ ReturnQuota(t, o, n)
         \/ LockLapses(t, o)
  PROVE  RedisTypeOK'
<1>1. CASE InitializeQuotaIfAbsent(t, available)
  BY <1>1 DEF RedisTypeOK, InitializeQuotaIfAbsent
<1>2. CASE TakeQuota(t, o, n)
  BY <1>2 DEF RedisTypeOK, TakeQuota
<1>3. CASE ReturnOverdraft(t, n)
  BY <1>3 DEF RedisTypeOK, ReturnOverdraft
<1>4. CASE DeleteLock(t, o)
  BY <1>4 DEF RedisTypeOK, DeleteLock
<1>5. CASE ReturnQuota(t, o, n)
  BY <1>5 DEF RedisTypeOK, ReturnQuota
<1>6. CASE LockLapses(t, o)
  BY <1>6 DEF RedisTypeOK, LockLapses
<1> QED
  BY <1>1, <1>2, <1>3, <1>4, <1>5, <1>6

\* What a call that works on a line reads there.
LEMMA LineOfCall ==
  ASSUME TypeOK, NEW w \in Workers, call[w].pc \in PerLine
  PROVE  /\ call[w].order \in Orders
         /\ call[w].line \in Lines(call[w].order)
         /\ Ticket(w, call[w].line) \in Tickets
         /\ Qty(w, call[w].line) \in Nat \ {0}
<1>1. CallTyped(call[w]) /\ call[w].pc # "idle"
  BY DEF TypeOK, CallsTyped, PerLine
<1>2. call[w].order \in Orders /\ call[w].line \in Lines(call[w].order)
  BY <1>1, CallRecord
<1> QED
  BY <1>2, LineFields DEF Ticket, Qty

\* The fields of a call in progress.
LEMMA CallFields ==
  ASSUME TypeOK, NEW w \in Workers, call[w].pc # "idle"
  PROVE  /\ call[w].order \in Orders
         /\ call[w].op \in Ops
         /\ call[w].todo \in SUBSET Lines(call[w].order)
         /\ call[w].got \in [Lines(call[w].order) -> Nat]
         /\ call[w].rounds \in 0..1
         /\ call[w].rows \in SUBSET Tickets
         /\ call[w].pc \in InTransaction \/ call[w].rows = {}
<1>1. CallTyped(call[w])
  BY DEF TypeOK, CallsTyped
<1> QED
  BY <1>1, CallRecord DEF CallOn

(***************************************************************************)
(* Type correctness.                                                       *)
(***************************************************************************)

\* The initial state has its types.
LEMMA TypeInit == Init => TypeOK
<1> SUFFICES ASSUME Init PROVE TypeOK
  OBVIOUS
<1>1. CallTyped(Idle)
  BY DEF CallTyped
<1>2. CallsTyped
  BY <1>1 DEF Init, CallsTyped
<1>3. RedisTypeOK
  BY DEF Init, RedisInit, RedisTypeOK
<1>4. /\ status \in [Orders -> OrderStatus \cup {"absent"}]
      /\ sold \in [Tickets -> Nat]
      /\ DOMAIN issued = Orders /\ \A o \in Orders : issued[o] \in [Lines(o) -> Nat]
      /\ begun \in SUBSET Orders /\ due \in SUBSET begun
      /\ billed \in SUBSET Orders /\ settled \in SUBSET billed
      /\ faults \in 0..MaxFaults
  BY OrdersAssumption DEF Init
<1> QED
  BY <1>2, <1>3, <1>4 DEF TypeOK

\* createOrder keeps the types.
LEMMA TypeCreate ==
  ASSUME TypeOK, NEW w \in Workers, CreateStep(w)
  PROVE  TypeOK'
<1> USE DEF At
<1>1. CASE CheckLine(w)
  <2> DEFINE c == [call[w] EXCEPT !.pc = "init", !.rows = @ \cup {Ticket(w, call[w].line)}]
  <2>1. /\ call[w].pc = "row" /\ call[w].pc \in PerLine
        /\ call[w] \in CallOn(call[w].order)
    BY <1>1, CallRecord DEF CheckLine, TypeOK, CallsTyped, PerLine
  <2>2. c \in CallOn(call[w].order) /\ c.pc = "init" /\ c.line = call[w].line
    BY <2>1, LineOfCall DEF CallOn, Stages
  <2>3. CallTyped(c)
    BY <2>1, <2>2, LineOfCall, CallIntro DEF InTransaction, PerLine
  <2>4. Abort(w) \/ call' = [call EXCEPT ![w] = c]
    BY <1>1 DEF CheckLine
  <2>5. CallsTyped'
    BY <2>1, <2>3, <2>4, AbortTyped, CallReplaced DEF TypeOK
  <2> QED
    BY <1>1, <2>5, RedisUnchanged DEF CheckLine, TypeOK, dbVars, orderVars
<1>2. CASE InitQuota(w)
  <2>1. call[w].pc = "init" /\ call[w].pc \in PerLine
    BY <1>2 DEF InitQuota, PerLine
  <2>2. CallsTyped'
    BY <1>2, <2>1, GotoTyped DEF InitQuota, TypeOK, Stages, InTransaction, PerLine
  <2>3. Quota[Ticket(w, call[w].line)] - sold[Ticket(w, call[w].line)] \in Int
    BY <2>1, LineOfCall, OrdersAssumption DEF TypeOK
  <2>4. RedisTypeOK'
    BY <1>2, <2>1, <2>3, LineOfCall, RedisTyped DEF InitQuota, TypeOK
  <2> QED
    BY <1>2, <2>2, <2>4 DEF InitQuota, TypeOK, dbVars, orderVars
<1>3. CASE LockLine(w)
  <2> DEFINE i == call[w].line
             stage == IF i = Len(Items[call[w].order]) THEN "commit" ELSE "row"
             c == [call[w] EXCEPT !.line = i + 1, !.pc = stage]
  <2>1. /\ call[w].pc = "take" /\ call[w].pc \in PerLine /\ call[w].pc \in InTransaction
        /\ call[w] \in CallOn(call[w].order)
    BY <1>3, CallRecord DEF LockLine, TypeOK, CallsTyped, PerLine, InTransaction
  <2>2. RedisTypeOK'
    BY <1>3, <2>1, LineOfCall, RedisTyped DEF LockLine, TypeOK
  <2>3. /\ i + 1 \in Nat /\ stage \in Stages /\ stage \in InTransaction
        /\ stage \in PerLine => i + 1 \in Lines(call[w].order)
    BY <2>1, LineOfCall, LineFields, LinesRange DEF Stages, InTransaction, PerLine
  <2> HIDE DEF stage
  <2>4. c \in CallOn(call[w].order) /\ c.pc = stage /\ c.line = i + 1
    BY <2>1, <2>3 DEF CallOn
  <2>5. CallTyped(c)
    BY <2>1, <2>3, <2>4, LineOfCall, CallIntro
  <2>6. Goto(w, "undo") \/ call' = [call EXCEPT ![w] = c]
    BY <1>3 DEF LockLine, stage
  <2>7. Goto(w, "undo") => CallsTyped'
    BY <2>1, GotoTyped DEF TypeOK, Stages, InTransaction, PerLine
  <2>8. CallsTyped'
    BY <2>5, <2>6, <2>7, CallReplaced DEF TypeOK
  <2> QED
    BY <1>3, <2>2, <2>8 DEF LockLine, TypeOK, dbVars, orderVars
<1>4. CASE UndoLine(w)
  <2>1. call[w].pc = "undo" /\ call[w].pc \in PerLine
    BY <1>4 DEF UndoLine, PerLine
  <2>2. CallsTyped'
    BY <1>4, <2>1, GotoTyped DEF UndoLine, TypeOK, Stages, InTransaction, PerLine
  <2>3. RedisTypeOK'
    BY <1>4, <2>1, LineOfCall, RedisTyped DEF UndoLine, TypeOK
  <2> QED
    BY <1>4, <2>2, <2>3 DEF UndoLine, TypeOK, dbVars, orderVars
<1>5. CASE UnsetLine(w)
  <2>1. call[w].pc = "unset" /\ call[w].pc \in PerLine
    BY <1>5 DEF UnsetLine, PerLine
  <2>2. CallsTyped'
    BY <1>5, <2>1, AbortTyped DEF UnsetLine, TypeOK
  <2>3. RedisTypeOK'
    BY <1>5, <2>1, LineOfCall, RedisTyped DEF UnsetLine, TypeOK
  <2> QED
    BY <1>5, <2>2, <2>3 DEF UnsetLine, TypeOK, dbVars, orderVars
<1>6. CASE CommitOrder(w)
  <2> DEFINE c == [call[w] EXCEPT !.pc = "bill", !.rows = {}]
  <2>1. /\ call[w].pc = "commit" /\ call[w].order \in Orders
        /\ call[w] \in CallOn(call[w].order)
    BY <1>6, CallRecord DEF CommitOrder, TypeOK, CallsTyped
  <2>2. c \in CallOn(call[w].order) /\ c.pc = "bill" /\ c.rows = {}
    BY <2>1 DEF CallOn, Stages
  <2>3. CallTyped(c)
    BY <2>1, <2>2, CallIntro DEF PerLine
  <2>4. CallsTyped'
    <3>1. call' = [call EXCEPT ![w] = c]
      BY <1>6 DEF CommitOrder
    <3> QED
      BY <2>3, <3>1, CallReplaced DEF TypeOK
  <2>5. status' \in [Orders -> OrderStatus \cup {"absent"}]
    BY <1>6 DEF CommitOrder, TypeOK, OrderStatus
  <2> QED
    BY <1>6, <2>4, <2>5, RedisUnchanged DEF CommitOrder, TypeOK, orderVars
<1>7. CASE BillOpen(w)
  <2>1. CallsTyped' /\ call[w].order \in Orders
    BY <1>7, FinishTyped, CallFields DEF BillOpen, TypeOK
  <2> QED
    BY <1>7, <2>1, RedisUnchanged DEF BillOpen, TypeOK, dbVars
<1>8. CASE BillSettled(w)
  <2>1. /\ call[w].pc = "bill" /\ call[w].order \in Orders /\ call[w].rows = {}
    BY <1>8, CallFields DEF BillSettled, InTransaction, PerLine
  <2>2. CallsTyped'
    BY <1>8, <2>1, GotoTyped DEF BillSettled, TypeOK, Stages, PerLine
  <2> QED
    BY <1>8, <2>1, <2>2, RedisUnchanged DEF BillSettled, TypeOK, dbVars
<1>9. CASE BillFails(w)
  <2>1. /\ call[w].pc = "bill" /\ call[w].order \in Orders /\ call[w].rows = {}
    BY <1>9, CallFields DEF BillFails, InTransaction, PerLine
  <2>2. CallsTyped'
    BY <1>9, <2>1, GotoTyped DEF BillFails, TypeOK, Stages, PerLine
  <2> QED
    BY <1>9, <2>2, RedisUnchanged DEF BillFails, TypeOK, dbVars, orderVars
<1>10. CASE DeadlockVictim(w)
  <2>1. CallsTyped'
    BY <1>10, AbortTyped, PaymentThrowsTyped DEF DeadlockVictim, TypeOK
  <2> QED
    BY <1>10, <2>1, RedisUnchanged DEF DeadlockVictim, TypeOK, dbVars, orderVars
<1> QED
  BY <1>1, <1>2, <1>3, <1>4, <1>5, <1>6, <1>7, <1>8, <1>9, <1>10 DEF CreateStep

\* handleSuccessfulPayment and generateTicketsForOrder keep the types.
LEMMA TypePayment ==
  ASSUME TypeOK, NEW w \in Workers, PaymentStep(w)
  PROVE  TypeOK'
<1> USE DEF At
<1>0. /\ call[w].pc \in {"payread", "sell", "confirm", "count", "issue"}
      /\ call[w].order \in Orders
      /\ call[w] \in CallOn(call[w].order)
      /\ call[w].pc # "sell" => call[w].rows = {}
  <2>1. call[w].pc \in {"payread", "sell", "confirm", "count", "issue"}
    BY DEF PaymentStep, PayRead, SellRow, CommitSale, ConfirmLock, CountIssued, IssueLine
  <2> QED
    BY <2>1, CallRecord DEF TypeOK, CallsTyped, InTransaction, PerLine
<1>00. FirstLines(call[w].order) \in SUBSET Lines(call[w].order)
  BY DEF FirstLines
<1>1. CASE PayRead(w)
  <2> DEFINE c == [call[w] EXCEPT !.pc = "sell", !.todo = FirstLines(call[w].order)]
  <2>1. c \in CallOn(call[w].order) /\ c.pc = "sell"
    BY <1>0, <1>00 DEF CallOn, Stages
  <2>2. CallTyped(c)
    BY <1>0, <2>1, CallIntro DEF InTransaction, PerLine
  <2>3. Finish(w) \/ call' = [call EXCEPT ![w] = c]
    BY <1>1 DEF PayRead
  <2>4. CallsTyped'
    BY <2>2, <2>3, FinishTyped, CallReplaced DEF TypeOK
  <2> QED
    BY <1>1, <2>4, RedisUnchanged DEF PayRead, TypeOK, dbVars, orderVars
<1>2. CASE SellRow(w)
  <2>1. PICK i \in call[w].todo :
          IF Fits(call[w].order, Ticket(w, i))
          THEN call' = [call EXCEPT ![w].todo = @ \ {i}, ![w].rows = @ \cup {Ticket(w, i)}]
          ELSE PaymentThrows(w)
    BY <1>2 DEF SellRow
  <2> DEFINE c == [call[w] EXCEPT !.todo = @ \ {i}, !.rows = @ \cup {Ticket(w, i)}]
  <2>2. Ticket(w, i) \in Tickets /\ call[w].pc = "sell"
    BY <1>0, <1>2, LineFields DEF CallOn, Ticket, SellRow
  <2>3. c \in CallOn(call[w].order) /\ c.pc = "sell"
    BY <1>0, <2>2 DEF CallOn
  <2>4. CallTyped(c)
    BY <1>0, <2>3, CallIntro DEF InTransaction, PerLine
  <2>5. PaymentThrows(w) \/ call' = [call EXCEPT ![w] = c]
    BY <2>1
  <2>6. CallsTyped'
    BY <1>0, <2>4, <2>5, PaymentThrowsTyped, CallReplaced DEF TypeOK
  <2> QED
    BY <1>2, <2>6, RedisUnchanged DEF SellRow, TypeOK, dbVars, orderVars
<1>3. CASE CommitSale(w)
  <2> DEFINE c == [call[w] EXCEPT !.pc = "confirm", !.todo = FirstLines(call[w].order), !.rows = {}]
  <2>1. c \in CallOn(call[w].order) /\ c.pc = "confirm" /\ c.rows = {}
    BY <1>0, <1>00 DEF CallOn, Stages
  <2>2. CallTyped(c)
    BY <1>0, <2>1, CallIntro DEF PerLine
  <2>3. CallsTyped'
    <3>1. call' = [call EXCEPT ![w] = c]
      BY <1>3 DEF CommitSale
    <3> QED
      BY <2>2, <3>1, CallReplaced DEF TypeOK
  <2>4. sold' \in [Tickets -> Nat]
    BY <1>0, <1>3, NeedFacts DEF CommitSale, SoldAfter, TypeOK
  <2>5. status' \in [Orders -> OrderStatus \cup {"absent"}]
    BY <1>3 DEF CommitSale, PaidIfPending, TypeOK, OrderStatus
  <2> QED
    BY <1>3, <2>3, <2>4, <2>5, RedisUnchanged DEF CommitSale, TypeOK, orderVars
<1>4. CASE ConfirmLock(w)
  <2>1. PICK i \in call[w].todo :
          DeleteLock(Ticket(w, i), call[w].order) /\ ConfirmNext(w, i)
    BY <1>4 DEF ConfirmLock
  <2>2. Ticket(w, i) \in Tickets
    BY <1>0, LineFields DEF CallOn, Ticket
  <2>3. RedisTypeOK'
    BY <1>0, <2>1, <2>2, RedisTyped DEF TypeOK
  <2>4. CallsTyped'
    BY <1>4, <2>1, ConfirmNextTyped DEF ConfirmLock, TypeOK
  <2> QED
    BY <1>4, <2>3, <2>4 DEF ConfirmLock, TypeOK, dbVars, orderVars
<1>5. CASE CountIssued(w)
  <2> DEFINE o == call[w].order
             c == [call[w] EXCEPT !.pc = "issue", !.todo = Lines(o), !.got = issued[o]]
  <2>1. issued[o] \in [Lines(o) -> Nat]
    BY <1>0 DEF TypeOK
  <2>2. c \in CallOn(o) /\ c.pc = "issue" /\ c.rows = {}
    BY <1>0, <1>5, <2>1 DEF CallOn, Stages, CountIssued
  <2>3. CallTyped(c)
    BY <1>0, <2>2, CallIntro DEF PerLine
  <2>4. PaymentThrows(w) \/ call' = [call EXCEPT ![w] = c]
    BY <1>5 DEF CountIssued
  <2>5. CallsTyped'
    BY <1>0, <2>3, <2>4, PaymentThrowsTyped, CallReplaced DEF TypeOK
  <2> QED
    BY <1>5, <2>5, RedisUnchanged DEF CountIssued, TypeOK, dbVars, orderVars
<1>6. CASE IssueLine(w)
  <2> DEFINE o == call[w].order
  <2>1. PICK i \in call[w].todo :
          /\ issued' = [issued EXCEPT ![o][i] = @ + Missing(w, i)]
          /\ IF call[w].todo = {i}
             THEN Finish(w)
             ELSE call' = [call EXCEPT ![w].todo = @ \ {i}]
    BY <1>6 DEF IssueLine
  <2> DEFINE c == [call[w] EXCEPT !.todo = @ \ {i}]
  <2>2. i \in Lines(o) /\ Missing(w, i) \in Nat
    BY <1>0, LineFields DEF CallOn, Missing, Qty
  <2>3. DOMAIN issued' = Orders /\ \A p \in Orders : issued'[p] \in [Lines(p) -> Nat]
    BY <1>0, <2>1, <2>2 DEF TypeOK
  <2>4. c \in CallOn(o) /\ c.pc = "issue" /\ c.rows = {}
    BY <1>0, <1>6 DEF CallOn, IssueLine
  <2>5. CallTyped(c)
    BY <1>0, <2>4, CallIntro DEF PerLine
  <2>6. Finish(w) \/ call' = [call EXCEPT ![w] = c]
    BY <2>1
  <2>7. CallsTyped'
    BY <2>5, <2>6, FinishTyped, CallReplaced DEF TypeOK
  <2>8. RedisTypeOK'
    BY <1>6, RedisUnchanged DEF IssueLine, TypeOK
  <2>9. DOMAIN issued' = Orders /\ (\A p \in Orders : issued[p] \in [Lines(p) -> Nat])'
    BY <2>3 DEF Lines
  <2> QED
    BY <1>6, <2>7, <2>8, <2>9 DEF IssueLine, TypeOK, orderVars
<1> QED
  BY <1>1, <1>2, <1>3, <1>4, <1>5, <1>6 DEF PaymentStep

\* Ending an order and releasing its locks keep the types.
LEMMA TypeEnd ==
  ASSUME TypeOK, NEW w \in Workers, EndStep(w)
  PROVE  TypeOK'
<1> USE DEF At
<1>0. /\ call[w].pc \in {"read", "save", "reread", "release"}
      /\ call[w].order \in Orders
      /\ call[w] \in CallOn(call[w].order)
      /\ call[w].rows = {}
  <2>1. call[w].pc \in {"read", "save", "reread", "release"}
    BY DEF EndStep, ReadStatus, SaveStatus, RereadOrder, GetLock, MayGet, ReturnLock, MayReturn
  <2> QED
    BY <2>1, CallRecord DEF TypeOK, CallsTyped, InTransaction, PerLine
<1>1. CASE ReadStatus(w)
  <2>1. Goto(w, "save") \/ Goto(w, "reread") \/ Finish(w)
    BY <1>1 DEF ReadStatus
  <2>2. CallsTyped'
    BY <1>0, <2>1, FinishTyped, GotoTyped DEF TypeOK, Stages, PerLine
  <2> QED
    BY <1>1, <2>2, RedisUnchanged DEF ReadStatus, TypeOK, dbVars, orderVars
<1>2. CASE SaveStatus(w)
  <2> DEFINE n == IF call[w].op = "cron" THEN 1 ELSE 0
             c == [call[w] EXCEPT !.pc = "reread", !.rounds = n]
  <2>1. n \in 0..1
    OBVIOUS
  <2> HIDE DEF n
  <2>2. c \in CallOn(call[w].order) /\ c.pc = "reread" /\ c.rows = {}
    BY <1>0, <2>1 DEF CallOn, Stages
  <2>3. CallTyped(c)
    BY <1>0, <2>2, CallIntro DEF PerLine
  <2>4. call' = [call EXCEPT ![w] = c]
    BY <1>2 DEF SaveStatus, n
  <2>5. CallsTyped'
    BY <2>3, <2>4, CallReplaced DEF TypeOK
  <2>6. status' \in [Orders -> OrderStatus \cup {"absent"}]
    BY <1>2 DEF SaveStatus, Target, TypeOK, OrderStatus
  <2> QED
    BY <1>2, <2>5, <2>6, RedisUnchanged DEF SaveStatus, TypeOK, orderVars
<1>3. CASE RereadOrder(w)
  <2> DEFINE c == [call[w] EXCEPT !.pc = "release", !.todo = FirstLines(call[w].order)]
  <2>1. FirstLines(call[w].order) \in SUBSET Lines(call[w].order)
    BY DEF FirstLines
  <2>2. c \in CallOn(call[w].order) /\ c.pc = "release" /\ c.rows = {}
    BY <1>0, <2>1 DEF CallOn, Stages
  <2>3. CallTyped(c)
    BY <1>0, <2>2, CallIntro DEF PerLine
  <2>4. call' = [call EXCEPT ![w] = c]
    BY <1>3 DEF RereadOrder
  <2>5. CallsTyped'
    BY <2>3, <2>4, CallReplaced DEF TypeOK
  <2>6. sold' \in [Tickets -> Nat]
    BY <1>0, <1>3, NeedFacts DEF RereadOrder, TypeOK
  <2> QED
    BY <1>3, <2>5, <2>6, RedisUnchanged DEF RereadOrder, TypeOK, orderVars
<1>4. CASE GetLock(w)
  <2> DEFINE o == call[w].order
  <2>1. PICK i \in Lines(o) :
          Released(w, call[w].todo \ {i}, [call[w].got EXCEPT ![i] = lock[Ticket(w, i)][o]])
    BY <1>4 DEF GetLock
  <2>2. Ticket(w, i) \in Tickets
    BY <1>0, LineFields DEF Ticket
  <2>3. lock[Ticket(w, i)][o] \in Nat
    BY <1>0, <2>2 DEF TypeOK, RedisTypeOK
  <2>4. /\ call[w].todo \ {i} \in SUBSET Lines(o)
        /\ [call[w].got EXCEPT ![i] = lock[Ticket(w, i)][o]] \in [Lines(o) -> Nat]
    BY <1>0, <2>3 DEF CallOn
  <2>5. CallsTyped'
    BY <1>4, <2>1, <2>4, ReleasedTyped DEF GetLock, TypeOK
  <2> QED
    BY <1>4, <2>5, RedisUnchanged DEF GetLock, TypeOK, dbVars, orderVars
<1>5. CASE ReturnLock(w)
  <2> DEFINE o == call[w].order
  <2>1. PICK i \in Lines(o) :
          /\ ReturnQuota(Ticket(w, i), o, call[w].got[i])
          /\ Released(w, call[w].todo, [call[w].got EXCEPT ![i] = 0])
    BY <1>5 DEF ReturnLock
  <2>2. Ticket(w, i) \in Tickets
    BY <1>0, LineFields DEF Ticket
  <2>3. /\ call[w].got[i] \in Nat
        /\ call[w].todo \in SUBSET Lines(o)
        /\ [call[w].got EXCEPT ![i] = 0] \in [Lines(o) -> Nat]
    BY <1>0 DEF CallOn
  <2>4. RedisTypeOK'
    BY <1>0, <2>1, <2>2, <2>3, RedisTyped DEF TypeOK
  <2>5. CallsTyped'
    BY <1>5, <2>1, <2>3, ReleasedTyped DEF ReturnLock, TypeOK
  <2> QED
    BY <1>5, <2>4, <2>5 DEF ReturnLock, TypeOK, dbVars, orderVars
<1> QED
  BY <1>1, <1>2, <1>3, <1>4, <1>5 DEF EndStep

\* Beginning a call keeps the types.
LEMMA TypeBegin ==
  ASSUME TypeOK, NEW w \in Workers, NEW o \in Orders, Begin(w, o)
  PROVE  TypeOK'
<1>0. /\ "row" \in Stages /\ "sell" \in Stages /\ "read" \in Stages
      /\ {} \in SUBSET Lines(o) /\ FirstLines(o) \in SUBSET Lines(o)
  BY DEF Stages, FirstLines
<1>1. CASE BeginCreate(w, o)
  <2>1. Start(w, o, "create", "row", {})
    BY <1>1 DEF BeginCreate
  <2>2. CallsTyped'
    BY <1>0, <2>1, StartTyped DEF TypeOK
  <2> QED
    BY <1>1, <2>2, RedisUnchanged DEF BeginCreate, TypeOK, dbVars
<1>2. CASE StartPaid(w, o)
  <2>1. Start(w, o, "paid", "sell", FirstLines(o))
    BY <1>2 DEF StartPaid
  <2>2. CallsTyped'
    BY <1>0, <2>1, StartTyped DEF TypeOK
  <2> QED
    BY <1>2, <2>2, RedisUnchanged DEF StartPaid, TypeOK, dbVars
<1>3. CASE StartExpired(w, o) \/ StartFailed(w, o) \/ StartCancel(w, o) \/ StartCron(w, o)
  <2>1. PICK op \in {"expired", "failed", "cancel", "cron"} : Start(w, o, op, "read", {})
    BY <1>3 DEF StartExpired, StartFailed, StartCancel, StartCron
  <2>2. CallsTyped'
    BY <1>0, <2>1, StartTyped DEF TypeOK
  <2>3. UNCHANGED <<redisVars, dbVars, orderVars, faults>>
    BY <1>3 DEF StartExpired, StartFailed, StartCancel, StartCron
  <2> QED
    BY <2>2, <2>3, RedisUnchanged DEF TypeOK, dbVars, orderVars
<1> QED
  BY <1>1, <1>2, <1>3 DEF Begin

\* Failures keep the types.
LEMMA TypeFault ==
  ASSUME TypeOK, NEW w \in Workers, Fault(w)
  PROVE  TypeOK'
<1> USE DEF At
<1>1. faults' \in 0..MaxFaults /\ UNCHANGED <<redisVars, dbVars, orderVars>>
  BY OrdersAssumption DEF Fault, RedisFails, DatabaseFails, UploadFails, Crash, TypeOK
<1>2. CallsTyped'
  <2>1. CASE RedisFails(w)
    <3>1. CASE At(w, "init") /\ Goto(w, "take")
      BY <3>1, GotoTyped DEF TypeOK, Stages, InTransaction, PerLine
    <3>2. CASE call[w].pc \in {"take", "undo", "unset"} /\ Abort(w)
      BY <3>2, AbortTyped DEF TypeOK
    <3>3. CASE At(w, "confirm") /\ \E i \in call[w].todo : ConfirmNext(w, i)
      BY <3>3, ConfirmNextTyped DEF TypeOK
    <3>4. CASE /\ At(w, "release")
               /\ \E i \in Lines(call[w].order) :
                    \/ Released(w, call[w].todo \ {i}, call[w].got)
                    \/ Released(w, call[w].todo, [call[w].got EXCEPT ![i] = 0])
      <4>1. /\ call[w].todo \in SUBSET Lines(call[w].order)
            /\ call[w].got \in [Lines(call[w].order) -> Nat]
        BY <3>4, CallFields
      <4>2. \A i \in Lines(call[w].order) :
              /\ call[w].todo \ {i} \in SUBSET Lines(call[w].order)
              /\ [call[w].got EXCEPT ![i] = 0] \in [Lines(call[w].order) -> Nat]
        BY <4>1
      <4> QED
        BY <3>4, <4>1, <4>2, ReleasedTyped DEF TypeOK
    <3> QED
      BY <2>1, <3>1, <3>2, <3>3, <3>4 DEF RedisFails
  <2>2. CASE UploadFails(w)
    BY <2>2, PaymentThrowsTyped DEF UploadFails, TypeOK
  <2>3. CASE Crash(w)
    BY <2>3, FinishTyped DEF Crash, TypeOK
  <2>4. CASE DatabaseFails(w)
    BY <2>4, AbortTyped, PaymentThrowsTyped DEF DatabaseFails, TypeOK
  <2> QED
    BY <2>1, <2>2, <2>3, <2>4 DEF Fault
<1> QED
  BY <1>1, <1>2, RedisUnchanged DEF TypeOK, dbVars, orderVars

\* Every step keeps the types.
LEMMA TypeNext == TypeOK /\ [Next]_vars => TypeOK'
<1> SUFFICES ASSUME TypeOK, [Next]_vars PROVE TypeOK'
  OBVIOUS
<1>1. ASSUME NEW w \in Workers, Step(w) \/ Fault(w) PROVE TypeOK'
  BY <1>1, TypeCreate, TypePayment, TypeEnd, TypeFault DEF Step
<1>2. ASSUME NEW w \in Workers, NEW o \in Orders, Begin(w, o) PROVE TypeOK'
  BY <1>2, TypeBegin
<1>3. ASSUME NEW o \in Orders, FallDue(o) PROVE TypeOK'
  <2>1. CallsTyped'
    BY <1>3, CallsUnchanged DEF FallDue, TypeOK
  <2> QED
    BY <1>3, <2>1, RedisUnchanged DEF FallDue, TypeOK, dbVars
<1>4. ASSUME NEW t \in Tickets, NEW o \in Orders, LockExpires(t, o) PROVE TypeOK'
  <2>1. CallsTyped'
    BY <1>4, CallsUnchanged DEF LockExpires, TypeOK
  <2>2. RedisTypeOK'
    BY <1>4, RedisTyped DEF LockExpires, TypeOK
  <2> QED
    BY <1>4, <2>1, <2>2 DEF LockExpires, TypeOK, dbVars, orderVars
<1>5. ASSUME UNCHANGED vars PROVE TypeOK'
  <2>1. CallsTyped'
    BY <1>5, CallsUnchanged DEF vars, TypeOK
  <2> QED
    BY <1>5, <2>1, RedisUnchanged DEF vars, TypeOK, dbVars, orderVars
<1> QED
  BY <1>1, <1>2, <1>3, <1>4, <1>5 DEF Next

\* Every reachable state of the orders, of Redis and of the calls in progress
\* has its types, and only a call inside a transaction holds rows, however
\* many calls there are and however they interleave and fail.
THEOREM TypeCorrect == Spec => []TypeOK
  BY TypeInit, TypeNext, PTL DEF Spec

(***************************************************************************)
(* What a step of a call does to its record, and what it writes.           *)
(***************************************************************************)

BeforeCommit == {"row", "init", "take", "undo", "unset", "commit"}

\* The call w goes on: it ends, or it stays the same call in a stage that
\* follows the one it was in.
Advance(w) ==
  LET old == call[w]  new == call'[w]  o == call[w].order IN
  /\ old.pc # "idle"
  /\ \A v \in Workers \ {w} : call'[v] = call[v]
  /\ \/ new = Idle
     \/ /\ new.pc # "idle" /\ new.op = old.op /\ new.order = o
        /\ \/ new.rows \subseteq old.rows
           \/ \E t \in Tickets : RowFree(w, t) /\ new.rows = old.rows \cup {t}
        /\ new.pc \in BeforeCommit => old.pc \in BeforeCommit /\ new.rounds = old.rounds
        /\ new.pc = "sell" =>
             \/ old.pc = "payread" /\ status[o] = "PENDING" /\ new.todo = FirstLines(o)
             \/ /\ old.pc = "sell"
                /\ \E i \in old.todo : /\ new.todo = old.todo \ {i}
                                       /\ new.rows = old.rows \cup {Ticket(w, i)}
                                       /\ Fits(o, Ticket(w, i))
        /\ new.pc = "save" => old.pc = "read" /\ status[o] = "PENDING"
        /\ new.pc = "reread" => \/ old.pc = "save"
                                \/ old.pc = "read" /\ status[o] = "EXPIRED"
                                \/ old.pc = "release" /\ old.rounds > 0
        /\ new.pc = "release" =>
             \/ old.pc \in BeforeCommit \cup {"release"} /\ new.rounds = old.rounds
             \/ old.pc = "reread"

\* A call that has not begun has no stage to advance from; one that has begun
\* is a record.
LEMMA BegunRecord ==
  ASSUME TypeOK, NEW w \in Workers, call[w].pc # "idle"
  PROVE  /\ DOMAIN call = Workers
         /\ call[w].order \in Orders
         /\ call[w] \in CallOn(call[w].order)
  BY CallRecord DEF TypeOK, CallsTyped

\* The ways in which a call ends, is rolled back or fails are advances.
LEMMA FinishAdvances ==
  ASSUME TypeOK, NEW w \in Workers, call[w].pc # "idle", Finish(w)
  PROVE  Advance(w)
  BY BegunRecord DEF Finish, Advance

LEMMA AbortAdvances ==
  ASSUME TypeOK, NEW w \in Workers, call[w].pc \in BeforeCommit, Abort(w)
  PROVE  Advance(w)
<1>1. call[w].pc # "idle"
  BY DEF BeforeCommit
<1>2. CASE Locked(w) = {}
  BY <1>1, <1>2, FinishAdvances DEF Abort
<1>3. CASE Locked(w) # {}
  BY <1>1, <1>3, BegunRecord DEF Abort, Advance, CallOn, BeforeCommit
<1> QED
  BY <1>2, <1>3

LEMMA ThrowAdvances ==
  ASSUME TypeOK, NEW w \in Workers, call[w].pc # "idle", PaymentThrows(w)
  PROVE  Advance(w)
<1>1. CASE call[w].op = "create"
  BY <1>1, BegunRecord DEF PaymentThrows, Advance, CallOn, BeforeCommit
<1>2. CASE call[w].op # "create"
  BY <1>2, FinishAdvances DEF PaymentThrows
<1> QED
  BY <1>1, <1>2

LEMMA ConfirmAdvances ==
  ASSUME TypeOK, NEW w \in Workers, At(w, "confirm"), NEW i, ConfirmNext(w, i)
  PROVE  Advance(w)
  BY BegunRecord DEF At, ConfirmNext, Advance, CallOn, BeforeCommit

LEMMA ReleasedAdvances ==
  ASSUME TypeOK, NEW w \in Workers, At(w, "release"),
         NEW todo, NEW got, Released(w, todo, got)
  PROVE  Advance(w)
<1>1. call[w].pc = "release"
  BY DEF At
<1>2. CASE todo # {} \/ \E i \in DOMAIN got : got[i] > 0
  BY <1>1, <1>2, BegunRecord DEF Released, Advance, CallOn, BeforeCommit
<1>3. CASE ~(todo # {} \/ \E i \in DOMAIN got : got[i] > 0) /\ call[w].rounds > 0
  BY <1>1, <1>3, BegunRecord DEF Released, Advance, CallOn, BeforeCommit
<1>4. CASE ~(todo # {} \/ \E i \in DOMAIN got : got[i] > 0) /\ ~(call[w].rounds > 0)
  BY <1>1, <1>4, FinishAdvances DEF Released, Finish
<1> QED
  BY <1>2, <1>3, <1>4

LEMMA GotoAdvances ==
  ASSUME TypeOK, NEW w \in Workers, call[w].pc # "idle", NEW stage, Goto(w, stage),
         \/ call[w].pc \in BeforeCommit /\ stage \in BeforeCommit
         \/ stage \in {"read", "payread"}
         \/ call[w].pc = "read" /\ stage = "save" /\ status[call[w].order] = "PENDING"
         \/ call[w].pc = "read" /\ stage = "reread" /\ status[call[w].order] = "EXPIRED"
  PROVE  Advance(w)
  BY BegunRecord DEF Goto, Advance, CallOn, BeforeCommit

\* Every step of a call, and every failure of one, is an advance.
LEMMA CreateAdvances ==
  ASSUME TypeOK, NEW w \in Workers, CreateStep(w)
  PROVE  Advance(w)
<1> USE DEF At
<1>1. CASE CheckLine(w)
  <2>1. call[w].pc = "row" /\ RowFree(w, Ticket(w, call[w].line))
    BY <1>1 DEF CheckLine
  <2>2. Ticket(w, call[w].line) \in Tickets
    BY <2>1, LineOfCall DEF PerLine
  <2>3. CASE Abort(w)
    BY <2>1, <2>3, AbortAdvances DEF BeforeCommit
  <2>4. CASE call' = [call EXCEPT ![w].pc = "init",
                                  ![w].rows = @ \cup {Ticket(w, call[w].line)}]
    BY <2>1, <2>2, <2>4, BegunRecord DEF Advance, CallOn, BeforeCommit
  <2> QED
    BY <1>1, <2>3, <2>4 DEF CheckLine
<1>2. CASE InitQuota(w) \/ UndoLine(w)
  BY <1>2, GotoAdvances DEF InitQuota, UndoLine, BeforeCommit
<1>3. CASE LockLine(w)
  <2>1. call[w].pc = "take"
    BY <1>3 DEF LockLine
  <2>2. CASE Goto(w, "undo")
    BY <2>1, <2>2, GotoAdvances DEF BeforeCommit
  <2>3. CASE call' = [call EXCEPT ![w].line = call[w].line + 1,
                       ![w].pc = IF call[w].line = Len(Items[call[w].order])
                                 THEN "commit" ELSE "row"]
    BY <2>1, <2>3, BegunRecord DEF Advance, CallOn, BeforeCommit
  <2> QED
    BY <1>3, <2>2, <2>3 DEF LockLine
<1>4. CASE UnsetLine(w)
  BY <1>4, AbortAdvances DEF UnsetLine, BeforeCommit
<1>5. CASE CommitOrder(w)
  BY <1>5, BegunRecord DEF CommitOrder, Advance, CallOn, BeforeCommit
<1>6. CASE BillOpen(w)
  BY <1>6, FinishAdvances DEF BillOpen
<1>7. CASE BillSettled(w) \/ BillFails(w)
  BY <1>7, GotoAdvances DEF BillSettled, BillFails
<1>8. CASE DeadlockVictim(w)
  BY <1>8, AbortAdvances, ThrowAdvances DEF DeadlockVictim, BeforeCommit
<1> QED
  BY <1>1, <1>2, <1>3, <1>4, <1>5, <1>6, <1>7, <1>8 DEF CreateStep

LEMMA PaymentAdvances ==
  ASSUME TypeOK, NEW w \in Workers, PaymentStep(w)
  PROVE  Advance(w)
<1> USE DEF At
<1>1. CASE PayRead(w)
  <2>1. CASE status[call[w].order] = "PENDING"
    BY <1>1, <2>1, BegunRecord DEF PayRead, Advance, CallOn, BeforeCommit
  <2>2. CASE status[call[w].order] # "PENDING"
    BY <1>1, <2>2, FinishAdvances DEF PayRead
  <2> QED
    BY <2>1, <2>2
<1>2. CASE SellRow(w)
  <2>1. PICK i \in call[w].todo :
          /\ RowFree(w, Ticket(w, i))
          /\ IF Fits(call[w].order, Ticket(w, i))
             THEN call' = [call EXCEPT ![w].todo = @ \ {i}, ![w].rows = @ \cup {Ticket(w, i)}]
             ELSE PaymentThrows(w)
    BY <1>2 DEF SellRow
  <2>2. call[w].pc = "sell" /\ Ticket(w, i) \in Tickets
    BY <1>2, CallFields, LineFields DEF SellRow, Ticket
  <2>3. CASE Fits(call[w].order, Ticket(w, i))
    BY <2>1, <2>2, <2>3, BegunRecord DEF Advance, CallOn, BeforeCommit
  <2>4. CASE ~Fits(call[w].order, Ticket(w, i))
    BY <2>1, <2>2, <2>4, ThrowAdvances
  <2> QED
    BY <2>3, <2>4
<1>3. CASE CommitSale(w)
  BY <1>3, BegunRecord DEF CommitSale, Advance, CallOn, BeforeCommit
<1>4. CASE ConfirmLock(w)
  BY <1>4, ConfirmAdvances DEF ConfirmLock
<1>5. CASE CountIssued(w)
  <2>1. CASE MayIssue(call[w].order)
    BY <1>5, <2>1, BegunRecord DEF CountIssued, Advance, CallOn, BeforeCommit
  <2>2. CASE ~MayIssue(call[w].order)
    BY <1>5, <2>2, ThrowAdvances DEF CountIssued
  <2> QED
    BY <2>1, <2>2
<1>6. CASE IssueLine(w)
  <2>1. PICK i \in call[w].todo :
          IF call[w].todo = {i}
          THEN Finish(w)
          ELSE call' = [call EXCEPT ![w].todo = @ \ {i}]
    BY <1>6 DEF IssueLine
  <2>2. CASE call[w].todo = {i}
    BY <1>6, <2>1, <2>2, FinishAdvances DEF IssueLine
  <2>3. CASE call[w].todo # {i}
    BY <1>6, <2>1, <2>3, BegunRecord DEF IssueLine, Advance, CallOn, BeforeCommit
  <2> QED
    BY <2>2, <2>3
<1> QED
  BY <1>1, <1>2, <1>3, <1>4, <1>5, <1>6 DEF PaymentStep

LEMMA EndAdvances ==
  ASSUME TypeOK, NEW w \in Workers, EndStep(w)
  PROVE  Advance(w)
<1> USE DEF At
<1>1. CASE ReadStatus(w)
  <2>1. call[w].pc = "read"
    BY <1>1 DEF ReadStatus
  <2>2. \/ Goto(w, "save") /\ status[call[w].order] = "PENDING"
        \/ Goto(w, "reread") /\ status[call[w].order] = "EXPIRED"
        \/ Finish(w)
    BY <1>1 DEF ReadStatus, Transitions
  <2> QED
    BY <2>1, <2>2, GotoAdvances, FinishAdvances
<1>2. CASE SaveStatus(w)
  BY <1>2, BegunRecord DEF SaveStatus, Advance, CallOn, BeforeCommit
<1>3. CASE RereadOrder(w)
  BY <1>3, BegunRecord DEF RereadOrder, Advance, CallOn, BeforeCommit
<1>4. CASE GetLock(w)
  BY <1>4, ReleasedAdvances DEF GetLock
<1>5. CASE ReturnLock(w)
  BY <1>5, ReleasedAdvances DEF ReturnLock
<1> QED
  BY <1>1, <1>2, <1>3, <1>4, <1>5 DEF EndStep

LEMMA FaultAdvances ==
  ASSUME TypeOK, NEW w \in Workers, Fault(w)
  PROVE  Advance(w)
<1> USE DEF At
<1>1. CASE RedisFails(w)
  <2>1. CASE At(w, "init") /\ Goto(w, "take")
    BY <2>1, GotoAdvances DEF BeforeCommit
  <2>2. CASE call[w].pc \in {"take", "undo", "unset"} /\ Abort(w)
    BY <2>2, AbortAdvances DEF BeforeCommit
  <2>3. CASE At(w, "confirm") /\ \E i \in call[w].todo : ConfirmNext(w, i)
    BY <2>3, ConfirmAdvances
  <2>4. CASE At(w, "release") /\ \E todo, got : Released(w, todo, got)
    BY <2>4, ReleasedAdvances
  <2> QED
    BY <1>1, <2>1, <2>2, <2>3, <2>4 DEF RedisFails
<1>2. CASE UploadFails(w)
  BY <1>2, ThrowAdvances DEF UploadFails
<1>3. CASE Crash(w)
  <2>1. call[w].pc # "idle"
    BY <1>3, CallBegun DEF Crash, TypeOK, CallsTyped
  <2> QED
    BY <1>3, <2>1, FinishAdvances DEF Crash
<1>4. CASE DatabaseFails(w)
  BY <1>4, AbortAdvances, ThrowAdvances DEF DatabaseFails, BeforeCommit
<1> QED
  BY <1>1, <1>2, <1>3, <1>4 DEF Fault

\* What the step of a call writes to the database: nothing, the order it
\* commits, the sale it commits, the status it saves, or the units that
\* releaseTicketQuotas takes off `sold`.
Writes(w) ==
  LET old == call[w]  new == call'[w]  o == call[w].order IN
  /\ begun' = begun
  /\ \/ UNCHANGED <<status, sold>> /\ (old.pc = "save" => new = Idle)
     \/ /\ old.pc = "commit" /\ new.pc = "bill"
        /\ status' = [status EXCEPT ![o] = "PENDING"]
        /\ UNCHANGED sold
     \/ /\ old.pc = "sell" /\ new.pc = "confirm" /\ old.todo = {}
        /\ status' = PaidIfPending(o)
        /\ sold' = SoldAfter(o)
     \/ /\ old.pc = "save" /\ new.pc = "reread"
        /\ \E s \in Ended : status' = [status EXCEPT ![o] = s]
        /\ UNCHANGED sold
     \/ /\ old.pc = "reread" /\ new.pc = "release"
        /\ UNCHANGED status
        /\ status[o] # "PAID" => UNCHANGED sold

LEMMA StepWrites ==
  ASSUME TypeOK, NEW w \in Workers, Step(w) \/ Fault(w)
  PROVE  Writes(w)
<1> USE DEF At
<1>1. CASE CommitOrder(w)
  BY <1>1, BegunRecord DEF CommitOrder, Writes, CallOn, orderVars
<1>2. CASE CommitSale(w)
  BY <1>2, BegunRecord DEF CommitSale, Writes, CallOn, orderVars
<1>3. CASE SaveStatus(w)
  <2>1. Target(call[w].op) \in Ended
    BY DEF Target, Ended
  <2> QED
    BY <1>3, <2>1, BegunRecord DEF SaveStatus, Writes, CallOn, orderVars
<1>4. CASE RereadOrder(w)
  BY <1>4, BegunRecord DEF RereadOrder, CountsAsSold, Writes, CallOn, orderVars
<1>5. CASE \/ CheckLine(w) \/ InitQuota(w) \/ LockLine(w) \/ UndoLine(w) \/ UnsetLine(w)
           \/ BillOpen(w) \/ BillSettled(w) \/ BillFails(w)
  <2>1. call[w].pc \in {"row", "init", "take", "undo", "unset", "bill"}
    BY <1>5 DEF CheckLine, InitQuota, LockLine, UndoLine, UnsetLine, BillOpen, BillSettled, BillFails
  <2>2. UNCHANGED <<status, sold, begun>>
    BY <1>5 DEF CheckLine, InitQuota, LockLine, UndoLine, UnsetLine, BillOpen, BillSettled,
                BillFails, dbVars, orderVars
  <2> QED
    BY <2>1, <2>2 DEF Writes
<1>6. CASE DeadlockVictim(w) \/ PayRead(w) \/ SellRow(w) \/ ConfirmLock(w) \/ CountIssued(w)
           \/ IssueLine(w)
  <2>1. call[w].pc \in {"row", "payread", "sell", "confirm", "count", "issue"}
    BY <1>6 DEF DeadlockVictim, PayRead, SellRow, ConfirmLock, CountIssued, IssueLine
  <2>2. UNCHANGED <<status, sold, begun>>
    BY <1>6 DEF DeadlockVictim, PayRead, SellRow, ConfirmLock, CountIssued, IssueLine,
                dbVars, orderVars
  <2> QED
    BY <2>1, <2>2 DEF Writes
<1>7. CASE ReadStatus(w) \/ GetLock(w) \/ ReturnLock(w)
  <2>1. call[w].pc \in {"read", "release"}
    BY <1>7 DEF ReadStatus, GetLock, MayGet, ReturnLock, MayReturn
  <2>2. UNCHANGED <<status, sold, begun>>
    BY <1>7 DEF ReadStatus, GetLock, ReturnLock, dbVars, orderVars
  <2> QED
    BY <2>1, <2>2 DEF Writes
<1>8. CASE Fault(w)
  <2>1. UNCHANGED <<status, sold, begun>>
    BY <1>8 DEF Fault, RedisFails, DatabaseFails, UploadFails, Crash, dbVars, orderVars
  <2>2. call[w].pc = "save" => call'[w] = Idle
    BY <1>8 DEF Fault, RedisFails, DatabaseFails, UploadFails, Crash, Finish, TypeOK, CallsTyped
  <2> QED
    BY <2>1, <2>2 DEF Writes
<1> QED
  BY <1>1, <1>2, <1>3, <1>4, <1>5, <1>6, <1>7, <1>8
     DEF Step, CreateStep, PaymentStep, EndStep

(***************************************************************************)
(* The inductive invariant.                                                *)
(***************************************************************************)

\* A step of a call keeps it.
LEMMA OrderInvAdvance ==
  ASSUME TypeOK, OrderInv, NEW w \in Workers, Advance(w), Writes(w)
  PROVE  OrderInv'
<1> DEFINE old == call[w]
           new == call'[w]
           o == call[w].order
<1>0. /\ old.pc # "idle" /\ old # Idle
      /\ \A v \in Workers \ {w} : call'[v] = call[v]
      /\ new = Idle \/ (new.pc # "idle" /\ new.op = old.op /\ new.order = o)
      /\ o \in Orders
      /\ status \in [Orders -> OrderStatus \cup {"absent"}]
      /\ begun' = begun
  <2>1. old.pc # "idle" /\ old # Idle
    BY DEF Advance, Idle
  <2>2. /\ \A v \in Workers \ {w} : call'[v] = call[v]
        /\ new = Idle \/ (new.pc # "idle" /\ new.op = old.op /\ new.order = o)
    BY DEF Advance
  <2> QED
    BY <2>1, <2>2, BegunRecord DEF Writes, TypeOK
<1>1. RowsExclusive'
  <2> SUFFICES ASSUME NEW v \in Workers, NEW u \in Workers, u # v
               PROVE  call'[v].rows \cap call'[u].rows = {}
    BY DEF RowsExclusive
  <2>1. \A x \in Workers \ {w} : new.rows \cap call[x].rows = {}
    BY DEF Advance, Idle, RowFree, OrderInv, RowsExclusive
  <2> QED
    BY <1>0, <2>1 DEF OrderInv, RowsExclusive
<1>2. SaleChecked'
  <2> SUFFICES ASSUME NEW v \in Workers, call'[v].pc = "sell",
                      NEW i \in FirstLines(call'[v].order), i \notin call'[v].todo
               PROVE  LET t == Items[call'[v].order][i].ticket IN
                      t \in call'[v].rows /\ sold'[t] + Need(call'[v].order, t) <= Quota[t]
    BY DEF SaleChecked, At, Ticket, Fits
  <2>1. CASE v = w
    <3>1. UNCHANGED sold /\ new.order = o
      BY <1>0, <2>1 DEF Writes, Idle
    <3>2. CASE /\ old.pc = "payread" /\ new.todo = FirstLines(o)
      BY <2>1, <3>1, <3>2
    <3>3. CASE /\ old.pc = "sell"
               /\ \E j \in old.todo : /\ new.todo = old.todo \ {j}
                                      /\ new.rows = old.rows \cup {Ticket(w, j)}
                                      /\ Fits(o, Ticket(w, j))
      <4>1. PICK j \in old.todo : /\ new.todo = old.todo \ {j}
                                  /\ new.rows = old.rows \cup {Ticket(w, j)}
                                  /\ Fits(o, Ticket(w, j))
        BY <3>3
      <4>2. CASE i = j
        BY <2>1, <3>1, <4>1, <4>2 DEF Ticket, Fits
      <4>3. CASE i # j
        <5>1. i \in FirstLines(o) /\ i \notin old.todo
          BY <2>1, <3>1, <4>1, <4>3
        <5>2. Ticket(w, i) \in old.rows /\ Fits(o, Ticket(w, i))
          BY <3>3, <5>1 DEF OrderInv, SaleChecked, At
        <5> QED
          BY <2>1, <3>1, <4>1, <5>2 DEF Ticket, Fits
      <4> QED
        BY <4>2, <4>3
    <3> QED
      BY <2>1, <3>2, <3>3 DEF Advance, Idle
  <2>2. CASE v # w
    <3> DEFINE q == call[v].order
               t == Ticket(v, i)
    <3>1. call'[v] = call[v] /\ call[v].pc = "sell"
      BY <1>0, <2>2
    <3>2. t \in call[v].rows /\ sold[t] + Need(q, t) <= Quota[t]
      BY <3>1 DEF OrderInv, SaleChecked, At, Fits
    <3>3. sold'[t] = sold[t]
      <4>1. t \in Tickets
        BY <3>1, <3>2, CallFields
      <4>2. CASE sold' = SoldAfter(o) /\ old.pc = "sell" /\ old.todo = {}
        <5>1. t \notin old.rows
          BY <2>2, <3>2 DEF OrderInv, RowsExclusive
        <5>2. \A j \in FirstLines(o) : Items[o][j].ticket # t
          BY <4>2, <5>1 DEF OrderInv, SaleChecked, At, Ticket
        <5>3. LinesOf(o, t) = {}
          BY <1>0, <5>2, FirstLineExists
        <5>4. Need(o, t) = 0
          BY <1>0, <4>1, <5>3, NeedFacts
        <5> QED
          BY <4>1, <4>2, <5>4 DEF SoldAfter, TypeOK
      <4>3. CASE old.pc = "reread" /\ (status[o] # "PAID" => UNCHANGED sold)
        BY <4>3 DEF OrderInv, ReleasesEnded, At, Ended
      <4> QED
        BY <4>2, <4>3 DEF Writes
    <3> QED
      BY <3>1, <3>2, <3>3 DEF Ticket
  <2> QED
    BY <2>1, <2>2
<1>3. CreatedOnce'
  <2>1. \A p \in Orders : status[p] # "absent" => status'[p] # "absent"
    BY <1>0 DEF Writes, PaidIfPending, Ended
  <2>2. ASSUME NEW v \in Workers, call'[v] # Idle
        PROVE  /\ call[v] # Idle
               /\ call'[v].op = call[v].op /\ call'[v].order = call[v].order
    BY <1>0, <2>2
  <2>3. ASSUME NEW v \in Workers, call'[v] # Idle, call'[v].op # "create"
        PROVE  status'[call'[v].order] # "absent"
    <3>1. call[v].order \in Orders /\ status[call[v].order] # "absent"
      BY <2>2, <2>3, CallBegun, BegunRecord DEF OrderInv, CreatedOnce, TypeOK, CallsTyped
    <3> QED
      BY <2>1, <2>2, <2>3, <3>1
  <2>4. \A v \in Workers : call'[v] # Idle /\ call'[v].op = "create" => call'[v].order \in begun'
    BY <1>0, <2>2 DEF OrderInv, CreatedOnce
  <2>5. \A v, u \in Workers :
          /\ call'[v] # Idle /\ call'[u] # Idle
          /\ call'[v].op = "create" /\ call'[u].op = "create"
          /\ call'[v].order = call'[u].order
          => v = u
    BY <2>2 DEF OrderInv, CreatedOnce
  <2>6. \A p \in Orders : status'[p] # "absent" => p \in begun'
    <3>1. o \in begun
      BY <1>0 DEF OrderInv, CreatedOnce
    <3>2. \A p \in Orders \ {o} : status'[p] = status[p]
      BY <1>0 DEF Writes, PaidIfPending
    <3> QED
      BY <1>0, <3>1, <3>2 DEF OrderInv, CreatedOnce
  <2> QED
    BY <2>3, <2>4, <2>5, <2>6 DEF CreatedOnce
<1>4. ASSUME NEW v \in Workers, call'[v].pc # "idle", call'[v].op = "create",
             call'[v].order \in Orders, status[call'[v].order] = "absent",
             call'[v].pc \in BeforeCommit \cup {"release"}
      PROVE  status'[call'[v].order] = "absent"
  <2>1. /\ call[v] # Idle /\ call[v].op = "create"
        /\ call'[v].order = call[v].order
    BY <1>0, <1>4, CallBegun DEF TypeOK, CallsTyped, Idle
  <2>2. CASE call[v].order # o
    BY <1>0, <1>4, <2>1, <2>2 DEF Writes, PaidIfPending
  <2>3. CASE call[v].order = o
    <3>1. old.op = "create"
      BY <1>0, <1>4, <2>1, <2>3 DEF OrderInv, CreatedOnce
    <3>2. v = w
      BY <1>0, <2>1, <2>3, <3>1 DEF OrderInv, CreatedOnce
    <3> QED
      BY <1>0, <1>4, <2>1, <2>3, <3>2 DEF Writes, PaidIfPending, BeforeCommit, Idle
  <2> QED
    BY <2>2, <2>3
<1>5. AbsentBeforeCommit'
  <2> SUFFICES ASSUME NEW v \in Workers, call'[v].pc \in BeforeCommit
               PROVE  /\ call'[v].op = "create" /\ call'[v].rounds = 0
                      /\ status'[call'[v].order] = "absent"
    BY DEF AbsentBeforeCommit, BeforeCommit
  <2>1. /\ call[v].pc \in BeforeCommit
        /\ call'[v].op = call[v].op /\ call'[v].order = call[v].order
        /\ call'[v].rounds = call[v].rounds
    BY <1>0 DEF Advance, Idle, BeforeCommit
  <2>2. call[v].op = "create" /\ call[v].rounds = 0 /\ status[call[v].order] = "absent"
    BY <2>1 DEF OrderInv, AbsentBeforeCommit, BeforeCommit
  <2>3. call[v].order \in Orders
    BY <2>1, BegunRecord DEF BeforeCommit
  <2> QED
    BY <1>4, <2>1, <2>2, <2>3 DEF BeforeCommit
<1>6. ReleasesEnded'
  <2>1. \A p \in Orders : status[p] \in Ended => status'[p] \in Ended
    <3>1. old.pc = "commit" => status[o] = "absent"
      BY DEF OrderInv, AbsentBeforeCommit
    <3> QED
      BY <1>0, <3>1 DEF Writes, PaidIfPending, Ended
  <2>2. ASSUME NEW v \in Workers, call'[v].pc = "reread"
        PROVE  status'[call'[v].order] \in Ended
    <3>1. CASE v # w
      <4>1. call'[v] = call[v] /\ call[v].order \in Orders
        BY <1>0, <2>2, <3>1, BegunRecord
      <4> QED
        BY <2>1, <2>2, <4>1 DEF OrderInv, ReleasesEnded, At
    <3>2. CASE v = w
      <4>1. new.order = o /\ new # Idle
        BY <1>0, <2>2, <3>2 DEF Idle
      <4>2. CASE old.pc = "save"
        BY <1>0, <3>2, <4>1, <4>2 DEF Writes
      <4>3. CASE old.pc = "read" /\ status[o] = "EXPIRED"
        BY <1>0, <2>1, <3>2, <4>1, <4>3 DEF Ended
      <4>4. CASE old.pc = "release" /\ old.rounds > 0
        <5>1. old.rounds # 0
          BY <4>4
        <5> QED
          BY <1>0, <2>1, <3>2, <4>1, <4>4, <5>1 DEF OrderInv, ReleasesEnded, At
      <4> QED
        BY <2>2, <3>2, <4>1, <4>2, <4>3, <4>4 DEF Advance
    <3> QED
      BY <3>1, <3>2
  <2>3. ASSUME NEW v \in Workers, call'[v].pc = "release"
        PROVE  \/ status'[call'[v].order] \in Ended
               \/ /\ status'[call'[v].order] = "absent"
                  /\ call'[v].op = "create" /\ call'[v].rounds = 0
    <3>1. /\ call'[v].order = call[v].order /\ call'[v].op = call[v].op
          /\ call[v].pc # "idle" /\ call[v].order \in Orders
      BY <1>0, <2>3, BegunRecord DEF Idle
    <3>2. \/ call[v].pc \in BeforeCommit \cup {"release"} /\ call'[v].rounds = call[v].rounds
          \/ call[v].pc = "reread"
      BY <1>0, <2>3 DEF Advance, Idle
    <3>3. \/ status[call[v].order] \in Ended
          \/ /\ status[call[v].order] = "absent" /\ call'[v].op = "create"
             /\ call'[v].rounds = 0
      BY <3>1, <3>2 DEF OrderInv, AbsentBeforeCommit, ReleasesEnded, BeforeCommit, At
    <3> QED
      BY <1>4, <2>1, <2>3, <3>1, <3>3
  <2> QED
    BY <2>2, <2>3 DEF ReleasesEnded, At
<1> QED
  BY <1>1, <1>2, <1>3, <1>5, <1>6 DEF OrderInv

\* What the beginning of a call does.
LEMMA Beginning ==
  ASSUME TypeOK, NEW w \in Workers, NEW o \in Orders, Begin(w, o)
  PROVE  LET new == call'[w] IN
         /\ call[w] = Idle
         /\ \A v \in Workers \ {w} : call'[v] = call[v]
         /\ UNCHANGED <<status, sold>>
         /\ new.pc # "idle" /\ new.order = o /\ new.rows = {} /\ new.rounds = 0
         /\ \/ /\ new.op = "create" /\ new.pc = "row"
               /\ o \notin begun /\ begun' = begun \cup {o}
            \/ /\ new.op # "create" /\ status[o] = "PENDING" /\ begun' = begun
               /\ new.pc = "read" \/ (new.pc = "sell" /\ new.todo = FirstLines(o))
         /\ ~Overlap => Untouched(o)
<1>1. /\ UNCHANGED <<status, sold>>
      /\ \/ /\ Start(w, o, "create", "row", {})
            /\ o \notin begun /\ begun' = begun \cup {o}
         \/ /\ status[o] = "PENDING" /\ begun' = begun
            /\ \/ Start(w, o, "paid", "sell", FirstLines(o))
               \/ \E op \in {"expired", "failed", "cancel", "cron"} : Start(w, o, op, "read", {})
  BY DEF Begin, BeginCreate, StartPaid, StartExpired, StartFailed, StartCancel, StartCron,
         dbVars, orderVars
<1>2. DOMAIN call = Workers
  BY DEF TypeOK, CallsTyped
<1>3. ASSUME NEW op, NEW stage, NEW todo, Start(w, o, op, stage, todo)
      PROVE  /\ call[w] = Idle /\ (~Overlap => Untouched(o))
             /\ \A v \in Workers \ {w} : call'[v] = call[v]
             /\ call'[w].op = op /\ call'[w].pc = stage /\ call'[w].todo = todo
             /\ call'[w].order = o /\ call'[w].rows = {} /\ call'[w].rounds = 0
  BY <1>2, <1>3 DEF Start, NewCall, Free
<1>4. CASE Start(w, o, "create", "row", {}) /\ o \notin begun /\ begun' = begun \cup {o}
  BY <1>1, <1>3, <1>4
<1>5. CASE status[o] = "PENDING" /\ begun' = begun /\ Start(w, o, "paid", "sell", FirstLines(o))
  BY <1>1, <1>3, <1>5
<1>6. CASE /\ status[o] = "PENDING" /\ begun' = begun
           /\ \E op \in {"expired", "failed", "cancel", "cron"} : Start(w, o, op, "read", {})
  <2>1. PICK op \in {"expired", "failed", "cancel", "cron"} : Start(w, o, op, "read", {})
    BY <1>6
  <2> QED
    BY <1>1, <1>3, <1>6, <2>1
<1> QED
  BY <1>1, <1>4, <1>5, <1>6

\* The beginning of a call keeps the invariant.
LEMMA OrderInvBegin ==
  ASSUME TypeOK, OrderInv, NEW w \in Workers, NEW o \in Orders, Begin(w, o)
  PROVE  OrderInv'
<1> DEFINE new == call'[w]
<1>0. /\ call[w] = Idle
      /\ \A v \in Workers \ {w} : call'[v] = call[v]
      /\ UNCHANGED <<status, sold>>
      /\ new.pc # "idle" /\ new.order = o /\ new.rows = {} /\ new.rounds = 0
      /\ \/ /\ new.op = "create" /\ new.pc = "row"
            /\ o \notin begun /\ begun' = begun \cup {o}
         \/ /\ new.op # "create" /\ status[o] = "PENDING" /\ begun' = begun
            /\ new.pc = "read" \/ (new.pc = "sell" /\ new.todo = FirstLines(o))
  BY Beginning
<1>1. RowsExclusive'
  BY <1>0 DEF OrderInv, RowsExclusive
<1>2. SaleChecked'
  BY <1>0 DEF OrderInv, SaleChecked, At, Ticket, Fits
<1>3. CreatedOnce'
  BY <1>0 DEF OrderInv, CreatedOnce, Idle
<1>4. AbsentBeforeCommit'
  <2>1. new.pc = "row" => status[o] = "absent"
    BY <1>0 DEF OrderInv, CreatedOnce
  <2> QED
    BY <1>0, <2>1 DEF OrderInv, AbsentBeforeCommit
<1>5. ReleasesEnded'
  BY <1>0 DEF OrderInv, ReleasesEnded, At
<1> QED
  BY <1>1, <1>2, <1>3, <1>4, <1>5 DEF OrderInv

\* The initial state has it.
LEMMA OrderInvInit == Init => OrderInv
  BY DEF Init, OrderInv, RowsExclusive, SaleChecked, CreatedOnce, AbsentBeforeCommit,
         ReleasesEnded, At, Idle

\* A step of nobody's call: time passes, or a key of Redis vanishes.
LEMMA OrderInvUnmoved ==
  ASSUME OrderInv, UNCHANGED <<call, status, sold, begun>>
  PROVE  OrderInv'
  BY DEF OrderInv, RowsExclusive, SaleChecked, CreatedOnce, AbsentBeforeCommit, ReleasesEnded,
         At, Ticket, Fits

\* A step is the step of a call, its beginning, or nobody's.
LEMMA Steps ==
  ASSUME TypeOK, [Next]_vars
  PROVE  \/ \E w \in Workers : Advance(w) /\ Writes(w)
         \/ \E w \in Workers, o \in Orders : Begin(w, o)
         \/ UNCHANGED <<call, status, sold, begun>>
<1>1. ASSUME NEW w \in Workers, Step(w) \/ Fault(w)
      PROVE  Advance(w) /\ Writes(w)
  BY <1>1, CreateAdvances, PaymentAdvances, EndAdvances, FaultAdvances, StepWrites DEF Step
<1>2. ASSUME NEW o \in Orders, FallDue(o) PROVE UNCHANGED <<call, status, sold, begun>>
  BY <1>2 DEF FallDue, dbVars
<1>3. ASSUME NEW t \in Tickets, NEW o \in Orders, LockExpires(t, o)
      PROVE  UNCHANGED <<call, status, sold, begun>>
  BY <1>3 DEF LockExpires, dbVars, orderVars
<1>4. ASSUME UNCHANGED vars PROVE UNCHANGED <<call, status, sold, begun>>
  BY <1>4 DEF vars, dbVars, orderVars
<1> QED
  BY <1>1, <1>2, <1>3, <1>4 DEF Next

\* Every step keeps it.
LEMMA OrderInvNext == TypeOK /\ OrderInv /\ [Next]_vars => OrderInv'
  BY Steps, OrderInvAdvance, OrderInvBegin, OrderInvUnmoved

\* What the calls in progress rely on holds in every reachable state, whatever
\* calls overlap and fail: a sale holds the rows it has compared until it
\* commits, one call creates an order, and only orders that have ended, or
\* never came to be, are released.
THEOREM OrderInvariant == Spec => []OrderInv
  BY TypeCorrect, OrderInvInit, OrderInvNext, PTL DEF Spec

(***************************************************************************)
(* What the invariant is for.                                              *)
(***************************************************************************)

\* A sale that commits has room for every ticket it counts.
LEMMA SaleFits ==
  ASSUME TypeOK, OrderInv, NEW w \in Workers, call[w].pc = "sell", call[w].todo = {},
         NEW t \in Tickets
  PROVE  /\ Need(call[w].order, t) \in Nat
         /\ Need(call[w].order, t) # 0 => sold[t] + Need(call[w].order, t) <= Quota[t]
<1> DEFINE o == call[w].order
<1>1. o \in Orders /\ Need(o, t) \in Nat
  BY BegunRecord, NeedFacts
<1>2. CASE LinesOf(o, t) = {}
  BY <1>1, <1>2, NeedFacts
<1>3. CASE LinesOf(o, t) # {}
  <2>1. PICK i \in FirstLines(o) : Items[o][i].ticket = t
    BY <1>1, <1>3, FirstLineExists
  <2>2. Fits(o, t)
    BY <2>1 DEF OrderInv, SaleChecked, At, Ticket
  <2> QED
    BY <1>1, <2>2 DEF Fits
<1> QED
  BY <1>2, <1>3

\* How a step changes `sold`.
LEMMA SoldChange ==
  ASSUME TypeOK, OrderInv, [Next]_vars, NEW t \in Tickets
  PROVE  \/ sold'[t] = sold[t]
         \/ sold[t] <= sold'[t] /\ sold'[t] <= Quota[t]
<1>1. ASSUME NEW w \in Workers, Writes(w)
      PROVE  \/ sold'[t] = sold[t]
             \/ sold[t] <= sold'[t] /\ sold'[t] <= Quota[t]
  <2>1. CASE /\ call[w].pc = "sell" /\ call[w].todo = {}
             /\ sold' = SoldAfter(call[w].order)
    <3>1. sold'[t] = sold[t] + Need(call[w].order, t) /\ sold[t] \in Nat
      BY <2>1 DEF SoldAfter, TypeOK
    <3> QED
      BY <2>1, <3>1, SaleFits
  <2>2. CASE call[w].pc = "reread" /\ (status[call[w].order] # "PAID" => UNCHANGED sold)
    BY <2>2 DEF OrderInv, ReleasesEnded, At, Ended
  <2> QED
    BY <1>1, <2>1, <2>2 DEF Writes
<1>2. ASSUME NEW w \in Workers, NEW o \in Orders, Begin(w, o) PROVE UNCHANGED sold
  BY <1>2, Beginning
<1> QED
  BY <1>1, <1>2, Steps

\* No tickets are sold beyond the quota of their type: of the sales that
\* overlap each holds the rows it compared.
THEOREM QuotaKept == Spec => []NoOversell
<1>1. Init => NoOversell
  BY OrdersAssumption DEF Init, NoOversell
<1>2. TypeOK /\ OrderInv /\ NoOversell /\ [Next]_vars => NoOversell'
  <2> SUFFICES ASSUME TypeOK, OrderInv, NoOversell, [Next]_vars, NEW t \in Tickets
               PROVE  sold'[t] <= Quota[t]
    BY DEF NoOversell
  <2> QED
    BY SoldChange DEF NoOversell
<1> QED
  BY <1>1, <1>2, TypeCorrect, OrderInvariant, PTL DEF Spec

\* Units sold stay sold: releaseTicketQuotas, which takes the units of a PAID
\* order off `sold`, never meets one.
THEOREM SoldMonotonic == Spec => SoldNeverFalls
<1>1. TypeOK /\ OrderInv /\ [Next]_vars => [\A t \in Tickets : sold'[t] >= sold[t]]_sold
  <2> SUFFICES ASSUME TypeOK, OrderInv, [Next]_vars, NEW t \in Tickets
               PROVE  sold'[t] >= sold[t]
    OBVIOUS
  <2>1. sold[t] \in Nat /\ sold'[t] \in Nat
    BY TypeNext DEF TypeOK
  <2> QED
    BY <2>1, SoldChange
<1> QED
  BY <1>1, TypeCorrect, OrderInvariant, PTL DEF Spec, SoldNeverFalls

\* An order that has expired or been cancelled is never revived, by a payment
\* that read it before or by the request that created it.
THEOREM NoRevival == Spec => EndedStaysEnded
<1> DEFINE Keeps == \A o \in Orders : status[o] \in Ended => status'[o] \in Ended
<1>1. TypeOK /\ OrderInv /\ [Next]_vars => [Keeps]_status
  <2> SUFFICES ASSUME TypeOK, OrderInv, [Next]_vars PROVE Keeps
    OBVIOUS
  <2>1. ASSUME NEW w \in Workers, Advance(w), Writes(w) PROVE Keeps
    <3>1. call[w].pc = "commit" => status[call[w].order] = "absent"
      BY DEF OrderInv, AbsentBeforeCommit
    <3>2. status \in [Orders -> OrderStatus \cup {"absent"}]
      BY DEF TypeOK
    <3> QED
      BY <2>1, <3>1, <3>2 DEF Writes, PaidIfPending, Ended
  <2>2. ASSUME NEW w \in Workers, NEW o \in Orders, Begin(w, o) PROVE Keeps
    BY <2>2, Beginning
  <2> QED
    BY <2>1, <2>2, Steps
<1>2. EndedStaysEnded <=> [][Keeps]_status
  BY DEF EndedStaysEnded, Ended
<1> QED
  BY <1>1, <1>2, TypeCorrect, OrderInvariant, PTL DEF Spec

(***************************************************************************)
(* Calls on one order that do not overlap.                                 *)
(***************************************************************************)

\* A call that is about to write the status of its order finds it as it read
\* it: the calls on one order that the code does not keep apart are its only
\* threat.
THEOREM SerialInvariant == ASSUME ~Overlap PROVE Spec => []SerialInv
<1>1. Init => SerialInv
  BY DEF Init, SerialInv, Idle
<1>2. TypeOK /\ SerialInv /\ [Next]_vars => SerialInv'
  <2> SUFFICES ASSUME TypeOK, SerialInv, [Next]_vars PROVE SerialInv'
    OBVIOUS
  <2>1. ASSUME NEW w \in Workers, Advance(w), Writes(w) PROVE SerialInv'
    <3> DEFINE old == call[w]
               new == call'[w]
               o == call[w].order
    <3>0. /\ old.pc # "idle" /\ old # Idle
          /\ \A v \in Workers \ {w} : call'[v] = call[v]
          /\ new = Idle \/ (new.pc # "idle" /\ new.op = old.op /\ new.order = o)
      BY <2>1 DEF Advance, Idle
    <3>1. \A v, u \in Workers :
            call'[v] # Idle /\ call'[u] # Idle /\ call'[v].order = call'[u].order => v = u
      BY <3>0 DEF SerialInv
    <3>2. ASSUME NEW v \in Workers, call'[v].pc \in {"sell", "save"}
          PROVE  status'[call'[v].order] = "PENDING"
      <4>1. CASE v = w
        <5>1. new.order = o /\ UNCHANGED status
          BY <2>1, <3>0, <3>2, <4>1 DEF Writes, Idle
        <5>2. status[o] = "PENDING"
          BY <2>1, <3>0, <3>2, <4>1 DEF Advance, SerialInv, Idle
        <5> QED
          BY <4>1, <5>1, <5>2
      <4>2. CASE v # w
        <5>1. call'[v] = call[v] /\ status[call[v].order] = "PENDING" /\ call[v] # Idle
          BY <3>0, <3>2, <4>2 DEF SerialInv, Idle
        <5>2. call[v].order # o
          BY <3>0, <4>2, <5>1 DEF SerialInv
        <5>3. \A p \in Orders \ {o} : status'[p] = status[p]
          BY <2>1 DEF Writes, PaidIfPending, TypeOK
        <5>4. call[v].order \in Orders
          BY <3>2, <5>1, BegunRecord
        <5> QED
          BY <5>1, <5>2, <5>3, <5>4
      <4> QED
        BY <4>1, <4>2
    <3> QED
      BY <3>1, <3>2 DEF SerialInv
  <2>2. ASSUME NEW w \in Workers, NEW o \in Orders, Begin(w, o) PROVE SerialInv'
    <3>1. /\ Untouched(o) /\ call[w] = Idle
          /\ \A v \in Workers \ {w} : call'[v] = call[v]
          /\ UNCHANGED status /\ call'[w].order = o
          /\ call'[w].pc \in {"sell", "save"} => status[o] = "PENDING"
      BY <2>2, Beginning
    <3> QED
      BY <3>1 DEF SerialInv, Untouched
  <2>3. CASE UNCHANGED <<call, status, sold, begun>>
    BY <2>3 DEF SerialInv
  <2> QED
    BY <2>1, <2>2, <2>3, Steps
<1> QED
  BY <1>1, <1>2, TypeCorrect, PTL DEF Spec

\* What the database shows of a step: an order is placed, paid or ended, or
\* nothing happens.
LEMMA StepRefines ==
  ASSUME TypeOK, OrderInv, SerialInv, [Next]_vars
  PROVE  [Book!Next]_<<status, sold, Quota>>
<1>1. ASSUME NEW w \in Workers, Advance(w), Writes(w)
      PROVE  Book!Next \/ UNCHANGED <<status, sold, Quota>>
  <2> DEFINE o == call[w].order
  <2>0. o \in Orders
    BY <1>1, BegunRecord DEF Advance
  <2>1. CASE call[w].pc = "commit" /\ status' = [status EXCEPT ![o] = "PENDING"] /\ UNCHANGED sold
    <3>1. Book!Place(o)
      BY <2>1 DEF OrderInv, AbsentBeforeCommit, Book!Place
    <3> QED
      BY <2>0, <3>1 DEF Book!Next
  <2>2. CASE /\ call[w].pc = "sell" /\ call[w].todo = {}
             /\ status' = PaidIfPending(o) /\ sold' = SoldAfter(o)
    <3>1. status[o] = "PENDING"
      BY <2>2 DEF SerialInv
    <3>2. \A t \in Tickets : Need(o, t) # 0 => sold[t] + Need(o, t) <= Quota[t]
      BY <2>2, SaleFits
    <3>3. Book!Pay(o)
      BY <2>0, <2>2, <3>1, <3>2 DEF PaidIfPending, SoldAfter, Book!Pay, Book!PayFor
    <3> QED
      BY <2>0, <3>3 DEF Book!Next
  <2>3. CASE /\ call[w].pc = "save" /\ UNCHANGED sold
             /\ \E s \in Ended : status' = [status EXCEPT ![o] = s]
    <3>1. Book!End(o)
      BY <2>3 DEF SerialInv, Ended, Book!End
    <3> QED
      BY <2>0, <3>1 DEF Book!Next
  <2>4. CASE /\ call[w].pc = "reread" /\ UNCHANGED status
             /\ status[o] # "PAID" => UNCHANGED sold
    BY <2>4 DEF OrderInv, ReleasesEnded, At, Ended
  <2> QED
    BY <1>1, <2>1, <2>2, <2>3, <2>4 DEF Writes
<1>2. ASSUME NEW w \in Workers, NEW o \in Orders, Begin(w, o) PROVE UNCHANGED <<status, sold, Quota>>
  BY <1>2, Beginning
<1> QED
  BY <1>1, <1>2, Steps

\* If calls on one order do not overlap, the service implements the order
\* book: it places, pays and ends orders in single steps, and what is paid or
\* ended is final.
THEOREM SerialImplements == ASSUME ~Overlap PROVE Spec => ImplementsOrderBook
<1>1. Init => Book!Init
  BY DEF Init, Book!Init
<1>2. TypeOK /\ OrderInv /\ SerialInv /\ [Next]_vars
        => [Book!Next]_(Book!bookVars)
  BY StepRefines DEF Book!bookVars
<1> QED
  BY <1>1, <1>2, TypeCorrect, OrderInvariant, SerialInvariant, PTL
     DEF Spec, ImplementsOrderBook, Book!Spec

\* If calls on one order do not overlap, PAID, EXPIRED and CANCELLED are final.
THEOREM SerialFinal == ASSUME ~Overlap PROVE Spec => FinalStatesStay
<1> DEFINE Stay == \A o \in Orders :
                     status[o] \in {"PAID", "EXPIRED", "CANCELLED"} => status'[o] = status[o]
<1>1. TypeOK /\ OrderInv /\ SerialInv /\ [Next]_vars => [Stay]_status
  <2> SUFFICES ASSUME TypeOK, [Book!Next]_<<status, sold, Quota>> PROVE Stay
    BY StepRefines
  <2>1. status \in [Orders -> OrderStatus \cup {"absent"}]
    BY DEF TypeOK
  <2> QED
    BY <2>1 DEF Book!Next, Book!Place, Book!Pay, Book!PayFor, Book!End
<1>2. FinalStatesStay <=> [][Stay]_status
  BY DEF FinalStatesStay
<1> QED
  BY <1>1, <1>2, TypeCorrect, OrderInvariant, SerialInvariant, PTL DEF Spec

(***************************************************************************)
(* What is sold, and the orders that have paid for it.                     *)
(***************************************************************************)

\* Units of a set of orders: a number, nothing for no orders, and one order
\* more adds what it needs.
LEMMA UnitsFacts ==
  ASSUME NEW S \in SUBSET Orders, NEW t \in Tickets
  PROVE  /\ UnitsOf(S, t) \in Nat
         /\ S = {} => UnitsOf(S, t) = 0
         /\ \A o \in S : UnitsOf(S, t) = Need(o, t) + UnitsOf(S \ {o}, t)
         /\ \A o \in Orders \ S : UnitsOf(S \cup {o}, t) = UnitsOf(S, t) + Need(o, t)
<1> DEFINE f == [o \in Orders |-> Need(o, t)]
<1>1. \A T \in SUBSET Orders : IsFiniteSet(T)
  BY OrdersAssumption, FS_Subset
<1>2. \A o \in Orders : f[o] = Need(o, t) /\ f[o] \in Nat
  BY NeedFacts
<1>3. \A T \in SUBSET Orders : UnitsOf(T, t) = SumFunctionOnSet(f, T)
  BY DEF UnitsOf
<1> HIDE DEF f
<1>4. \A T \in SUBSET Orders : UnitsOf(T, t) \in Nat
  BY <1>1, <1>2, <1>3, SumIsNat
<1>5. ASSUME NEW T \in SUBSET Orders, NEW o \in T
      PROVE  UnitsOf(T, t) = Need(o, t) + UnitsOf(T \ {o}, t)
  <2>1. SumFunctionOnSet(f, T) = f[o] + SumFunctionOnSet(f, T \ {o})
    BY <1>1, <1>2, SumSplits
  <2> QED
    BY <1>2, <1>3, <2>1
<1>6. ASSUME NEW o \in Orders \ S
      PROVE  UnitsOf(S \cup {o}, t) = UnitsOf(S, t) + Need(o, t)
  <2>1. (S \cup {o}) \ {o} = S /\ S \cup {o} \in SUBSET Orders /\ o \in S \cup {o}
    OBVIOUS
  <2>2. UnitsOf(S \cup {o}, t) = Need(o, t) + UnitsOf(S, t)
    BY <1>5, <2>1
  <2> QED
    BY <1>2, <1>4, <2>2
<1>7. S = {} => UnitsOf(S, t) = 0
  BY <1>3, SumOfNone
<1> QED
  BY <1>4, <1>5, <1>6, <1>7

\* An order that gets a status joins the orders that have it, and one that
\* loses a status leaves them.
LEMMA HavingChange ==
  ASSUME TypeOK, NEW o \in Orders, NEW s, status' = [status EXCEPT ![o] = s], NEW r
  PROVE  Having(r)' = IF s = r THEN Having(r) \cup {o} ELSE Having(r) \ {o}
  BY DEF Having, TypeOK

\* `sold` covers what is paid for, also when payments are counted twice
\* because the calls on an order overlap, or an order is paid and cancelled at
\* the same time.
THEOREM PaidAreSold == Spec => []SoldCoversPaid
<1>1. Init => SoldCoversPaid
  <2> SUFFICES ASSUME Init, NEW t \in Tickets PROVE UnitsOf(Having("PAID"), t) <= sold[t]
    BY DEF SoldCoversPaid
  <2>1. Having("PAID") = {} /\ sold[t] = 0
    BY DEF Init, Having
  <2> QED
    BY <2>1, UnitsFacts
<1>2. TypeOK /\ OrderInv /\ SoldCoversPaid /\ [Next]_vars => SoldCoversPaid'
  <2> SUFFICES ASSUME TypeOK, OrderInv, SoldCoversPaid, [Next]_vars, NEW t \in Tickets
               PROVE  UnitsOf(Having("PAID")', t) <= sold'[t]
    BY DEF SoldCoversPaid, UnitsOf, Having
  <2> DEFINE S == Having("PAID")
             n == UnitsOf(S, t)
  <2>0. /\ S \in SUBSET Orders /\ n <= sold[t] /\ n \in Nat
        /\ sold[t] \in Nat /\ sold'[t] \in Nat
    BY UnitsFacts, TypeNext DEF Having, SoldCoversPaid, TypeOK
  <2>1. ASSUME S' = S PROVE UnitsOf(S', t) <= sold'[t]
    BY <2>0, <2>1, SoldChange
  <2>2. ASSUME NEW o \in Orders, S' = S \ {o} PROVE UnitsOf(S', t) <= sold'[t]
    <3>1. UnitsOf(S \ {o}, t) \in Nat /\ UnitsOf(S \ {o}, t) <= n
      <4>1. CASE o \in S
        <5>1. n = Need(o, t) + UnitsOf(S \ {o}, t)
          BY <2>0, <4>1, UnitsFacts
        <5>2. UnitsOf(S \ {o}, t) \in Nat /\ Need(o, t) \in Nat
          BY <2>0, UnitsFacts, NeedFacts
        <5> QED
          BY <2>0, <5>1, <5>2
      <4>2. CASE o \notin S
        <5>1. S \ {o} = S
          BY <4>2
        <5> QED
          BY <2>0, <5>1
      <4> QED
        BY <4>1, <4>2
    <3> QED
      BY <2>0, <2>2, <3>1, SoldChange
  <2>3. ASSUME NEW w \in Workers, Advance(w), Writes(w) PROVE UnitsOf(S', t) <= sold'[t]
    <3> DEFINE o == call[w].order
    <3>0. o \in Orders
      BY <2>3, BegunRecord DEF Advance
    <3>1. CASE status' = [status EXCEPT ![o] = "PENDING"] \/ \E s \in Ended : status' = [status EXCEPT ![o] = s]
      <4>1. ASSUME NEW s \in Ended \cup {"PENDING"}, status' = [status EXCEPT ![o] = s]
            PROVE  S' = S \ {o}
        BY <3>0, <4>1 DEF Having, Ended, TypeOK
      <4> QED
        BY <2>2, <3>0, <3>1, <4>1
    <3>2. CASE status' = PaidIfPending(o) /\ sold' = SoldAfter(o)
      <4>1. CASE status[o] = "PENDING"
        <5>1. S' = S \cup {o} /\ o \notin S
          <6>1. status' = [status EXCEPT ![o] = "PAID"]
            BY <3>2, <4>1 DEF PaidIfPending
          <6>2. Having("PAID")' = Having("PAID") \cup {o}
            BY <3>0, <6>1, HavingChange
          <6> QED
            BY <4>1, <6>2 DEF Having
        <5>2. UnitsOf(S', t) = n + Need(o, t) /\ Need(o, t) \in Nat
          BY <2>0, <3>0, <5>1, UnitsFacts, NeedFacts
        <5>3. sold'[t] = sold[t] + Need(o, t)
          BY <3>2 DEF SoldAfter
        <5> QED
          BY <2>0, <5>2, <5>3
      <4>2. CASE status[o] # "PENDING"
        <5>1. S' = S
          BY <3>2, <4>2 DEF PaidIfPending, Having
        <5> QED
          BY <2>1, <5>1
      <4> QED
        BY <4>1, <4>2
    <3>3. CASE UNCHANGED status
      BY <2>1, <3>3 DEF Having
    <3> QED
      BY <2>3, <3>1, <3>2, <3>3 DEF Writes
  <2>4. ASSUME NEW w \in Workers, NEW o \in Orders, Begin(w, o) PROVE UnitsOf(S', t) <= sold'[t]
    BY <2>1, <2>4, Beginning DEF Having
  <2>5. CASE UNCHANGED status
    BY <2>1, <2>5 DEF Having
  <2> QED
    BY <2>3, <2>4, <2>5, Steps
<1> QED
  BY <1>1, <1>2, TypeCorrect, OrderInvariant, PTL DEF Spec

\* If calls on one order do not overlap, `sold` is exactly what is paid for.
LEMMA SoldIsPaidNext ==
  TypeOK /\ OrderInv /\ SerialInv /\ SoldIsPaid /\ [Next]_vars => SoldIsPaid'
<1> SUFFICES ASSUME TypeOK, SoldIsPaid, [Book!Next]_<<status, sold, Quota>>, NEW t \in Tickets
             PROVE  sold'[t] = UnitsOf(Having("PAID")', t)
  BY StepRefines DEF SoldIsPaid, UnitsOf, Having
<1>0. Having("PAID") \in SUBSET Orders /\ sold[t] = UnitsOf(Having("PAID"), t)
  BY DEF Having, SoldIsPaid
<1>1. ASSUME NEW o \in Orders, Book!Place(o) \/ Book!End(o)
      PROVE  sold' = sold /\ Having("PAID")' = Having("PAID")
  BY <1>1 DEF Book!Place, Book!End, Having, TypeOK
<1>2. ASSUME NEW o \in Orders, Book!Pay(o)
      PROVE  sold'[t] = UnitsOf(Having("PAID")', t)
  <2>1. /\ o \notin Having("PAID") /\ Having("PAID")' = Having("PAID") \cup {o}
        /\ sold'[t] = sold[t] + Need(o, t)
    BY <1>2, HavingChange DEF Book!Pay, Book!PayFor, Having
  <2>2. UnitsOf(Having("PAID") \cup {o}, t) = UnitsOf(Having("PAID"), t) + Need(o, t)
    BY <1>0, <2>1, UnitsFacts
  <2> QED
    BY <1>0, <2>1, <2>2
<1>3. CASE UNCHANGED <<status, sold, Quota>>
  BY <1>0, <1>3 DEF Having
<1> QED
  BY <1>0, <1>1, <1>2, <1>3 DEF Book!Next

THEOREM SerialSold == ASSUME ~Overlap PROVE Spec => []SoldIsPaid
<1>1. Init => SoldIsPaid
  <2> SUFFICES ASSUME Init, NEW t \in Tickets PROVE sold[t] = UnitsOf(Having("PAID"), t)
    BY DEF SoldIsPaid
  <2>1. Having("PAID") = {} /\ sold[t] = 0
    BY DEF Init, Having
  <2> QED
    BY <2>1, UnitsFacts
<1> QED
  BY <1>1, SoldIsPaidNext, TypeCorrect, OrderInvariant, SerialInvariant, PTL DEF Spec

(***************************************************************************)
(* Tickets that a sale has paid for.                                       *)
(***************************************************************************)

\* How the step of a call moves it along a payment, and what it generates.
Pays(w) ==
  LET old == call[w]  new == call'[w]  o == call[w].order IN
  /\ faults <= faults'
  /\ new.pc = "bill" => old.pc = "commit" /\ status' = [status EXCEPT ![o] = "PENDING"]
  /\ new.pc = "payread" => old.pc = "bill"
  /\ new.pc = "read" =>
       old.pc \in {"bill", "sell"} \/ (old.pc = "count" /\ ~MayIssue(o)) \/ faults' > 0
  /\ new.pc = "confirm" =>
       old.pc = "confirm" \/ (old.pc = "sell" /\ sold' = SoldAfter(o) /\ status' = PaidIfPending(o))
  /\ new.pc = "count" => old.pc = "confirm"
  /\ new.pc = "issue" =>
       old.pc = "issue" \/ (old.pc = "count" /\ new.todo = Lines(o) /\ new.got = issued[o])
  /\ new = Idle => \/ old.pc # "confirm" /\ (old.pc = "count" => ~MayIssue(o))
                   \/ faults' > 0
  /\ \/ issued' = issued /\ (old.pc = "issue" => new.pc # "issue" /\ faults' > 0)
     \/ /\ old.pc = "issue" /\ UNCHANGED <<status, sold>>
        /\ \E i \in old.todo :
             /\ issued' = [issued EXCEPT ![o][i] = @ + Missing(w, i)]
             /\ \/ new = Idle /\ old.todo = {i}
                \/ new.pc = "issue" /\ new.got = old.got /\ new.todo = old.todo \ {i}

\* A call that aborts ends or goes on to release what it has taken, one that
\* throws ends or goes on to cancel its order.
LEMMA AbortStage ==
  ASSUME TypeOK, NEW w \in Workers, call[w].pc # "idle", Abort(w)
  PROVE  call'[w] = Idle \/ call'[w].pc = "release"
<1>1. DOMAIN call = Workers /\ call[w] \in CallOn(call[w].order)
  BY BegunRecord
<1> QED
  BY <1>1 DEF Abort, Finish, CallOn

LEMMA ThrowStage ==
  ASSUME TypeOK, NEW w \in Workers, call[w].pc # "idle", PaymentThrows(w)
  PROVE  call'[w] = Idle \/ call'[w].pc = "read"
<1>1. DOMAIN call = Workers /\ call[w] \in CallOn(call[w].order)
  BY BegunRecord
<1> QED
  BY <1>1 DEF PaymentThrows, Finish, CallOn

LEMMA GotoStage ==
  ASSUME TypeOK, NEW w \in Workers, call[w].pc # "idle", NEW stage, Goto(w, stage)
  PROVE  call'[w].pc = stage
<1>1. DOMAIN call = Workers /\ call[w] \in CallOn(call[w].order)
  BY BegunRecord
<1> QED
  BY <1>1 DEF Goto, CallOn

LEMMA ReleasedStage ==
  ASSUME TypeOK, NEW w \in Workers, At(w, "release"), NEW todo, NEW got, Released(w, todo, got)
  PROVE  call'[w] = Idle \/ call'[w].pc \in {"release", "reread"}
<1>1. DOMAIN call = Workers /\ call[w] \in CallOn(call[w].order) /\ call[w].pc = "release"
  BY BegunRecord DEF At
<1>2. CASE todo # {} \/ \E i \in DOMAIN got : got[i] > 0
  BY <1>1, <1>2 DEF Released, CallOn
<1>3. CASE ~(todo # {} \/ \E i \in DOMAIN got : got[i] > 0) /\ call[w].rounds > 0
  BY <1>1, <1>3 DEF Released, CallOn
<1>4. CASE ~(todo # {} \/ \E i \in DOMAIN got : got[i] > 0) /\ ~(call[w].rounds > 0)
  BY <1>1, <1>4 DEF Released
<1> QED
  BY <1>2, <1>3, <1>4

LEMMA CreatePays ==
  ASSUME TypeOK, NEW w \in Workers, CreateStep(w)
  PROVE  Pays(w)
<1> USE DEF At
<1> DEFINE old == call[w]
           new == call'[w]
<1>0. faults \in Int
  BY OrdersAssumption DEF TypeOK
<1>1. CASE CheckLine(w) \/ InitQuota(w) \/ LockLine(w) \/ UndoLine(w) \/ UnsetLine(w)
  <2>1. /\ old.pc \in {"row", "init", "take", "undo", "unset"}
        /\ UNCHANGED <<issued, faults>>
    BY <1>1 DEF CheckLine, InitQuota, LockLine, UndoLine, UnsetLine, dbVars
  <2>2. new = Idle \/ new.pc \in {"row", "init", "take", "undo", "unset", "commit", "release"}
    <3>1. CASE Abort(w)
      BY <2>1, <3>1, AbortStage
    <3>2. CASE \E stage \in {"take", "undo", "unset"} : Goto(w, stage)
      BY <2>1, <3>2, GotoStage
    <3>3. CASE \E rows : call' = [call EXCEPT ![w].pc = "init", ![w].rows = rows]
      BY <2>1, <3>3, BegunRecord DEF CallOn
    <3>4. CASE \E line, stage : /\ call' = [call EXCEPT ![w].line = line, ![w].pc = stage]
                                /\ stage \in {"commit", "row"}
      BY <2>1, <3>4, BegunRecord DEF CallOn
    <3> QED
      BY <1>1, <3>1, <3>2, <3>3, <3>4 DEF CheckLine, InitQuota, LockLine, UndoLine, UnsetLine
  <2> QED
    BY <1>0, <2>1, <2>2 DEF Pays, Idle
<1>2. CASE CommitOrder(w)
  <2>1. /\ old.pc = "commit" /\ new.pc = "bill" /\ UNCHANGED <<issued, faults>>
        /\ status' = [status EXCEPT ![old.order] = "PENDING"]
    BY <1>2, BegunRecord DEF CommitOrder, CallOn
  <2> QED
    BY <1>0, <2>1 DEF Pays, Idle
<1>3. CASE BillOpen(w) \/ BillSettled(w) \/ BillFails(w)
  <2>1. old.pc = "bill" /\ UNCHANGED <<issued, faults>>
    BY <1>3 DEF BillOpen, BillSettled, BillFails, dbVars
  <2>2. new = Idle \/ new.pc \in {"payread", "read"}
    <3>1. CASE Finish(w)
      BY <2>1, <3>1, BegunRecord DEF Finish
    <3>2. CASE Goto(w, "payread") \/ Goto(w, "read")
      BY <2>1, <3>2, GotoStage
    <3> QED
      BY <1>3, <3>1, <3>2 DEF BillOpen, BillSettled, BillFails
  <2> QED
    BY <1>0, <2>1, <2>2 DEF Pays, Idle
<1>4. CASE DeadlockVictim(w)
  <2>1. UNCHANGED <<issued, faults>>
    BY <1>4 DEF DeadlockVictim, dbVars
  <2>2. \/ old.pc = "row" /\ (new = Idle \/ new.pc = "release")
        \/ old.pc = "sell" /\ (new = Idle \/ new.pc = "read")
    BY <1>4, AbortStage, ThrowStage DEF DeadlockVictim
  <2> QED
    BY <1>0, <2>1, <2>2 DEF Pays, Idle
<1> QED
  BY <1>1, <1>2, <1>3, <1>4 DEF CreateStep

LEMMA PaymentPays ==
  ASSUME TypeOK, NEW w \in Workers, PaymentStep(w)
  PROVE  Pays(w)
<1> USE DEF At
<1> DEFINE old == call[w]
           new == call'[w]
<1>0. faults \in Int /\ faults' = faults
  BY OrdersAssumption DEF TypeOK, PaymentStep, PayRead, SellRow, CommitSale, ConfirmLock,
                          CountIssued, IssueLine
<1>1. CASE PayRead(w)
  <2>1. old.pc = "payread" /\ issued' = issued
    BY <1>1 DEF PayRead, dbVars
  <2>2. new = Idle \/ new.pc = "sell"
    BY <1>1, <2>1, BegunRecord DEF PayRead, Finish, CallOn
  <2> QED
    BY <1>0, <2>1, <2>2 DEF Pays, Idle
<1>2. CASE SellRow(w)
  <2>1. old.pc = "sell" /\ issued' = issued
    BY <1>2 DEF SellRow, dbVars
  <2>2. new = Idle \/ new.pc \in {"sell", "read"}
    <3>1. CASE PaymentThrows(w)
      BY <2>1, <3>1, ThrowStage
    <3>2. CASE \E todo, rows : call' = [call EXCEPT ![w].todo = todo, ![w].rows = rows]
      BY <2>1, <3>2, BegunRecord DEF CallOn
    <3> QED
      BY <1>2, <3>1, <3>2 DEF SellRow
  <2> QED
    BY <1>0, <2>1, <2>2 DEF Pays, Idle
<1>3. CASE CommitSale(w)
  <2>1. /\ old.pc = "sell" /\ new.pc = "confirm" /\ issued' = issued
        /\ sold' = SoldAfter(old.order) /\ status' = PaidIfPending(old.order)
    BY <1>3, BegunRecord DEF CommitSale, CallOn
  <2> QED
    BY <1>0, <2>1 DEF Pays, Idle
<1>4. CASE ConfirmLock(w)
  <2>1. old.pc = "confirm" /\ new.pc \in {"count", "confirm"} /\ issued' = issued
    BY <1>4, BegunRecord DEF ConfirmLock, ConfirmNext, CallOn, dbVars
  <2> QED
    BY <1>0, <2>1 DEF Pays, Idle
<1>5. CASE CountIssued(w)
  <2>1. old.pc = "count" /\ issued' = issued
    BY <1>5 DEF CountIssued, dbVars
  <2>2. CASE MayIssue(old.order)
    <3>1. new.pc = "issue" /\ new.todo = Lines(old.order) /\ new.got = issued[old.order]
      BY <1>5, <2>2, BegunRecord DEF CountIssued, CallOn
    <3> QED
      BY <1>0, <2>1, <3>1 DEF Pays, Idle
  <2>3. CASE ~MayIssue(old.order)
    <3>1. new = Idle \/ new.pc = "read"
      BY <1>5, <2>1, <2>3, ThrowStage DEF CountIssued
    <3> QED
      BY <1>0, <2>1, <2>3, <3>1 DEF Pays, Idle
  <2> QED
    BY <2>2, <2>3
<1>6. CASE IssueLine(w)
  <2>1. PICK i \in old.todo :
          /\ issued' = [issued EXCEPT ![old.order][i] = @ + Missing(w, i)]
          /\ IF old.todo = {i}
             THEN Finish(w)
             ELSE call' = [call EXCEPT ![w].todo = @ \ {i}]
    BY <1>6 DEF IssueLine
  <2>2. old.pc = "issue" /\ UNCHANGED <<status, sold>>
    BY <1>6 DEF IssueLine
  <2>3. \/ new = Idle /\ old.todo = {i}
        \/ new.pc = "issue" /\ new.got = old.got /\ new.todo = old.todo \ {i}
    BY <2>1, <2>2, BegunRecord DEF Finish, CallOn
  <2>4. \E j \in old.todo :
          /\ issued' = [issued EXCEPT ![old.order][j] = @ + Missing(w, j)]
          /\ \/ new = Idle /\ old.todo = {j}
             \/ new.pc = "issue" /\ new.got = old.got /\ new.todo = old.todo \ {j}
    BY <2>1, <2>3
  <2>5. new = Idle \/ new.pc = "issue"
    BY <2>3
  <2>6. faults <= faults' /\ new.pc \notin {"bill", "payread", "read", "confirm", "count"}
    BY <1>0, <2>5 DEF Idle
  <2> QED
    BY <2>2, <2>4, <2>6, Zenon DEF Pays
<1> QED
  BY <1>1, <1>2, <1>3, <1>4, <1>5, <1>6 DEF PaymentStep

LEMMA EndPays ==
  ASSUME TypeOK, NEW w \in Workers, EndStep(w)
  PROVE  Pays(w)
<1> USE DEF At
<1> DEFINE old == call[w]
           new == call'[w]
<1>0. faults \in Int /\ UNCHANGED <<faults, issued>>
  BY OrdersAssumption DEF TypeOK, EndStep, ReadStatus, SaveStatus, RereadOrder, GetLock, ReturnLock,
                          dbVars
<1>1. /\ old.pc \in {"read", "save", "reread", "release"}
      /\ new = Idle \/ new.pc \in {"save", "reread", "release"}
  <2>1. CASE ReadStatus(w)
    <3>1. old.pc = "read" /\ (Goto(w, "save") \/ Goto(w, "reread") \/ Finish(w))
      BY <2>1 DEF ReadStatus
    <3> QED
      BY <3>1, GotoStage, BegunRecord DEF Finish
  <2>2. CASE SaveStatus(w) \/ RereadOrder(w)
    BY <2>2, BegunRecord DEF SaveStatus, RereadOrder, CallOn
  <2>3. CASE GetLock(w) \/ ReturnLock(w)
    BY <2>3, ReleasedStage DEF GetLock, ReturnLock
  <2> QED
    BY <2>1, <2>2, <2>3 DEF EndStep
<1> QED
  BY <1>0, <1>1 DEF Pays, Idle

LEMMA FaultPays ==
  ASSUME TypeOK, NEW w \in Workers, Fault(w)
  PROVE  Pays(w)
<1> USE DEF At
<1> DEFINE old == call[w]
           new == call'[w]
<1>0. faults \in Nat /\ faults' = faults + 1 /\ UNCHANGED issued
  BY OrdersAssumption DEF TypeOK, Fault, RedisFails, DatabaseFails, UploadFails, Crash, dbVars
<1>1. CASE RedisFails(w)
  <2>1. \/ old.pc \in {"init", "take", "undo", "unset", "release"}
           /\ (new = Idle \/ new.pc \in {"take", "release", "reread"})
        \/ old.pc = "confirm" /\ new.pc \in {"confirm", "count"}
    <3>1. CASE At(w, "init") /\ Goto(w, "take")
      BY <3>1, GotoStage
    <3>2. CASE call[w].pc \in {"take", "undo", "unset"} /\ Abort(w)
      BY <3>2, AbortStage
    <3>3. CASE At(w, "confirm") /\ \E i \in call[w].todo : ConfirmNext(w, i)
      BY <3>3, BegunRecord DEF ConfirmNext, CallOn
    <3>4. CASE At(w, "release") /\ \E todo, got : Released(w, todo, got)
      BY <3>4, ReleasedStage
    <3> QED
      BY <1>1, <3>1, <3>2, <3>3, <3>4 DEF RedisFails
  <2> QED
    BY <1>0, <2>1 DEF Pays, Idle
<1>2. CASE UploadFails(w)
  <2>1. old.pc = "issue" /\ (new = Idle \/ new.pc = "read")
    BY <1>2, ThrowStage DEF UploadFails
  <2> QED
    BY <1>0, <2>1 DEF Pays, Idle
<1>3. CASE Crash(w)
  <2>1. new = Idle
    BY <1>3 DEF Crash, Finish, TypeOK, CallsTyped
  <2> QED
    BY <1>0, <2>1 DEF Pays, Idle
<1>4. CASE DatabaseFails(w)
  <2>1. \/ old.pc \in {"row", "commit"} /\ (new = Idle \/ new.pc = "release")
        \/ old.pc \in {"payread", "sell"} /\ (new = Idle \/ new.pc = "read")
    BY <1>4, AbortStage, ThrowStage DEF DatabaseFails
  <2> QED
    BY <1>0, <2>1 DEF Pays, Idle
<1> QED
  BY <1>1, <1>2, <1>3, <1>4 DEF Fault

\* The steps once more, with what they generate.
LEMMA PayingSteps ==
  ASSUME TypeOK, [Next]_vars
  PROVE  \/ \E w \in Workers : Advance(w) /\ Writes(w) /\ Pays(w)
         \/ \E w \in Workers, o \in Orders : Begin(w, o) /\ UNCHANGED <<issued, faults>>
         \/ UNCHANGED <<call, status, sold, begun, issued, faults>>
<1>1. ASSUME NEW w \in Workers, Step(w) \/ Fault(w)
      PROVE  Advance(w) /\ Writes(w) /\ Pays(w)
  BY <1>1, CreateAdvances, PaymentAdvances, EndAdvances, FaultAdvances, StepWrites,
     CreatePays, PaymentPays, EndPays, FaultPays DEF Step
<1>2. ASSUME NEW w \in Workers, NEW o \in Orders, Begin(w, o) PROVE UNCHANGED <<issued, faults>>
  BY <1>2 DEF Begin, BeginCreate, StartPaid, StartExpired, StartFailed, StartCancel, StartCron, dbVars
<1>3. ASSUME NEW o \in Orders, FallDue(o) PROVE UNCHANGED <<call, status, sold, begun, issued, faults>>
  BY <1>3 DEF FallDue, dbVars
<1>4. ASSUME NEW t \in Tickets, NEW o \in Orders, LockExpires(t, o)
      PROVE  UNCHANGED <<call, status, sold, begun, issued, faults>>
  BY <1>4 DEF LockExpires, dbVars, orderVars
<1>5. ASSUME UNCHANGED vars PROVE UNCHANGED <<call, status, sold, begun, issued, faults>>
  BY <1>5 DEF vars, dbVars, orderVars
<1> QED
  BY <1>1, <1>2, <1>3, <1>4, <1>5 DEF Next

\* The tickets of an order that exist, by type.
Generated(o, t) == SumFunctionOnSet(issued[o], LinesOf(o, t))

\* The sums of the invariant are numbers.
IssueNumbers ==
  /\ \A w \in Workers : \A i \in Lines(call[w].order) :
       call[w].pc # "idle" => Owed(w, i) \in Nat /\ Missing(w, i) \in Nat
  /\ \A w \in Workers, t \in Tickets : OwedUnits(w, t) \in Nat
  /\ \A o \in Orders, t \in Tickets : Generated(o, t) \in Nat
  /\ \A t \in Tickets : IssuedUnits(t) \in Nat

LEMMA IssueFacts == TypeOK => IssueNumbers
<1> SUFFICES ASSUME TypeOK PROVE IssueNumbers
  OBVIOUS
<1>1. ASSUME NEW w \in Workers, NEW i \in Lines(call[w].order), call[w].pc # "idle"
      PROVE  Owed(w, i) \in Nat /\ Missing(w, i) \in Nat
  <2>1. Qty(w, i) \in Nat /\ call[w].got[i] \in Nat
    BY <1>1, CallFields, LineFields DEF Qty
  <2> QED
    BY <2>1 DEF Owed, Missing
<1>2. ASSUME NEW w \in Workers, NEW t \in Tickets
      PROVE  OwedUnits(w, t) \in Nat
  <2>1. CASE call[w].pc \in Issuing
    <3> DEFINE o == call[w].order
               f == [i \in Lines(o) |-> Owed(w, i)]
    <3>1. call[w].pc # "idle" /\ o \in Orders
      BY <2>1, CallFields DEF Issuing
    <3>2. IsFiniteSet(LinesOf(o, t)) /\ LinesOf(o, t) \subseteq Lines(o)
      BY <3>1, LinesFinite
    <3>3. \A i \in LinesOf(o, t) : f[i] \in Nat
      BY <1>1, <3>1, <3>2
    <3>4. OwedUnits(w, t) = SumFunctionOnSet(f, LinesOf(o, t))
      BY <2>1 DEF OwedUnits
    <3> QED
      BY <3>2, <3>3, <3>4, SumIsNat
  <2>2. CASE call[w].pc \notin Issuing
    BY <2>2 DEF OwedUnits
  <2> QED
    BY <2>1, <2>2
<1>3. ASSUME NEW o \in Orders, NEW t \in Tickets
      PROVE  Generated(o, t) \in Nat
  <2>1. IsFiniteSet(LinesOf(o, t)) /\ LinesOf(o, t) \subseteq Lines(o)
    BY LinesFinite
  <2>2. \A i \in LinesOf(o, t) : issued[o][i] \in Nat
    BY <2>1 DEF TypeOK
  <2> QED
    BY <2>1, <2>2, SumIsNat DEF Generated
<1>4. ASSUME NEW t \in Tickets
      PROVE  IssuedUnits(t) \in Nat
  <2> DEFINE g == [o \in Orders |-> Generated(o, t)]
  <2>1. IsFiniteSet(Orders) /\ \A o \in Orders : g[o] \in Nat
    BY <1>3, OrdersAssumption
  <2>2. IssuedUnits(t) = SumFunctionOnSet(g, Orders)
    BY DEF IssuedUnits, SumFunction, Generated
  <2> QED
    BY <2>1, <2>2, SumIsNat
<1> QED
  BY <1>1, <1>2, <1>3, <1>4 DEF IssueNumbers

LEMMA IssueFactsAfter == TypeOK' => IssueNumbers'
  BY IssueFacts, PTL

\* What a line gets more of, its order and the total of its ticket get more of.
LEMMA IssuedGrows ==
  ASSUME TypeOK, TypeOK', NEW t \in Tickets, NEW o \in Orders, NEW i \in Lines(o), NEW n \in Nat,
         issued' = [issued EXCEPT ![o][i] = @ + n]
  PROVE  IssuedUnits(t)' = IssuedUnits(t) + (IF Items[o][i].ticket = t THEN n ELSE 0)
<1> DEFINE m == IF Items[o][i].ticket = t THEN n ELSE 0
           L == LinesOf(o, t)
           g == [p \in Orders |-> Generated(p, t)]
           h == [p \in Orders |-> Generated(p, t)']
<1>1. /\ \A p \in Orders : Generated(p, t) \in Nat /\ Generated(p, t)' \in Nat
      /\ IssuedUnits(t) \in Nat /\ IssuedUnits(t)' \in Nat
  BY IssueFacts, IssueFactsAfter DEF IssueNumbers
<1>2. \A p \in Orders \ {o} : Generated(p, t)' = Generated(p, t)
  BY DEF Generated, TypeOK
<1>3. Generated(o, t)' = Generated(o, t) + m
  <2>1. IsFiniteSet(L) /\ L \subseteq Lines(o)
    BY LinesFinite
  <2>2. /\ \A j \in Lines(o) : issued[o][j] \in Nat /\ issued'[o][j] \in Nat
        /\ \A j \in Lines(o) \ {i} : issued'[o][j] = issued[o][j]
        /\ issued'[o][i] = issued[o][i] + n
    BY DEF TypeOK
  <2>3. CASE i \in L
    <3>1. SumFunctionOnSet(issued'[o], L) + issued[o][i] = SumFunctionOnSet(issued[o], L) + issued'[o][i]
      <4>1. \A j \in L : issued[o][j] \in Nat /\ issued'[o][j] \in Nat
        BY <2>1, <2>2
      <4>2. \A j \in L \ {i} : issued[o][j] = issued'[o][j]
        BY <2>1, <2>2
      <4> DEFINE f == issued[o]
                 k == issued'[o]
      <4>3. IsFiniteSet(L) /\ i \in L /\ \A j \in L : f[j] \in Nat /\ k[j] \in Nat
        BY <2>1, <2>3, <4>1
      <4>4. \A j \in L \ {i} : f[j] = k[j]
        BY <4>2
      <4> HIDE DEF L, f, k
      <4>5. SumFunctionOnSet(k, L) + f[i] = SumFunctionOnSet(f, L) + k[i]
        BY <4>3, <4>4, SumChanges
      <4> QED
        BY <4>5 DEF f, k
    <3>2. m = n
      BY <2>3 DEF LinesOf
    <3>3. Generated(o, t)' + issued[o][i] = Generated(o, t) + issued'[o][i]
      BY <3>1 DEF Generated
    <3> QED
      BY <1>1, <2>2, <3>2, <3>3
  <2>4. CASE i \notin L
    <3>1. SumFunctionOnSet(issued[o], L) = SumFunctionOnSet(issued'[o], L)
      BY <2>1, <2>2, <2>4, SumAgrees
    <3>2. m = 0
      BY <2>4 DEF LinesOf
    <3>3. Generated(o, t)' = Generated(o, t)
      BY <3>1 DEF Generated
    <3> QED
      BY <1>1, <3>2, <3>3
  <2> QED
    BY <2>3, <2>4
<1>4. IsFiniteSet(Orders) /\ \A p \in Orders : g[p] \in Nat /\ h[p] \in Nat
  BY <1>1, OrdersAssumption
<1>5. /\ \A p \in Orders \ {o} : g[p] = h[p]
      /\ g[o] = Generated(o, t) /\ h[o] = Generated(o, t)'
  BY <1>2
<1>6. /\ IssuedUnits(t) = SumFunctionOnSet(g, Orders)
      /\ IssuedUnits(t)' = SumFunctionOnSet(h, Orders)
  BY DEF IssuedUnits, SumFunction, Generated
<1> HIDE DEF g, h, m
<1>7. SumFunctionOnSet(h, Orders) + g[o] = SumFunctionOnSet(g, Orders) + h[o]
  BY <1>4, <1>5, SumChanges
<1>8. m \in Nat
  BY DEF m
<1> QED
  BY <1>1, <1>3, <1>5, <1>6, <1>7, <1>8 DEF m

\* What all calls together may still generate.
OwedByAll(t) == SumFunction([w \in Workers |-> OwedUnits(w, t)])

LEMMA OwedIsNat ==
  ASSUME TypeOK, NEW t \in Tickets
  PROVE  OwedByAll(t) \in Nat
<1> DEFINE f == [v \in Workers |-> OwedUnits(v, t)]
<1>1. IsFiniteSet(Workers) /\ \A v \in Workers : f[v] \in Nat
  BY IssueFacts, OrdersAssumption DEF IssueNumbers
<1>2. OwedByAll(t) = SumFunctionOnSet(f, Workers)
  BY DEF OwedByAll, SumFunction
<1> QED
  BY <1>1, <1>2, SumIsNat

\* It changes with the one call that moves.
LEMMA OwedChange ==
  ASSUME TypeOK, TypeOK', NEW t \in Tickets, NEW w \in Workers,
         \A v \in Workers \ {w} : call'[v] = call[v]
  PROVE  /\ OwedByAll(t) \in Nat /\ OwedByAll(t)' \in Nat
         /\ OwedUnits(w, t) \in Nat /\ OwedUnits(w, t)' \in Nat
         /\ OwedByAll(t)' + OwedUnits(w, t) = OwedByAll(t) + OwedUnits(w, t)'
<1> DEFINE f == [v \in Workers |-> OwedUnits(v, t)]
           g == [v \in Workers |-> OwedUnits(v, t)']
<1>1. \A v \in Workers : OwedUnits(v, t) \in Nat /\ OwedUnits(v, t)' \in Nat
  BY IssueFacts, IssueFactsAfter DEF IssueNumbers
<1>2. \A v \in Workers \ {w} : OwedUnits(v, t)' = OwedUnits(v, t)
  BY DEF OwedUnits, Owed, Missing, Qty, At
<1>3. /\ IsFiniteSet(Workers) /\ \A v \in Workers : f[v] \in Nat /\ g[v] \in Nat
      /\ \A v \in Workers \ {w} : f[v] = g[v]
      /\ f[w] = OwedUnits(w, t) /\ g[w] = OwedUnits(w, t)'
  BY <1>1, <1>2, OrdersAssumption
<1>4. OwedByAll(t) = SumFunctionOnSet(f, Workers) /\ OwedByAll(t)' = SumFunctionOnSet(g, Workers)
  BY DEF OwedByAll, SumFunction
<1> HIDE DEF f, g
<1>5. SumFunctionOnSet(g, Workers) + f[w] = SumFunctionOnSet(f, Workers) + g[w]
  BY <1>3, SumChanges
<1>6. SumFunctionOnSet(g, Workers) \in Nat /\ SumFunctionOnSet(f, Workers) \in Nat
  BY <1>3, SumIsNat
<1> QED
  BY <1>1, <1>3, <1>4, <1>5, <1>6

\* A sale owes what it has just counted as sold; it owes no more later, and
\* what it generates it owes no longer.
LEMMA OwedBySale ==
  ASSUME TypeOK, TypeOK', NEW t \in Tickets, NEW w \in Workers, Advance(w), Pays(w)
  PROVE  LET o == call[w].order IN
         \/ issued' = issued /\ OwedUnits(w, t)' <= OwedUnits(w, t)
         \/ /\ issued' = issued /\ sold' = SoldAfter(o)
            /\ OwedUnits(w, t) = 0 /\ OwedUnits(w, t)' = Need(o, t)
         \/ /\ sold' = sold
            /\ \E i \in Lines(o) :
                 LET n == IF Items[o][i].ticket = t THEN Missing(w, i) ELSE 0 IN
                 /\ issued' = [issued EXCEPT ![o][i] = @ + Missing(w, i)]
                 /\ OwedUnits(w, t)' + n <= OwedUnits(w, t)
<1> DEFINE o == call[w].order
           old == call[w]
           new == call'[w]
           L == LinesOf(o, t)
           f == [i \in Lines(o) |-> Owed(w, i)]
           g == [i \in Lines(o) |-> Owed(w, i)']
<1>1. /\ o \in Orders /\ old.pc # "idle" /\ old.todo \subseteq Lines(o)
      /\ IsFiniteSet(L) /\ L \subseteq Lines(o)
      /\ new = Idle \/ new.order = o
  BY CallFields, LinesFinite DEF Advance
<1>2. OwedUnits(w, t) \in Nat /\ OwedUnits(w, t)' \in Nat
  BY IssueFacts, IssueFactsAfter DEF IssueNumbers
<1>3. \A i \in Lines(o) : Owed(w, i) \in Nat /\ Missing(w, i) \in Nat
  BY <1>1, IssueFacts DEF IssueNumbers
<1>4. \A i \in Lines(o) : new.pc \in Issuing => Owed(w, i)' \in Nat
  BY <1>1, IssueFactsAfter DEF IssueNumbers, Issuing, Idle
<1>5. old.pc \in Issuing => OwedUnits(w, t) = SumFunctionOnSet(f, L)
  BY DEF OwedUnits
<1>6. new.pc \in Issuing => OwedUnits(w, t)' = SumFunctionOnSet(g, L)
  BY <1>1 DEF OwedUnits, Issuing, Idle
<1>7. CASE new.pc \notin Issuing /\ issued' = issued
  <2>1. OwedUnits(w, t)' = 0
    BY <1>7 DEF OwedUnits
  <2> QED
    BY <1>2, <1>7, <2>1
<1>8. CASE old.pc \in {"confirm", "count"} /\ new.pc \in Issuing /\ issued' = issued
  <2>1. \A i \in Lines(o) : Owed(w, i) = Items[o][i].qty
    BY <1>8 DEF Owed, At, Qty
  <2>2. new.order = o
    BY <1>1, <1>8 DEF Issuing, Idle
  <2>3. \A i \in Lines(o) : Owed(w, i)' <= Items[o][i].qty
    <3> SUFFICES ASSUME NEW i \in Lines(o) PROVE Owed(w, i)' <= Items[o][i].qty
      OBVIOUS
    <3>1. Items[o][i].qty \in Nat /\ Qty(w, i)' = Items[o][i].qty
      BY <1>1, <2>2, LineFields DEF Qty
    <3>2. new.got[i] \in Nat
      <4>1. new.pc # "idle"
        BY <1>8 DEF Issuing
      <4>2. TypeOK' => CallTyped(call[w])'
        BY DEF TypeOK, CallsTyped
      <4>3. CallTyped(call'[w])
        BY <4>2 DEF CallTyped, CallOn, Idle, Lines
      <4> QED
        BY <2>2, <4>1, <4>3, CallRecord DEF CallOn
    <3>3. Missing(w, i)' <= Items[o][i].qty
      BY <3>1, <3>2 DEF Missing
    <3> QED
      BY <3>1, <3>3 DEF Owed
  <2>4. /\ \A i \in L : g[i] \in Nat /\ f[i] \in Nat /\ g[i] <= f[i]
        /\ old.pc \in Issuing
    BY <1>1, <1>3, <1>4, <1>8, <2>1, <2>3 DEF Issuing
  <2> HIDE DEF f, g, L
  <2>5. SumFunctionOnSet(g, L) <= SumFunctionOnSet(f, L)
    BY <1>1, <2>4, SumMonotone
  <2> QED
    BY <1>5, <1>6, <1>8, <2>4, <2>5
<1>9. CASE /\ old.pc = "sell" /\ new.pc = "confirm" /\ issued' = issued
           /\ sold' = SoldAfter(o)
  <2>1. OwedUnits(w, t) = 0
    BY <1>9 DEF OwedUnits, Issuing
  <2>2. g = [i \in Lines(o) |-> Items[o][i].qty]
    <3>1. new.order = o
      BY <1>1, <1>9 DEF Idle
    <3>2. \A i \in Lines(o) : Owed(w, i)' = Items[o][i].qty
      BY <1>9, <3>1 DEF Owed, At, Qty
    <3> QED
      BY <3>2
  <2>3. OwedUnits(w, t)' = Need(o, t)
    BY <1>6, <1>9, <2>2 DEF Issuing, Need
  <2> QED
    BY <1>9, <2>1, <2>3
<1>10. CASE /\ old.pc = "issue" /\ UNCHANGED <<status, sold>>
            /\ \E i \in old.todo :
                 /\ issued' = [issued EXCEPT ![o][i] = @ + Missing(w, i)]
                 /\ \/ new = Idle /\ old.todo = {i}
                    \/ new.pc = "issue" /\ new.got = old.got /\ new.todo = old.todo \ {i}
  <2>1. PICK i \in old.todo :
          /\ issued' = [issued EXCEPT ![o][i] = @ + Missing(w, i)]
          /\ \/ new = Idle /\ old.todo = {i}
             \/ new.pc = "issue" /\ new.got = old.got /\ new.todo = old.todo \ {i}
    BY <1>10
  <2> DEFINE n == IF Items[o][i].ticket = t THEN Missing(w, i) ELSE 0
  <2>2. i \in Lines(o) /\ old.pc \in Issuing /\ n \in Nat
    BY <1>1, <1>3, <1>10, <2>1 DEF Issuing
  <2>3. n <= OwedUnits(w, t)
    <3>1. CASE i \in L
      <4>1. f[i] = Missing(w, i) /\ n = Missing(w, i)
        BY <1>10, <2>1, <2>2, <3>1 DEF Owed, At, LinesOf
      <4>2. \A j \in L : f[j] \in Nat
        BY <1>1, <1>3
      <4> HIDE DEF f, L
      <4>3. f[i] <= SumFunctionOnSet(f, L)
        BY <1>1, <3>1, <4>2, SumCovers
      <4> QED
        BY <1>5, <2>2, <4>1, <4>3
    <3>2. CASE i \notin L
      BY <1>2, <2>2, <3>2 DEF LinesOf
    <3> QED
      BY <3>1, <3>2
  <2>4. OwedUnits(w, t)' + n <= OwedUnits(w, t)
    <3>1. CASE new = Idle
      <4>1. OwedUnits(w, t)' = 0
        BY <3>1 DEF OwedUnits, Issuing, Idle
      <4> QED
        BY <1>2, <2>2, <2>3, <4>1
    <3>2. CASE new.pc = "issue" /\ new.got = old.got /\ new.todo = old.todo \ {i}
      <4>1. new.order = o /\ new.pc \in Issuing
        BY <1>1, <3>2 DEF Idle, Issuing
      <4>2. \A j \in Lines(o) : Missing(w, j)' = Missing(w, j)
        BY <3>2, <4>1 DEF Missing, Qty
      <4>3. /\ \A j \in Lines(o) \ {i} : Owed(w, j)' = Owed(w, j)
            /\ Owed(w, i)' = 0 /\ Owed(w, i) = Missing(w, i)
        BY <1>10, <2>1, <3>2, <4>2 DEF Owed, At
      <4>4. /\ \A j \in L : f[j] \in Nat /\ g[j] \in Nat
            /\ \A j \in L \ {i} : f[j] = g[j]
            /\ i \in L => f[i] = n /\ g[i] = 0
            /\ i \notin L => n = 0
        BY <1>1, <1>3, <1>4, <2>2, <4>1, <4>3 DEF LinesOf
      <4> HIDE DEF f, g, L, n
      <4>5. CASE i \in L
        <5>1. SumFunctionOnSet(g, L) + f[i] = SumFunctionOnSet(f, L) + g[i]
          BY <1>1, <4>4, <4>5, SumChanges
        <5> QED
          BY <1>2, <1>5, <1>6, <2>2, <4>1, <4>4, <4>5, <5>1
      <4>6. CASE i \notin L
        <5>1. SumFunctionOnSet(f, L) = SumFunctionOnSet(g, L)
          BY <1>1, <4>4, <4>6, SumAgrees
        <5> QED
          BY <1>2, <1>5, <1>6, <2>2, <4>1, <4>4, <4>6, <5>1
      <4> QED
        BY <4>5, <4>6
    <3> QED
      BY <2>1, <3>1, <3>2
  <2> QED
    BY <1>10, <2>1, <2>2, <2>4
<1>11. \/ new.pc \notin Issuing /\ issued' = issued
       \/ old.pc \in {"confirm", "count"} /\ new.pc \in Issuing /\ issued' = issued
       \/ old.pc = "sell" /\ new.pc = "confirm" /\ issued' = issued /\ sold' = SoldAfter(o)
       \/ /\ old.pc = "issue" /\ UNCHANGED <<status, sold>>
          /\ \E i \in old.todo :
               /\ issued' = [issued EXCEPT ![o][i] = @ + Missing(w, i)]
               /\ \/ new = Idle /\ old.todo = {i}
                  \/ new.pc = "issue" /\ new.got = old.got /\ new.todo = old.todo \ {i}
  BY Zenon DEF Pays, Issuing
<1> QED
  BY <1>7, <1>8, <1>9, <1>10, <1>11

\* No tickets exist that `sold` does not count, also when two calls on one
\* order count its tickets before either generates any: each of them has
\* added what it generates to `sold`.
THEOREM IssueInvariant == Spec => []IssueInv
<1>1. Init => IssueInv
  <2> SUFFICES ASSUME Init, NEW t \in Tickets
               PROVE  IssuedUnits(t) + OwedByAll(t) <= sold[t]
    BY DEF IssueInv, OwedByAll
  <2> DEFINE f == [o \in Orders |-> Generated(o, t)]
             g == [w \in Workers |-> OwedUnits(w, t)]
  <2>1. TypeOK
    BY TypeInit
  <2>2. \A o \in Orders : f[o] = 0
    <3> SUFFICES ASSUME NEW o \in Orders PROVE Generated(o, t) = 0
      OBVIOUS
    <3>1. IsFiniteSet(LinesOf(o, t)) /\ \A i \in LinesOf(o, t) : issued[o][i] = 0
      BY LinesFinite DEF Init
    <3> QED
      BY <3>1, SumOfZeros DEF Generated
  <2>3. \A w \in Workers : g[w] = 0
    BY DEF Init, OwedUnits, Idle, Issuing
  <2>4. IssuedUnits(t) = SumFunctionOnSet(f, Orders) /\ OwedByAll(t) = SumFunctionOnSet(g, Workers)
    BY DEF IssuedUnits, OwedByAll, SumFunction, Generated
  <2>5. IsFiniteSet(Orders) /\ IsFiniteSet(Workers) /\ sold[t] = 0
    BY OrdersAssumption DEF Init
  <2> HIDE DEF f, g
  <2>6. SumFunctionOnSet(f, Orders) = 0 /\ SumFunctionOnSet(g, Workers) = 0
    BY <2>2, <2>3, <2>5, SumOfZeros
  <2> QED
    BY <2>4, <2>5, <2>6
<1>2. TypeOK /\ TypeOK' /\ OrderInv /\ IssueInv /\ [Next]_vars => IssueInv'
  <2> SUFFICES ASSUME TypeOK, TypeOK', OrderInv, IssueInv, [Next]_vars, NEW t \in Tickets
               PROVE  IssuedUnits(t)' + OwedByAll(t)' <= sold'[t]
    BY DEF IssueInv, OwedByAll
  <2>1. /\ sold[t] \in Nat /\ sold'[t] \in Nat /\ sold[t] <= sold'[t]
        /\ IssuedUnits(t) \in Nat /\ IssuedUnits(t)' \in Nat
        /\ IssuedUnits(t) + OwedByAll(t) <= sold[t]
    BY SoldChange, IssueFacts, IssueFactsAfter DEF TypeOK, IssueNumbers, IssueInv, OwedByAll
  <2>2. issued' = issued => IssuedUnits(t)' = IssuedUnits(t)
    BY DEF IssuedUnits
  <2>3. ASSUME NEW w \in Workers, Advance(w), Writes(w), Pays(w)
        PROVE  IssuedUnits(t)' + OwedByAll(t)' <= sold'[t]
    <3> DEFINE o == call[w].order
    <3>1. /\ o \in Orders
          /\ OwedByAll(t) \in Nat /\ OwedByAll(t)' \in Nat
          /\ OwedUnits(w, t) \in Nat /\ OwedUnits(w, t)' \in Nat
          /\ OwedByAll(t)' + OwedUnits(w, t) = OwedByAll(t) + OwedUnits(w, t)'
      BY <2>3, OwedChange, BegunRecord DEF Advance
    <3>2. CASE issued' = issued /\ OwedUnits(w, t)' <= OwedUnits(w, t)
      BY <2>1, <2>2, <3>1, <3>2
    <3>3. CASE /\ issued' = issued /\ sold' = SoldAfter(o)
               /\ OwedUnits(w, t) = 0 /\ OwedUnits(w, t)' = Need(o, t)
      <4>1. sold'[t] = sold[t] + Need(o, t)
        BY <3>3 DEF SoldAfter
      <4> QED
        BY <2>1, <2>2, <3>1, <3>3, <4>1
    <3>4. ASSUME sold' = sold, NEW i \in Lines(o),
                 issued' = [issued EXCEPT ![o][i] = @ + Missing(w, i)],
                 OwedUnits(w, t)' + (IF Items[o][i].ticket = t THEN Missing(w, i) ELSE 0)
                   <= OwedUnits(w, t)
          PROVE  IssuedUnits(t)' + OwedByAll(t)' <= sold'[t]
      <4>1. Missing(w, i) \in Nat
        BY <2>3, IssueFacts DEF IssueNumbers, Advance
      <4>2. IssuedUnits(t)' = IssuedUnits(t) + (IF Items[o][i].ticket = t THEN Missing(w, i) ELSE 0)
        BY <3>1, <3>4, <4>1, IssuedGrows
      <4> QED
        BY <2>1, <3>1, <3>4, <4>1, <4>2
    <3> QED
      BY <2>3, <3>2, <3>3, <3>4, OwedBySale
  <2>4. ASSUME NEW w \in Workers, NEW o \in Orders, Begin(w, o), issued' = issued
        PROVE  IssuedUnits(t)' + OwedByAll(t)' <= sold'[t]
    <3>1. /\ \A v \in Workers \ {w} : call'[v] = call[v]
          /\ call'[w].pc \in {"row", "read", "sell"}
      BY <2>4, Beginning
    <3>2. OwedUnits(w, t)' = 0
      BY <3>1 DEF OwedUnits, Issuing
    <3> QED
      BY <2>1, <2>2, <2>4, <3>1, <3>2, OwedChange
  <2>5. CASE UNCHANGED <<call, issued>>
    <3>1. \A w \in Workers : OwedUnits(w, t)' = OwedUnits(w, t)
      BY <2>5 DEF OwedUnits, Owed, Missing, Qty, At
    <3>2. OwedByAll(t)' = OwedByAll(t) /\ OwedByAll(t) \in Nat
      BY <3>1, OwedIsNat DEF OwedByAll
    <3> QED
      BY <2>1, <2>2, <2>5, <3>2
  <2> QED
    BY <2>3, <2>4, <2>5, PayingSteps
<1> QED
  BY <1>1, <1>2, TypeCorrect, OrderInvariant, PTL DEF Spec

\* Hence every ticket is backed by a unit of `sold`.
THEOREM TicketsAreSold == Spec => []IssuedAreSold
<1>1. TypeOK /\ IssueInv => IssuedAreSold
  <2> SUFFICES ASSUME TypeOK, IssueInv, NEW t \in Tickets PROVE IssuedUnits(t) <= sold[t]
    BY DEF IssuedAreSold
  <2>1. /\ IssuedUnits(t) \in Nat /\ sold[t] \in Nat
        /\ IssuedUnits(t) + OwedByAll(t) <= sold[t]
    BY IssueFacts DEF IssueNumbers, IssueInv, OwedByAll, TypeOK
  <2> QED
    BY <2>1, OwedIsNat
<1> QED
  BY <1>1, IssueInvariant, TypeCorrect, PTL

\* If nothing has failed and calls on one order do not overlap, what a call
\* knows of the tickets of its order stays right, and an order that is left
\* alone has them all.
LEMMA TicketInvAdvance ==
  ASSUME TypeOK, TypeOK', OrderInv, SerialInv, TicketInv, PaidHasTickets,
         NEW w \in Workers, Advance(w), Writes(w), Pays(w)
  PROVE  TicketInv' /\ PaidHasTickets'
<1> SUFFICES ASSUME faults' = 0 PROVE TicketInv' /\ PaidHasTickets'
  BY DEF TicketInv, PaidHasTickets
<1> DEFINE o == call[w].order
           old == call[w]
           new == call'[w]
<1>1. /\ faults = 0 /\ o \in Orders /\ old.pc \in Stages /\ old # Idle
      /\ old.todo \subseteq Lines(o)
      /\ \A v \in Workers \ {w} : call'[v] = call[v]
      /\ new = Idle \/ (new # Idle /\ new.pc # "idle" /\ new.order = o)
  <2>1. faults = 0
    BY OrdersAssumption DEF TypeOK, Pays
  <2> QED
    BY <2>1, CallFields, BegunRecord DEF Advance, CallOn, Idle
<1>2. \A v \in Workers \ {w} : call[v] # Idle => call[v].order \in Orders \ {o}
  BY <1>1, CallBegun, CallFields DEF SerialInv, TypeOK, CallsTyped
<1>3. \A p \in Orders \ {o} : status'[p] = status[p] /\ issued'[p] = issued[p]
  BY DEF Writes, PaidIfPending, Pays, TypeOK
<1>4. \/ status'[o] = status[o]
      \/ old.pc = "commit" /\ status[o] = "absent" /\ status'[o] = "PENDING"
      \/ old.pc = "sell" /\ new.pc = "confirm" /\ status[o] = "PENDING" /\ status'[o] = "PAID"
      \/ old.pc = "save" /\ status[o] = "PENDING" /\ new.pc = "reread" /\ status'[o] \in Ended
  BY <1>1 DEF Writes, PaidIfPending, TypeOK, SerialInv, OrderInv, AbsentBeforeCommit
<1>5. /\ old.pc \in {"bill", "payread", "read", "sell", "save"} => status[o] = "PENDING"
      /\ old.pc \in Issuing => status[o] = "PAID"
      /\ old.pc \in {"confirm", "count"} => \A i \in Lines(o) : issued[o][i] = 0
      /\ old.pc = "issue" =>
           \A i \in Lines(o) : /\ old.got[i] = 0
                               /\ issued[o][i] = IF i \in old.todo THEN 0 ELSE Qty(w, i)
      /\ status[o] # "PAID" => \A i \in Lines(o) : issued[o][i] = 0
  BY <1>1 DEF TicketInv, SerialInv, At
<1>6. status[o] = "PAID" => old.pc \in Issuing
  BY <1>1, <1>5 DEF OrderInv, AbsentBeforeCommit, ReleasesEnded, At, Ended, Stages, PerLine, Issuing
<1>7. \/ issued' = issued /\ old.pc # "issue"
      \/ /\ old.pc = "issue" /\ status'[o] = "PAID"
         /\ \E i \in old.todo :
              /\ \A j \in Lines(o) : issued'[o][j] = IF j \in old.todo \ {i} THEN 0 ELSE Qty(w, j)
              /\ \/ new = Idle /\ old.todo = {i}
                 \/ new.pc = "issue" /\ new.got = old.got /\ new.todo = old.todo \ {i}
  <2>1. CASE issued' = issued /\ (old.pc = "issue" => faults' > 0)
    BY <2>1
  <2>2. CASE /\ old.pc = "issue" /\ UNCHANGED <<status, sold>>
             /\ \E i \in old.todo :
                  /\ issued' = [issued EXCEPT ![o][i] = @ + Missing(w, i)]
                  /\ \/ new = Idle /\ old.todo = {i}
                     \/ new.pc = "issue" /\ new.got = old.got /\ new.todo = old.todo \ {i}
    <3>1. PICK i \in old.todo :
            /\ issued' = [issued EXCEPT ![o][i] = @ + Missing(w, i)]
            /\ \/ new = Idle /\ old.todo = {i}
               \/ new.pc = "issue" /\ new.got = old.got /\ new.todo = old.todo \ {i}
      BY <2>2
    <3>2. Missing(w, i) = Qty(w, i) /\ Qty(w, i) \in Nat
      <4>1. Qty(w, i) \in Nat \ {0} /\ old.got[i] = 0
        BY <1>1, <1>5, <2>2, LineFields DEF Qty
      <4> QED
        BY <4>1 DEF Missing
    <3>3. \A j \in Lines(o) : issued'[o][j] = IF j \in old.todo \ {i} THEN 0 ELSE Qty(w, j)
      <4>1. /\ \A j \in Lines(o) \ {i} : issued'[o][j] = issued[o][j]
            /\ issued'[o][i] = issued[o][i] + Missing(w, i)
        BY <1>1, <3>1 DEF TypeOK
      <4>2. issued[o][i] = 0
        BY <1>1, <1>5, <2>2, <3>1
      <4> QED
        BY <1>5, <2>2, <3>2, <4>1, <4>2
    <3>4. status'[o] = "PAID"
      BY <1>5, <2>2 DEF Issuing
    <3> QED
      BY <2>2, <3>1, <3>3, <3>4
  <2> QED
    BY <2>1, <2>2 DEF Pays
<1>8. new # Idle =>
        /\ new.pc \in {"bill", "payread", "read"} => status'[o] = "PENDING"
        /\ new.pc \in Issuing => status'[o] = "PAID"
        /\ new.pc \in {"confirm", "count"} => \A i \in Lines(o) : issued'[o][i] = 0
        /\ new.pc = "issue" =>
             \A i \in Lines(o) : /\ new.got[i] = 0
                                 /\ issued'[o][i] = IF i \in new.todo THEN 0 ELSE Qty(w, i)
  <2>1. new.pc \in {"bill", "payread", "read"} => status'[o] = "PENDING"
    <3>1. CASE new.pc = "bill"
      BY <1>1, <3>1 DEF Pays, TypeOK
    <3>2. CASE new.pc = "payread"
      BY <1>4, <1>5, <3>2 DEF Pays
    <3>3. CASE new.pc = "read"
      <4>1. old.pc \in {"bill", "sell"} \/ (old.pc = "count" /\ ~MayIssue(o))
        BY <1>1, <3>3 DEF Pays
      <4>2. old.pc # "count"
        BY <1>5, <4>1 DEF MayIssue, Issuing
      <4> QED
        BY <1>4, <1>5, <3>3, <4>1, <4>2
    <3> QED
      BY <3>1, <3>2, <3>3
  <2>2. new.pc \in Issuing => old.pc \in Issuing \cup {"sell"}
    BY DEF Pays, Issuing
  <2>3. new.pc \in Issuing => status'[o] = "PAID"
    <3>1. CASE old.pc = "sell" /\ new.pc \in Issuing
      <4>1. status' = PaidIfPending(o) /\ status[o] = "PENDING"
        BY <1>5, <3>1 DEF Pays, Issuing
      <4> QED
        BY <1>1, <4>1 DEF PaidIfPending, TypeOK
    <3>2. CASE old.pc \in Issuing /\ new.pc \in Issuing
      BY <1>4, <1>5, <3>2 DEF Issuing
    <3> QED
      BY <2>2, <3>1, <3>2
  <2>4. new.pc \in {"confirm", "count"} => \A i \in Lines(o) : issued'[o][i] = 0
    <3> HAVE new.pc \in {"confirm", "count"}
    <3>1. old.pc \in {"confirm", "sell"}
      BY DEF Pays
    <3> QED
      BY <1>5, <1>7, <3>1
  <2>5. ASSUME new.pc = "issue", new # Idle, NEW i \in Lines(o)
        PROVE  new.got[i] = 0 /\ issued'[o][i] = IF i \in new.todo THEN 0 ELSE Qty(w, i)
    <3>1. CASE old.pc = "count" /\ new.todo = Lines(o) /\ new.got = issued[o]
      BY <1>5, <1>7, <2>5, <3>1
    <3>2. CASE old.pc = "issue"
      BY <1>5, <1>7, <2>5, <3>2 DEF Idle
    <3> QED
      BY <2>5, <3>1, <3>2 DEF Pays
  <2> QED
    BY <2>1, <2>3, <2>4, <2>5
<1>9. ASSUME NEW v \in Workers
      PROVE  /\ call'[v].pc \in {"bill", "payread", "read"} => status'[call'[v].order] = "PENDING"
             /\ call'[v].pc \in Issuing => status'[call'[v].order] = "PAID"
             /\ call'[v].pc \in {"confirm", "count"} =>
                  \A i \in Lines(call'[v].order) : issued'[call'[v].order][i] = 0
             /\ call'[v].pc = "issue" =>
                  \A i \in Lines(call'[v].order) :
                    /\ call'[v].got[i] = 0
                    /\ issued'[call'[v].order][i] = IF i \in call'[v].todo THEN 0 ELSE Qty(v, i)'
  <2>1. CASE call'[v] = Idle
    BY <2>1 DEF Idle, Issuing
  <2>2. CASE v = w /\ new # Idle
    <3>1. new.order = o /\ \A i \in Lines(o) : Qty(w, i)' = Qty(w, i)
      BY <1>1, <2>2 DEF Qty
    <3> QED
      BY <1>8, <2>2, <3>1
  <2>3. CASE v # w /\ call'[v] # Idle
    <3>1. call'[v] = call[v] /\ call[v].order \in Orders \ {o} /\ \A i : Qty(v, i)' = Qty(v, i)
      BY <1>1, <1>2, <2>3 DEF Qty
    <3> QED
      BY <1>1, <1>3, <3>1 DEF TicketInv, At
  <2> QED
    BY <2>1, <2>2, <2>3
<1>10. ASSUME NEW p \in Orders, status'[p] # "PAID", NEW i \in Lines(p)
       PROVE  issued'[p][i] = 0
  <2>1. CASE p = o
    <3>1. status[o] # "PAID" /\ issued' = issued
      BY <1>4, <1>7, <1>10, <2>1
    <3> QED
      BY <1>5, <1>10, <2>1, <3>1
  <2>2. CASE p # o
    BY <1>1, <1>3, <1>10, <2>2 DEF TicketInv
  <2> QED
    BY <2>1, <2>2
<1>11. TicketInv'
  BY <1>9, <1>10 DEF TicketInv, At
<1>12. ASSUME NEW p \in Orders, status'[p] = "PAID", Untouched(p)', NEW i \in Lines(p)
       PROVE  issued'[p][i] = Items[p][i].qty
  <2>1. CASE p = o
    <3>1. new = Idle
      BY <1>1, <1>12, <2>1 DEF Untouched
    <3>2. status[o] = "PAID" /\ old.pc \in Issuing
      BY <1>4, <1>6, <1>12, <2>1, <3>1 DEF Idle, Issuing
    <3>3. old.pc = "issue"
      <4>1. old.pc # "confirm" /\ (old.pc = "count" => ~MayIssue(o))
        BY <1>1, <3>1 DEF Pays
      <4> QED
        BY <3>2, <4>1 DEF MayIssue, Issuing
    <3>4. \A j \in Lines(o) : issued'[o][j] = Qty(w, j)
      BY <1>7, <3>1, <3>3 DEF Idle
    <3> QED
      BY <1>12, <2>1, <3>4 DEF Qty
  <2>2. CASE p # o
    <3>1. status[p] = "PAID" /\ issued'[p] = issued[p]
      BY <1>3, <1>12, <2>2
    <3>2. Untouched(p)
      BY <1>1, <1>12, <2>2 DEF Untouched
    <3> QED
      BY <1>1, <1>12, <3>1, <3>2 DEF PaidHasTickets, Having
  <2> QED
    BY <2>1, <2>2
<1>13. PaidHasTickets'
  BY <1>12 DEF PaidHasTickets, Having
<1> QED
  BY <1>11, <1>13

\* The beginning of a call keeps it too.
LEMMA TicketInvBegin ==
  ASSUME TypeOK, TicketInv, PaidHasTickets, NEW w \in Workers, NEW o \in Orders, Begin(w, o),
         UNCHANGED <<issued, faults>>
  PROVE  TicketInv' /\ PaidHasTickets'
<1>1. /\ call[w] = Idle
      /\ \A v \in Workers \ {w} : call'[v] = call[v]
      /\ UNCHANGED status
      /\ call'[w].order = o /\ call'[w].pc \in {"row", "read", "sell"}
      /\ call'[w].pc = "read" => status[o] = "PENDING"
  BY Beginning
<1>2. TicketInv'
  <2>1. \A v \in Workers : \A i : v # w => Qty(v, i)' = Qty(v, i)
    BY <1>1 DEF Qty
  <2> QED
    BY <1>1, <2>1 DEF TicketInv, At, Issuing
<1>3. PaidHasTickets'
  <2>1. \A p \in Orders : Untouched(p)' => Untouched(p)
    BY <1>1 DEF Untouched
  <2> QED
    BY <1>1, <2>1 DEF PaidHasTickets, Having
<1> QED
  BY <1>2, <1>3

\* A call knows which tickets its order has, until something fails.
THEOREM TicketInvariant == ASSUME ~Overlap PROVE Spec => [](TicketInv /\ PaidHasTickets)
<1>1. Init => TicketInv /\ PaidHasTickets
  BY DEF Init, TicketInv, PaidHasTickets, Having, Idle, Issuing, At
<1>2. TypeOK /\ TypeOK' /\ OrderInv /\ SerialInv /\ TicketInv /\ PaidHasTickets /\ [Next]_vars
        => TicketInv' /\ PaidHasTickets'
  <2> SUFFICES ASSUME TypeOK, TypeOK', OrderInv, SerialInv, TicketInv, PaidHasTickets, [Next]_vars
               PROVE  TicketInv' /\ PaidHasTickets'
    OBVIOUS
  <2>1. CASE UNCHANGED <<call, status, sold, begun, issued, faults>>
    BY <2>1 DEF TicketInv, PaidHasTickets, Having, Untouched, At, Qty
  <2> QED
    BY <2>1, PayingSteps, TicketInvAdvance, TicketInvBegin
<1> QED
  BY <1>1, <1>2, TypeCorrect, OrderInvariant, SerialInvariant, PTL DEF Spec

\* If nothing has failed and calls on one order do not overlap, every order
\* that is paid, and on which nobody works any more, has all its tickets.
THEOREM SerialTickets == ASSUME ~Overlap PROVE Spec => []PaidHasTickets
  BY TicketInvariant, PTL

(***************************************************************************)
(* Units of the counters that somebody may still give back.                *)
(***************************************************************************)

\* Claims are numbers, and only a call that creates or releases has any.
ClaimNumbers ==
  /\ \A w \in Workers : \A i \in Lines(call[w].order) :
       call[w].pc # "idle" => LineClaim(w, i) \in Nat
  /\ \A w \in Workers, t \in Tickets : CallClaim(w, t) \in Nat
  /\ \A o \in Orders, t \in Tickets : OrderClaim(o, t) \in Nat
  /\ \A w \in Workers, t \in Tickets :
       call[w].pc \notin Creating \cup {"release"} => CallClaim(w, t) = 0

LEMMA ClaimFacts == TypeOK => ClaimNumbers
<1> SUFFICES ASSUME TypeOK PROVE ClaimNumbers
  OBVIOUS
<1>1. ASSUME NEW w \in Workers, NEW i \in Lines(call[w].order), call[w].pc # "idle"
      PROVE  LineClaim(w, i) \in Nat
  <2>1. /\ call[w].order \in Orders /\ Qty(w, i) \in Nat /\ call[w].got[i] \in Nat
        /\ Ticket(w, i) \in Tickets
    BY <1>1, CallFields, LineFields DEF Qty, Ticket
  <2>2. lock[Ticket(w, i)][call[w].order] \in Nat
    BY <2>1 DEF TypeOK, RedisTypeOK
  <2> QED
    BY <2>1, <2>2 DEF LineClaim
<1>2. ASSUME NEW w \in Workers, NEW t \in Tickets, call[w].pc # "idle"
      PROVE  CallClaim(w, t) \in Nat
  <2> DEFINE o == call[w].order
             L == LinesOf(o, t)
             f == [i \in Lines(o) |-> LineClaim(w, i)]
  <2>1. IsFiniteSet(L) /\ L \subseteq Lines(o)
    BY <1>2, CallFields, LinesFinite
  <2>2. \A i \in L : f[i] \in Nat
    BY <1>1, <1>2, <2>1
  <2>3. CallClaim(w, t) = SumFunctionOnSet(f, L)
    BY <1>2 DEF CallClaim, At
  <2> HIDE DEF L, f
  <2> QED
    BY <2>1, <2>2, <2>3, SumIsNat
<1>3. ASSUME NEW w \in Workers, NEW t \in Tickets PROVE CallClaim(w, t) \in Nat
  BY <1>2 DEF CallClaim, At
<1>4. ASSUME NEW o \in Orders, NEW t \in Tickets PROVE OrderClaim(o, t) \in Nat
  <2>1. Need(o, t) \in Nat /\ lock[t][o] \in Nat
    BY NeedFacts DEF TypeOK, RedisTypeOK
  <2> QED
    BY <2>1 DEF OrderClaim
<1>5. ASSUME NEW w \in Workers, NEW t \in Tickets, call[w].pc \notin Creating \cup {"release"}
      PROVE  CallClaim(w, t) = 0
  <2>1. CASE call[w].pc = "idle"
    BY <2>1 DEF CallClaim, At
  <2>2. CASE call[w].pc # "idle"
    <3> DEFINE L == LinesOf(call[w].order, t)
               f == [i \in Lines(call[w].order) |-> LineClaim(w, i)]
    <3>1. IsFiniteSet(L) /\ L \subseteq Lines(call[w].order)
      BY <2>2, CallFields, LinesFinite
    <3>2. \A i \in L : f[i] = 0
      BY <1>5, <3>1 DEF LineClaim, At
    <3>3. CallClaim(w, t) = SumFunctionOnSet(f, L)
      BY <2>2 DEF CallClaim, At
    <3> HIDE DEF L, f
    <3> QED
      BY <3>1, <3>2, <3>3, SumOfZeros
  <2> QED
    BY <2>1, <2>2
<1> QED
  BY <1>1, <1>3, <1>4, <1>5 DEF ClaimNumbers

LEMMA ClaimFactsAfter == TypeOK' => ClaimNumbers'
  BY ClaimFacts, PTL

\* If a step of call w adds up to n to its claim for line i of ticket t, and
\* takes at least m off it, and adds to none of its other claims, then so it
\* does to its claim for t.
LEMMA ClaimMoves ==
  ASSUME TypeOK, TypeOK', NEW w \in Workers, call[w].pc # "idle",
         NEW t \in Tickets, NEW i \in LinesOf(call[w].order, t), NEW m \in Nat, NEW n \in Nat,
         \/ call'[w].pc = "idle" /\ m <= LineClaim(w, i) + n
         \/ /\ call'[w].pc # "idle" /\ call'[w].order = call[w].order
            /\ LineClaim(w, i)' + m <= LineClaim(w, i) + n
            /\ \A j \in LinesOf(call[w].order, t) \ {i} : LineClaim(w, j)' <= LineClaim(w, j)
  PROVE  CallClaim(w, t)' + m <= CallClaim(w, t) + n
<1> DEFINE o == call[w].order
           L == LinesOf(o, t)
           f == [j \in Lines(o) |-> LineClaim(w, j)]
           g == [j \in Lines(o) |-> LineClaim(w, j)']
<1>1. IsFiniteSet(L) /\ L \subseteq Lines(o) /\ i \in L
  BY CallFields, LinesFinite
<1>2. \A j \in L : f[j] \in Nat /\ f[j] = LineClaim(w, j)
  BY <1>1, ClaimFacts DEF ClaimNumbers
<1>3. CallClaim(w, t) = SumFunctionOnSet(f, L)
  BY DEF CallClaim, At
<1>4. IsFiniteSet(L \ {i})
  BY <1>1, FS_RemoveElement
<1>5. /\ SumFunctionOnSet(f, L) = f[i] + SumFunctionOnSet(f, L \ {i})
      /\ SumFunctionOnSet(f, L \ {i}) \in Nat
  <2> HIDE DEF f, L
  <2> QED
    BY <1>1, <1>2, <1>4, SumSplits, SumIsNat
<1>6. CASE call'[w].pc = "idle" /\ m <= LineClaim(w, i) + n
  <2>1. CallClaim(w, t)' = 0
    BY <1>6 DEF CallClaim, At
  <2> QED
    BY <1>1, <1>2, <1>3, <1>5, <1>6, <2>1
<1>7. CASE /\ call'[w].pc # "idle" /\ call'[w].order = call[w].order
           /\ LineClaim(w, i)' + m <= LineClaim(w, i) + n
           /\ \A j \in L \ {i} : LineClaim(w, j)' <= LineClaim(w, j)
  <2>1. \A j \in L : g[j] \in Nat /\ g[j] = LineClaim(w, j)'
    BY <1>1, <1>7, ClaimFactsAfter DEF ClaimNumbers
  <2>2. CallClaim(w, t)' = SumFunctionOnSet(g, L)
    BY <1>7 DEF CallClaim, At
  <2>3. /\ \A j \in L \ {i} : g[j] <= f[j] /\ g[j] \in Nat /\ f[j] \in Nat
        /\ g[i] + m <= f[i] + n /\ g[i] \in Nat
    BY <1>1, <1>2, <1>7, <2>1
  <2> HIDE DEF f, g, L
  <2>4. SumFunctionOnSet(g, L) = g[i] + SumFunctionOnSet(g, L \ {i})
    BY <1>1, <2>1, SumSplits
  <2>5. /\ SumFunctionOnSet(g, L \ {i}) \in Nat
        /\ SumFunctionOnSet(g, L \ {i}) <= SumFunctionOnSet(f, L \ {i})
    BY <1>4, <2>3, SumIsNat, SumMonotone
  <2>6. f[i] \in Nat
    BY <1>1, <1>2
  <2> QED
    BY <1>3, <1>5, <2>2, <2>3, <2>4, <2>5, <2>6
<1> QED
  BY <1>6, <1>7

\* If it adds to none of its claims for t, its claim for t does not grow.
LEMMA ClaimFalls ==
  ASSUME TypeOK, TypeOK', NEW w \in Workers, call[w].pc # "idle", NEW t \in Tickets,
         \/ call'[w].pc = "idle"
         \/ /\ call'[w].pc # "idle" /\ call'[w].order = call[w].order
            /\ \A j \in LinesOf(call[w].order, t) : LineClaim(w, j)' <= LineClaim(w, j)
  PROVE  CallClaim(w, t)' <= CallClaim(w, t)
<1>1. CASE call'[w].pc = "idle"
  <2>1. CallClaim(w, t)' = 0
    BY <1>1 DEF CallClaim, At
  <2> QED
    BY <2>1, ClaimFacts DEF ClaimNumbers
<1>2. CASE LinesOf(call[w].order, t) = {} /\ call'[w].pc # "idle" /\ call'[w].order = call[w].order
  BY <1>2, SumOfNone DEF CallClaim, At
<1>3. CASE LinesOf(call[w].order, t) # {} /\ call'[w].pc # "idle"
  <2>1. PICK i : i \in LinesOf(call[w].order, t)
    BY <1>3
  <2>2. IsFiniteSet(LinesOf(call[w].order, t)) /\ LinesOf(call[w].order, t) \subseteq Lines(call[w].order)
    BY CallFields, LinesFinite
  <2>3. LineClaim(w, i)' \in Nat /\ LineClaim(w, i) \in Nat /\ LineClaim(w, i)' <= LineClaim(w, i)
    BY <1>3, <2>1, <2>2, ClaimFacts, ClaimFactsAfter DEF ClaimNumbers
  <2>4. LineClaim(w, i)' + 0 <= LineClaim(w, i) + 0
    BY <2>3
  <2>5. CallClaim(w, t)' + 0 <= CallClaim(w, t) + 0
    <3> HIDE DEF LineClaim, CallClaim
    <3> QED
      BY <1>3, <2>1, <2>4, ClaimMoves
  <2>6. CallClaim(w, t)' \in Nat /\ CallClaim(w, t) \in Nat
    BY ClaimFacts, ClaimFactsAfter DEF ClaimNumbers
  <2> QED
    BY <2>5, <2>6
<1> QED
  BY <1>1, <1>2, <1>3

\* What the step of a call leaves of the promises to its order and ticket: it
\* touches no lock key of another order, and counter, claims and `sold` of a
\* ticket do not add up to more than before, unless the counter is created.
Balanced(w, o, t) ==
  counter'[t] + CallClaim(w, t)' + OrderClaim(o, t)' + sold'[t]
    <= counter[t] + CallClaim(w, t) + OrderClaim(o, t) + sold[t]

Created(w, o, t) ==
  /\ t \in quotaKeys' \ quotaKeys
  /\ counter'[t] = IF Quota[t] - sold[t] > 0 THEN Quota[t] - sold[t] ELSE 0
  /\ CallClaim(w, t)' <= CallClaim(w, t)
  /\ sold'[t] = sold[t] /\ OrderClaim(o, t)' = OrderClaim(o, t)

OwnLocks(o) ==
  \A t \in Tickets, p \in Orders \ {o} : lock'[t][p] = lock[t][p]

Settles(w, o) ==
  /\ OwnLocks(o)
  /\ CallLocks(w)'
  /\ \A t \in Tickets : lock'[t][o] <= Need(o, t)
  /\ quotaKeys \subseteq quotaKeys'
  /\ \A t \in Tickets :
       Created(w, o, t) \/ (Balanced(w, o, t) /\ (t \in quotaKeys' \/ counter'[t] = counter[t]))

\* A step that takes or returns nothing: it may remove lock keys of its order.
LocksDrop(o) ==
  /\ UNCHANGED <<quotaKeys, counter>>
  /\ OwnLocks(o)
  /\ \A t \in Tickets : lock'[t][o] \in {lock[t][o], 0}

LEMMA DeletesOwn ==
  ASSUME TypeOK, NEW o \in Orders, UNCHANGED redisVars \/ \E t \in Tickets : DeleteLock(t, o)
  PROVE  LocksDrop(o)
<1>1. lock \in [Tickets -> [Orders -> Nat]]
  BY DEF TypeOK, RedisTypeOK
<1>2. CASE UNCHANGED redisVars
  BY <1>2 DEF LocksDrop, OwnLocks, redisVars
<1>3. ASSUME NEW t \in Tickets, DeleteLock(t, o) PROVE LocksDrop(o)
  <2>1. UNCHANGED <<quotaKeys, counter>>
    BY <1>3 DEF DeleteLock
  <2>2. \A u \in Tickets, p \in Orders : lock'[u][p] = IF u = t /\ p = o THEN 0 ELSE lock[u][p]
    BY <1>1, <1>3 DEF DeleteLock
  <2> QED
    BY <2>1, <2>2 DEF LocksDrop, OwnLocks
<1> QED
  BY <1>2, <1>3

\* The numbers that a step of a call adds up.
LEMMA BalanceNumbers ==
  ASSUME TypeOK, TypeOK', NEW w \in Workers, NEW o \in Orders, NEW t \in Tickets
  PROVE  /\ CallClaim(w, t) \in Nat /\ CallClaim(w, t)' \in Nat
         /\ OrderClaim(o, t) \in Nat /\ OrderClaim(o, t)' \in Nat
         /\ counter[t] \in Int /\ counter'[t] \in Int
         /\ sold[t] \in Nat /\ sold'[t] \in Nat
         /\ Need(o, t) \in Nat /\ lock[t][o] \in Nat
         /\ call'[w].pc \notin Creating \cup {"release"} => CallClaim(w, t)' = 0
<1>1. CallClaim(w, t) \in Nat /\ OrderClaim(o, t) \in Nat
  BY ClaimFacts DEF ClaimNumbers
<1>2. /\ CallClaim(w, t)' \in Nat /\ OrderClaim(o, t)' \in Nat
      /\ call'[w].pc \notin Creating \cup {"release"} => CallClaim(w, t)' = 0
  BY ClaimFactsAfter DEF ClaimNumbers
<1>3. counter[t] \in Int /\ counter'[t] \in Int /\ sold[t] \in Nat /\ sold'[t] \in Nat /\ lock[t][o] \in Nat
  BY DEF TypeOK, RedisTypeOK
<1> QED
  BY <1>1, <1>2, <1>3, NeedFacts

\* Such a step adds nothing to the claim of an order whose status it leaves.
LEMMA OrderClaimFalls ==
  ASSUME TypeOK, NEW o \in Orders, NEW t \in Tickets, status'[o] = status[o],
         lock'[t][o] \in {lock[t][o], 0}
  PROVE  OrderClaim(o, t)' <= OrderClaim(o, t)
<1>1. Need(o, t) \in Nat /\ lock[t][o] \in Nat
  BY NeedFacts DEF TypeOK, RedisTypeOK
<1> QED
  BY <1>1 DEF OrderClaim

\* What the inductive steps below may use.
Known == TypeOK /\ TypeOK' /\ OrderInv /\ SerialInv /\ LockInv

\* A call that ends or goes on to anything but creating or releasing leaves
\* its claims to its order, or drops them.
LEMMA LeavingSettles ==
  ASSUME Known, NEW w \in Workers, NEW o \in Orders, o = call[w].order,
         Advance(w), Writes(w), LocksDrop(o),
         call'[w].pc \notin Creating \cup {"release"},
         \/ call'[w].pc \in {"idle", "issue"}
         \/ \A i \in Lines(o) : call'[w].got[i] = 0
  PROVE  Settles(w, o)
<1> USE DEF Known
<1> DEFINE old == call[w]
           new == call'[w]
<1>1. /\ o \in Orders /\ old.pc # "idle"
      /\ new.pc = "idle" \/ new.order = o
  BY BegunRecord DEF Advance, Idle
<1>2. CallLocks(w)'
  BY <1>1 DEF CallLocks, Creating, PerLine
<1>3. \A t \in Tickets : lock'[t][o] <= Need(o, t)
  <2> SUFFICES ASSUME NEW t \in Tickets PROVE lock'[t][o] <= Need(o, t)
    OBVIOUS
  <2>1. lock[t][o] <= Need(o, t) /\ Need(o, t) \in Nat
    BY <1>1, NeedFacts DEF LockInv
  <2> QED
    BY <1>1, <2>1 DEF LocksDrop
<1>4. ASSUME NEW t \in Tickets PROVE Balanced(w, o, t)
  <2>1. /\ CallClaim(w, t) \in Nat /\ CallClaim(w, t)' = 0
        /\ OrderClaim(o, t) \in Nat /\ OrderClaim(o, t)' \in Nat
        /\ counter'[t] = counter[t] /\ counter[t] \in Int /\ sold[t] \in Nat /\ Need(o, t) \in Nat
    BY BalanceNumbers DEF LocksDrop
  <2>2. CASE UNCHANGED <<status, sold>>
    <3>1. OrderClaim(o, t)' <= OrderClaim(o, t)
      BY <1>1, <2>2, OrderClaimFalls DEF LocksDrop
    <3> QED
      BY <2>1, <2>2, <3>1 DEF Balanced
  <2>3. CASE old.pc = "commit" /\ status' = [status EXCEPT ![o] = "PENDING"] /\ UNCHANGED sold
    <3>1. status[o] = "absent" /\ OrderClaim(o, t) = 0
      BY <2>3 DEF OrderInv, AbsentBeforeCommit, OrderClaim, Ended
    <3>2. OrderClaim(o, t)' = Need(o, t)
      <4>1. status'[o] = "PENDING"
        BY <1>1, <2>3 DEF TypeOK
      <4> QED
        BY <4>1 DEF OrderClaim, Ended
    <3>3. CallClaim(w, t) = Need(o, t)
      <4>1. \A i \in Lines(o) : LineClaim(w, i) = Items[o][i].qty
        BY <2>3 DEF LockInv, CallLocks, LineClaim, Taken, Creating, Qty
      <4> QED
        BY <2>3, <4>1 DEF CallClaim, Need, At
    <3> QED
      BY <2>1, <2>3, <3>1, <3>2, <3>3 DEF Balanced
  <2>4. CASE /\ old.pc = "sell" /\ status' = PaidIfPending(o) /\ sold' = SoldAfter(o)
    <3>1. status[o] = "PENDING" /\ OrderClaim(o, t) = Need(o, t)
      BY <2>4 DEF SerialInv, OrderClaim, Ended
    <3>2. OrderClaim(o, t)' = 0
      <4>1. status'[o] = "PAID"
        BY <1>1, <2>4, <3>1 DEF PaidIfPending, TypeOK
      <4> QED
        BY <4>1 DEF OrderClaim, Ended
    <3>3. sold'[t] = sold[t] + Need(o, t)
      BY <2>4 DEF SoldAfter
    <3> QED
      BY <2>1, <3>1, <3>2, <3>3 DEF Balanced
  <2>5. CASE old.pc = "save" /\ (\E s \in Ended : status' = [status EXCEPT ![o] = s]) /\ UNCHANGED sold
    <3>1. status[o] = "PENDING" /\ OrderClaim(o, t) = Need(o, t)
      BY <2>5 DEF SerialInv, OrderClaim, Ended
    <3>2. OrderClaim(o, t)' = lock'[t][o]
      <4>1. status'[o] \in Ended
        BY <1>1, <2>5 DEF TypeOK
      <4> QED
        BY <4>1 DEF OrderClaim, Ended
    <3> QED
      BY <1>3, <2>1, <2>5, <3>1, <3>2 DEF Balanced
  <2> QED
    BY <2>2, <2>3, <2>4, <2>5 DEF Writes
<1> QED
  BY <1>2, <1>3, <1>4 DEF Settles, LocksDrop

\* A creation that aborts keeps its claims until it has released its locks.
LEMMA AbortSettles ==
  ASSUME Known, NEW w \in Workers, NEW o \in Orders, o = call[w].order,
         call[w].pc \in Creating, Abort(w), LocksDrop(o),
         Writes(w), UNCHANGED <<status, sold>>
  PROVE  Settles(w, o)
<1> USE DEF Known
<1> DEFINE old == call[w]
           new == call'[w]
<1>1. /\ o \in Orders /\ old.pc # "idle" /\ old.pc \in Creating /\ old.pc \in BeforeCommit
      /\ old.got \in [Lines(o) -> Nat] /\ Advance(w)
  BY CallFields, AbortAdvances DEF Creating, PerLine, BeforeCommit
<1>2. CASE Locked(w) = {}
  <2>1. new = Idle
    BY <1>1, <1>2, BegunRecord DEF Abort, Finish
  <2> QED
    BY <1>1, <2>1, LeavingSettles DEF Idle, Creating, PerLine
<1>3. CASE Locked(w) # {}
  <2>1. new.pc = "release" /\ new.order = o /\ new.todo = Locked(w) /\ new.got = old.got
    BY <1>1, <1>3, BegunRecord DEF Abort, CallOn
  <2>2. status[o] = "absent" /\ status'[o] = "absent"
    BY <1>1 DEF OrderInv, AbsentBeforeCommit, Creating, PerLine
  <2>3. \A i \in Lines(o) : old.got[i] = 0
    BY <1>1 DEF LockInv, CallLocks, Creating, PerLine
  <2>4. \A t \in Tickets : lock'[t][o] <= Need(o, t)
    <3> SUFFICES ASSUME NEW t \in Tickets PROVE lock'[t][o] <= Need(o, t)
      OBVIOUS
    <3>1. lock[t][o] <= Need(o, t) /\ Need(o, t) \in Nat
      BY <1>1, NeedFacts DEF LockInv
    <3> QED
      BY <3>1 DEF LocksDrop
  <2>5. ASSUME NEW i \in Locked(w) PROVE lock'[Ticket(w, i)][o] <= Qty(w, i) /\ new.got[i] = 0
    <3>1. /\ i \in Lines(o) /\ lock[Ticket(w, i)][o] <= Qty(w, i)
          /\ Ticket(w, i) \in Tickets /\ Qty(w, i) \in Nat
      BY <1>1, <2>5, LineFields DEF Locked, LockInv, CallLocks, Ticket, Qty
    <3> QED
      BY <2>1, <2>3, <3>1 DEF LocksDrop
  <2>6. CallLocks(w)'
    <3>1. \A i \in Lines(o) : Ticket(w, i)' = Ticket(w, i) /\ Qty(w, i)' = Qty(w, i)
      BY <2>1 DEF Ticket, Qty
    <3>2. Locked(w) \subseteq Lines(o)
      BY DEF Locked
    <3> QED
      BY <2>1, <2>2, <2>5, <3>1, <3>2 DEF CallLocks, Creating, PerLine
  <2>7. ASSUME NEW t \in Tickets PROVE Balanced(w, o, t)
    <3>1. \A i \in Lines(o) : LineClaim(w, i)' <= LineClaim(w, i)
      <4> SUFFICES ASSUME NEW i \in Lines(o) PROVE LineClaim(w, i)' <= LineClaim(w, i)
        OBVIOUS
      <4>1. Qty(w, i)' = Qty(w, i) /\ Qty(w, i) \in Nat
        BY <1>1, <2>1, LineFields DEF Qty
      <4>2. LineClaim(w, i)' = IF i \in Locked(w) THEN Qty(w, i) ELSE 0
        BY <2>1, <2>2, <2>3, <4>1 DEF LineClaim, At, Creating, PerLine
      <4>3. LineClaim(w, i) = IF i \in Taken(w) THEN Qty(w, i) ELSE 0
        BY <1>1 DEF LineClaim
      <4>4. Locked(w) \subseteq Taken(w)
        BY DEF Locked, Taken
      <4> QED
        BY <4>1, <4>2, <4>3, <4>4
    <3>2. LinesOf(o, t) \subseteq Lines(o)
      BY DEF LinesOf
    <3>3. CallClaim(w, t)' <= CallClaim(w, t)
      <4> HIDE DEF LineClaim, CallClaim
      <4> QED
        BY <1>1, <2>1, <3>1, <3>2, ClaimFalls
    <3>4. OrderClaim(o, t)' <= OrderClaim(o, t)
      BY <1>1, OrderClaimFalls DEF LocksDrop
    <3>5. /\ CallClaim(w, t) \in Nat /\ CallClaim(w, t)' \in Nat
          /\ OrderClaim(o, t) \in Nat /\ OrderClaim(o, t)' \in Nat
          /\ counter'[t] = counter[t] /\ counter[t] \in Int /\ sold[t] \in Nat
      BY BalanceNumbers DEF LocksDrop
    <3> QED
      BY <3>3, <3>4, <3>5 DEF Balanced
  <2> QED
    BY <2>4, <2>6, <2>7 DEF Settles, LocksDrop
<1> QED
  BY <1>2, <1>3

\* A creation that goes on to the reservation of a line keeps its claims.
LEMMA CreatingSettles ==
  ASSUME Known, NEW w \in Workers, NEW o \in Orders, o = call[w].order,
         call[w].pc \in {"row", "init"},
         call'[w].pc \in {"init", "take"}, call'[w].order = o,
         call'[w].line = call[w].line, call'[w].got = call[w].got,
         UNCHANGED <<status, sold>>,
         \/ UNCHANGED redisVars
         \/ InitializeQuotaIfAbsent(Ticket(w, call[w].line),
                                    Quota[Ticket(w, call[w].line)] - sold[Ticket(w, call[w].line)])
  PROVE  Settles(w, o)
<1> USE DEF Known
<1> DEFINE old == call[w]
           new == call'[w]
           u == Ticket(w, call[w].line)
<1>1. /\ old.pc # "idle" /\ old.pc \in Creating
      /\ new.pc \in {"init", "take"} /\ new.order = o /\ new.line = old.line /\ new.got = old.got
  BY DEF Creating, PerLine
<1>2. lock' = lock /\ u \in Tickets
  BY LineOfCall DEF redisVars, InitializeQuotaIfAbsent, PerLine
<1>3. \A i \in Lines(o) : Ticket(w, i)' = Ticket(w, i) /\ Qty(w, i)' = Qty(w, i)
  BY <1>1 DEF Ticket, Qty
<1>4. \A i \in Lines(o) : LineClaim(w, i)' = LineClaim(w, i)
  BY <1>1, <1>3 DEF LineClaim, Taken, Creating, PerLine, At
<1>5. CallLocks(w)'
  <2>1. /\ \A i \in Lines(o) : i < old.line => lock[Ticket(w, i)][o] <= Qty(w, i)
        /\ \A i \in Lines(o) : old.got[i] = 0
    BY <1>1 DEF LockInv, CallLocks
  <2>2. \A i \in Lines(o) : i < new.line => (lock'[Ticket(w, i)'][o] <= Qty(w, i)' /\ new.got[i] = 0)
    BY <1>1, <1>2, <1>3, <2>1
  <2>3. \A i \in Lines(o) : new.got[i] = 0
    BY <1>1, <2>1
  <2> QED
    BY <1>1, <2>2, <2>3 DEF CallLocks
<1>6. ASSUME NEW t \in Tickets
      PROVE  CallClaim(w, t)' = CallClaim(w, t) /\ OrderClaim(o, t)' = OrderClaim(o, t)
  <2>1. OrderClaim(o, t)' = OrderClaim(o, t)
    BY <1>2 DEF OrderClaim
  <2>2. [i \in Lines(o) |-> LineClaim(w, i)'] = [i \in Lines(o) |-> LineClaim(w, i)]
    BY <1>4
  <2>3. CallClaim(w, t)' = SumFunctionOnSet([i \in Lines(o) |-> LineClaim(w, i)'], LinesOf(o, t))
    BY <1>1 DEF CallClaim, At
  <2>4. CallClaim(w, t) = SumFunctionOnSet([i \in Lines(o) |-> LineClaim(w, i)], LinesOf(o, t))
    BY <1>1 DEF CallClaim, At
  <2> QED
    BY <2>1, <2>2, <2>3, <2>4
<1>7. quotaKeys \subseteq quotaKeys'
  BY DEF redisVars, InitializeQuotaIfAbsent
<1>8. ASSUME NEW t \in Tickets
      PROVE  Created(w, o, t) \/ (Balanced(w, o, t) /\ (t \in quotaKeys' \/ counter'[t] = counter[t]))
  <2>1. /\ CallClaim(w, t) \in Nat /\ OrderClaim(o, t) \in Nat
        /\ counter[t] \in Int /\ sold[t] \in Nat
    BY BalanceNumbers
  <2>2. CASE counter'[t] = counter[t]
    <3> HIDE DEF CallClaim, OrderClaim
    <3> QED
      BY <1>6, <2>1, <2>2 DEF Balanced
  <2>3. CASE counter'[t] # counter[t]
    <3>1. /\ u \notin quotaKeys /\ quotaKeys' = quotaKeys \cup {u}
          /\ counter' = [counter EXCEPT ![u] = IF Quota[u] - sold[u] > 0 THEN Quota[u] - sold[u] ELSE 0]
      BY <2>3 DEF redisVars, InitializeQuotaIfAbsent
    <3>2. t = u
      BY <2>3, <3>1 DEF TypeOK, RedisTypeOK
    <3>3. counter'[t] = IF Quota[t] - sold[t] > 0 THEN Quota[t] - sold[t] ELSE 0
      BY <3>1, <3>2 DEF TypeOK, RedisTypeOK
    <3>4. t \in quotaKeys' \ quotaKeys /\ CallClaim(w, t)' <= CallClaim(w, t)
      BY <1>6, <2>1, <3>1, <3>2
    <3> QED
      BY <1>6, <3>3, <3>4 DEF Created
  <2> QED
    BY <2>2, <2>3
<1>9. OwnLocks(o) /\ \A t \in Tickets : lock'[t][o] <= Need(o, t)
  BY <1>2 DEF LockInv, OwnLocks
<1> QED
  BY <1>5, <1>7, <1>8, <1>9 DEF Settles

\* A line that is reserved is claimed, whether the units were there or not.
LEMMA TakingSettles ==
  ASSUME Known, NoLargerRepeat, NEW w \in Workers, NEW o \in Orders, o = call[w].order, LockLine(w)
  PROVE  Settles(w, o)
<1>0. PICK i, u, q : i = call[w].line /\ u = Ticket(w, i) /\ q = Qty(w, i)
  OBVIOUS
<1> USE <1>0 DEF Known
<1> DEFINE old == call[w]
           new == call'[w]
<1>1. /\ old.pc = "take" /\ old.pc # "idle" /\ old.pc \in Creating
      /\ i \in Lines(o) /\ i \in Nat /\ u \in Tickets /\ q \in Nat \ {0}
      /\ u = Items[o][i].ticket /\ q = Items[o][i].qty
  BY LineOfCall, LinesRange, LineFields, Zenon DEF LockLine, At, PerLine, Creating, Ticket, Qty
<1>2. /\ new.order = o /\ new.got = old.got
      /\ \/ new.pc = "undo" /\ new.line = i
         \/ new.pc = "row" /\ new.line = i + 1
         \/ new.pc = "commit" /\ new.line = i + 1 /\ i = Len(Items[o])
  <2>1. CASE Goto(w, "undo")
    BY <1>1, <2>1, BegunRecord DEF Goto, CallOn
  <2>2. CASE call' = [call EXCEPT ![w].line = i + 1,
                        ![w].pc = IF i = Len(Items[call[w].order]) THEN "commit" ELSE "row"]
    BY <1>1, <2>2, BegunRecord DEF CallOn
  <2> QED
    BY <2>1, <2>2 DEF LockLine
<1>3. /\ UNCHANGED <<status, sold>>
      /\ quotaKeys' = quotaKeys \cup {u}
      /\ \A t \in Tickets : counter'[t] = IF t = u THEN counter[t] - q ELSE counter[t]
      /\ \A t \in Tickets, p \in Orders : lock'[t][p] = IF t = u /\ p = o THEN q ELSE lock[t][p]
  <2>1. UNCHANGED <<status, sold>> /\ TakeQuota(u, o, q)
    BY DEF LockLine, dbVars
  <2>2. counter \in [Tickets -> Int] /\ lock \in [Tickets -> [Orders -> Nat]]
    BY DEF TypeOK, RedisTypeOK
  <2>3. quotaKeys' = quotaKeys \cup {u} /\ counter' = [counter EXCEPT ![u] = @ - q]
        /\ lock' = [lock EXCEPT ![u][o] = q]
    BY <2>1 DEF TakeQuota
  <2>4. \A t \in Tickets : counter'[t] = IF t = u THEN counter[t] - q ELSE counter[t]
    BY <2>2, <2>3
  <2>5. \A t \in Tickets, p \in Orders : lock'[t][p] = IF t = u /\ p = o THEN q ELSE lock[t][p]
    BY <2>2, <2>3
  <2> QED
    BY <2>1, <2>3, <2>4, <2>5
<1>4. \A j \in Lines(o) : /\ Ticket(w, j)' = Ticket(w, j) /\ Qty(w, j)' = Qty(w, j)
                          /\ Ticket(w, j) = Items[o][j].ticket /\ Qty(w, j) = Items[o][j].qty
                          /\ Ticket(w, j) \in Tickets /\ Qty(w, j) \in Nat /\ j \in Nat
  BY <1>2, LineFields DEF Ticket, Qty
<1>5. new.pc \in Creating /\ new.pc \notin {"idle", "release"}
  BY <1>2 DEF Creating, PerLine
<1>6. ASSUME NEW j \in Lines(o), j < new.line \/ (new.pc \in {"undo", "unset"} /\ j = new.line)
      PROVE  lock'[Ticket(w, j)][o] <= Qty(w, j)
  <2>1. j < i \/ j = i
    <3>1. i \in Nat /\ j \in Nat
      BY <1>1, <1>4
    <3>2. j <= i
      <4>1. CASE new.pc = "undo" /\ new.line = i
        BY <1>6, <3>1, <4>1
      <4>2. CASE new.line = i + 1
        BY <1>2, <1>6, <3>1, <4>2
      <4> QED
        BY <1>2, <4>1, <4>2
    <3> QED
      BY <3>1, <3>2
  <2>2. CASE Ticket(w, j) = u
    <3>1. lock'[Ticket(w, j)][o] = q
      BY <1>1, <1>3, <2>2
    <3>2. q <= Qty(w, j)
      BY <1>1, <1>4, <2>1, <2>2 DEF NoLargerRepeat
    <3> QED
      BY <3>1, <3>2
  <2>3. CASE Ticket(w, j) # u
    <3>1. lock'[Ticket(w, j)][o] = lock[Ticket(w, j)][o]
      BY <1>3, <1>4, <2>3
    <3>2. j < i
      BY <2>1, <2>3
    <3> QED
      BY <1>1, <3>1, <3>2 DEF LockInv, CallLocks
  <2> QED
    BY <2>2, <2>3
<1>7. ASSUME new.pc = "commit", NEW j \in Lines(o) PROVE j < new.line
  <2>1. new.line = i + 1 /\ i = Len(Items[o]) /\ Lines(o) = 1..Len(Items[o])
    BY <1>2, <1>7, LinesRange
  <2> QED
    BY <1>1, <1>4, <2>1
<1>8. \A j \in Lines(o) : new.got[j] = 0
  BY <1>1, <1>2 DEF LockInv, CallLocks
<1>9. CallLocks(w)'
  BY <1>2, <1>4, <1>5, <1>6, <1>7, <1>8 DEF CallLocks
<1>10. \A t \in Tickets : lock'[t][o] <= Need(o, t)
  <2> SUFFICES ASSUME NEW t \in Tickets PROVE lock'[t][o] <= Need(o, t)
    OBVIOUS
  <2>1. t = u => q <= Need(o, t)
    BY <1>1, NeedFacts DEF LinesOf
  <2> QED
    BY <1>3, <2>1 DEF LockInv
<1>11. \A j \in Lines(o) : LineClaim(w, j)' = IF j = i THEN LineClaim(w, i) + q ELSE LineClaim(w, j)
  <2> SUFFICES ASSUME NEW j \in Lines(o)
               PROVE  LineClaim(w, j)' = IF j = i THEN LineClaim(w, i) + q ELSE LineClaim(w, j)
    OBVIOUS
  <2>1. LineClaim(w, j) = IF j < i THEN Qty(w, j) ELSE 0
    BY <1>1 DEF LineClaim, Taken, At
  <2>2. LineClaim(w, i) = 0
    BY <1>1 DEF LineClaim, Taken, At
  <2>3. LineClaim(w, j)' = IF j < new.line \/ (new.pc = "undo" /\ j = new.line) THEN Qty(w, j) ELSE 0
    BY <1>2, <1>4, <1>5 DEF LineClaim, Taken, At
  <2>4. (j < new.line \/ (new.pc = "undo" /\ j = new.line)) <=> j <= i
    BY <1>1, <1>2, <1>4
  <2>5. j \in Nat /\ i \in Nat /\ Qty(w, j) \in Nat /\ q \in Nat /\ (j = i => Qty(w, j) = q)
    BY <1>1, <1>4
  <2>6. CASE j = i
    BY <2>2, <2>3, <2>4, <2>5, <2>6
  <2>7. CASE j # i
    BY <2>1, <2>3, <2>4, <2>5, <2>7
  <2> QED
    BY <2>6, <2>7
<1>12. ASSUME NEW t \in Tickets PROVE Balanced(w, o, t)
  <2>1. /\ CallClaim(w, t) \in Nat /\ CallClaim(w, t)' \in Nat
        /\ OrderClaim(o, t) \in Nat /\ OrderClaim(o, t)' = OrderClaim(o, t)
        /\ counter[t] \in Int /\ sold[t] \in Nat /\ sold'[t] = sold[t]
    <3>1. status[o] = "absent" /\ status' = status
      BY <1>1, <1>3 DEF OrderInv, AbsentBeforeCommit
    <3>2. OrderClaim(o, t)' = OrderClaim(o, t)
      BY <3>1 DEF OrderClaim, Ended
    <3>3. /\ CallClaim(w, t) \in Nat /\ CallClaim(w, t)' \in Nat
          /\ OrderClaim(o, t) \in Nat /\ counter[t] \in Int /\ sold[t] \in Nat
      BY BalanceNumbers
    <3> QED
      BY <1>3, <3>2, <3>3
  <2>2. \A j \in Lines(o) : LineClaim(w, j) \in Nat
    BY <1>1, ClaimFacts DEF ClaimNumbers
  <2>3. CASE t = u
    <3>1. i \in LinesOf(o, t) /\ \A j \in LinesOf(o, t) \ {i} : LineClaim(w, j)' <= LineClaim(w, j)
      <4>1. i \in LinesOf(o, t)
        BY <1>1, <2>3 DEF LinesOf
      <4>2. ASSUME NEW j \in LinesOf(o, t) \ {i} PROVE LineClaim(w, j)' <= LineClaim(w, j)
        <5>1. j \in Lines(o) /\ j # i
          BY DEF LinesOf
        <5>2. LineClaim(w, j)' = LineClaim(w, j) /\ LineClaim(w, j) \in Nat
          BY <1>11, <2>2, <5>1
        <5> QED
          BY <5>2
      <4> QED
        BY <4>1, <4>2
    <3>2. LineClaim(w, i)' + 0 <= LineClaim(w, i) + q
      BY <1>1, <1>11, <2>2
    <3>3. CallClaim(w, t)' + 0 <= CallClaim(w, t) + q
      <4>1. call'[w].pc # "idle" /\ call'[w].order = call[w].order /\ i \in LinesOf(call[w].order, t)
        BY <1>1, <1>2, <1>5, <3>1
      <4>2. LineClaim(w, i)' + 0 <= LineClaim(w, i) + q /\ 0 \in Nat /\ q \in Nat
        BY <1>1, <3>2
      <4>3. \A j \in LinesOf(call[w].order, t) \ {i} : LineClaim(w, j)' <= LineClaim(w, j)
        BY <3>1
      <4>4. call[w].pc # "idle" /\ TypeOK /\ TypeOK'
        BY <1>1
      <4> HIDE <1>0
      <4> HIDE DEF LineClaim, CallClaim
      <4> QED
        BY <4>1, <4>2, <4>3, <4>4, ClaimMoves
    <3>4. counter'[t] = counter[t] - q
      BY <1>3, <2>3
    <3> QED
      BY <1>1, <2>1, <3>3, <3>4 DEF Balanced
  <2>4. CASE t # u
    <3>1. \A j \in LinesOf(o, t) : LineClaim(w, j)' <= LineClaim(w, j)
      <4> SUFFICES ASSUME NEW j \in LinesOf(o, t) PROVE LineClaim(w, j)' <= LineClaim(w, j)
        OBVIOUS
      <4>1. j \in Lines(o) /\ j # i
        BY <1>1, <2>4 DEF LinesOf
      <4>2. LineClaim(w, j)' = LineClaim(w, j) /\ LineClaim(w, j) \in Nat
        BY <1>11, <2>2, <4>1
      <4> QED
        BY <4>2
    <3>2. CallClaim(w, t)' <= CallClaim(w, t)
      <4> HIDE DEF LineClaim, CallClaim
      <4> QED
        BY <1>1, <1>2, <1>5, <3>1, ClaimFalls
    <3>3. counter'[t] = counter[t]
      BY <1>3, <2>4
    <3> QED
      BY <2>1, <3>2, <3>3 DEF Balanced
  <2> QED
    BY <2>3, <2>4
<1>13. OwnLocks(o) /\ quotaKeys \subseteq quotaKeys' /\ \A t \in Tickets : t \in quotaKeys' \/ counter'[t] = counter[t]
  BY <1>3 DEF OwnLocks
<1> QED
  BY <1>9, <1>10, <1>12, <1>13 DEF Settles

\* What was overdrawn is claimed no longer when it is back.
LEMMA UndoSettles ==
  ASSUME Known, NEW w \in Workers, NEW o \in Orders, o = call[w].order, UndoLine(w)
  PROVE  Settles(w, o)
<1>0. PICK i, u, q : i = call[w].line /\ u = Ticket(w, i) /\ q = Qty(w, i)
  OBVIOUS
<1> USE <1>0 DEF Known
<1> DEFINE old == call[w]
           new == call'[w]
<1>1. /\ old.pc = "undo" /\ old.pc # "idle" /\ old.pc \in Creating
      /\ i \in Lines(o) /\ i \in Nat /\ u \in Tickets /\ q \in Nat \ {0}
      /\ u = Items[o][i].ticket
  BY LineOfCall, LinesRange, LineFields, Zenon DEF UndoLine, At, PerLine, Creating, Ticket, Qty
<1>2. new.order = o /\ new.got = old.got /\ new.pc = "unset" /\ new.line = i
  BY <1>1, BegunRecord DEF UndoLine, Goto, CallOn
<1>3. /\ UNCHANGED <<status, sold, lock>>
      /\ quotaKeys' = quotaKeys \cup {u}
      /\ \A t \in Tickets : counter'[t] = IF t = u THEN counter[t] + q ELSE counter[t]
  BY DEF UndoLine, ReturnOverdraft, TypeOK, RedisTypeOK, dbVars
<1>4. \A j \in Lines(o) : Ticket(w, j)' = Ticket(w, j) /\ Qty(w, j)' = Qty(w, j) /\ j \in Nat /\ Qty(w, j) \in Nat
  BY <1>2, LineFields DEF Ticket, Qty
<1>5. CallLocks(w)'
  BY <1>1, <1>2, <1>3, <1>4 DEF LockInv, CallLocks, Creating, PerLine
<1>6. \A j \in Lines(o) : IF j = i THEN LineClaim(w, j)' = 0 /\ LineClaim(w, j) = q
                          ELSE LineClaim(w, j)' = LineClaim(w, j)
  <2> SUFFICES ASSUME NEW j \in Lines(o)
               PROVE  IF j = i THEN LineClaim(w, j)' = 0 /\ LineClaim(w, j) = q
                      ELSE LineClaim(w, j)' = LineClaim(w, j)
    OBVIOUS
  <2>1. LineClaim(w, j) = IF j < i \/ j = i THEN Qty(w, j) ELSE 0
    BY <1>1 DEF LineClaim, Taken, At
  <2>2. LineClaim(w, j)' = IF j < i THEN Qty(w, j) ELSE 0
    BY <1>2, <1>4 DEF LineClaim, Taken, At, Creating, PerLine
  <2> QED
    BY <1>1, <1>4, <2>1, <2>2
<1>7. ASSUME NEW t \in Tickets PROVE Balanced(w, o, t)
  <2>1. /\ CallClaim(w, t) \in Nat /\ CallClaim(w, t)' \in Nat
        /\ OrderClaim(o, t) \in Nat /\ OrderClaim(o, t)' = OrderClaim(o, t)
        /\ counter[t] \in Int /\ sold[t] \in Nat /\ sold'[t] = sold[t]
    <3>1. OrderClaim(o, t)' = OrderClaim(o, t)
      BY <1>3 DEF OrderClaim
    <3> QED
      BY <1>3, <3>1, BalanceNumbers
  <2>2. \A j \in Lines(o) : LineClaim(w, j) \in Nat
    BY <1>1, ClaimFacts DEF ClaimNumbers
  <2>3. CASE t = u
    <3>1. i \in LinesOf(o, t) /\ \A j \in LinesOf(o, t) \ {i} : LineClaim(w, j)' <= LineClaim(w, j)
      <4>1. i \in LinesOf(o, t)
        BY <1>1, <2>3 DEF LinesOf
      <4>2. ASSUME NEW j \in LinesOf(o, t) \ {i} PROVE LineClaim(w, j)' <= LineClaim(w, j)
        <5>1. j \in Lines(o) /\ j # i
          BY DEF LinesOf
        <5>2. LineClaim(w, j)' = LineClaim(w, j) /\ LineClaim(w, j) \in Nat
          BY <1>6, <2>2, <5>1
        <5> QED
          BY <5>2
      <4> QED
        BY <4>1, <4>2
    <3>2. LineClaim(w, i)' + q <= LineClaim(w, i) + 0
      BY <1>1, <1>6
    <3>3. CallClaim(w, t)' + q <= CallClaim(w, t) + 0
      <4>1. call'[w].pc # "idle" /\ call'[w].order = call[w].order /\ i \in LinesOf(call[w].order, t)
        BY <1>1, <1>2, <3>1
      <4>2. LineClaim(w, i)' + q <= LineClaim(w, i) + 0 /\ 0 \in Nat /\ q \in Nat
        BY <1>1, <3>2
      <4>3. \A j \in LinesOf(call[w].order, t) \ {i} : LineClaim(w, j)' <= LineClaim(w, j)
        BY <3>1
      <4>4. call[w].pc # "idle" /\ TypeOK /\ TypeOK'
        BY <1>1
      <4> HIDE <1>0
      <4> HIDE DEF LineClaim, CallClaim
      <4> QED
        BY <4>1, <4>2, <4>3, <4>4, ClaimMoves
    <3>4. counter'[t] = counter[t] + q
      BY <1>3, <2>3
    <3> QED
      BY <1>1, <2>1, <3>3, <3>4 DEF Balanced
  <2>4. CASE t # u
    <3>1. \A j \in LinesOf(o, t) : LineClaim(w, j)' <= LineClaim(w, j)
      <4> SUFFICES ASSUME NEW j \in LinesOf(o, t) PROVE LineClaim(w, j)' <= LineClaim(w, j)
        OBVIOUS
      <4>1. j \in Lines(o) /\ j # i
        BY <1>1, <2>4 DEF LinesOf
      <4>2. LineClaim(w, j)' = LineClaim(w, j) /\ LineClaim(w, j) \in Nat
        BY <1>6, <2>2, <4>1
      <4> QED
        BY <4>2
    <3>2. CallClaim(w, t)' <= CallClaim(w, t)
      <4> HIDE DEF LineClaim, CallClaim
      <4> QED
        BY <1>1, <1>2, <3>1, ClaimFalls
    <3>3. counter'[t] = counter[t]
      BY <1>3, <2>4
    <3> QED
      BY <2>1, <3>2, <3>3 DEF Balanced
  <2> QED
    BY <2>3, <2>4
<1>8. /\ OwnLocks(o) /\ quotaKeys \subseteq quotaKeys'
      /\ \A t \in Tickets : lock'[t][o] <= Need(o, t)
      /\ \A t \in Tickets : t \in quotaKeys' \/ counter'[t] = counter[t]
  BY <1>3 DEF OwnLocks, LockInv
<1> QED
  BY <1>5, <1>7, <1>8 DEF Settles

\* What a step of releaseTicketQuota makes of the call.
LEMMA ReleasedCall ==
  ASSUME TypeOK, NEW w \in Workers, call[w].pc = "release", NEW todo, NEW got,
         Released(w, todo, got)
  PROVE  \/ call'[w].pc = "idle" /\ ~\E i \in DOMAIN got : got[i] > 0
         \/ /\ call'[w].order = call[w].order /\ call'[w].todo = todo /\ call'[w].got = got
            /\ \/ call'[w].pc = "release"
               \/ /\ call'[w].pc = "reread" /\ call[w].rounds > 0
                  /\ ~\E i \in DOMAIN got : got[i] > 0
<1>1. CASE todo # {} \/ \E i \in DOMAIN got : got[i] > 0
  BY <1>1, BegunRecord DEF Released, CallOn
<1>2. CASE ~(todo # {} \/ \E i \in DOMAIN got : got[i] > 0) /\ call[w].rounds > 0
  BY <1>2, BegunRecord DEF Released, CallOn
<1>3. CASE ~(todo # {} \/ \E i \in DOMAIN got : got[i] > 0) /\ ~(call[w].rounds > 0)
  BY <1>3, BegunRecord DEF Released, Idle
<1> QED
  BY <1>1, <1>2, <1>3

\* A step of releaseTicketQuota for line i: the lock key is read, or the read
\* fails and nothing is given back; what was read is given back, or that fails.
ReadsLock(w, i) ==
  /\ i \in call[w].todo
  /\ \E n \in {0, lock[Ticket(w, i)][call[w].order]} :
       Released(w, call[w].todo \ {i}, [call[w].got EXCEPT ![i] = n])
  /\ UNCHANGED redisVars

GivesBack(w, i) ==
  /\ MayReturn(w, i)
  /\ Released(w, call[w].todo, [call[w].got EXCEPT ![i] = 0])
  /\ \/ UNCHANGED redisVars
     \/ ReturnQuota(Ticket(w, i), call[w].order, call[w].got[i])

ReleaseStep(w, i) ==
  /\ At(w, "release") /\ i \in Lines(call[w].order)
  /\ UNCHANGED <<status, sold>>
  /\ \/ (Aborting(w) \/ NothingRead(w)) /\ ReadsLock(w, i)
     \/ GivesBack(w, i)

\* An order that has not come to be gives back no more than its lines took.
LEMMA AbsentReleaseSettles ==
  ASSUME Known, NEW w \in Workers, NEW o \in Orders, o = call[w].order,
         NEW i \in Lines(o), ReleaseStep(w, i), status[o] = "absent"
  PROVE  Settles(w, o)
<1> USE DEF Known
<1> DEFINE old == call[w]
           new == call'[w]
<1>0. PICK u, g : u = Ticket(w, i) /\ g = call[w].got[i]
  OBVIOUS
<1>1. /\ old.pc = "release" /\ old.got \in [Lines(o) -> Nat] /\ old.todo \subseteq Lines(o)
      /\ u \in Tickets /\ g \in Nat /\ u = Items[o][i].ticket /\ i \in LinesOf(o, u)
  BY <1>0, CallFields, LineFields DEF ReleaseStep, At, Ticket, LinesOf
<1>2. /\ status' = status /\ sold' = sold /\ status'[o] = "absent"
      /\ old.rounds = 0
  BY <1>1 DEF ReleaseStep, OrderInv, ReleasesEnded, At, Ended
<1>3. \A j \in Lines(o) : /\ Ticket(w, j) \in Tickets /\ Qty(w, j) \in Nat
                          /\ Ticket(w, j) = Items[o][j].ticket /\ Qty(w, j) = Items[o][j].qty
                          /\ old.got[j] \in Nat
                          /\ LineClaim(w, j) = IF j \in old.todo THEN Qty(w, j) ELSE old.got[j]
  BY <1>1, LineFields DEF Ticket, Qty, LineClaim, At, Creating, PerLine
<1>4. \A j \in old.todo : lock[Ticket(w, j)][o] <= Qty(w, j) /\ old.got[j] = 0
  BY <1>1 DEF LockInv, CallLocks
<1>5. lock \in [Tickets -> [Orders -> Nat]] /\ counter \in [Tickets -> Int] /\ quotaKeys \subseteq Tickets
  BY DEF TypeOK, RedisTypeOK
<1>6. ASSUME NEW todo \in SUBSET Lines(o), NEW got \in [Lines(o) -> Nat], Released(w, todo, got),
             todo \subseteq old.todo, \A j \in todo : got[j] = 0,
             \A t \in Tickets : lock'[t][o] \in {lock[t][o], 0}
      PROVE  /\ CallLocks(w)'
             /\ new.pc = "idle" \/ (new.pc # "idle" /\ new.order = o)
             /\ new.pc # "idle" =>
                  \A j \in Lines(o) : LineClaim(w, j)' = IF j \in todo THEN Qty(w, j) ELSE got[j]
  <2>1. CASE new.pc = "idle"
    BY <2>1 DEF CallLocks, Creating, PerLine
  <2>2. CASE new.pc # "idle"
    <3>1. new.pc = "release" /\ new.order = o /\ new.todo = todo /\ new.got = got
      BY <1>1, <1>2, <1>6, <2>2, ReleasedCall
    <3>2. \A j \in Lines(o) : Ticket(w, j)' = Ticket(w, j) /\ Qty(w, j)' = Qty(w, j)
      BY <3>1 DEF Ticket, Qty
    <3>3. \A j \in Lines(o) : LineClaim(w, j)' = IF j \in todo THEN Qty(w, j) ELSE got[j]
      BY <1>2, <3>1, <3>2 DEF LineClaim, At, Creating, PerLine
    <3>4. \A j \in todo : lock'[Ticket(w, j)'][o] <= Qty(w, j)' /\ new.got[j] = 0
      <4> SUFFICES ASSUME NEW j \in todo
                   PROVE  lock'[Ticket(w, j)'][o] <= Qty(w, j)' /\ new.got[j] = 0
        OBVIOUS
      <4>1. lock[Ticket(w, j)][o] <= Qty(w, j) /\ Ticket(w, j) \in Tickets /\ Qty(w, j) \in Nat
        BY <1>3, <1>4, <1>6
      <4>2. lock'[Ticket(w, j)][o] \in {lock[Ticket(w, j)][o], 0}
        BY <1>6, <4>1
      <4> QED
        BY <1>6, <3>1, <3>2, <4>1, <4>2
    <3>5. CallLocks(w)'
      BY <1>2, <3>1, <3>4 DEF CallLocks, Creating, PerLine
    <3> QED
      BY <3>1, <3>3, <3>5
  <2> QED
    BY <2>1, <2>2
<1>7. \A t \in Tickets : lock[t][o] <= Need(o, t) /\ lock[t][o] \in Nat /\ Need(o, t) \in Nat
  BY <1>5, NeedFacts DEF LockInv
<1>8. \A t \in Tickets : OrderClaim(o, t)' = 0 /\ OrderClaim(o, t) = 0
  BY <1>2 DEF OrderClaim, Ended
<1>9. CASE ReadsLock(w, i)
  <2>1. PICK n \in {0, lock[u][o]} : Released(w, old.todo \ {i}, [old.got EXCEPT ![i] = n])
    BY <1>0, <1>9 DEF ReadsLock
  <2>2. PICK todo, got : todo = old.todo \ {i} /\ got = [old.got EXCEPT ![i] = n]
    BY Zenon
  <2>3. n \in Nat /\ n <= Qty(w, i) /\ i \in old.todo /\ UNCHANGED redisVars
    <3>1. i \in old.todo /\ UNCHANGED redisVars
      BY <1>9 DEF ReadsLock
    <3>2. lock[u][o] \in Nat /\ lock[u][o] <= Qty(w, i) /\ Qty(w, i) \in Nat
      BY <1>0, <1>1, <1>3, <1>4, <1>5, <3>1, Zenon
    <3> QED
      BY <2>1, <3>1, <3>2
  <2>4. /\ todo \in SUBSET Lines(o) /\ got \in [Lines(o) -> Nat]
        /\ todo \subseteq old.todo /\ \A j \in todo : got[j] = 0
        /\ \A t \in Tickets : lock'[t][o] \in {lock[t][o], 0}
    BY <1>1, <1>4, <2>2, <2>3 DEF redisVars
  <2>5. /\ CallLocks(w)'
        /\ new.pc = "idle" \/ (new.pc # "idle" /\ new.order = o)
        /\ new.pc # "idle" =>
             \A j \in Lines(o) : LineClaim(w, j)' = IF j \in todo THEN Qty(w, j) ELSE got[j]
    BY <1>6, <2>1, <2>2, <2>4
  <2>6. new.pc # "idle" => \A j \in Lines(o) : LineClaim(w, j)' <= LineClaim(w, j)
    <3> SUFFICES ASSUME new.pc # "idle", NEW j \in Lines(o) PROVE LineClaim(w, j)' <= LineClaim(w, j)
      OBVIOUS
    <3>1. LineClaim(w, j)' = IF j \in todo THEN Qty(w, j) ELSE got[j]
      BY <2>5
    <3>2. got[j] = IF j = i THEN n ELSE old.got[j]
      BY <1>1, <2>2
    <3> QED
      BY <1>3, <2>2, <2>3, <3>1, <3>2
  <2>7. ASSUME NEW t \in Tickets PROVE Balanced(w, o, t)
    <3>1. LinesOf(o, t) \subseteq Lines(o)
      BY DEF LinesOf
    <3>2. CallClaim(w, t)' <= CallClaim(w, t)
      <4> HIDE DEF LineClaim, CallClaim
      <4> QED
        BY <1>1, <2>5, <2>6, <3>1, ClaimFalls
    <3>3. /\ CallClaim(w, t) \in Nat /\ CallClaim(w, t)' \in Nat
          /\ counter'[t] = counter[t] /\ counter[t] \in Int /\ sold[t] \in Nat
      BY <2>3, BalanceNumbers DEF redisVars
    <3> QED
      BY <1>2, <1>8, <3>2, <3>3 DEF Balanced
  <2>8. UNCHANGED redisVars
    BY <2>3
  <2> QED
    BY <1>7, <2>5, <2>7, <2>8 DEF Settles, OwnLocks, redisVars
<1>10. CASE GivesBack(w, i)
  <2>1. PICK got : got = [old.got EXCEPT ![i] = 0]
    OBVIOUS
  <2>2. Released(w, old.todo, got) /\ old.todo = {} /\ g > 0
    BY <1>0, <1>2, <1>10, <2>1 DEF GivesBack, MayReturn, Aborting
  <2>3. /\ got \in [Lines(o) -> Nat]
        /\ \A j \in Lines(o) : got[j] = IF j = i THEN 0 ELSE old.got[j]
    BY <1>1, <2>1
  <2>4. \/ UNCHANGED redisVars
        \/ /\ quotaKeys' = quotaKeys \cup {u}
           /\ \A t \in Tickets : counter'[t] = IF t = u THEN counter[t] + g ELSE counter[t]
           /\ \A t \in Tickets, p \in Orders : lock'[t][p] = IF t = u /\ p = o THEN 0 ELSE lock[t][p]
    <3>1. CASE ReturnQuota(u, o, g)
      <4>1. /\ quotaKeys' = quotaKeys \cup {u} /\ counter' = [counter EXCEPT ![u] = @ + g]
            /\ lock' = [lock EXCEPT ![u][o] = 0]
        BY <3>1 DEF ReturnQuota
      <4>2. \A t \in Tickets : counter'[t] = IF t = u THEN counter[t] + g ELSE counter[t]
        BY <1>5, <4>1
      <4>3. \A t \in Tickets, p \in Orders : lock'[t][p] = IF t = u /\ p = o THEN 0 ELSE lock[t][p]
        BY <1>5, <4>1
      <4> QED
        BY <4>1, <4>2, <4>3
    <3> QED
      BY <1>0, <1>10, <3>1 DEF GivesBack
  <2>5. \A t \in Tickets : lock'[t][o] \in {lock[t][o], 0}
    BY <2>4 DEF redisVars
  <2>6. /\ CallLocks(w)'
        /\ new.pc = "idle" \/ (new.pc # "idle" /\ new.order = o)
        /\ new.pc # "idle" => \A j \in Lines(o) : LineClaim(w, j)' = got[j]
    BY <1>6, <2>2, <2>3, <2>5
  <2>7. \A j \in Lines(o) : LineClaim(w, j) = old.got[j]
    BY <1>3, <2>2
  <2>8. ASSUME NEW t \in Tickets PROVE Balanced(w, o, t)
    <3>1. LinesOf(o, t) \subseteq Lines(o)
      BY DEF LinesOf
    <3>2. /\ CallClaim(w, t) \in Nat /\ CallClaim(w, t)' \in Nat
          /\ counter[t] \in Int /\ sold[t] \in Nat
      BY BalanceNumbers
    <3>3. CASE counter'[t] = counter[t]
      <4>1. new.pc # "idle" => \A j \in LinesOf(o, t) : LineClaim(w, j)' <= LineClaim(w, j)
        <5> SUFFICES ASSUME new.pc # "idle", NEW j \in LinesOf(o, t)
                     PROVE  LineClaim(w, j)' <= LineClaim(w, j)
          OBVIOUS
        <5> QED
          BY <1>3, <2>3, <2>6, <2>7, <3>1
      <4>2. CallClaim(w, t)' <= CallClaim(w, t)
        <5> HIDE DEF LineClaim, CallClaim
        <5> QED
          BY <1>1, <2>6, <4>1, ClaimFalls
      <4> QED
        BY <1>2, <1>8, <3>2, <3>3, <4>2 DEF Balanced
    <3>4. CASE counter'[t] # counter[t]
      <4>1. t = u /\ counter'[t] = counter[t] + g
        BY <2>4, <3>4 DEF redisVars
      <4>2. LineClaim(w, i) = g /\ (new.pc # "idle" => LineClaim(w, i)' = 0)
        BY <1>0, <2>3, <2>6, <2>7
      <4>3. new.pc # "idle" => \A j \in LinesOf(o, t) \ {i} : LineClaim(w, j)' <= LineClaim(w, j)
        <5> SUFFICES ASSUME new.pc # "idle", NEW j \in LinesOf(o, t) \ {i}
                     PROVE  LineClaim(w, j)' <= LineClaim(w, j)
          OBVIOUS
        <5> QED
          BY <1>3, <2>3, <2>6, <2>7, <3>1
      <4>4. /\ i \in LinesOf(o, t) /\ 0 \in Nat /\ g \in Nat
            /\ g <= LineClaim(w, i) + 0 /\ (new.pc # "idle" => LineClaim(w, i)' + g <= LineClaim(w, i) + 0)
        BY <1>1, <4>1, <4>2
      <4>5. CallClaim(w, t)' + g <= CallClaim(w, t) + 0
        <5> HIDE DEF LineClaim, CallClaim
        <5> QED
          BY <1>1, <2>6, <4>3, <4>4, ClaimMoves
      <4>6. OrderClaim(o, t)' = 0 /\ OrderClaim(o, t) = 0 /\ sold'[t] = sold[t] /\ g \in Nat
        BY <1>1, <1>2, <1>8
      <4>7. counter'[t] + CallClaim(w, t)' <= counter[t] + CallClaim(w, t)
        BY <3>2, <4>1, <4>5, <4>6
      <4> QED
        BY <3>2, <4>1, <4>6, <4>7 DEF Balanced
    <3> QED
      BY <3>3, <3>4
  <2>9. /\ OwnLocks(o) /\ quotaKeys \subseteq quotaKeys'
        /\ \A t \in Tickets : t \in quotaKeys' \/ counter'[t] = counter[t]
    BY <2>4 DEF OwnLocks, redisVars
  <2> QED
    BY <1>7, <2>5, <2>6, <2>8, <2>9 DEF Settles
<1> QED
  BY <1>9, <1>10 DEF ReleaseStep

\* An order that has ended gives back what its lock key said when it was read,
\* and the key is gone then.
LEMMA EndedReleaseSettles ==
  ASSUME Known, NEW w \in Workers, NEW o \in Orders, o = call[w].order,
         NEW i \in Lines(o), ReleaseStep(w, i), status[o] \in Ended
  PROVE  Settles(w, o)
<1> USE DEF Known
<1> DEFINE old == call[w]
           new == call'[w]
           Over(n, t) == IF n > lock[t][o] THEN n - lock[t][o] ELSE 0
<1>0. PICK u, g : u = Ticket(w, i) /\ g = call[w].got[i]
  OBVIOUS
<1>1. /\ old.pc = "release" /\ old.got \in [Lines(o) -> Nat] /\ old.todo \subseteq Lines(o)
      /\ u \in Tickets /\ g \in Nat /\ u = Items[o][i].ticket /\ i \in LinesOf(o, u)
  BY <1>0, CallFields, LineFields DEF ReleaseStep, At, Ticket, LinesOf
<1>2. /\ status' = status /\ sold' = sold /\ status[o] # "absent"
  BY DEF ReleaseStep, Ended
<1>3. \A j \in Lines(o) : /\ Ticket(w, j) \in Tickets /\ Ticket(w, j) = Items[o][j].ticket
                          /\ old.got[j] \in Nat
                          /\ LineClaim(w, j) = Over(old.got[j], Ticket(w, j))
  BY <1>1, <1>2, LineFields DEF Ticket, LineClaim, At, Creating, PerLine
<1>4. \A j, k \in Lines(o) : old.got[j] > 0 /\ old.got[k] > 0 => j = k
  BY <1>1, <1>2 DEF LockInv, CallLocks
<1>5. /\ lock \in [Tickets -> [Orders -> Nat]] /\ counter \in [Tickets -> Int] /\ quotaKeys \subseteq Tickets
      /\ lock' \in [Tickets -> [Orders -> Nat]]
  BY DEF TypeOK, RedisTypeOK
<1>6. ASSUME NEW todo \in SUBSET Lines(o), NEW got \in [Lines(o) -> Nat], Released(w, todo, got),
             \A j, k \in Lines(o) : got[j] > 0 /\ got[k] > 0 => j = k
      PROVE  /\ CallLocks(w)'
             /\ new.pc = "idle" \/ (new.pc # "idle" /\ new.order = o)
             /\ new.pc # "idle" =>
                  \A j \in Lines(o) : LineClaim(w, j)' = Over(got[j], Ticket(w, j))'
  <2>1. CASE new.pc = "idle"
    BY <2>1 DEF CallLocks, Creating, PerLine
  <2>2. CASE new.pc = "release" /\ new.order = o /\ new.got = got
    <3>1. \A j \in Lines(o) : Ticket(w, j)' = Ticket(w, j)
      BY <2>2 DEF Ticket
    <3>2. CallLocks(w)'
      BY <1>2, <1>6, <2>2 DEF CallLocks, Creating, PerLine
    <3>3. \A j \in Lines(o) : LineClaim(w, j)' = Over(got[j], Ticket(w, j))'
      BY <1>2, <2>2, <3>1 DEF LineClaim, At, Creating, PerLine
    <3> QED
      BY <2>2, <3>2, <3>3
  <2>3. CASE new.pc = "reread" /\ new.order = o /\ new.got = got /\ ~\E j \in DOMAIN got : got[j] > 0
    <3>1. \A j \in Lines(o) : Ticket(w, j)' = Ticket(w, j) /\ got[j] = 0
      BY <1>6, <2>3 DEF Ticket
    <3>2. CallLocks(w)'
      BY <2>3, <3>1 DEF CallLocks, Creating, PerLine
    <3>3. \A j \in Lines(o) : LineClaim(w, j)' = 0
      BY <2>3 DEF LineClaim, At, Creating, PerLine
    <3>4. \A j \in Lines(o) : Over(got[j], Ticket(w, j))' = 0
      <4> SUFFICES ASSUME NEW j \in Lines(o) PROVE Over(got[j], Ticket(w, j))' = 0
        OBVIOUS
      <4>1. lock'[Ticket(w, j)][o] \in Nat
        BY <1>3, <1>5
      <4> QED
        BY <3>1, <4>1
    <3> QED
      BY <2>3, <3>2, <3>3, <3>4
  <2> QED
    BY <1>1, <1>6, <2>1, <2>2, <2>3, ReleasedCall
<1>7. \A t \in Tickets : lock[t][o] <= Need(o, t) /\ lock[t][o] \in Nat /\ Need(o, t) \in Nat
  BY <1>5, NeedFacts DEF LockInv
<1>8. \A t \in Tickets : OrderClaim(o, t)' = lock'[t][o] /\ OrderClaim(o, t) = lock[t][o]
  BY <1>2 DEF OrderClaim, Ended
<1>9. CASE (Aborting(w) \/ NothingRead(w)) /\ ReadsLock(w, i)
  <2>1. PICK n \in {0, lock[u][o]} : Released(w, old.todo \ {i}, [old.got EXCEPT ![i] = n])
    BY <1>0, <1>9 DEF ReadsLock
  <2>2. PICK todo, got : todo = old.todo \ {i} /\ got = [old.got EXCEPT ![i] = n]
    OBVIOUS
  <2>3. n \in Nat /\ UNCHANGED redisVars
    BY <1>1, <1>5, <1>9 DEF ReadsLock
  <2>4. \A j \in Lines(o) : old.got[j] = 0
    BY <1>2, <1>9 DEF NothingRead, Aborting
  <2>5. \A j \in Lines(o) : got[j] = IF j = i THEN n ELSE 0
    BY <1>1, <2>2, <2>4
  <2>6. /\ todo \in SUBSET Lines(o) /\ got \in [Lines(o) -> Nat]
        /\ \A j, k \in Lines(o) : got[j] > 0 /\ got[k] > 0 => j = k
    <3>1. todo \in SUBSET Lines(o) /\ got \in [Lines(o) -> Nat]
      BY <1>1, <2>2, <2>3
    <3>2. \A j \in Lines(o) : got[j] > 0 => j = i
      BY <2>5
    <3> QED
      BY <3>1, <3>2
  <2>7. /\ CallLocks(w)'
        /\ new.pc = "idle" \/ (new.pc # "idle" /\ new.order = o)
        /\ new.pc # "idle" =>
             \A j \in Lines(o) : LineClaim(w, j)' = Over(got[j], Ticket(w, j))'
    BY <1>6, <2>1, <2>2, <2>6
  <2>8. new.pc # "idle" => \A j \in Lines(o) : LineClaim(w, j)' <= LineClaim(w, j)
    <3> SUFFICES ASSUME new.pc # "idle", NEW j \in Lines(o) PROVE LineClaim(w, j)' <= LineClaim(w, j)
      OBVIOUS
    <3>1. LineClaim(w, j)' = Over(got[j], Ticket(w, j))' /\ Ticket(w, j)' = Ticket(w, j) /\ lock' = lock
      BY <2>3, <2>7 DEF Ticket, redisVars
    <3>2. LineClaim(w, j)' = 0
      <4>1. lock[Ticket(w, j)][o] \in Nat
        BY <1>3, <1>5
      <4>2. got[j] <= lock[Ticket(w, j)][o]
        BY <1>0, <2>1, <2>5, <4>1
      <4> QED
        BY <2>6, <3>1, <4>1, <4>2
    <3>3. LineClaim(w, j) = 0
      <4>1. lock[Ticket(w, j)][o] \in Nat
        BY <1>3, <1>5
      <4> QED
        BY <1>3, <2>4, <4>1
    <3> QED
      BY <3>2, <3>3
  <2>9. ASSUME NEW t \in Tickets PROVE Balanced(w, o, t)
    <3>1. LinesOf(o, t) \subseteq Lines(o)
      BY DEF LinesOf
    <3>2. CallClaim(w, t)' <= CallClaim(w, t)
      <4> HIDE DEF LineClaim, CallClaim
      <4> QED
        BY <1>1, <2>7, <2>8, <3>1, ClaimFalls
    <3>3. /\ CallClaim(w, t) \in Nat /\ CallClaim(w, t)' \in Nat /\ lock'[t][o] = lock[t][o]
          /\ counter'[t] = counter[t] /\ counter[t] \in Int /\ sold[t] \in Nat
      BY <2>3, BalanceNumbers DEF redisVars
    <3> QED
      BY <1>2, <1>7, <1>8, <3>2, <3>3 DEF Balanced
  <2>10. UNCHANGED redisVars
    BY <2>3
  <2> QED
    BY <1>7, <2>7, <2>9, <2>10 DEF Settles, OwnLocks, redisVars
<1>10. CASE GivesBack(w, i)
  <2>1. PICK got : got = [old.got EXCEPT ![i] = 0]
    OBVIOUS
  <2>2. Released(w, old.todo, got) /\ g > 0
    BY <1>0, <1>10, <2>1 DEF GivesBack, MayReturn
  <2>3. /\ got \in [Lines(o) -> Nat] /\ \A j \in Lines(o) : got[j] = 0
        /\ \A j \in Lines(o) \ {i} : old.got[j] = 0
    BY <1>0, <1>1, <1>4, <2>1, <2>2
  <2>4. \/ UNCHANGED redisVars
        \/ /\ quotaKeys' = quotaKeys \cup {u}
           /\ \A t \in Tickets : counter'[t] = IF t = u THEN counter[t] + g ELSE counter[t]
           /\ \A t \in Tickets, p \in Orders : lock'[t][p] = IF t = u /\ p = o THEN 0 ELSE lock[t][p]
    <3>1. CASE ReturnQuota(u, o, g)
      <4>1. /\ quotaKeys' = quotaKeys \cup {u} /\ counter' = [counter EXCEPT ![u] = @ + g]
            /\ lock' = [lock EXCEPT ![u][o] = 0]
        BY <3>1 DEF ReturnQuota
      <4>2. \A t \in Tickets : counter'[t] = IF t = u THEN counter[t] + g ELSE counter[t]
        BY <1>5, <4>1
      <4>3. \A t \in Tickets, p \in Orders : lock'[t][p] = IF t = u /\ p = o THEN 0 ELSE lock[t][p]
        BY <1>5, <4>1
      <4> QED
        BY <4>1, <4>2, <4>3
    <3> QED
      BY <1>0, <1>10, <3>1 DEF GivesBack
  <2>5. \A t \in Tickets : lock'[t][o] \in {lock[t][o], 0}
    BY <2>4 DEF redisVars
  <2>6. /\ CallLocks(w)'
        /\ new.pc = "idle" \/ (new.pc # "idle" /\ new.order = o)
        /\ new.pc # "idle" => \A j \in Lines(o) : LineClaim(w, j)' = 0
    <3>1. /\ CallLocks(w)'
          /\ new.pc = "idle" \/ (new.pc # "idle" /\ new.order = o)
          /\ new.pc # "idle" =>
               \A j \in Lines(o) : LineClaim(w, j)' = Over(got[j], Ticket(w, j))'
      BY <1>1, <1>6, <2>2, <2>3
    <3>2. ASSUME new.pc # "idle", NEW j \in Lines(o) PROVE LineClaim(w, j)' = 0
      <4>1. Ticket(w, j)' = Ticket(w, j) /\ lock'[Ticket(w, j)][o] \in Nat
        BY <1>3, <1>5, <3>1, <3>2 DEF Ticket
      <4> QED
        BY <2>3, <3>1, <3>2, <4>1
    <3> QED
      BY <3>1, <3>2
  <2>7. \A j \in Lines(o) : LineClaim(w, j) = IF j = i THEN Over(g, u) ELSE 0
    <3> SUFFICES ASSUME NEW j \in Lines(o) PROVE LineClaim(w, j) = IF j = i THEN Over(g, u) ELSE 0
      OBVIOUS
    <3>1. LineClaim(w, j) = Over(old.got[j], Ticket(w, j)) /\ lock[Ticket(w, j)][o] \in Nat
      BY <1>3, <1>5
    <3> QED
      BY <1>0, <2>3, <3>1
  <2>8. ASSUME NEW t \in Tickets PROVE Balanced(w, o, t)
    <3>1. LinesOf(o, t) \subseteq Lines(o)
      BY DEF LinesOf
    <3>2. /\ CallClaim(w, t) \in Nat /\ CallClaim(w, t)' \in Nat
          /\ counter[t] \in Int /\ sold[t] \in Nat
          /\ lock[t][o] \in Nat /\ lock'[t][o] \in Nat
      BY <1>5, BalanceNumbers
    <3>3. PICK n \in Nat : n = IF t = u THEN Over(g, u) ELSE 0
      <4>1. lock[u][o] \in Nat
        BY <1>1, <1>5
      <4>2. Over(g, u) \in Nat
        BY <1>1, <4>1
      <4> HIDE DEF Over
      <4> QED
        BY <4>2
    <3>4. CallClaim(w, t)' + n <= CallClaim(w, t)
      <4>1. new.pc # "idle" => \A j \in LinesOf(o, t) : LineClaim(w, j)' <= LineClaim(w, j)
        <5> SUFFICES ASSUME new.pc # "idle", NEW j \in LinesOf(o, t)
                     PROVE  LineClaim(w, j)' <= LineClaim(w, j)
          OBVIOUS
        <5>1. LineClaim(w, j)' = 0
          BY <2>6, <3>1
        <5>2. LineClaim(w, j) \in Nat
          BY <1>1, <3>1, ClaimFacts DEF ClaimNumbers
        <5> QED
          BY <5>1, <5>2
      <4>2. CASE t # u
        <5>1. CallClaim(w, t)' <= CallClaim(w, t)
          <6> HIDE DEF LineClaim, CallClaim
          <6> QED
            BY <1>1, <2>6, <4>1, ClaimFalls
        <5>2. n = 0
          BY <3>3, <4>2
        <5> QED
          BY <3>2, <5>1, <5>2
      <4>3. CASE t = u
        <5>1. /\ i \in LinesOf(o, t) /\ 0 \in Nat
              /\ n <= LineClaim(w, i) + 0 /\ (new.pc # "idle" => LineClaim(w, i)' + n <= LineClaim(w, i) + 0)
          <6>1. i \in LinesOf(o, t)
            BY <1>1, <4>3
          <6>2. LineClaim(w, i) = Over(g, u) /\ n = Over(g, u)
            BY <2>7, <3>3, <4>3
          <6>3. LineClaim(w, i) = n /\ (new.pc # "idle" => LineClaim(w, i)' = 0)
            BY <2>6, <6>2
          <6> QED
            BY <6>1, <6>3
        <5>2. new.pc # "idle" => \A j \in LinesOf(o, t) \ {i} : LineClaim(w, j)' <= LineClaim(w, j)
          BY <4>1
        <5>3. CallClaim(w, t)' + n <= CallClaim(w, t) + 0
          <6> HIDE DEF LineClaim, CallClaim
          <6> QED
            BY <1>1, <2>6, <5>1, <5>2, ClaimMoves
        <5> QED
          BY <3>2, <5>3
      <4> QED
        BY <4>2, <4>3
    <3>5. counter'[t] + lock'[t][o] <= counter[t] + lock[t][o] + n
      <4>1. CASE UNCHANGED redisVars
        BY <3>2, <3>3, <4>1 DEF redisVars
      <4>2. CASE ~UNCHANGED redisVars
        <5>1. /\ counter'[t] = IF t = u THEN counter[t] + g ELSE counter[t]
              /\ lock'[t][o] = IF t = u THEN 0 ELSE lock[t][o]
          BY <2>4, <4>2
        <5>2. CASE t = u
          <6>1. n = IF g > lock[t][o] THEN g - lock[t][o] ELSE 0
            BY <3>3, <5>2
          <6>2. counter'[t] = counter[t] + g /\ lock'[t][o] = 0 /\ g \in Nat
            BY <1>1, <5>1, <5>2
          <6> QED
            BY <3>2, <6>1, <6>2
        <5>3. CASE t # u
          <6>1. counter'[t] = counter[t] /\ lock'[t][o] = lock[t][o]
            BY <5>1, <5>3
          <6> QED
            BY <3>2, <3>3, <6>1
        <5> QED
          BY <5>2, <5>3
      <4> QED
        BY <4>1, <4>2
    <3>6. counter'[t] \in Int
      BY BalanceNumbers
    <3> QED
      BY <1>2, <1>8, <3>2, <3>3, <3>4, <3>5, <3>6 DEF Balanced
  <2>9. /\ OwnLocks(o) /\ quotaKeys \subseteq quotaKeys'
        /\ \A t \in Tickets : t \in quotaKeys' \/ counter'[t] = counter[t]
    BY <2>4 DEF OwnLocks, redisVars
  <2>10. \A t \in Tickets : lock'[t][o] <= Need(o, t)
    <3> SUFFICES ASSUME NEW t \in Tickets PROVE lock'[t][o] <= Need(o, t)
      OBVIOUS
    <3>1. lock'[t][o] \in {lock[t][o], 0}
      BY <2>5
    <3> QED
      BY <1>7, <3>1
  <2> QED
    BY <2>6, <2>8, <2>9, <2>10 DEF Settles
<1> QED
  BY <1>9, <1>10 DEF ReleaseStep

\* The order is read anew: nothing is claimed yet of what its lock keys say.
LEMMA RereadSettles ==
  ASSUME Known, NEW w \in Workers, NEW o \in Orders, o = call[w].order, RereadOrder(w)
  PROVE  Settles(w, o)
<1> USE DEF Known
<1> DEFINE old == call[w]
           new == call'[w]
<1>1. old.pc = "reread" /\ status[o] \in Ended /\ status' = status /\ UNCHANGED redisVars
  BY DEF RereadOrder, At, OrderInv, ReleasesEnded
<1>2. sold' = sold
  BY <1>1 DEF RereadOrder, CountsAsSold, Ended
<1>3. new.pc = "release" /\ new.order = o /\ new.got = old.got
  BY <1>1, BegunRecord DEF RereadOrder, CallOn
<1>4. \A j \in Lines(o) : new.got[j] = 0
  BY <1>1, <1>3 DEF LockInv, CallLocks
<1>5. status'[o] # "absent"
  BY <1>1 DEF Ended
<1>6. CallLocks(w)'
  BY <1>3, <1>4, <1>5 DEF CallLocks, Creating, PerLine
<1>7. ASSUME NEW t \in Tickets PROVE Balanced(w, o, t)
  <2>1. \A j \in LinesOf(o, t) : LineClaim(w, j)' = 0 /\ LineClaim(w, j) = 0
    <3> SUFFICES ASSUME NEW j \in LinesOf(o, t) PROVE LineClaim(w, j)' = 0 /\ LineClaim(w, j) = 0
      OBVIOUS
    <3>1. j \in Lines(o) /\ Ticket(w, j)' = Ticket(w, j) /\ Ticket(w, j) \in Tickets
      BY <1>3, LineFields DEF LinesOf, Ticket
    <3>2. lock'[Ticket(w, j)][o] \in Nat
      BY <3>1 DEF TypeOK, RedisTypeOK
    <3>3. LineClaim(w, j) = 0
      BY <1>1 DEF LineClaim, At, Creating, PerLine
    <3>4. ~(new.got[j] > lock'[Ticket(w, j)'][o])
      BY <1>4, <3>1, <3>2
    <3>5. LineClaim(w, j)' = 0
      BY <1>3, <1>5, <3>4 DEF LineClaim, At, Creating, PerLine
    <3> QED
      BY <3>3, <3>5
  <2>2. CallClaim(w, t)' <= CallClaim(w, t)
    <3>1. \A j \in LinesOf(o, t) : LineClaim(w, j)' <= LineClaim(w, j)
      BY <2>1
    <3> HIDE DEF LineClaim, CallClaim
    <3> QED
      BY <1>1, <1>3, <3>1, ClaimFalls
  <2>3. OrderClaim(o, t)' = OrderClaim(o, t)
    BY <1>1 DEF OrderClaim, redisVars
  <2>4. /\ CallClaim(w, t) \in Nat /\ CallClaim(w, t)' \in Nat /\ OrderClaim(o, t) \in Nat
        /\ counter'[t] = counter[t] /\ counter[t] \in Int /\ sold[t] \in Nat
    BY <1>1, BalanceNumbers DEF redisVars
  <2> QED
    BY <1>2, <2>2, <2>3, <2>4 DEF Balanced
<1> QED
  BY <1>1, <1>6, <1>7 DEF Settles, OwnLocks, LockInv, redisVars

\* A call keeps what it has read, which is nothing before it releases anything.
LEMMA KeepingSettles ==
  ASSUME Known, NEW w \in Workers, NEW o \in Orders, o = call[w].order,
         Advance(w), Writes(w), LocksDrop(o),
         call[w].pc \notin {"idle", "issue", "release"},
         call'[w].got = call[w].got, call'[w].pc \notin Creating \cup {"release"}
  PROVE  Settles(w, o)
<1>1. \A i \in Lines(o) : call'[w].got[i] = 0
  BY DEF Known, LockInv, CallLocks
<1> QED
  BY <1>1, LeavingSettles

LEMMA FinishSettles ==
  ASSUME Known, NEW w \in Workers, NEW o \in Orders, o = call[w].order,
         call[w].pc # "idle", Advance(w), Writes(w), LocksDrop(o), Finish(w)
  PROVE  Settles(w, o)
<1>1. call'[w].pc = "idle"
  BY BegunRecord DEF Known, Finish, Idle
<1> QED
  BY <1>1, LeavingSettles DEF Creating, PerLine

LEMMA ThrowSettles ==
  ASSUME Known, NEW w \in Workers, NEW o \in Orders, o = call[w].order,
         call[w].pc # "idle", Advance(w), Writes(w), LocksDrop(o), PaymentThrows(w)
  PROVE  Settles(w, o)
<1>1. CASE call[w].op = "create"
  <2>1. call'[w].pc = "read" /\ call'[w].got = [i \in Lines(o) |-> 0]
    BY <1>1, BegunRecord DEF Known, PaymentThrows, CallOn
  <2>2. \A i \in Lines(o) : call'[w].got[i] = 0
    BY <2>1
  <2> QED
    BY <2>1, <2>2, LeavingSettles DEF Creating, PerLine
<1>2. CASE call[w].op # "create"
  BY <1>2, FinishSettles DEF PaymentThrows
<1> QED
  BY <1>1, <1>2

\* Going on without looking at Redis.
LEMMA GotoSettles ==
  ASSUME Known, NEW w \in Workers, NEW o \in Orders, o = call[w].order,
         Advance(w), Writes(w), LocksDrop(o),
         call[w].pc \notin {"idle", "issue", "release"},
         NEW stage, stage \notin Creating \cup {"release"}, Goto(w, stage)
  PROVE  Settles(w, o)
<1>1. call'[w].pc = stage /\ call'[w].got = call[w].got
  BY BegunRecord DEF Known, Goto, CallOn
<1> QED
  BY <1>1, KeepingSettles

LEMMA CreateSettles ==
  ASSUME Known, NoLargerRepeat, NEW w \in Workers, NEW o \in Orders, o = call[w].order,
         Advance(w), Writes(w), CreateStep(w)
  PROVE  Settles(w, o)
<1> USE DEF Known, At
<1>0. call[w].pc # "idle" /\ DOMAIN call = Workers /\ call[w] \in CallOn(o)
  BY BegunRecord DEF Advance
<1>1. CASE CheckLine(w)
  <2>1. call[w].pc = "row" /\ UNCHANGED redisVars /\ UNCHANGED <<status, sold>>
    BY <1>1 DEF CheckLine, dbVars
  <2>2. LocksDrop(o)
    BY <2>1, DeletesOwn
  <2>3. CASE Abort(w)
    BY <2>1, <2>2, <2>3, AbortSettles DEF Creating, PerLine
  <2>4. CASE call' = [call EXCEPT ![w].pc = "init", ![w].rows = @ \cup {Ticket(w, call[w].line)}]
    <3>1. /\ call'[w].pc \in {"init", "take"} /\ call'[w].order = o
          /\ call'[w].line = call[w].line /\ call'[w].got = call[w].got
      BY <1>0, <2>4 DEF CallOn
    <3> QED
      BY <2>1, <3>1, CreatingSettles
  <2> QED
    BY <1>1, <2>3, <2>4 DEF CheckLine
<1>2. CASE InitQuota(w)
  <2>1. /\ call[w].pc = "init" /\ UNCHANGED <<status, sold>>
        /\ call'[w].pc \in {"init", "take"} /\ call'[w].order = o
        /\ call'[w].line = call[w].line /\ call'[w].got = call[w].got
    BY <1>0, <1>2 DEF InitQuota, Goto, CallOn, dbVars
  <2>2. InitializeQuotaIfAbsent(Ticket(w, call[w].line),
                                Quota[Ticket(w, call[w].line)] - sold[Ticket(w, call[w].line)])
    BY <1>2 DEF InitQuota
  <2> QED
    BY <2>1, <2>2, CreatingSettles
<1>3. CASE UnsetLine(w)
  <2>1. call[w].pc = "unset" /\ UNCHANGED <<status, sold>> /\ Abort(w)
    BY <1>3 DEF UnsetLine, dbVars
  <2>2. Ticket(w, call[w].line) \in Tickets /\ DeleteLock(Ticket(w, call[w].line), o)
    BY <1>3, <2>1, LineOfCall DEF UnsetLine, PerLine
  <2>3. LocksDrop(o)
    BY <2>2, DeletesOwn
  <2> QED
    BY <2>1, <2>3, AbortSettles DEF Creating, PerLine
<1>4. CASE CommitOrder(w)
  <2>1. call[w].pc = "commit" /\ call'[w].pc = "bill" /\ call'[w].got = call[w].got
    BY <1>0, <1>4 DEF CommitOrder, CallOn
  <2>2. LocksDrop(o)
    BY <1>4, DeletesOwn DEF CommitOrder
  <2> QED
    BY <2>1, <2>2, KeepingSettles DEF Creating, PerLine
<1>5. CASE BillOpen(w) \/ BillSettled(w) \/ BillFails(w)
  <2>1. call[w].pc = "bill" /\ LocksDrop(o)
    BY <1>5, DeletesOwn DEF BillOpen, BillSettled, BillFails
  <2>2. Finish(w) \/ Goto(w, "payread") \/ Goto(w, "read")
    BY <1>5 DEF BillOpen, BillSettled, BillFails
  <2> QED
    BY <1>0, <2>1, <2>2, FinishSettles, GotoSettles DEF Creating, PerLine
<1>6. CASE DeadlockVictim(w)
  <2>1. UNCHANGED <<status, sold>> /\ LocksDrop(o)
    BY <1>6, DeletesOwn DEF DeadlockVictim, dbVars
  <2>2. CASE call[w].pc = "row" /\ Abort(w)
    BY <2>1, <2>2, AbortSettles DEF Creating, PerLine
  <2>3. CASE call[w].pc = "sell" /\ PaymentThrows(w)
    BY <1>0, <2>1, <2>3, ThrowSettles
  <2> QED
    BY <1>6, <2>2, <2>3 DEF DeadlockVictim
<1> QED
  BY <1>1, <1>2, <1>3, <1>4, <1>5, <1>6, TakingSettles, UndoSettles DEF CreateStep

LEMMA PaymentSettles ==
  ASSUME Known, NEW w \in Workers, NEW o \in Orders, o = call[w].order,
         Advance(w), Writes(w), PaymentStep(w)
  PROVE  Settles(w, o)
<1> USE DEF Known, At
<1>0. call[w].pc # "idle" /\ DOMAIN call = Workers /\ call[w] \in CallOn(o)
  BY BegunRecord DEF Advance
<1>1. CASE PayRead(w)
  <2>1. call[w].pc = "payread" /\ LocksDrop(o)
    BY <1>1, DeletesOwn DEF PayRead
  <2>2. CASE Finish(w)
    BY <1>0, <2>1, <2>2, FinishSettles
  <2>3. CASE call' = [call EXCEPT ![w].pc = "sell", ![w].todo = FirstLines(call[w].order)]
    <3>1. call'[w].pc = "sell" /\ call'[w].got = call[w].got
      BY <1>0, <2>3 DEF CallOn
    <3> QED
      BY <2>1, <3>1, KeepingSettles DEF Creating, PerLine
  <2> QED
    BY <1>1, <2>2, <2>3 DEF PayRead
<1>2. CASE SellRow(w)
  <2>1. call[w].pc = "sell" /\ LocksDrop(o)
    BY <1>2, DeletesOwn DEF SellRow
  <2>2. CASE PaymentThrows(w)
    BY <1>0, <2>1, <2>2, ThrowSettles
  <2>3. ASSUME NEW i, call' = [call EXCEPT ![w].todo = @ \ {i}, ![w].rows = @ \cup {Ticket(w, i)}]
        PROVE  Settles(w, o)
    <3>1. call'[w].pc = "sell" /\ call'[w].got = call[w].got
      BY <1>0, <2>1, <2>3 DEF CallOn
    <3> QED
      BY <2>1, <3>1, KeepingSettles DEF Creating, PerLine
  <2> QED
    BY <1>2, <2>2, <2>3 DEF SellRow
<1>3. CASE CommitSale(w)
  <2>1. call[w].pc = "sell" /\ LocksDrop(o)
    BY <1>3, DeletesOwn DEF CommitSale
  <2>2. call'[w].pc = "confirm" /\ call'[w].got = call[w].got
    BY <1>0, <1>3 DEF CommitSale, CallOn
  <2> QED
    BY <2>1, <2>2, KeepingSettles DEF Creating, PerLine
<1>4. CASE ConfirmLock(w)
  <2>1. PICK i \in call[w].todo : DeleteLock(Ticket(w, i), o) /\ ConfirmNext(w, i)
    BY <1>4 DEF ConfirmLock
  <2>2. call[w].pc = "confirm" /\ Ticket(w, i) \in Tickets
    BY <1>0, <1>4, LineFields DEF ConfirmLock, CallOn, Ticket
  <2>3. LocksDrop(o)
    BY <2>1, <2>2, DeletesOwn
  <2>4. call'[w].pc \in {"count", "confirm"} /\ call'[w].got = call[w].got
    BY <1>0, <2>1 DEF ConfirmNext, CallOn
  <2> QED
    BY <2>2, <2>3, <2>4, KeepingSettles DEF Creating, PerLine
<1>5. CASE CountIssued(w)
  <2>1. call[w].pc = "count" /\ LocksDrop(o)
    BY <1>5, DeletesOwn DEF CountIssued
  <2>2. CASE PaymentThrows(w)
    BY <1>0, <2>1, <2>2, ThrowSettles
  <2>3. CASE call' = [call EXCEPT ![w].pc = "issue", ![w].todo = Lines(o), ![w].got = issued[o]]
    <3>1. call'[w].pc = "issue"
      BY <1>0, <2>3 DEF CallOn
    <3> QED
      BY <2>1, <3>1, LeavingSettles DEF Creating, PerLine
  <2> QED
    BY <1>5, <2>2, <2>3 DEF CountIssued
<1>6. CASE IssueLine(w)
  <2>1. call[w].pc = "issue" /\ LocksDrop(o)
    BY <1>6, DeletesOwn DEF IssueLine
  <2>2. CASE Finish(w)
    BY <1>0, <2>1, <2>2, FinishSettles
  <2>3. ASSUME NEW i, call' = [call EXCEPT ![w].todo = @ \ {i}] PROVE Settles(w, o)
    <3>1. call'[w].pc = "issue"
      BY <1>0, <2>1, <2>3 DEF CallOn
    <3> QED
      BY <2>1, <3>1, LeavingSettles DEF Creating, PerLine
  <2> QED
    BY <1>6, <2>2, <2>3 DEF IssueLine
<1> QED
  BY <1>1, <1>2, <1>3, <1>4, <1>5, <1>6 DEF PaymentStep

LEMMA ReleasingSettles ==
  ASSUME Known, NEW w \in Workers, NEW o \in Orders, o = call[w].order,
         NEW i \in Lines(o), ReleaseStep(w, i)
  PROVE  Settles(w, o)
<1>1. status[o] = "absent" \/ status[o] \in Ended
  BY DEF Known, ReleaseStep, OrderInv, ReleasesEnded
<1> QED
  BY <1>1, AbsentReleaseSettles, EndedReleaseSettles

LEMMA EndSettles ==
  ASSUME Known, NEW w \in Workers, NEW o \in Orders, o = call[w].order,
         Advance(w), Writes(w), EndStep(w)
  PROVE  Settles(w, o)
<1> USE DEF Known, At
<1>0. call[w].pc # "idle" /\ DOMAIN call = Workers /\ call[w] \in CallOn(o)
  BY BegunRecord DEF Advance
<1>1. CASE ReadStatus(w)
  <2>1. call[w].pc = "read" /\ LocksDrop(o)
    BY <1>1, DeletesOwn DEF ReadStatus
  <2>2. Goto(w, "save") \/ Goto(w, "reread") \/ Finish(w)
    BY <1>1 DEF ReadStatus
  <2> QED
    BY <1>0, <2>1, <2>2, FinishSettles, GotoSettles DEF Creating, PerLine
<1>2. CASE SaveStatus(w)
  <2>1. call[w].pc = "save" /\ LocksDrop(o)
    BY <1>2, DeletesOwn DEF SaveStatus
  <2>2. call'[w].pc = "reread" /\ call'[w].got = call[w].got
    BY <1>0, <1>2 DEF SaveStatus, CallOn
  <2> QED
    BY <2>1, <2>2, KeepingSettles DEF Creating, PerLine
<1>3. CASE GetLock(w)
  <2>1. PICK i \in Lines(o) :
          /\ MayGet(w, i)
          /\ Released(w, call[w].todo \ {i}, [call[w].got EXCEPT ![i] = lock[Ticket(w, i)][o]])
    BY <1>3 DEF GetLock
  <2>2. ReadsLock(w, i)
    BY <1>3, <2>1 DEF GetLock, ReadsLock, MayGet
  <2>3. ReleaseStep(w, i)
    BY <1>3, <2>1, <2>2 DEF GetLock, ReleaseStep, MayGet, dbVars
  <2> QED
    BY <2>3, ReleasingSettles
<1>4. CASE ReturnLock(w)
  <2>1. PICK i \in Lines(o) :
          /\ MayReturn(w, i)
          /\ ReturnQuota(Ticket(w, i), o, call[w].got[i])
          /\ Released(w, call[w].todo, [call[w].got EXCEPT ![i] = 0])
    BY <1>4 DEF ReturnLock
  <2>2. ReleaseStep(w, i)
    BY <1>4, <2>1 DEF ReturnLock, ReleaseStep, GivesBack, dbVars
  <2> QED
    BY <2>2, ReleasingSettles
<1> QED
  BY <1>1, <1>2, <1>3, <1>4, RereadSettles DEF EndStep

LEMMA FaultSettles ==
  ASSUME Known, NEW w \in Workers, NEW o \in Orders, o = call[w].order,
         Advance(w), Writes(w), Fault(w)
  PROVE  Settles(w, o)
<1> USE DEF Known, At
<1>0. call[w].pc # "idle" /\ DOMAIN call = Workers /\ call[w] \in CallOn(o)
  BY BegunRecord DEF Advance
<1>1. LocksDrop(o) /\ UNCHANGED redisVars /\ UNCHANGED <<status, sold>>
  <2>1. UNCHANGED redisVars /\ UNCHANGED <<status, sold>>
    BY DEF Fault, RedisFails, DatabaseFails, UploadFails, Crash, dbVars
  <2> QED
    BY <2>1, DeletesOwn
<1>2. CASE call[w].pc = "init" /\ Goto(w, "take")
  <2>1. /\ call'[w].pc \in {"init", "take"} /\ call'[w].order = o
        /\ call'[w].line = call[w].line /\ call'[w].got = call[w].got
    BY <1>0, <1>2 DEF Goto, CallOn
  <2> QED
    BY <1>1, <1>2, <2>1, CreatingSettles
<1>3. CASE call[w].pc \in {"take", "undo", "unset"} /\ Abort(w)
  BY <1>1, <1>3, AbortSettles DEF Creating, PerLine
<1>4. ASSUME call[w].pc = "confirm", NEW i, ConfirmNext(w, i) PROVE Settles(w, o)
  <2>1. call'[w].pc \in {"count", "confirm"} /\ call'[w].got = call[w].got
    BY <1>0, <1>4 DEF ConfirmNext, CallOn
  <2> QED
    BY <1>1, <1>4, <2>1, KeepingSettles DEF Creating, PerLine
<1>5. ASSUME call[w].pc = "release", NEW i \in Lines(o),
             MayGet(w, i), Released(w, call[w].todo \ {i}, call[w].got)
      PROVE  Settles(w, o)
  <2>1. i \in call[w].todo /\ (Aborting(w) \/ NothingRead(w))
    BY <1>5 DEF MayGet
  <2>2. call[w].got[i] = 0
    <3>1. CASE NothingRead(w)
      BY <3>1 DEF NothingRead
    <3>2. CASE Aborting(w)
      BY <1>5, <2>1, <3>2 DEF Aborting, LockInv, CallLocks
    <3> QED
      BY <2>1, <3>1, <3>2
  <2>3. call[w].got \in [Lines(o) -> Nat]
    BY <1>0 DEF CallOn
  <2>4. [call[w].got EXCEPT ![i] = 0] = call[w].got
    BY <2>2, <2>3
  <2>5. ReadsLock(w, i)
    BY <1>1, <1>5, <2>1, <2>4 DEF ReadsLock
  <2>6. ReleaseStep(w, i)
    BY <1>1, <1>5, <2>1, <2>5 DEF ReleaseStep
  <2> QED
    BY <2>6, ReleasingSettles
<1>6. ASSUME call[w].pc = "release", NEW i \in Lines(o),
             MayReturn(w, i), Released(w, call[w].todo, [call[w].got EXCEPT ![i] = 0])
      PROVE  Settles(w, o)
  <2>1. ReleaseStep(w, i)
    BY <1>1, <1>6 DEF ReleaseStep, GivesBack
  <2> QED
    BY <2>1, ReleasingSettles
<1>7. CASE UploadFails(w)
  <2>1. PaymentThrows(w)
    BY <1>7 DEF UploadFails
  <2> QED
    BY <1>0, <1>1, <2>1, ThrowSettles
<1>8. CASE Crash(w)
  <2>1. Finish(w)
    BY <1>8 DEF Crash
  <2> QED
    BY <1>0, <1>1, <2>1, FinishSettles
<1>9. CASE RedisFails(w)
  BY <1>2, <1>3, <1>4, <1>5, <1>6, <1>9 DEF RedisFails
<1>10. CASE DatabaseFails(w)
  <2>1. CASE call[w].pc \in {"row", "commit"} /\ Abort(w)
    BY <1>1, <2>1, AbortSettles DEF Creating, PerLine
  <2>2. CASE call[w].pc \in {"payread", "sell"} /\ PaymentThrows(w)
    BY <1>0, <1>1, <2>2, ThrowSettles
  <2> QED
    BY <1>10, <2>1, <2>2 DEF DatabaseFails
<1> QED
  BY <1>7, <1>8, <1>9, <1>10 DEF Fault

\* Whatever step a call takes, it settles its claims with its order.
LEMMA StepSettles ==
  ASSUME Known, NoLargerRepeat, NEW w \in Workers, Step(w) \/ Fault(w)
  PROVE  Advance(w) /\ Writes(w) /\ call[w].order \in Orders /\ Settles(w, call[w].order)
<1>1. Advance(w) /\ Writes(w)
  BY CreateAdvances, PaymentAdvances, EndAdvances, FaultAdvances, StepWrites DEF Step, Known
<1>2. PICK o \in Orders : o = call[w].order
  BY <1>1, BegunRecord DEF Advance, Known
<1>3. Settles(w, o)
  BY <1>1, <1>2, CreateSettles, PaymentSettles, EndSettles, FaultSettles DEF Step
<1> QED
  BY <1>1, <1>2, <1>3

(***************************************************************************)
(* The claims of all.                                                      *)
(***************************************************************************)
OrderClaims(t) == SumFunction([o \in Orders |-> OrderClaim(o, t)])

CallClaims(t) == SumFunction([w \in Workers |-> CallClaim(w, t)])

TotalNumbers ==
  \A t \in Tickets :
    /\ OrderClaims(t) \in Nat /\ CallClaims(t) \in Nat
    /\ Claims(t) = OrderClaims(t) + CallClaims(t)

LEMMA TotalFacts == TypeOK => TotalNumbers
<1> SUFFICES ASSUME TypeOK, NEW t \in Tickets
             PROVE  /\ OrderClaims(t) \in Nat /\ CallClaims(t) \in Nat
                    /\ Claims(t) = OrderClaims(t) + CallClaims(t)
  BY DEF TotalNumbers
<1> DEFINE f == [o \in Orders |-> OrderClaim(o, t)]
           g == [w \in Workers |-> CallClaim(w, t)]
<1>1. /\ \A o \in Orders : f[o] \in Nat
      /\ \A w \in Workers : g[w] \in Nat
  BY ClaimFacts DEF ClaimNumbers
<1>2. /\ OrderClaims(t) = SumFunctionOnSet(f, Orders)
      /\ CallClaims(t) = SumFunctionOnSet(g, Workers)
      /\ Claims(t) = OrderClaims(t) + CallClaims(t)
  BY DEF OrderClaims, CallClaims, Claims, SumFunction
<1>3. IsFiniteSet(Orders) /\ IsFiniteSet(Workers)
  BY OrdersAssumption
<1> HIDE DEF f, g
<1> QED
  BY <1>1, <1>2, <1>3, SumIsNat

LEMMA TotalFactsAfter == TypeOK' => TotalNumbers'
  BY TotalFacts, PTL

\* When the claim of one order changes, so do those of all orders together, and
\* likewise for the calls.
LEMMA OrderClaimsChange ==
  ASSUME TypeOK, TypeOK', NEW o \in Orders, NEW t \in Tickets,
         \A p \in Orders \ {o} : OrderClaim(p, t)' = OrderClaim(p, t)
  PROVE  /\ OrderClaims(t)' + OrderClaim(o, t) = OrderClaims(t) + OrderClaim(o, t)'
         /\ OrderClaim(o, t) <= OrderClaims(t)
<1> DEFINE f == [p \in Orders |-> OrderClaim(p, t)]
           g == [p \in Orders |-> OrderClaim(p, t)']
<1>1. \A p \in Orders : f[p] \in Nat /\ g[p] \in Nat
  BY ClaimFacts, ClaimFactsAfter DEF ClaimNumbers
<1>2. /\ OrderClaims(t) = SumFunctionOnSet(f, Orders)
      /\ OrderClaims(t)' = SumFunctionOnSet(g, Orders)
      /\ f[o] = OrderClaim(o, t) /\ g[o] = OrderClaim(o, t)'
      /\ \A p \in Orders \ {o} : f[p] = g[p]
  BY DEF OrderClaims, SumFunction
<1>3. IsFiniteSet(Orders)
  BY OrdersAssumption
<1> HIDE DEF f, g
<1>4. SumFunctionOnSet(g, Orders) + f[o] = SumFunctionOnSet(f, Orders) + g[o]
  BY <1>1, <1>2, <1>3, SumChanges
<1>5. f[o] <= SumFunctionOnSet(f, Orders)
  BY <1>1, <1>3, SumCovers
<1> QED
  BY <1>2, <1>4, <1>5

LEMMA CallClaimsChange ==
  ASSUME TypeOK, TypeOK', NEW w \in Workers, NEW t \in Tickets,
         \A v \in Workers \ {w} : CallClaim(v, t)' = CallClaim(v, t)
  PROVE  /\ CallClaims(t)' + CallClaim(w, t) = CallClaims(t) + CallClaim(w, t)'
         /\ CallClaim(w, t) <= CallClaims(t)
<1> DEFINE f == [v \in Workers |-> CallClaim(v, t)]
           g == [v \in Workers |-> CallClaim(v, t)']
<1>1. \A v \in Workers : f[v] \in Nat /\ g[v] \in Nat
  BY ClaimFacts, ClaimFactsAfter DEF ClaimNumbers
<1>2. /\ CallClaims(t) = SumFunctionOnSet(f, Workers)
      /\ CallClaims(t)' = SumFunctionOnSet(g, Workers)
      /\ f[w] = CallClaim(w, t) /\ g[w] = CallClaim(w, t)'
      /\ \A v \in Workers \ {w} : f[v] = g[v]
  BY DEF CallClaims, SumFunction
<1>3. IsFiniteSet(Workers)
  BY OrdersAssumption
<1> HIDE DEF f, g
<1>4. SumFunctionOnSet(g, Workers) + f[w] = SumFunctionOnSet(f, Workers) + g[w]
  BY <1>1, <1>2, <1>3, SumChanges
<1>5. f[w] <= SumFunctionOnSet(f, Workers)
  BY <1>1, <1>3, SumCovers
<1> QED
  BY <1>2, <1>4, <1>5

\* A step keeps the counters in balance if counter, claims and `sold` of a
\* ticket do not grow together, or if it creates a counter nobody claims from.
LEMMA CounterStep ==
  ASSUME TypeOK, TypeOK', NoOversell, CounterInv, quotaKeys \subseteq quotaKeys',
         \A t \in Tickets : sold[t] <= sold'[t] /\ sold'[t] <= Quota[t],
         \A t \in Tickets :
           \/ /\ counter'[t] + Claims(t)' + sold'[t] <= counter[t] + Claims(t) + sold[t]
              /\ t \in quotaKeys' \/ counter'[t] = counter[t]
           \/ /\ t \in quotaKeys' \ quotaKeys
              /\ counter'[t] = IF Quota[t] - sold[t] > 0 THEN Quota[t] - sold[t] ELSE 0
              /\ Claims(t)' <= Claims(t) /\ sold'[t] = sold[t]
  PROVE  CounterInv'
<1> SUFFICES ASSUME NEW t \in Tickets
             PROVE  IF t \in quotaKeys'
                    THEN counter'[t] + Claims(t)' + sold'[t] <= Quota[t]
                    ELSE counter'[t] = 0 /\ Claims(t)' = 0
  BY DEF CounterInv
<1>1. /\ Claims(t) \in Nat /\ Claims(t)' \in Nat
      /\ counter[t] \in Int /\ counter'[t] \in Int
      /\ sold[t] \in Nat /\ sold'[t] \in Nat /\ Quota[t] \in Nat
      /\ sold[t] <= sold'[t] /\ sold[t] <= Quota[t]
  <2>1. Claims(t) \in Nat /\ Claims(t)' \in Nat
    BY TotalFacts, TotalFactsAfter DEF TotalNumbers
  <2>2. counter[t] \in Int /\ counter'[t] \in Int /\ sold[t] \in Nat /\ sold'[t] \in Nat
    BY DEF TypeOK, RedisTypeOK
  <2>3. Quota[t] \in Nat
    BY OrdersAssumption
  <2> QED
    BY <2>1, <2>2, <2>3 DEF NoOversell
<1>2. IF t \in quotaKeys
      THEN counter[t] + Claims(t) + sold[t] <= Quota[t] /\ t \in quotaKeys'
      ELSE counter[t] = 0 /\ Claims(t) = 0
  BY DEF CounterInv
<1>3. CASE /\ counter'[t] + Claims(t)' + sold'[t] <= counter[t] + Claims(t) + sold[t]
           /\ t \in quotaKeys' \/ counter'[t] = counter[t]
  <2>1. CASE t \in quotaKeys
    <3>1. t \in quotaKeys' /\ counter[t] + Claims(t) + sold[t] <= Quota[t]
      BY <1>2, <2>1
    <3> QED
      BY <1>1, <1>3, <3>1
  <2>2. CASE t \notin quotaKeys /\ t \in quotaKeys'
    <3>1. counter[t] = 0 /\ Claims(t) = 0
      BY <1>2, <2>2
    <3>2. counter'[t] + Claims(t)' + sold'[t] <= sold[t]
      BY <1>1, <1>3, <3>1
    <3> QED
      BY <1>1, <2>2, <3>2
  <2>3. CASE t \notin quotaKeys /\ t \notin quotaKeys'
    <3>1. counter[t] = 0 /\ Claims(t) = 0 /\ counter'[t] = 0
      BY <1>2, <1>3, <2>3
    <3>2. Claims(t)' + sold'[t] <= sold[t]
      BY <1>1, <1>3, <3>1
    <3>3. Claims(t)' = 0
      BY <1>1, <3>2
    <3> QED
      BY <2>3, <3>1, <3>3
  <2> QED
    BY <2>1, <2>2, <2>3
<1>4. CASE /\ t \in quotaKeys' \ quotaKeys
           /\ counter'[t] = IF Quota[t] - sold[t] > 0 THEN Quota[t] - sold[t] ELSE 0
           /\ Claims(t)' <= Claims(t) /\ sold'[t] = sold[t]
  BY <1>1, <1>2, <1>4
<1> QED
  BY <1>3, <1>4

\* A step of the calls W on o, or of nobody: the other calls and orders stay as they are.
OthersStay(W, o) ==
  /\ \A v \in Workers \ W : call'[v] = call[v] /\ (call[v].pc # "idle" => call[v].order # o)
  /\ \A p \in Orders \ {o} : status'[p] = status[p]
  /\ OwnLocks(o)

LEMMA OtherClaims ==
  ASSUME TypeOK, LockInv, NEW W, NEW o \in Orders, OthersStay(W, o)
  PROVE  /\ \A v \in Workers \ W : CallLocks(v)'
         /\ \A v \in Workers \ W, t \in Tickets : CallClaim(v, t)' = CallClaim(v, t)
         /\ \A p \in Orders \ {o}, t \in Tickets : OrderClaim(p, t)' = OrderClaim(p, t)
<1>1. ASSUME NEW p \in Orders \ {o}, NEW t \in Tickets PROVE OrderClaim(p, t)' = OrderClaim(p, t)
  BY DEF OthersStay, OwnLocks, OrderClaim
<1>2. ASSUME NEW v \in Workers \ W
      PROVE  CallLocks(v)' /\ \A t \in Tickets : CallClaim(v, t)' = CallClaim(v, t)
  <2>0. call'[v] = call[v]
    BY DEF OthersStay
  <2>1. CASE call[v].pc = "idle"
    BY <2>0, <2>1 DEF CallLocks, CallClaim, At, Creating, PerLine
  <2>2. CASE call[v].pc # "idle"
    <3>1. PICK p \in Orders \ {o} : p = call[v].order /\ p = call'[v].order
      BY <2>0, <2>2, BegunRecord DEF OthersStay
    <3>2. status'[p] = status[p] /\ \A t \in Tickets : lock'[t][p] = lock[t][p]
      BY DEF OthersStay, OwnLocks
    <3>3. \A i \in Lines(p) : /\ Ticket(v, i)' = Ticket(v, i) /\ Qty(v, i)' = Qty(v, i)
                              /\ Ticket(v, i) \in Tickets
                              /\ lock'[Ticket(v, i)][p] = lock[Ticket(v, i)][p]
      BY <3>1, <3>2, LineFields DEF Ticket, Qty
    <3>4. call[v].todo \subseteq Lines(p)
      BY <2>2, <3>1, CallFields
    <3>5. CallLocks(v)'
      <4> DEFINE c == call[v]
      <4>1. /\ c.pc \in Creating =>
                 \A i \in Lines(p) :
                   i < c.line \/ (c.pc \in {"undo", "unset"} /\ i = c.line)
                     => lock'[Ticket(v, i)'][p] <= Qty(v, i)'
            /\ c.pc = "release" /\ status'[p] = "absent" =>
                 \A i \in c.todo : lock'[Ticket(v, i)'][p] <= Qty(v, i)' /\ c.got[i] = 0
        <5>1. /\ c.pc \in Creating =>
                   \A i \in Lines(p) :
                     i < c.line \/ (c.pc \in {"undo", "unset"} /\ i = c.line)
                       => lock[Ticket(v, i)][p] <= Qty(v, i)
              /\ c.pc = "release" /\ status[p] = "absent" =>
                   \A i \in c.todo : lock[Ticket(v, i)][p] <= Qty(v, i) /\ c.got[i] = 0
          BY <3>1 DEF LockInv, CallLocks
        <5> HIDE DEF c
        <5>2. CASE c.pc \in Creating
          BY <3>3, <5>1, <5>2 DEF Creating, PerLine
        <5>3. CASE c.pc = "release" /\ status'[p] = "absent"
          <6>1. \A i \in c.todo : i \in Lines(p) /\ lock[Ticket(v, i)][p] <= Qty(v, i) /\ c.got[i] = 0
            BY <3>2, <3>4, <5>1, <5>3 DEF c
          <6> QED
            BY <3>3, <5>3, <6>1 DEF Creating, PerLine
        <5> QED
          BY <5>2, <5>3
      <4>2. /\ c.pc = "commit" => \A i \in Lines(p) : i < c.line
            /\ c.pc = "release" /\ status'[p] # "absent" =>
                 \A i, j \in Lines(p) : c.got[i] > 0 /\ c.got[j] > 0 => i = j
            /\ c.pc \notin {"idle", "issue", "release"} => \A i \in Lines(p) : c.got[i] = 0
        BY <3>1, <3>2 DEF LockInv, CallLocks
      <4> QED
        BY <2>0, <3>1, <4>1, <4>2 DEF CallLocks
    <3>6. ASSUME NEW t \in Tickets PROVE CallClaim(v, t)' = CallClaim(v, t)
      <4>1. \A i \in Lines(p) : LineClaim(v, i)' = LineClaim(v, i)
        BY <2>0, <3>1, <3>2, <3>3 DEF LineClaim, Taken, At
      <4>2. [i \in Lines(p) |-> LineClaim(v, i)'] = [i \in Lines(p) |-> LineClaim(v, i)]
        BY <4>1
      <4>3. CallClaim(v, t)' = SumFunctionOnSet([i \in Lines(p) |-> LineClaim(v, i)'], LinesOf(p, t))
        BY <2>0, <2>2, <3>1 DEF CallClaim, At
      <4>4. CallClaim(v, t) = SumFunctionOnSet([i \in Lines(p) |-> LineClaim(v, i)], LinesOf(p, t))
        BY <2>2, <3>1 DEF CallClaim, At
      <4> QED
        BY <4>2, <4>3, <4>4
    <3> QED
      BY <3>5, <3>6
  <2> QED
    BY <2>1, <2>2
<1> QED
  BY <1>1, <1>2

\* A step that settles keeps what lock keys and counters say.
LEMMA SettledKeeps ==
  ASSUME TypeOK, TypeOK', LockInv, CounterInv, NoOversell,
         \A t \in Tickets : sold[t] <= sold'[t] /\ sold'[t] <= Quota[t],
         NEW w \in Workers, NEW o \in Orders, OthersStay({w}, o), Settles(w, o)
  PROVE  LockInv' /\ CounterInv'
<1>1. LockInv'
  <2>1. \A v \in Workers : CallLocks(v)'
    BY OtherClaims DEF Settles
  <2>2. \A t \in Tickets, p \in Orders : lock'[t][p] <= Need(p, t)
    BY DEF Settles, OthersStay, OwnLocks, LockInv
  <2> QED
    BY <2>1, <2>2 DEF LockInv
<1>2. ASSUME NEW t \in Tickets
      PROVE  \/ /\ counter'[t] + Claims(t)' + sold'[t] <= counter[t] + Claims(t) + sold[t]
                /\ t \in quotaKeys' \/ counter'[t] = counter[t]
             \/ /\ t \in quotaKeys' \ quotaKeys
                /\ counter'[t] = IF Quota[t] - sold[t] > 0 THEN Quota[t] - sold[t] ELSE 0
                /\ Claims(t)' <= Claims(t) /\ sold'[t] = sold[t]
  <2>1. /\ OrderClaims(t)' + OrderClaim(o, t) = OrderClaims(t) + OrderClaim(o, t)'
        /\ CallClaims(t)' + CallClaim(w, t) = CallClaims(t) + CallClaim(w, t)'
    BY OtherClaims, OrderClaimsChange, CallClaimsChange
  <2>2. /\ OrderClaims(t) \in Nat /\ CallClaims(t) \in Nat
        /\ OrderClaims(t)' \in Nat /\ CallClaims(t)' \in Nat
        /\ Claims(t) = OrderClaims(t) + CallClaims(t)
        /\ Claims(t)' = OrderClaims(t)' + CallClaims(t)'
    BY TotalFacts, TotalFactsAfter DEF TotalNumbers
  <2>3. /\ CallClaim(w, t) \in Nat /\ CallClaim(w, t)' \in Nat
        /\ OrderClaim(o, t) \in Nat /\ OrderClaim(o, t)' \in Nat
        /\ counter[t] \in Int /\ counter'[t] \in Int
        /\ sold[t] \in Nat /\ sold'[t] \in Nat
    BY BalanceNumbers
  <2>4. CASE Created(w, o, t)
    <3>1. Claims(t)' <= Claims(t)
      BY <2>1, <2>2, <2>3, <2>4 DEF Created
    <3> QED
      BY <2>4, <3>1 DEF Created
  <2>5. CASE Balanced(w, o, t) /\ (t \in quotaKeys' \/ counter'[t] = counter[t])
    BY <2>1, <2>2, <2>3, <2>5 DEF Balanced
  <2> QED
    BY <2>4, <2>5 DEF Settles
<1>3. quotaKeys \subseteq quotaKeys'
  BY DEF Settles
<1> QED
  BY <1>1, <1>2, <1>3, CounterStep

\* A lock key that lapses gives up the claim of its order; a call that has
\* read it before claims those units now.
LEMMA LapseSettles ==
  ASSUME Known, NEW w \in Workers, NEW o \in Orders, o = call[w].order, call[w].pc # "idle",
         NEW u \in Tickets, LockExpires(u, o)
  PROVE  Settles(w, o)
<1> USE DEF Known
<1> DEFINE c == call[w]
<1>1. /\ UNCHANGED <<status, sold, call, quotaKeys, counter>>
      /\ lock[u][o] \in Nat /\ lock[u][o] > 0
      /\ \A t \in Tickets, p \in Orders : lock'[t][p] = IF t = u /\ p = o THEN 0 ELSE lock[t][p]
  BY DEF LockExpires, LockLapses, dbVars, TypeOK, RedisTypeOK
<1>2. \A t \in Tickets : lock[t][o] \in Nat /\ lock[t][o] <= Need(o, t) /\ Need(o, t) \in Nat
  BY NeedFacts DEF LockInv, TypeOK, RedisTypeOK
<1>3. c.got \in [Lines(o) -> Nat] /\ c.todo \subseteq Lines(o)
  BY CallFields
<1>4. \A i \in Lines(o) : /\ Ticket(w, i)' = Ticket(w, i) /\ Qty(w, i)' = Qty(w, i) /\ Qty(w, i) \in Nat
                          /\ Ticket(w, i) = Items[o][i].ticket /\ Ticket(w, i) \in Tickets
                          /\ lock'[Ticket(w, i)][o] <= lock[Ticket(w, i)][o]
                          /\ lock'[Ticket(w, i)][o] \in Nat /\ lock[Ticket(w, i)][o] \in Nat
  <2> SUFFICES ASSUME NEW i \in Lines(o)
               PROVE  /\ Ticket(w, i)' = Ticket(w, i) /\ Qty(w, i)' = Qty(w, i) /\ Qty(w, i) \in Nat
                      /\ Ticket(w, i) = Items[o][i].ticket /\ Ticket(w, i) \in Tickets
                      /\ lock'[Ticket(w, i)][o] <= lock[Ticket(w, i)][o]
                      /\ lock'[Ticket(w, i)][o] \in Nat /\ lock[Ticket(w, i)][o] \in Nat
    OBVIOUS
  <2>1. /\ Ticket(w, i)' = Ticket(w, i) /\ Qty(w, i)' = Qty(w, i) /\ Qty(w, i) \in Nat
        /\ Ticket(w, i) = Items[o][i].ticket /\ Ticket(w, i) \in Tickets
    BY <1>1, LineFields DEF Ticket, Qty
  <2>2. \A t \in Tickets : /\ lock'[t][o] <= lock[t][o]
                           /\ lock'[t][o] \in Nat /\ lock[t][o] \in Nat
    <3> SUFFICES ASSUME NEW t \in Tickets
                 PROVE  lock'[t][o] <= lock[t][o] /\ lock'[t][o] \in Nat /\ lock[t][o] \in Nat
      OBVIOUS
    <3>1. lock[t][o] \in Nat /\ lock'[t][o] = IF t = u THEN 0 ELSE lock[t][o]
      BY <1>1, <1>2
    <3> QED
      BY <3>1
  <2> QED
    BY <2>1, <2>2
<1>5. CallLocks(w)'
  <2>1. /\ c.pc \in Creating =>
             \A i \in Lines(o) :
               i < c.line \/ (c.pc \in {"undo", "unset"} /\ i = c.line)
                 => lock[Ticket(w, i)][o] <= Qty(w, i)
        /\ c.pc = "release" /\ status[o] = "absent" =>
             \A i \in c.todo : lock[Ticket(w, i)][o] <= Qty(w, i) /\ c.got[i] = 0
        /\ c.pc = "commit" => \A i \in Lines(o) : i < c.line
        /\ c.pc = "release" /\ status[o] # "absent" =>
             \A i, j \in Lines(o) : c.got[i] > 0 /\ c.got[j] > 0 => i = j
        /\ c.pc \notin {"idle", "issue", "release"} => \A i \in Lines(o) : c.got[i] = 0
    BY DEF LockInv, CallLocks
  <2>2. \A i \in Lines(o) : lock[Ticket(w, i)][o] <= Qty(w, i) => lock'[Ticket(w, i)'][o] <= Qty(w, i)'
    <3> SUFFICES ASSUME NEW i \in Lines(o), lock[Ticket(w, i)][o] <= Qty(w, i)
                 PROVE  lock'[Ticket(w, i)'][o] <= Qty(w, i)'
      OBVIOUS
    <3> QED
      BY <1>4
  <2>3. c.pc \in Creating =>
          \A i \in Lines(o) :
            i < c.line \/ (c.pc \in {"undo", "unset"} /\ i = c.line)
              => lock'[Ticket(w, i)'][o] <= Qty(w, i)'
    BY <2>1, <2>2
  <2>4. c.pc = "release" /\ status[o] = "absent" =>
          \A i \in c.todo : lock'[Ticket(w, i)'][o] <= Qty(w, i)' /\ c.got[i] = 0
    BY <1>3, <2>1, <2>2
  <2> QED
    BY <1>1, <2>1, <2>3, <2>4 DEF CallLocks
<1>6. ASSUME NEW t \in Tickets PROVE Balanced(w, o, t)
  <2>0. /\ CallClaim(w, t) \in Nat /\ CallClaim(w, t)' \in Nat
        /\ OrderClaim(o, t) \in Nat /\ OrderClaim(o, t)' \in Nat
        /\ counter'[t] = counter[t] /\ counter[t] \in Int
        /\ sold[t] \in Nat /\ sold'[t] = sold[t]
    BY <1>1, BalanceNumbers
  <2>1. call'[w].pc # "idle" /\ call'[w].order = call[w].order /\ LinesOf(o, t) \subseteq Lines(o)
    BY <1>1 DEF LinesOf
  <2>2. CASE c.pc = "release" /\ status[o] \in Ended
    <3>1. \A i \in Lines(o) :
            /\ LineClaim(w, i) = IF c.got[i] > lock[Ticket(w, i)][o] THEN c.got[i] - lock[Ticket(w, i)][o] ELSE 0
            /\ LineClaim(w, i)' = IF c.got[i] > lock'[Ticket(w, i)][o] THEN c.got[i] - lock'[Ticket(w, i)][o] ELSE 0
      BY <1>1, <1>4, <2>2 DEF LineClaim, At, Creating, PerLine, Ended
    <3>2. OrderClaim(o, t)' = lock'[t][o] /\ OrderClaim(o, t) = lock[t][o]
      BY <1>1, <2>2 DEF OrderClaim, Ended
    <3>3. \A i \in LinesOf(o, t) : c.got[i] = 0 => LineClaim(w, i)' <= LineClaim(w, i)
      <4> SUFFICES ASSUME NEW i \in LinesOf(o, t), c.got[i] = 0
                   PROVE  LineClaim(w, i)' <= LineClaim(w, i)
        OBVIOUS
      <4>1. LineClaim(w, i)' = 0 /\ LineClaim(w, i) = 0
        <5> HIDE DEF Known, c
        <5> QED
          BY <1>4, <2>1, <3>1
      <4> QED
        BY <4>1
    <3>4. CASE \A i \in LinesOf(o, t) : c.got[i] = 0
      <4>1. CallClaim(w, t)' <= CallClaim(w, t)
        <5> HIDE DEF LineClaim, CallClaim
        <5> QED
          BY <2>1, <3>3, <3>4, ClaimFalls
      <4>2. lock'[t][o] <= lock[t][o]
        BY <1>1, <1>2
      <4> QED
        BY <2>0, <3>2, <4>1, <4>2 DEF Balanced
    <3>5. ASSUME NEW i \in LinesOf(o, t), c.got[i] # 0 PROVE Balanced(w, o, t)
      <4>1. i \in Lines(o) /\ Ticket(w, i) = t /\ c.got[i] \in Nat
        BY <1>3, <1>4, <3>5 DEF LinesOf
      <4>2. PICK n \in Nat : lock[t][o] = lock'[t][o] + n
        <5>1. lock[t][o] \in Nat /\ lock'[t][o] \in Nat /\ lock'[t][o] <= lock[t][o]
          BY <1>4, <4>1
        <5>2. lock[t][o] - lock'[t][o] \in Nat
          BY <5>1
        <5> QED
          BY <5>1, <5>2
      <4>3. LineClaim(w, i)' + 0 <= LineClaim(w, i) + n
        <5> HIDE DEF Known, c
        <5> QED
          BY <1>4, <3>1, <4>1, <4>2
      <4>4. \A j \in LinesOf(o, t) \ {i} : LineClaim(w, j)' <= LineClaim(w, j)
        <5>1. \A j \in Lines(o) \ {i} : c.got[j] = 0
          <6>1. \A j, k \in Lines(o) : c.got[j] > 0 /\ c.got[k] > 0 => j = k
            BY <2>2 DEF LockInv, CallLocks, Ended
          <6>2. \A j \in Lines(o) : c.got[j] \in Nat
            BY <1>3
          <6> HIDE DEF Known, c
          <6> QED
            BY <3>5, <4>1, <6>1, <6>2
        <5> QED
          BY <2>1, <3>3, <5>1
      <4>5. CallClaim(w, t)' + 0 <= CallClaim(w, t) + n
        <5> HIDE DEF LineClaim, CallClaim
        <5> QED
          BY <2>1, <4>2, <4>3, <4>4, ClaimMoves
      <4>6. lock'[t][o] \in Nat
        BY <1>4, <4>1
      <4> QED
        BY <2>0, <3>2, <4>2, <4>5, <4>6 DEF Balanced
    <3> QED
      BY <3>4, <3>5
  <2>3. CASE ~(c.pc = "release" /\ status[o] \in Ended)
    <3>1. c.pc = "release" => status[o] = "absent"
      BY <2>3 DEF OrderInv, ReleasesEnded, At
    <3>2. \A i \in LinesOf(o, t) : LineClaim(w, i)' = LineClaim(w, i)
      BY <1>1, <1>4, <2>1, <3>1 DEF LineClaim, At, Taken
    <3>3. \A i \in LinesOf(o, t) : LineClaim(w, i)' <= LineClaim(w, i)
      <4> SUFFICES ASSUME NEW i \in LinesOf(o, t) PROVE LineClaim(w, i)' <= LineClaim(w, i)
        OBVIOUS
      <4>1. LineClaim(w, i) \in Nat
        BY <2>1, ClaimFacts DEF ClaimNumbers
      <4> QED
        BY <3>2, <4>1
    <3>4. CallClaim(w, t)' <= CallClaim(w, t)
      <4> HIDE DEF LineClaim, CallClaim
      <4> QED
        BY <2>1, <3>3, ClaimFalls
    <3>5. OrderClaim(o, t)' <= OrderClaim(o, t)
      BY <1>1, OrderClaimFalls
    <3> QED
      BY <2>0, <3>4, <3>5 DEF Balanced
  <2> QED
    BY <2>2, <2>3
<1>7. \A t \in Tickets : lock'[t][o] <= Need(o, t)
  <2> SUFFICES ASSUME NEW t \in Tickets PROVE lock'[t][o] <= Need(o, t)
    OBVIOUS
  <2> QED
    BY <1>1, <1>2
<1>8. OwnLocks(o) /\ quotaKeys' = quotaKeys /\ counter' = counter
  BY <1>1 DEF OwnLocks
<1> QED
  BY <1>5, <1>6, <1>7, <1>8 DEF Settles

LEMMA LapseKeeps ==
  ASSUME Known, CounterInv, NoOversell, NEW o \in Orders, NEW u \in Tickets, LockExpires(u, o)
  PROVE  LockInv' /\ CounterInv'
<1> USE DEF Known
<1>1. /\ UNCHANGED <<status, sold, call, quotaKeys, counter>>
      /\ lock[u][o] \in Nat
      /\ \A t \in Tickets, p \in Orders : lock'[t][p] = IF t = u /\ p = o THEN 0 ELSE lock[t][p]
  BY DEF LockExpires, LockLapses, dbVars, TypeOK, RedisTypeOK
<1>2. OwnLocks(o) /\ \A t \in Tickets : lock'[t][o] \in {lock[t][o], 0}
  BY <1>1 DEF OwnLocks
<1>3. \A t \in Tickets : sold[t] <= sold'[t] /\ sold'[t] <= Quota[t] /\ sold[t] \in Nat
  BY <1>1 DEF NoOversell, TypeOK
<1>4. CASE \E w \in Workers : call[w].pc # "idle" /\ call[w].order = o
  <2>1. PICK w \in Workers : call[w].pc # "idle" /\ call[w].order = o
    BY <1>4
  <2>2. OthersStay({w}, o)
    BY <1>1, <1>2, <2>1 DEF OthersStay, SerialInv, Idle
  <2>3. Settles(w, o)
    BY <2>1, LapseSettles
  <2> QED
    BY <1>3, <2>2, <2>3, SettledKeeps
<1>5. CASE ~\E w \in Workers : call[w].pc # "idle" /\ call[w].order = o
  <2>1. OthersStay({}, o)
    BY <1>1, <1>2, <1>5 DEF OthersStay
  <2>2. /\ \A v \in Workers : CallLocks(v)'
        /\ \A v \in Workers, t \in Tickets : CallClaim(v, t)' = CallClaim(v, t)
        /\ \A p \in Orders \ {o}, t \in Tickets : OrderClaim(p, t)' = OrderClaim(p, t)
    BY <2>1, OtherClaims
  <2>3. LockInv'
    <3> SUFFICES ASSUME NEW t \in Tickets, NEW p \in Orders PROVE lock'[t][p] <= Need(p, t)
      BY <2>2 DEF LockInv
    <3>1. lock[t][p] <= Need(p, t) /\ Need(p, t) \in Nat
      BY NeedFacts DEF LockInv
    <3> QED
      BY <1>1, <3>1
  <2>4. ASSUME NEW t \in Tickets
        PROVE  counter'[t] + Claims(t)' + sold'[t] <= counter[t] + Claims(t) + sold[t]
    <3>1. OrderClaims(t)' + OrderClaim(o, t) = OrderClaims(t) + OrderClaim(o, t)'
      BY <2>2, OrderClaimsChange
    <3>2. CallClaims(t)' = CallClaims(t)
      <4>1. [v \in Workers |-> CallClaim(v, t)'] = [v \in Workers |-> CallClaim(v, t)]
        BY <2>2
      <4> QED
        BY <4>1 DEF CallClaims
    <3>3. OrderClaim(o, t)' <= OrderClaim(o, t)
      BY <1>1, <1>2, OrderClaimFalls
    <3>4. /\ OrderClaims(t) \in Nat /\ CallClaims(t) \in Nat
          /\ OrderClaims(t)' \in Nat /\ CallClaims(t)' \in Nat
          /\ Claims(t) = OrderClaims(t) + CallClaims(t)
          /\ Claims(t)' = OrderClaims(t)' + CallClaims(t)'
          /\ OrderClaim(o, t) \in Nat /\ OrderClaim(o, t)' \in Nat
      BY TotalFacts, TotalFactsAfter, ClaimFacts, ClaimFactsAfter DEF TotalNumbers, ClaimNumbers
    <3>5. counter'[t] = counter[t] /\ sold'[t] = sold[t] /\ counter[t] \in Int /\ sold[t] \in Nat
      BY <1>1 DEF TypeOK, RedisTypeOK
    <3> QED
      BY <3>1, <3>2, <3>3, <3>4, <3>5
  <2>5. CounterInv'
    <3>1. quotaKeys \subseteq quotaKeys' /\ \A t \in Tickets : counter'[t] = counter[t]
      BY <1>1
    <3> QED
      BY <1>3, <2>4, <3>1, CounterStep
  <2> QED
    BY <2>3, <2>5
<1> QED
  BY <1>4, <1>5

\* A call that begins claims nothing.
LEMMA BeginKeeps ==
  ASSUME Known, CounterInv, NoOversell, NEW w \in Workers, NEW o \in Orders, Begin(w, o)
  PROVE  LockInv' /\ CounterInv'
<1> USE DEF Known
<1>1. /\ UNCHANGED <<status, sold>> /\ UNCHANGED redisVars
      /\ \/ Start(w, o, "create", "row", {})
         \/ Start(w, o, "paid", "sell", FirstLines(o))
         \/ \E op \in {"expired", "failed", "cancel", "cron"} : Start(w, o, op, "read", {})
  BY DEF Begin, BeginCreate, StartPaid, StartExpired, StartFailed, StartCancel, StartCron,
         dbVars, orderVars
<1>2. /\ call[w] = Idle /\ DOMAIN call = Workers
      /\ \A v \in Workers \ {w} : call'[v] = call[v]
      /\ call'[w].pc \in {"row", "sell", "read"} /\ call'[w].order = o /\ call'[w].line = 1
      /\ \A i \in Lines(o) : call'[w].got[i] = 0
  BY <1>1 DEF Start, NewCall, TypeOK, CallsTyped
<1>3. \A i \in Lines(o) : i \in Nat /\ ~(i < 1)
  BY LinesRange
<1>4. CallLocks(w)'
  BY <1>2, <1>3 DEF CallLocks, Creating, PerLine
<1>5. ASSUME NEW t \in Tickets PROVE CallClaim(w, t)' <= CallClaim(w, t)
  <2>1. CallClaim(w, t) = 0
    BY <1>2 DEF CallClaim, At, Idle
  <2>2. CASE call'[w].pc = "row"
    <3> DEFINE f == [i \in Lines(o) |-> LineClaim(w, i)']
    <3>1. \A i \in Lines(o) : f[i] = 0
      BY <1>2, <1>3, <2>2 DEF LineClaim, At, Taken, Creating, PerLine
    <3>2. CallClaim(w, t)' = SumFunctionOnSet(f, LinesOf(o, t))
      BY <1>2, <2>2 DEF CallClaim, At
    <3>3. IsFiniteSet(LinesOf(o, t)) /\ LinesOf(o, t) \subseteq Lines(o)
      BY LinesFinite
    <3> HIDE DEF f
    <3>4. SumFunctionOnSet(f, LinesOf(o, t)) = 0
      BY <3>1, <3>3, SumOfZeros
    <3> QED
      BY <2>1, <3>2, <3>4
  <2>3. CASE call'[w].pc # "row"
    <3>1. CallClaim(w, t)' = 0
      BY <1>2, <2>3, ClaimFactsAfter DEF ClaimNumbers, Creating, PerLine
    <3> QED
      BY <2>1, <3>1
  <2> QED
    BY <2>2, <2>3
<1>6. ASSUME NEW v \in Workers \ {w} PROVE CallLocks(v)'
  <2>1. call'[v] = call[v] /\ status' = status /\ lock' = lock
    BY <1>1, <1>2 DEF redisVars
  <2>2. CallLocks(v)
    BY DEF LockInv
  <2> HIDE DEF Known
  <2> QED
    BY <2>1, <2>2 DEF CallLocks, Ticket, Qty
<1>7. \A v \in Workers : CallLocks(v)'
  BY <1>4, <1>6
<1>8. ASSUME NEW v \in Workers \ {w}, NEW t \in Tickets PROVE CallClaim(v, t)' = CallClaim(v, t)
  <2>1. call'[v] = call[v] /\ status' = status /\ lock' = lock
    BY <1>1, <1>2 DEF redisVars
  <2>2. \A i : LineClaim(v, i)' = LineClaim(v, i)
    BY <2>1 DEF LineClaim, Taken, Ticket, Qty, At
  <2>3. [i \in Lines(call[v].order) |-> LineClaim(v, i)'] = [i \in Lines(call[v].order) |-> LineClaim(v, i)]
    BY <2>2
  <2>4. CallClaim(v, t)' =
          IF call[v].pc = "idle" THEN 0
          ELSE SumFunctionOnSet([i \in Lines(call[v].order) |-> LineClaim(v, i)'], LinesOf(call[v].order, t))
    BY <2>1 DEF CallClaim, At
  <2> QED
    BY <2>3, <2>4 DEF CallClaim, At
<1>9. LockInv'
  BY <1>1, <1>7 DEF LockInv, redisVars
<1>10. ASSUME NEW t \in Tickets
       PROVE  counter'[t] + Claims(t)' + sold'[t] <= counter[t] + Claims(t) + sold[t]
  <2>1. CallClaims(t)' + CallClaim(w, t) = CallClaims(t) + CallClaim(w, t)'
    BY <1>8, CallClaimsChange
  <2>2. OrderClaims(t)' = OrderClaims(t)
    BY <1>1 DEF OrderClaims, OrderClaim, redisVars
  <2>3. /\ OrderClaims(t) \in Nat /\ CallClaims(t) \in Nat
        /\ OrderClaims(t)' \in Nat /\ CallClaims(t)' \in Nat
        /\ Claims(t) = OrderClaims(t) + CallClaims(t)
        /\ Claims(t)' = OrderClaims(t)' + CallClaims(t)'
        /\ CallClaim(w, t) \in Nat /\ CallClaim(w, t)' \in Nat
    BY TotalFacts, TotalFactsAfter, ClaimFacts, ClaimFactsAfter DEF TotalNumbers, ClaimNumbers
  <2>4. counter'[t] = counter[t] /\ sold'[t] = sold[t] /\ counter[t] \in Int /\ sold[t] \in Nat
    BY <1>1 DEF TypeOK, RedisTypeOK, redisVars
  <2> QED
    BY <1>5, <2>1, <2>2, <2>3, <2>4
<1>11. /\ quotaKeys \subseteq quotaKeys' /\ \A t \in Tickets : counter'[t] = counter[t]
       /\ \A t \in Tickets : sold[t] <= sold'[t] /\ sold'[t] <= Quota[t]
  BY <1>1 DEF redisVars, NoOversell, TypeOK
<1> QED
  BY <1>9, <1>10, <1>11, CounterStep

LEMMA ClaimsInit == Init => LockInv /\ CounterInv
<1> SUFFICES ASSUME Init PROVE LockInv /\ CounterInv
  OBVIOUS
<1>1. /\ \A t \in Tickets, o \in Orders : lock[t][o] = 0
      /\ \A t \in Tickets : counter[t] = 0
      /\ \A o \in Orders : status[o] = "absent"
      /\ \A w \in Workers : call[w].pc = "idle"
      /\ quotaKeys = {}
  BY DEF Init, RedisInit, Idle
<1>2. LockInv
  <2>1. \A t \in Tickets, o \in Orders : lock[t][o] <= Need(o, t)
    BY <1>1, NeedFacts
  <2>2. \A w \in Workers : CallLocks(w)
    BY <1>1 DEF CallLocks, Creating, PerLine
  <2> QED
    BY <2>1, <2>2 DEF LockInv
<1>3. ASSUME NEW t \in Tickets PROVE Claims(t) = 0
  <2> DEFINE f == [o \in Orders |-> OrderClaim(o, t)]
             g == [w \in Workers |-> CallClaim(w, t)]
  <2>1. \A o \in Orders : f[o] = 0
    BY <1>1 DEF OrderClaim, Ended
  <2>2. \A w \in Workers : g[w] = 0
    BY <1>1 DEF CallClaim, At
  <2>3. Claims(t) = SumFunctionOnSet(f, Orders) + SumFunctionOnSet(g, Workers)
    BY DEF Claims, SumFunction
  <2>4. IsFiniteSet(Orders) /\ IsFiniteSet(Workers)
    BY OrdersAssumption
  <2> HIDE DEF f, g
  <2>5. SumFunctionOnSet(f, Orders) = 0 /\ SumFunctionOnSet(g, Workers) = 0
    BY <2>1, <2>2, <2>4, SumOfZeros
  <2> QED
    BY <2>3, <2>5
<1> QED
  BY <1>1, <1>2, <1>3 DEF CounterInv

LEMMA ClaimsNext ==
  ASSUME NoLargerRepeat, TypeOK, TypeOK', OrderInv, SerialInv, NoOversell, LockInv, CounterInv,
         [Next]_vars
  PROVE  LockInv' /\ CounterInv'
<1>1. Known
  BY DEF Known
<1>2. ASSUME NEW w \in Workers, Step(w) \/ Fault(w) PROVE LockInv' /\ CounterInv'
  <2>1. PICK o \in Orders : o = call[w].order /\ Advance(w) /\ Writes(w) /\ Settles(w, o)
    BY <1>1, <1>2, StepSettles
  <2>2. OthersStay({w}, o)
    <3>1. \A v \in Workers \ {w} : call'[v] = call[v] /\ (call[v].pc # "idle" => call[v].order # o)
      BY <2>1 DEF Advance, SerialInv, Idle
    <3>2. \A p \in Orders \ {o} : status'[p] = status[p]
      BY <2>1 DEF Writes, PaidIfPending, TypeOK
    <3> QED
      BY <2>1, <3>1, <3>2 DEF OthersStay, Settles
  <2>3. \A t \in Tickets : sold[t] <= sold'[t] /\ sold'[t] <= Quota[t]
    <3> SUFFICES ASSUME NEW t \in Tickets PROVE sold[t] <= sold'[t] /\ sold'[t] <= Quota[t]
      OBVIOUS
    <3>1. sold'[t] = sold[t] \/ (sold[t] <= sold'[t] /\ sold'[t] <= Quota[t])
      BY SoldChange
    <3>2. sold[t] \in Nat /\ sold[t] <= Quota[t]
      BY DEF TypeOK, NoOversell
    <3> QED
      BY <3>1, <3>2
  <2> QED
    BY <2>1, <2>2, <2>3, SettledKeeps
<1>3. ASSUME NEW w \in Workers, NEW o \in Orders, Begin(w, o) PROVE LockInv' /\ CounterInv'
  BY <1>1, <1>3, BeginKeeps
<1>4. ASSUME NEW t \in Tickets, NEW o \in Orders, LockExpires(t, o) PROVE LockInv' /\ CounterInv'
  BY <1>1, <1>4, LapseKeeps
<1>5. CASE (\E o \in Orders : FallDue(o)) \/ UNCHANGED vars
  <2>1. UNCHANGED <<quotaKeys, counter, lock, status, sold, call>>
    BY <1>5 DEF FallDue, vars, redisVars, dbVars
  <2>2. \A w \in Workers : CallLocks(w)' = CallLocks(w)
    BY <2>1 DEF CallLocks, Ticket, Qty
  <2>3. \A t : Claims(t)' = Claims(t)
    BY <2>1 DEF Claims, OrderClaim, CallClaim, LineClaim, Taken, Ticket, Qty, At
  <2> QED
    BY <2>1, <2>2, <2>3 DEF LockInv, CounterInv
<1> QED
  BY <1>2, <1>3, <1>4, <1>5 DEF Next

\* Counters, claims and `sold` fit the quota as long as calls on one order do not
\* overlap and no line of an order takes more of a ticket than an earlier one.
THEOREM ClaimsInvariant ==
  ASSUME ~Overlap, NoLargerRepeat PROVE Spec => [](LockInv /\ CounterInv)
<1>1. NoLargerRepeat
  OBVIOUS
<1>2. /\ TypeOK /\ TypeOK' /\ OrderInv /\ SerialInv /\ NoOversell
      /\ LockInv /\ CounterInv /\ [Next]_vars
      => LockInv' /\ CounterInv'
  BY <1>1, ClaimsNext
<1>3. Spec => []SerialInv
  BY SerialInvariant
<1> QED
  BY <1>2, <1>3, ClaimsInit, TypeCorrect, OrderInvariant, QuotaKept, PTL DEF Spec

\* Redis promises no unit twice, whatever fails, as long as calls on one order
\* do not overlap: a unit the counter has given out is claimed until it is sold
\* or comes back.  An order that names a ticket again must not take more of it
\* than it took before: its lock key is written by every line, and released
\* once for each of them.
THEOREM SerialHonest == ASSUME ~Overlap, NoLargerRepeat PROVE Spec => []CounterHonest
<1>1. ASSUME TypeOK, CounterInv PROVE CounterHonest
  <2> SUFFICES ASSUME NEW t \in quotaKeys
               PROVE  counter[t] + UnitsOf(Having("PENDING"), t) + sold[t] <= Quota[t]
    BY DEF CounterHonest
  <2>1. t \in Tickets /\ counter[t] \in Int /\ sold[t] \in Nat /\ Quota[t] \in Nat
    BY <1>1, OrdersAssumption DEF TypeOK, RedisTypeOK
  <2>2. counter[t] + Claims(t) + sold[t] <= Quota[t]
    BY <1>1, <2>1 DEF CounterInv
  <2>3. UnitsOf(Having("PENDING"), t) <= OrderClaims(t)
    <3> DEFINE P == Having("PENDING")
               f == [o \in Orders |-> Need(o, t)]
               g == [o \in Orders |-> OrderClaim(o, t)]
    <3>1. P \subseteq Orders /\ IsFiniteSet(P) /\ IsFiniteSet(Orders)
      BY OrdersAssumption, FS_Subset DEF Having
    <3>2. /\ \A o \in Orders : g[o] \in Nat /\ f[o] \in Nat
          /\ \A o \in P : f[o] <= g[o]
      <4>1. \A o \in Orders : g[o] \in Nat /\ f[o] \in Nat
        BY <1>1, <2>1, ClaimFacts, NeedFacts DEF ClaimNumbers
      <4>2. \A o \in P : f[o] = g[o]
        BY DEF Having, OrderClaim, Ended
      <4> QED
        BY <3>1, <4>1, <4>2
    <3>3. OrderClaims(t) = SumFunctionOnSet(g, Orders) /\ UnitsOf(P, t) = SumFunctionOnSet(f, P)
      BY DEF OrderClaims, SumFunction, UnitsOf
    <3> HIDE DEF P, f, g
    <3>4. SumFunctionOnSet(f, P) <= SumFunctionOnSet(g, P)
      BY <3>1, <3>2, SumMonotone
    <3>5. SumFunctionOnSet(g, P) <= SumFunctionOnSet(g, Orders)
      BY <3>1, <3>2, SumOfPart
    <3>6. /\ SumFunctionOnSet(f, P) \in Nat /\ SumFunctionOnSet(g, P) \in Nat
          /\ SumFunctionOnSet(g, Orders) \in Nat
      BY <3>1, <3>2, SumIsNat
    <3> QED
      BY <3>3, <3>4, <3>5, <3>6 DEF P
  <2>4. /\ OrderClaims(t) \in Nat /\ CallClaims(t) \in Nat
        /\ Claims(t) = OrderClaims(t) + CallClaims(t)
        /\ UnitsOf(Having("PENDING"), t) \in Nat
    BY <1>1, <2>1, TotalFacts, UnitsFacts DEF TotalNumbers, Having
  <2> QED
    BY <2>1, <2>2, <2>3, <2>4
<1> QED
  BY <1>1, ClaimsInvariant, TypeCorrect, PTL

(***************************************************************************)
(* Units that the counters lack, and who has them.                         *)
(***************************************************************************)

\* Without repeats a line stands for its ticket.
LEMMA OneLineEach ==
  ASSUME NoRepeats, NEW o \in Orders, NEW i \in Lines(o)
  PROVE  /\ LinesOf(o, Items[o][i].ticket) = {i}
         /\ Need(o, Items[o][i].ticket) = Items[o][i].qty
         /\ FirstLines(o) = Lines(o)
<1> DEFINE f == [j \in Lines(o) |-> Items[o][j].qty]
           t == Items[o][i].ticket
<1>1. LinesOf(o, t) = {i}
  BY DEF NoRepeats, LinesOf
<1>2. /\ \A j \in {i} : f[j] \in Nat
      /\ f[i] = Items[o][i].qty /\ f[i] \in Nat
  BY LineFields
<1>3. Need(o, t) = SumFunctionOnSet(f, {i})
  BY <1>1 DEF Need
<1>4. IsFiniteSet({i}) /\ {i} \ {i} = {}
  BY FS_Singleton
<1>5. FirstLines(o) = Lines(o)
  <2>1. \A j, k \in Lines(o) : k < j => Items[o][k].ticket # Items[o][j].ticket
    BY LinesRange DEF NoRepeats
  <2> QED
    BY <2>1 DEF FirstLines
<1> HIDE DEF f
<1>6. SumFunctionOnSet(f, {i}) = f[i] + SumFunctionOnSet(f, {i} \ {i})
  BY <1>2, <1>4, SumSplits
<1>7. SumFunctionOnSet(f, {i} \ {i}) = 0
  BY <1>4, SumOfNone
<1> QED
  BY <1>1, <1>2, <1>3, <1>5, <1>6, <1>7

\* An order without repeats takes no more on a later line.
LEMMA NoRepeatsSmaller == NoRepeats => NoLargerRepeat
<1> SUFFICES ASSUME NoRepeats, NEW o \in Orders, NEW i \in Lines(o), NEW j \in Lines(o),
                    i < j, Items[o][i].ticket = Items[o][j].ticket
             PROVE  Items[o][j].qty <= Items[o][i].qty
  BY DEF NoLargerRepeat
<1>1. i = j
  BY DEF NoRepeats
<1> QED
  BY <1>1, LineFields

\* What is kept of a ticket is what the line that names it keeps.
LEMMA KeptOfLine ==
  ASSUME NoRepeats, TypeOK, NEW o \in Orders
  PROVE  /\ \A i \in Lines(o) : LineKept(o, i) \in Nat
         /\ \A i \in Lines(o) : Kept(o, Items[o][i].ticket) = LineKept(o, i)
         /\ \A t : LinesOf(o, t) = {} => Kept(o, t) = 0
         /\ \A t \in Tickets : Kept(o, t) \in Nat
<1> DEFINE f == [j \in Lines(o) |-> LineKept(o, j)]
<1>1. ASSUME NEW i \in Lines(o) PROVE LineKept(o, i) \in Nat
  <2>1. Items[o][i].qty \in Nat /\ lock[Items[o][i].ticket][o] \in Nat
    BY LineFields DEF TypeOK, RedisTypeOK
  <2> QED
    BY <2>1 DEF LineKept, RestKept
<1>2. ASSUME NEW i \in Lines(o) PROVE Kept(o, Items[o][i].ticket) = LineKept(o, i)
  <2>1. Kept(o, Items[o][i].ticket) = SumFunctionOnSet(f, {i})
    BY OneLineEach DEF Kept
  <2>2. f[i] = LineKept(o, i) /\ f[i] \in Nat
    BY <1>1
  <2>3. IsFiniteSet({i}) /\ {i} \ {i} = {}
    BY FS_Singleton
  <2> HIDE DEF f
  <2>4. SumFunctionOnSet(f, {i}) = f[i] + SumFunctionOnSet(f, {i} \ {i})
    BY <2>2, <2>3, SumSplits
  <2>5. SumFunctionOnSet(f, {i} \ {i}) = 0
    BY <2>3, SumOfNone
  <2> QED
    BY <2>1, <2>2, <2>4, <2>5
<1>3. \A t : LinesOf(o, t) = {} => Kept(o, t) = 0
  BY SumOfNone DEF Kept
<1>4. ASSUME NEW t \in Tickets PROVE Kept(o, t) \in Nat
  <2>1. CASE LinesOf(o, t) = {}
    BY <1>3, <2>1
  <2>2. CASE LinesOf(o, t) # {}
    <3>1. PICK i \in Lines(o) : Items[o][i].ticket = t
      BY <2>2 DEF LinesOf
    <3> QED
      BY <1>1, <1>2, <3>1
  <2> QED
    BY <2>1, <2>2
<1> QED
  BY <1>1, <1>2, <1>3, <1>4

\* Call w is the only one on order o, if there is any.
Alone(w, o) ==
  /\ call[w].pc # "idle" => call[w].order = o
  /\ \A v \in Workers \ {w} : call[v].pc # "idle" => call[v].order # o

\* What line i keeps and what is known of it, as the only call on its order sees it.
WorkKept(w, o, i) ==
  IF call[w].pc \in Creating
  THEN IF i \in Taken(w) THEN Items[o][i].qty ELSE 0
  ELSE RestKept(o, i)

WorkKeys(w, o, i) ==
  LET t == Items[o][i].ticket  c == call[w] IN
  /\ lock[t][o] > 0 => t \in quotaKeys
  /\ o \notin due /\ status[o] = "PENDING" => lock[t][o] = Items[o][i].qty
  /\ o \notin due /\ status[o] \notin {"PENDING", "PAID"} /\ lock[t][o] > 0 => i \in InHand(w)
  /\ c.pc \in {"take", "undo", "unset"} /\ i = c.line => t \in quotaKeys
  /\ c.pc = "release" /\ c.got[i] > 0 => t \in quotaKeys
  /\ c.pc \in Creating /\ o \notin due /\ i \in InHand(w) => lock[t][o] = Items[o][i].qty
  /\ c.pc = "release" /\ o \notin due /\ c.got[i] > 0 => c.got[i] = lock[t][o]

\* Line by line, the only call on an order sees all that KeysInv says of the two.
LEMMA WorkViews ==
  ASSUME TypeOK, NEW w \in Workers, NEW o \in Orders, Alone(w, o)
  PROVE  /\ \A i \in Lines(o) : LineKept(o, i) = WorkKept(w, o, i)
         /\ KeysInv /\ faults = 0 => \A i \in Lines(o) : WorkKeys(w, o, i)
         /\ (\A i \in Lines(o) : WorkKeys(w, o, i))
              => OrderKeys(o) /\ (call[w].pc # "idle" => CallKeys(w))
<1>1. \A v \in Workers : Works(v, o) <=> v = w /\ call[w].pc # "idle"
  BY DEF Alone, Works, At
<1>2. ASSUME NEW i \in Lines(o) PROVE LineKept(o, i) = WorkKept(w, o, i)
  <2>1. call[w].pc \in Creating <=> \E v \in Workers : Creates(v, o)
    BY <1>1 DEF Creates, Creating, PerLine
  <2>2. call[w].pc \in Creating =>
          (i \in Taken(w) <=> \E v \in Workers : Creates(v, o) /\ i \in Taken(v))
    BY <1>1, <2>1 DEF Creates
  <2> QED
    BY <2>1, <2>2 DEF LineKept, WorkKept
<1>3. ASSUME NEW i
      PROVE  (\E v \in Workers : Works(v, o) /\ i \in InHand(v)) <=> i \in InHand(w)
  <2>1. call[w].pc = "idle" => InHand(w) = {}
    BY DEF InHand, At, Creating, PerLine
  <2> QED
    BY <1>1, <2>1
<1>4. call[w].pc # "idle" =>
        /\ call[w].order = o
        /\ \A i \in Lines(o) : Ticket(w, i) = Items[o][i].ticket /\ Qty(w, i) = Items[o][i].qty
        /\ InHand(w) \subseteq Lines(o)
        /\ call[w].pc \in {"take", "undo", "unset"} => call[w].line \in Lines(o)
  BY LineOfCall DEF Alone, Ticket, Qty, InHand, PerLine
<1>5. ASSUME KeysInv, faults = 0, NEW i \in Lines(o) PROVE WorkKeys(w, o, i)
  <2>1. OrderKeys(o) /\ (call[w].pc # "idle" => CallKeys(w))
    BY <1>5 DEF KeysInv
  <2>2. call[w].pc = "idle" => call[w].pc \notin {"take", "undo", "unset", "release"} \cup Creating
    BY DEF Creating, PerLine
  <2> QED
    BY <1>3, <1>4, <2>1, <2>2 DEF OrderKeys, CallKeys, WorkKeys
<1>6. ASSUME \A i \in Lines(o) : WorkKeys(w, o, i)
      PROVE  OrderKeys(o) /\ (call[w].pc # "idle" => CallKeys(w))
  <2>1. OrderKeys(o)
    BY <1>3, <1>6 DEF OrderKeys, WorkKeys
  <2>2. call[w].pc # "idle" => CallKeys(w)
    BY <1>4, <1>6 DEF CallKeys, WorkKeys
  <2> QED
    BY <2>1, <2>2
<1> QED
  BY <1>2, <1>5, <1>6

\* What the steps below start from.
Backing ==
  /\ TypeOK /\ TypeOK' /\ OrderInv /\ SerialInv /\ LockInv /\ TicketInv /\ KeysInv
  /\ faults = 0 /\ due' = due

TicketBacked(w, o, i, t) ==
  /\ t \in quotaKeys =>
       counter[t] + WorkKept(w, o, i) + sold[t] <= counter'[t] + WorkKept(w, o, i)' + sold'[t]
  /\ t \in quotaKeys' \ quotaKeys => Quota[t] <= counter'[t] + sold'[t]

LineBacked(w, o, i) == WorkKeys(w, o, i)' /\ TicketBacked(w, o, i, Items[o][i].ticket)

\* A step of call w on order o leaves the other orders and tickets alone, and
\* no counter lacks more than before that is not kept or sold.
OrderBacked(w, o) ==
  /\ OwnLocks(o)
  /\ quotaKeys \subseteq quotaKeys'
  /\ \A t \in Tickets : LinesOf(o, t) = {} =>
       /\ counter'[t] = counter[t] /\ sold'[t] = sold[t]
       /\ t \in quotaKeys' => t \in quotaKeys
  /\ \A i \in Lines(o) : LineBacked(w, o, i)

\* What a call knows when it takes a step.
LEMMA WorkFacts ==
  ASSUME NoRepeats, Backing, NEW w \in Workers, call[w].pc # "idle",
         NEW o \in Orders, o = call[w].order
  PROVE  /\ Alone(w, o)
         /\ DOMAIN call = Workers /\ call[w] \in CallOn(o)
         /\ \A i \in Lines(o) :
              /\ WorkKeys(w, o, i)
              /\ Ticket(w, i) = Items[o][i].ticket /\ Qty(w, i) = Items[o][i].qty
              /\ call[w].pc \in Creating \cup {"reread"} => call[w].got[i] = 0
              /\ call[w].pc = "commit" => i < call[w].line
<1>1. Alone(w, o)
  BY DEF Alone, Backing, SerialInv, Idle
<1>2. DOMAIN call = Workers /\ call[w] \in CallOn(o)
  BY BegunRecord DEF Backing
<1>3. \A i \in Lines(o) : WorkKeys(w, o, i)
  BY <1>1, WorkViews DEF Backing
<1>4. \A i \in Lines(o) :
        /\ call[w].pc \in Creating \cup {"reread"} => call[w].got[i] = 0
        /\ call[w].pc = "commit" => i < call[w].line
  BY DEF Backing, LockInv, CallLocks, Creating, PerLine
<1> QED
  BY <1>1, <1>2, <1>3, <1>4 DEF Ticket, Qty

\* The numbers that its step adds up.
LEMMA LineNumbers ==
  ASSUME NoRepeats, Backing, NEW o \in Orders, NEW i \in Lines(o)
  PROVE  LET t == Items[o][i].ticket IN
         /\ i \in Nat /\ t \in Tickets /\ Items[o][i].qty \in Nat \ {0}
         /\ lock[t][o] \in Nat /\ lock[t][o] <= Items[o][i].qty
         /\ counter[t] \in Int /\ sold[t] \in Nat
         /\ lock'[t][o] \in Nat /\ counter'[t] \in Int /\ sold'[t] \in Nat
         /\ Quota[t] \in Nat
<1>1. Items[o][i].ticket \in Tickets /\ Items[o][i].qty \in Nat \ {0} /\ i \in Nat
  BY LineFields
<1>2. lock[Items[o][i].ticket][o] <= Items[o][i].qty
  BY <1>1, OneLineEach DEF Backing, LockInv
<1>3. /\ counter \in [Tickets -> Int] /\ counter' \in [Tickets -> Int]
      /\ lock \in [Tickets -> [Orders -> Nat]] /\ lock' \in [Tickets -> [Orders -> Nat]]
      /\ sold \in [Tickets -> Nat] /\ sold' \in [Tickets -> Nat]
  BY DEF Backing, TypeOK, RedisTypeOK
<1>4. Quota \in [Tickets -> Nat]
  BY OrdersAssumption
<1> QED
  BY <1>1, <1>2, <1>3, <1>4

\* Where counters and sales stay, a line is backed as long as no less is kept of it.
LEMMA StillBacked ==
  ASSUME NoRepeats, Backing, NEW w \in Workers, NEW o \in Orders, NEW i \in Lines(o),
         UNCHANGED <<quotaKeys, counter, sold>>, WorkKeys(w, o, i)',
         WorkKept(w, o, i) \in Nat, WorkKept(w, o, i)' \in Nat,
         WorkKept(w, o, i) <= WorkKept(w, o, i)'
  PROVE  LineBacked(w, o, i)
<1>1. PICK t : t = Items[o][i].ticket
  OBVIOUS
<1>2. PICK a \in Int, b \in Nat : a = counter[t] /\ b = sold[t]
  BY <1>1, LineNumbers
<1>3. PICK m \in Nat, n \in Nat : m = WorkKept(w, o, i) /\ n = WorkKept(w, o, i)'
  OBVIOUS
<1>4. a + m + b <= a + n + b
  BY <1>3
<1>5. counter'[t] = a /\ sold'[t] = b /\ quotaKeys' \ quotaKeys = {}
  BY <1>2
<1>6. TicketBacked(w, o, i, t)
  BY <1>2, <1>3, <1>4, <1>5, Zenon DEF TicketBacked
<1>7. QED BY <1>1, <1>6 DEF LineBacked

\* Stages that hold or read no lock keys.
LEMMA QuietBacked ==
  ASSUME NoRepeats, Backing, NEW w \in Workers, NEW o \in Orders, o = call[w].order,
         call[w].pc \notin Creating \cup {"idle", "reread", "release"},
         call'[w].pc \notin Creating \cup {"release"},
         UNCHANGED <<redisVars, status, sold>>
  PROVE  OrderBacked(w, o)
<1>1. UNCHANGED <<quotaKeys, counter, lock, status, sold, due>>
  BY DEF redisVars, Backing
<1>2. ASSUME NEW i \in Lines(o) PROVE LineBacked(w, o, i)
  <2>1. WorkKeys(w, o, i)
    BY WorkFacts
  <2>2. InHand(w) = {}
    BY DEF InHand, At
  <2>3. WorkKeys(w, o, i)'
    BY <1>1, <2>1, <2>2 DEF WorkKeys, Creating, PerLine
  <2>4. WorkKept(w, o, i)' = WorkKept(w, o, i) /\ WorkKept(w, o, i) \in Nat
    BY <1>1, LineNumbers DEF WorkKept, RestKept
  <2> QED
    BY <1>1, <2>3, <2>4, LineNumbers DEF LineBacked, TicketBacked
<1> QED
  BY <1>1, <1>2 DEF OrderBacked, OwnLocks

\* A transaction that aborts leaves its lock keys to be released, or there are
\* none; the last one may just have been deleted.
LEMMA AbortBacked ==
  ASSUME NoRepeats, Backing, NEW w \in Workers, NEW o \in Orders, o = call[w].order,
         Abort(w), UNCHANGED <<status, sold>>,
         \/ At(w, "row") /\ UNCHANGED redisVars
         \/ At(w, "unset") /\ DeleteLock(Ticket(w, call[w].line), o)
  PROVE  OrderBacked(w, o)
<1>0. call[w].pc \in PerLine /\ call[w].pc \in {"row", "unset"} /\ call[w].pc # "idle" /\ due' = due
  BY DEF At, PerLine, Backing
<1>1. /\ call[w].line \in Lines(o) /\ status[o] = "absent"
      /\ DOMAIN call = Workers /\ call[w] \in CallOn(o)
  BY <1>0, LineOfCall, WorkFacts DEF Backing, OrderInv, AbsentBeforeCommit, PerLine
<1>2. /\ UNCHANGED <<quotaKeys, counter>>
      /\ OwnLocks(o)
      /\ \A i \in Lines(o) :
           IF call[w].pc = "unset" /\ i = call[w].line
           THEN lock'[Items[o][i].ticket][o] = 0
           ELSE lock'[Items[o][i].ticket][o] = lock[Items[o][i].ticket][o]
  <2>1. \A i \in Lines(o) : /\ i # call[w].line => Items[o][i].ticket # Ticket(w, call[w].line)
                            /\ Items[o][i].ticket \in Tickets
                            /\ Ticket(w, i) = Items[o][i].ticket
    BY <1>0, <1>1, LineFields, WorkFacts DEF NoRepeats
  <2>2. lock \in [Tickets -> [Orders -> Nat]]
    BY DEF Backing, TypeOK, RedisTypeOK
  <2>3. CASE At(w, "row") /\ UNCHANGED redisVars
    BY <2>3 DEF redisVars, OwnLocks, At
  <2>4. CASE At(w, "unset") /\ DeleteLock(Ticket(w, call[w].line), o)
    BY <1>1, <2>1, <2>2, <2>4 DEF DeleteLock, OwnLocks, At
  <2> QED
    BY <2>3, <2>4
<1>3. \/ call'[w].pc = "idle" /\ Locked(w) = {}
      \/ /\ call'[w].pc = "release" /\ call'[w].order = o
         /\ call'[w].todo = Locked(w) /\ call'[w].got = call[w].got
  BY <1>1 DEF Abort, Finish, CallOn, Idle
<1>4. ASSUME NEW i \in Lines(o) PROVE LineBacked(w, o, i)
  <2>1. /\ WorkKeys(w, o, i) /\ call[w].got[i] = 0
        /\ call[w].line \in Nat
    BY <1>0, <1>1, WorkFacts, LineFields DEF Creating
  <2>2. i \in Locked(w) <=> i < call[w].line
    BY DEF Locked
  <2>3. i \in InHand(w) <=> i < call[w].line \/ (call[w].pc = "unset" /\ i = call[w].line)
    BY <1>0 DEF InHand, Creating
  <2>4. i \in Taken(w) <=> i < call[w].line
    BY <1>0 DEF Taken, At
  <2>5. call'[w].pc # "idle" => (i \in InHand(w)' <=> i \in Locked(w))
    BY <1>3, <2>1 DEF InHand, At, Creating, PerLine
  <2>6. /\ lock'[Items[o][i].ticket][o] > 0 =>
             /\ lock'[Items[o][i].ticket][o] = lock[Items[o][i].ticket][o]
             /\ ~(call[w].pc = "unset" /\ i = call[w].line)
        /\ lock[Items[o][i].ticket][o] > 0 => Items[o][i].ticket \in quotaKeys
        /\ o \notin due /\ lock[Items[o][i].ticket][o] > 0 => i \in InHand(w)
        /\ o \notin due /\ i < call[w].line =>
             lock'[Items[o][i].ticket][o] = Items[o][i].qty
    <3>1. i < call[w].line => lock'[Items[o][i].ticket][o] = lock[Items[o][i].ticket][o]
      BY <1>2, <2>1, LineNumbers
    <3>2. /\ lock[Items[o][i].ticket][o] > 0 => Items[o][i].ticket \in quotaKeys
          /\ o \notin due /\ lock[Items[o][i].ticket][o] > 0 => i \in InHand(w)
          /\ o \notin due /\ i < call[w].line => lock[Items[o][i].ticket][o] = Items[o][i].qty
      BY <1>0, <1>1, <2>1, <2>3 DEF WorkKeys, Creating
    <3>3. /\ call[w].pc = "unset" /\ i = call[w].line => lock'[Items[o][i].ticket][o] = 0
          /\ \/ lock'[Items[o][i].ticket][o] = 0
             \/ lock'[Items[o][i].ticket][o] = lock[Items[o][i].ticket][o]
      BY <1>2
    <3>4. lock'[Items[o][i].ticket][o] \in Nat
      BY LineNumbers
    <3>5. lock'[Items[o][i].ticket][o] > 0 => lock'[Items[o][i].ticket][o] # 0
      BY <3>4
    <3> QED
      BY <3>1, <3>2, <3>3, <3>5, Zenon
  <2>7. WorkKeys(w, o, i)'
    <3>1. CASE call'[w].pc = "idle" /\ Locked(w) = {}
      <4>1. o \notin due => ~(lock'[Items[o][i].ticket][o] > 0)
        BY <2>2, <2>3, <2>6, <3>1
      <4> QED
        BY <1>0, <1>1, <1>2, <2>6, <3>1, <4>1 DEF WorkKeys, Creating, PerLine
    <3>2. CASE /\ call'[w].pc = "release" /\ call'[w].order = o
               /\ call'[w].todo = Locked(w) /\ call'[w].got = call[w].got
      <4>1. o \notin due /\ lock'[Items[o][i].ticket][o] > 0 => i \in InHand(w)'
        BY <2>2, <2>3, <2>5, <2>6, <3>2
      <4>2. ~(call'[w].got[i] > 0)
        BY <2>1, <3>2
      <4> QED
        BY <1>0, <1>1, <1>2, <2>6, <3>2, <4>1, <4>2, Zenon DEF WorkKeys, Creating, PerLine
    <3> QED
      BY <1>3, <3>1, <3>2
  <2>8. /\ WorkKept(w, o, i) \in Nat /\ WorkKept(w, o, i)' \in Nat
        /\ WorkKept(w, o, i) <= WorkKept(w, o, i)'
    <3>1. WorkKept(w, o, i) = IF i < call[w].line THEN Items[o][i].qty ELSE 0
      BY <1>0, <2>4 DEF WorkKept, Creating
    <3>2. WorkKept(w, o, i)' = IF o \in due THEN Items[o][i].qty ELSE lock'[Items[o][i].ticket][o]
      BY <1>0, <1>1, <1>3 DEF WorkKept, RestKept, Creating, PerLine
    <3>3. lock'[Items[o][i].ticket][o] \in Nat /\ Items[o][i].qty \in Nat
      BY LineNumbers
    <3> QED
      BY <2>6, <3>1, <3>2, <3>3
  <2> QED
    BY <1>2, <2>7, <2>8, StillBacked
<1> QED
  BY <1>2, <1>4 DEF OrderBacked

\* A round trip to Redis is about one ticket and one order.
OnlyAt(t, o) ==
  /\ quotaKeys \subseteq quotaKeys'
  /\ OwnLocks(o)
  /\ \A u \in Tickets \ {t} :
       /\ counter'[u] = counter[u] /\ lock'[u][o] = lock[u][o]
       /\ u \in quotaKeys' => u \in quotaKeys

\* The scripts of Redis touch one counter and one lock key.
LEMMA RedisLocal ==
  ASSUME TypeOK, NEW t \in Tickets, NEW o \in Orders, NEW n,
         \/ UNCHANGED redisVars
         \/ InitializeQuotaIfAbsent(t, n)
         \/ TakeQuota(t, o, n)
         \/ ReturnOverdraft(t, n)
         \/ DeleteLock(t, o)
         \/ ReturnQuota(t, o, n)
  PROVE  OnlyAt(t, o)
<1>0. counter \in [Tickets -> Int] /\ lock \in [Tickets -> [Orders -> Nat]]
  BY DEF TypeOK, RedisTypeOK
<1>1. CASE UNCHANGED redisVars
  BY <1>1 DEF redisVars, OnlyAt, OwnLocks
<1>2. CASE InitializeQuotaIfAbsent(t, n)
  BY <1>0, <1>2 DEF InitializeQuotaIfAbsent, OnlyAt, OwnLocks
<1>3. CASE TakeQuota(t, o, n)
  BY <1>0, <1>3 DEF TakeQuota, OnlyAt, OwnLocks
<1>4. CASE ReturnOverdraft(t, n)
  BY <1>0, <1>4 DEF ReturnOverdraft, OnlyAt, OwnLocks
<1>5. CASE DeleteLock(t, o)
  BY <1>0, <1>5 DEF DeleteLock, OnlyAt, OwnLocks
<1>6. CASE ReturnQuota(t, o, n)
  BY <1>0, <1>6 DEF ReturnQuota, OnlyAt, OwnLocks
<1> QED
  BY <1>1, <1>2, <1>3, <1>4, <1>5, <1>6

\* So it is enough to look at the lines of the order.
LEMMA LocalBacked ==
  ASSUME NEW w \in Workers, NEW o \in Orders, NEW j \in Lines(o),
         OnlyAt(Items[o][j].ticket, o), UNCHANGED sold,
         \A i \in Lines(o) : LineBacked(w, o, i)
  PROVE  OrderBacked(w, o)
<1>1. \A t : LinesOf(o, t) = {} => t # Items[o][j].ticket
  BY DEF LinesOf
<1> QED
  BY <1>1 DEF OnlyAt, OrderBacked

\* While createOrder works on a line, nothing happens to the others.
LEMMA OtherLines ==
  ASSUME NoRepeats, Backing, NEW w \in Workers, NEW o \in Orders, o = call[w].order,
         call[w].pc \in PerLine, call'[w].pc \in Creating, call'[w].order = o,
         NEW j \in Lines(o), j = call[w].line, OnlyAt(Items[o][j].ticket, o),
         UNCHANGED <<status, sold>>,
         \/ call'[w].line = j
         \/ call'[w].line = j + 1 /\ call'[w].pc \in {"row", "commit"},
         NEW i \in Lines(o), i # j
  PROVE  LineBacked(w, o, i)
<1>0. PICK t : t = Items[o][i].ticket
  OBVIOUS
<1>1. /\ t \in Tickets /\ t # Items[o][j].ticket /\ i \in Nat /\ j \in Nat
  BY <1>0, LineFields DEF NoRepeats
<1>2. /\ counter'[t] = counter[t] /\ lock'[t][o] = lock[t][o]
      /\ t \in quotaKeys' <=> t \in quotaKeys
  BY <1>1 DEF OnlyAt
<1>3. call[w].pc \in Creating /\ call[w].pc # "idle" /\ due' = due
  BY DEF Creating, PerLine, Backing
<1>4. /\ i < call'[w].line <=> i < call[w].line
      /\ ~(call'[w].pc \in {"take", "undo", "unset"} /\ i = call'[w].line)
  BY <1>1
<1>5. /\ i \in InHand(w) <=> i < call[w].line
      /\ i \in InHand(w)' <=> i < call[w].line
      /\ i \in Taken(w) <=> i < call[w].line
      /\ i \in Taken(w)' <=> i < call[w].line
  <2>1. call[w].pc = "undo" => i # call[w].line
    BY <1>3
  <2>2. call'[w].pc = "undo" => i # call'[w].line
    BY <1>4
  <2>3. i \in InHand(w) /\ call[w].pc \in Creating <=> i < call[w].line
    BY <1>3 DEF InHand
  <2>4. i \in InHand(w)' <=> i < call[w].line
    BY <1>3, <1>4 DEF InHand
  <2>5. (i \in Taken(w) <=> i < call[w].line) /\ (i \in Taken(w)' <=> i < call[w].line)
    BY <1>4, <2>1, <2>2 DEF Taken, At
  <2> QED
    BY <1>3, <2>3, <2>4, <2>5
<1>6. WorkKeys(w, o, i)
  BY <1>3, WorkFacts
<1>7. WorkKeys(w, o, i)'
  BY <1>0, <1>2, <1>3, <1>4, <1>5, <1>6, Zenon DEF WorkKeys, Creating, PerLine
<1>8. /\ WorkKept(w, o, i) \in Nat /\ WorkKept(w, o, i)' \in Nat
      /\ WorkKept(w, o, i) <= WorkKept(w, o, i)'
  BY <1>3, <1>5, LineNumbers DEF WorkKept
<1>9. /\ counter[t] \in Int /\ sold[t] \in Nat /\ Quota[t] \in Nat
      /\ counter'[t] \in Int /\ sold'[t] \in Nat /\ sold'[t] = sold[t]
  BY <1>0, LineNumbers
<1>10. TicketBacked(w, o, i, t)
  BY <1>2, <1>8, <1>9 DEF TicketBacked
<1> QED
  BY <1>0, <1>7, <1>10 DEF LineBacked

\* The row of the line is there and its ticket not sold out; then the counter
\* is made if it is missing.
LEMMA LineBegins ==
  ASSUME NoRepeats, Backing, NEW w \in Workers, NEW o \in Orders, o = call[w].order,
         call[w].pc \in {"row", "init"}, call'[w].pc \in {"init", "take"},
         call'[w].order = o, call'[w].line = call[w].line,
         UNCHANGED <<status, sold>>,
         \/ call'[w].pc = "init" /\ UNCHANGED redisVars
         \/ InitializeQuotaIfAbsent(Ticket(w, call[w].line),
                                    Quota[Ticket(w, call[w].line)] - sold[Ticket(w, call[w].line)])
  PROVE  OrderBacked(w, o)
<1>0. PICK j, t : j = call[w].line /\ t = Items[o][j].ticket
  OBVIOUS
<1>1. call[w].pc \in PerLine /\ call[w].pc \in Creating /\ call[w].pc # "idle" /\ due' = due
      /\ call'[w].pc \in Creating
  BY DEF Creating, PerLine, Backing
<1>2. j \in Lines(o) /\ t \in Tickets /\ Ticket(w, j) = t
  BY <1>0, <1>1, LineOfCall, Zenon DEF Backing, Ticket
<1>3. OnlyAt(t, o)
  <2>1. \E n : UNCHANGED redisVars \/ InitializeQuotaIfAbsent(t, n)
    BY <1>0, <1>2, Zenon
  <2> QED
    BY <1>2, <2>1, RedisLocal DEF Backing
<1>4. /\ counter \in [Tickets -> Int]
      /\ lock' = lock
      /\ t \in quotaKeys => counter'[t] = counter[t]
      /\ call'[w].pc = "take" => t \in quotaKeys'
      /\ t \in quotaKeys' \ quotaKeys =>
           counter'[t] = IF Quota[t] - sold[t] > 0 THEN Quota[t] - sold[t] ELSE 0
  <2>1. counter \in [Tickets -> Int]
    BY DEF Backing, TypeOK, RedisTypeOK
  <2> QED
    BY <1>0, <1>2, <2>1, Zenon DEF InitializeQuotaIfAbsent, redisVars
<1>5. LineBacked(w, o, j)
  <2>1. /\ j \notin Taken(w) /\ j \notin Taken(w)'
        /\ j \notin InHand(w) /\ j \notin InHand(w)'
    BY <1>0, <1>1, <1>2, LineFields DEF InHand, Taken, At
  <2>2. WorkKeys(w, o, j)
    BY <1>1, <1>2, WorkFacts
  <2>3. WorkKeys(w, o, j)'
    BY <1>0, <1>1, <1>3, <1>4, <2>1, <2>2, Zenon DEF WorkKeys, Creating, PerLine, OnlyAt
  <2>4. WorkKept(w, o, j)' = 0 /\ WorkKept(w, o, j) = 0
    BY <1>1, <2>1 DEF WorkKept
  <2>5. /\ counter[t] \in Int /\ sold[t] \in Nat /\ Quota[t] \in Nat
        /\ counter'[t] \in Int /\ sold'[t] \in Nat /\ sold'[t] = sold[t]
    BY <1>0, <1>2, LineNumbers, Zenon
  <2>6. TicketBacked(w, o, j, t)
    BY <1>4, <2>4, <2>5 DEF TicketBacked
  <2> QED
    BY <1>0, <2>3, <2>6 DEF LineBacked
<1>6. \A i \in Lines(o) : LineBacked(w, o, i)
  BY <1>0, <1>1, <1>2, <1>3, <1>5, OtherLines, Zenon
<1> QED
  BY <1>0, <1>2, <1>3, <1>6, LocalBacked

\* lockTicketQuota takes the units off the counter and writes the lock key, at
\* once; whether they were there shows afterwards.
LEMMA TakeBacked ==
  ASSUME NoRepeats, Backing, NEW w \in Workers, NEW o \in Orders, o = call[w].order, LockLine(w)
  PROVE  OrderBacked(w, o)
<1>0. PICK j, t : j = call[w].line /\ t = Items[o][j].ticket
  OBVIOUS
<1>1. /\ call[w].pc = "take" /\ call[w].pc \in PerLine /\ call[w].pc \in Creating
      /\ call[w].pc # "idle" /\ due' = due
  BY DEF LockLine, At, Creating, PerLine, Backing
<1>2. /\ j \in Lines(o) /\ t \in Tickets /\ Ticket(w, j) = t /\ Qty(w, j) = Items[o][j].qty
      /\ j \in Nat /\ Qty(w, j) \in Nat \ {0}
  BY <1>0, <1>1, LineOfCall, LineFields DEF Backing, Ticket, Qty
<1>3. TakeQuota(t, o, Qty(w, j)) /\ UNCHANGED <<status, sold>>
  BY <1>0, <1>2, Zenon DEF LockLine, dbVars
<1>4. /\ call'[w].order = o /\ call'[w].got = call[w].got
      /\ \/ call'[w].pc = "undo" /\ call'[w].line = j
         \/ call'[w].pc \in {"row", "commit"} /\ call'[w].line = j + 1
  BY <1>0, <1>1, WorkFacts DEF LockLine, Goto, CallOn
<1>5. OnlyAt(t, o) /\ call'[w].pc \in Creating
  BY <1>2, <1>3, <1>4, RedisLocal DEF Backing, Creating, PerLine
<1>6. LineBacked(w, o, j)
  <2>1. WorkKeys(w, o, j)
    BY <1>1, <1>2, WorkFacts
  <2>0. counter \in [Tickets -> Int] /\ lock \in [Tickets -> [Orders -> Nat]]
    BY DEF Backing, TypeOK, RedisTypeOK
  <2>2. /\ counter[t] \in Int /\ sold[t] \in Nat /\ Quota[t] \in Nat
        /\ counter'[t] \in Int /\ sold'[t] \in Nat /\ sold'[t] = sold[t]
    BY <1>0, <1>2, <1>3, LineNumbers, Zenon
  <2>3. /\ t \in quotaKeys /\ t \in quotaKeys'
        /\ counter'[t] = counter[t] - Qty(w, j)
        /\ lock'[t][o] = Items[o][j].qty
    BY <1>0, <1>1, <1>2, <1>3, <2>0, <2>1, Zenon DEF TakeQuota, WorkKeys
  <2>4. j \notin Taken(w) /\ j \in Taken(w)' /\ j \in InHand(w)'
    BY <1>0, <1>1, <1>2, <1>4, <1>5 DEF Taken, InHand, At
  <2>5. WorkKept(w, o, j) = 0 /\ WorkKept(w, o, j)' = Qty(w, j)
    BY <1>1, <1>2, <1>5, <2>4 DEF WorkKept
  <2>6. TicketBacked(w, o, j, t)
    BY <1>2, <2>2, <2>3, <2>5 DEF TicketBacked
  <2>7. status'[o] = "absent"
    BY <1>1, <1>3 DEF Backing, OrderInv, AbsentBeforeCommit
  <2>8. WorkKeys(w, o, j)'
    BY <1>0, <1>2, <1>4, <2>3, <2>4, <2>7 DEF WorkKeys
  <2> QED
    BY <1>0, <2>6, <2>8 DEF LineBacked
<1>7. \A i \in Lines(o) : LineBacked(w, o, i)
  BY <1>0, <1>1, <1>2, <1>3, <1>4, <1>5, <1>6, OtherLines, Zenon
<1> QED
  BY <1>0, <1>2, <1>3, <1>5, <1>7, LocalBacked, Zenon

\* What was overdrawn goes back to the counter; its lock key is still there.
LEMMA UndoBacked ==
  ASSUME NoRepeats, Backing, NEW w \in Workers, NEW o \in Orders, o = call[w].order, UndoLine(w)
  PROVE  OrderBacked(w, o)
<1>0. PICK j, t : j = call[w].line /\ t = Items[o][j].ticket
  OBVIOUS
<1>1. /\ call[w].pc = "undo" /\ call[w].pc \in PerLine /\ call[w].pc \in Creating
      /\ call[w].pc # "idle" /\ due' = due
  BY DEF UndoLine, At, Creating, PerLine, Backing
<1>2. /\ j \in Lines(o) /\ t \in Tickets /\ Ticket(w, j) = t /\ Qty(w, j) = Items[o][j].qty
      /\ j \in Nat /\ Qty(w, j) \in Nat \ {0}
  BY <1>0, <1>1, LineOfCall, LineFields DEF Backing, Ticket, Qty
<1>3. ReturnOverdraft(t, Qty(w, j)) /\ UNCHANGED <<status, sold>>
  BY <1>0, <1>2 DEF UndoLine, dbVars
<1>4. /\ call'[w].order = o /\ call'[w].got = call[w].got
      /\ call'[w].pc = "unset" /\ call'[w].line = j
  BY <1>0, <1>1, WorkFacts DEF UndoLine, Goto, CallOn
<1>5. OnlyAt(t, o) /\ call'[w].pc \in Creating
  BY <1>2, <1>3, <1>4, RedisLocal DEF Backing, Creating, PerLine
<1>6. LineBacked(w, o, j)
  <2>1. WorkKeys(w, o, j)
    BY <1>1, <1>2, WorkFacts
  <2>0. counter \in [Tickets -> Int]
    BY DEF Backing, TypeOK, RedisTypeOK
  <2>2. /\ counter[t] \in Int /\ sold[t] \in Nat /\ Quota[t] \in Nat
        /\ counter'[t] \in Int /\ sold'[t] \in Nat /\ sold'[t] = sold[t]
    BY <1>0, <1>2, <1>3, LineNumbers, Zenon
  <2>3. j \in Taken(w) /\ j \notin Taken(w)' /\ j \in InHand(w) /\ j \in InHand(w)'
    BY <1>0, <1>1, <1>2, <1>4, <1>5 DEF Taken, InHand, At
  <2>4. /\ t \in quotaKeys /\ t \in quotaKeys'
        /\ counter'[t] = counter[t] + Qty(w, j)
        /\ lock'[t][o] = lock[t][o]
        /\ o \notin due => lock[t][o] = Items[o][j].qty
    BY <1>0, <1>1, <1>2, <1>3, <2>0, <2>1, <2>3, Zenon DEF ReturnOverdraft, WorkKeys
  <2>5. WorkKept(w, o, j) = Qty(w, j) /\ WorkKept(w, o, j)' = 0
    BY <1>1, <1>2, <1>5, <2>3 DEF WorkKept
  <2>6. TicketBacked(w, o, j, t)
    BY <1>2, <2>2, <2>4, <2>5 DEF TicketBacked
  <2>7. status'[o] = "absent"
    BY <1>1, <1>3 DEF Backing, OrderInv, AbsentBeforeCommit
  <2>8. WorkKeys(w, o, j)'
    BY <1>0, <1>1, <1>2, <1>4, <2>3, <2>4, <2>7, Zenon DEF WorkKeys
  <2> QED
    BY <1>0, <2>6, <2>8 DEF LineBacked
<1>7. \A i \in Lines(o) : LineBacked(w, o, i)
  BY <1>0, <1>1, <1>2, <1>3, <1>4, <1>5, <1>6, OtherLines, Zenon
<1> QED
  BY <1>0, <1>2, <1>3, <1>5, <1>7, LocalBacked, Zenon

\* Steps that leave Redis alone.
LEMMA DatabaseBacked ==
  ASSUME NoRepeats, Backing, NEW w \in Workers, NEW o \in Orders, UNCHANGED redisVars,
         \A t \in Tickets : LinesOf(o, t) = {} => sold'[t] = sold[t],
         \A i \in Lines(o) :
           /\ WorkKeys(w, o, i)'
           /\ WorkKept(w, o, i) \in Nat /\ WorkKept(w, o, i)' \in Nat
           /\ WorkKept(w, o, i) + sold[Items[o][i].ticket]
                <= WorkKept(w, o, i)' + sold'[Items[o][i].ticket]
  PROVE  OrderBacked(w, o)
<1>1. UNCHANGED <<quotaKeys, counter, lock>>
  BY DEF redisVars
<1>2. ASSUME NEW i \in Lines(o) PROVE LineBacked(w, o, i)
  <2>1. PICK t : t = Items[o][i].ticket
    OBVIOUS
  <2>2. counter[t] \in Int /\ sold[t] \in Nat /\ sold'[t] \in Nat
    BY <2>1, LineNumbers
  <2>3. TicketBacked(w, o, i, t)
    BY <1>1, <2>1, <2>2 DEF TicketBacked
  <2> QED
    BY <2>1, <2>3 DEF LineBacked
<1> QED
  BY <1>1, <1>2 DEF OrderBacked, OwnLocks

\* The order is PENDING with all its lock keys in place.
LEMMA CommitBacked ==
  ASSUME NoRepeats, Backing, NEW w \in Workers, NEW o \in Orders, o = call[w].order, CommitOrder(w)
  PROVE  OrderBacked(w, o)
<1>1. /\ call[w].pc = "commit" /\ call[w].pc \in Creating /\ call[w].pc # "idle"
      /\ due' = due /\ UNCHANGED redisVars /\ sold' = sold
  BY DEF CommitOrder, At, Creating, Backing
<1>2. call'[w].pc = "bill" /\ status'[o] = "PENDING"
  BY <1>1, WorkFacts DEF CommitOrder, CallOn, Backing, TypeOK
<1>3. ASSUME NEW i \in Lines(o)
      PROVE  /\ WorkKeys(w, o, i)'
             /\ WorkKept(w, o, i) \in Nat /\ WorkKept(w, o, i)' = WorkKept(w, o, i)
  <2>1. i \in Taken(w) /\ i \in InHand(w)
    BY <1>1, WorkFacts DEF Taken, InHand
  <2>2. WorkKeys(w, o, i)
    BY <1>1, WorkFacts
  <2>3. WorkKeys(w, o, i)'
    BY <1>1, <1>2, <2>1, <2>2 DEF WorkKeys, Creating, PerLine, redisVars
  <2>4. WorkKept(w, o, i) = Items[o][i].qty
    BY <1>1, <2>1 DEF WorkKept
  <2>5. WorkKept(w, o, i)' = Items[o][i].qty
    BY <1>2 DEF WorkKept, RestKept, Creating, PerLine
  <2> QED
    BY <2>3, <2>4, <2>5, LineFields
<1>4. ASSUME NEW i \in Lines(o)
      PROVE  /\ WorkKept(w, o, i) \in Nat /\ WorkKept(w, o, i)' \in Nat
             /\ WorkKept(w, o, i) + sold[Items[o][i].ticket]
                  <= WorkKept(w, o, i)' + sold'[Items[o][i].ticket]
  <2>1. PICK k \in Nat, l \in Nat, n \in Nat :
          /\ k = WorkKept(w, o, i) /\ l = WorkKept(w, o, i)'
          /\ n = sold[Items[o][i].ticket]
    BY <1>3, LineNumbers
  <2>2. k + n <= l + n
    BY <1>3, <2>1
  <2> QED
    BY <1>1, <2>1, <2>2
<1> QED
  BY <1>1, <1>3, <1>4, DatabaseBacked

\* What the order kept is sold.
LEMMA SaleBacked ==
  ASSUME NoRepeats, Backing, NEW w \in Workers, NEW o \in Orders, o = call[w].order, CommitSale(w)
  PROVE  OrderBacked(w, o)
<1>1. /\ call[w].pc = "sell" /\ call[w].pc \notin Creating /\ call[w].pc # "idle"
      /\ due' = due /\ UNCHANGED redisVars /\ sold' = SoldAfter(o)
      /\ status[o] = "PENDING"
  BY DEF CommitSale, At, Creating, PerLine, Backing, SerialInv
<1>2. call'[w].pc = "confirm" /\ status'[o] = "PAID"
  BY <1>1, WorkFacts DEF CommitSale, CallOn, Backing, TypeOK, PaidIfPending
<1>3. ASSUME NEW i \in Lines(o)
      PROVE  /\ WorkKeys(w, o, i)'
             /\ WorkKept(w, o, i) = Items[o][i].qty /\ WorkKept(w, o, i)' = 0
  <2>2. WorkKeys(w, o, i)
    BY <1>1, WorkFacts
  <2>3. WorkKeys(w, o, i)'
    BY <1>1, <1>2, <2>2 DEF WorkKeys, Creating, PerLine, redisVars
  <2>4. WorkKept(w, o, i) = Items[o][i].qty
    BY <1>1 DEF WorkKept, RestKept
  <2>5. WorkKept(w, o, i)' = 0
    BY <1>2 DEF WorkKept, RestKept, Creating, PerLine
  <2> QED
    BY <2>3, <2>4, <2>5
<1>4. \A t \in Tickets : sold'[t] = sold[t] + Need(o, t) /\ sold[t] \in Nat
  BY <1>1 DEF SoldAfter, Backing, TypeOK
<1>5. \A t \in Tickets : LinesOf(o, t) = {} => sold'[t] = sold[t]
  BY <1>4, NeedFacts
<1>6. ASSUME NEW i \in Lines(o)
      PROVE  /\ WorkKept(w, o, i) \in Nat /\ WorkKept(w, o, i)' \in Nat
             /\ WorkKept(w, o, i) + sold[Items[o][i].ticket]
                  <= WorkKept(w, o, i)' + sold'[Items[o][i].ticket]
  <2>1. PICK q \in Nat, n \in Nat, m \in Nat :
          /\ q = Items[o][i].qty
          /\ n = sold[Items[o][i].ticket] /\ m = sold'[Items[o][i].ticket]
    BY LineNumbers
  <2>2. m = n + q
    BY <1>4, <2>1, LineFields, OneLineEach
  <2>3. q + n <= 0 + m
    BY <2>2
  <2> QED
    BY <1>3, <2>1, <2>3
<1> QED
  BY <1>1, <1>3, <1>5, <1>6, DatabaseBacked

\* The lock keys of a PAID order are of no use any more.
LEMMA ConfirmBacked ==
  ASSUME NoRepeats, Backing, NEW w \in Workers, NEW o \in Orders, o = call[w].order, ConfirmLock(w)
  PROVE  OrderBacked(w, o)
<1>1. /\ call[w].pc = "confirm" /\ call[w].pc \notin Creating /\ call[w].pc # "idle"
      /\ due' = due /\ status' = status /\ sold' = sold
      /\ status[o] = "PAID"
  BY DEF ConfirmLock, At, Creating, PerLine, Backing, TicketInv, Issuing, dbVars
<1>2. PICK j \in call[w].todo : DeleteLock(Ticket(w, j), o) /\ ConfirmNext(w, j)
  BY DEF ConfirmLock
<1>3. j \in Lines(o) /\ Ticket(w, j) = Items[o][j].ticket /\ Items[o][j].ticket \in Tickets
  BY <1>1, CallFields, LineFields DEF Backing, Ticket
<1>4. OnlyAt(Items[o][j].ticket, o) /\ UNCHANGED <<quotaKeys, counter>>
  BY <1>2, <1>3, RedisLocal, Zenon DEF Backing, DeleteLock
<1>5. call'[w].pc \in {"confirm", "count"}
  BY <1>1, <1>2, WorkFacts DEF ConfirmNext, CallOn
<1>6. ASSUME NEW i \in Lines(o) PROVE LineBacked(w, o, i)
  <2>0. PICK t : t = Items[o][i].ticket
    OBVIOUS
  <2>1. WorkKeys(w, o, i)
    BY <1>1, WorkFacts
  <2>2. lock'[t][o] = 0 \/ lock'[t][o] = lock[t][o]
    <3>1. t \in Tickets /\ lock \in [Tickets -> [Orders -> Nat]]
      BY <2>0, LineFields DEF Backing, TypeOK, RedisTypeOK
    <3> QED
      BY <1>2, <1>3, <3>1 DEF DeleteLock
  <2>3. counter[t] \in Int /\ sold[t] \in Nat /\ lock[t][o] \in Nat /\ lock'[t][o] \in Nat
    BY <2>0, LineNumbers
  <2>4. WorkKeys(w, o, i)'
    <3>1. lock'[t][o] > 0 => t \in quotaKeys'
      <4>1. lock[t][o] > 0 => t \in quotaKeys
        BY <2>0, <2>1 DEF WorkKeys
      <4> QED
        BY <1>4, <2>2, <2>3, <4>1
    <3> QED
      BY <1>1, <1>5, <2>0, <3>1 DEF WorkKeys, Creating, PerLine
  <2>5. WorkKept(w, o, i) = 0 /\ WorkKept(w, o, i)' = 0
    BY <1>1, <1>5 DEF WorkKept, RestKept, Creating, PerLine
  <2>6. TicketBacked(w, o, i, t)
    BY <1>1, <1>4, <2>3, <2>5 DEF TicketBacked
  <2> QED
    BY <2>0, <2>4, <2>6 DEF LineBacked
<1> QED
  BY <1>1, <1>3, <1>4, <1>6, LocalBacked

\* The order has ended and its lock keys are still there: the call that ended
\* it is about to release them.
LEMMA SaveBacked ==
  ASSUME NoRepeats, Backing, NEW w \in Workers, NEW o \in Orders, o = call[w].order, SaveStatus(w)
  PROVE  OrderBacked(w, o)
<1>1. /\ call[w].pc = "save" /\ call[w].pc \notin Creating /\ call[w].pc # "idle"
      /\ due' = due /\ UNCHANGED redisVars /\ sold' = sold
      /\ status[o] = "PENDING"
  BY DEF SaveStatus, At, Creating, PerLine, Backing, SerialInv
<1>2. call'[w].pc = "reread" /\ call'[w].order = o /\ status'[o] \in Ended
  BY <1>1, WorkFacts DEF SaveStatus, CallOn, Backing, TypeOK, Target, Ended
<1>3. ASSUME NEW i \in Lines(o)
      PROVE  /\ WorkKeys(w, o, i)'
             /\ WorkKept(w, o, i) \in Nat /\ WorkKept(w, o, i)' = WorkKept(w, o, i)
  <2>1. i \in InHand(w)'
    BY <1>2 DEF InHand, At, Creating, PerLine
  <2>2. WorkKeys(w, o, i)
    BY <1>1, WorkFacts
  <2>3. WorkKeys(w, o, i)'
    BY <1>1, <1>2, <2>1, <2>2 DEF WorkKeys, Creating, PerLine, redisVars
  <2>4. WorkKept(w, o, i) = Items[o][i].qty
    BY <1>1 DEF WorkKept, RestKept
  <2>5. WorkKept(w, o, i)' = Items[o][i].qty
    BY <1>1, <1>2, <2>2 DEF WorkKept, WorkKeys, RestKept, Creating, PerLine, Ended, redisVars
  <2> QED
    BY <2>3, <2>4, <2>5, LineFields
<1>4. ASSUME NEW i \in Lines(o)
      PROVE  /\ WorkKept(w, o, i) \in Nat /\ WorkKept(w, o, i)' \in Nat
             /\ WorkKept(w, o, i) + sold[Items[o][i].ticket]
                  <= WorkKept(w, o, i)' + sold'[Items[o][i].ticket]
  <2>1. PICK k \in Nat, l \in Nat, n \in Nat :
          /\ k = WorkKept(w, o, i) /\ l = WorkKept(w, o, i)'
          /\ n = sold[Items[o][i].ticket]
    BY <1>3, LineNumbers
  <2>2. k + n <= l + n
    BY <1>3, <2>1
  <2> QED
    BY <1>1, <2>1, <2>2
<1> QED
  BY <1>1, <1>3, <1>4, DatabaseBacked

\* The lines whose lock keys are to be released are those of the order.
LEMMA RereadBacked ==
  ASSUME NoRepeats, Backing, NEW w \in Workers, NEW o \in Orders, o = call[w].order, RereadOrder(w)
  PROVE  OrderBacked(w, o)
<1>1. /\ call[w].pc = "reread" /\ call[w].pc \notin Creating /\ call[w].pc # "idle"
      /\ due' = due /\ status' = status /\ UNCHANGED redisVars
      /\ status[o] \in Ended
  BY DEF RereadOrder, At, Creating, PerLine, Backing, OrderInv, ReleasesEnded
<1>2. /\ call'[w].pc = "release" /\ call'[w].order = o /\ call'[w].todo = FirstLines(o)
      /\ call'[w].got = call[w].got /\ sold' = sold
  BY <1>1, WorkFacts DEF RereadOrder, CallOn, CountsAsSold, Ended
<1>3. ASSUME NEW i \in Lines(o)
      PROVE  /\ WorkKeys(w, o, i)'
             /\ WorkKept(w, o, i) \in Nat /\ WorkKept(w, o, i)' = WorkKept(w, o, i)
  <2>1. i \in InHand(w)'
    BY <1>2, OneLineEach DEF InHand, At, Creating, PerLine
  <2>2. WorkKeys(w, o, i) /\ ~(call'[w].got[i] > 0)
    BY <1>1, <1>2, WorkFacts
  <2>3. WorkKeys(w, o, i)'
    BY <1>1, <1>2, <2>1, <2>2 DEF WorkKeys, Creating, PerLine, redisVars
  <2>4. WorkKept(w, o, i) \in Nat /\ WorkKept(w, o, i)' = WorkKept(w, o, i)
    BY <1>1, <1>2, LineNumbers DEF WorkKept, RestKept, Creating, PerLine, redisVars
  <2> QED
    BY <2>3, <2>4
<1>4. ASSUME NEW i \in Lines(o)
      PROVE  /\ WorkKept(w, o, i) \in Nat /\ WorkKept(w, o, i)' \in Nat
             /\ WorkKept(w, o, i) + sold[Items[o][i].ticket]
                  <= WorkKept(w, o, i)' + sold'[Items[o][i].ticket]
  <2>1. PICK k \in Nat, l \in Nat, n \in Nat :
          /\ k = WorkKept(w, o, i) /\ l = WorkKept(w, o, i)'
          /\ n = sold[Items[o][i].ticket]
    BY <1>3, LineNumbers
  <2>2. k + n <= l + n
    BY <1>3, <2>1
  <2> QED
    BY <1>2, <2>1, <2>2
<1> QED
  BY <1>1, <1>2, <1>3, <1>4, DatabaseBacked

\* A ticket whose counter and `sold` stay loses nothing if its line keeps what it kept.
LEMMA SameBacked ==
  ASSUME NEW w, NEW o, NEW i, NEW t, NEW k \in Nat, WorkKept(w, o, i) = k, WorkKept(w, o, i)' = k,
         counter[t] \in Int, sold[t] \in Nat, counter'[t] = counter[t], sold'[t] = sold[t],
         t \in quotaKeys' => t \in quotaKeys
  PROVE  TicketBacked(w, o, i, t)
  BY DEF TicketBacked

\* After a step of releaseTicketQuota the call is there for what it has still
\* to read or to give back; it ends when there is nothing left.
LEMMA ReleasedEnds ==
  ASSUME TypeOK, NEW w \in Workers, call[w].pc = "release", NEW todo, NEW got,
         Released(w, todo, got)
  PROVE  /\ \/ /\ call'[w].pc = "release"
               /\ call'[w].order = call[w].order /\ call'[w].todo = todo /\ call'[w].got = got
            \/ call'[w].pc = "reread" /\ call'[w].order = call[w].order
            \/ /\ call'[w].pc = "idle"
               /\ todo = {} /\ ~\E i \in DOMAIN got : got[i] > 0
<1>1. CASE todo # {} \/ \E i \in DOMAIN got : got[i] > 0
  BY <1>1, BegunRecord DEF Released, CallOn
<1>2. CASE ~(todo # {} \/ \E i \in DOMAIN got : got[i] > 0) /\ call[w].rounds > 0
  BY <1>2, BegunRecord DEF Released, CallOn
<1>3. CASE ~(todo # {} \/ \E i \in DOMAIN got : got[i] > 0) /\ ~(call[w].rounds > 0)
  BY <1>3, BegunRecord DEF Released, Idle
<1> QED
  BY <1>1, <1>2, <1>3

\* A line whose lock key stays as it is while it, or another line, is read or
\* given back.
LEMMA ReleaseLine ==
  ASSUME NoRepeats, Backing, NEW w \in Workers, NEW o \in Orders, o = call[w].order,
         call[w].pc = "release", NEW todo, NEW got, Released(w, todo, got),
         UNCHANGED <<status, sold>>,
         NEW i \in Lines(o), i \in DOMAIN got, NEW t, t = Items[o][i].ticket,
         lock'[t][o] = lock[t][o], counter'[t] = counter[t], t \in quotaKeys' <=> t \in quotaKeys,
         \/ (i \in call[w].todo => i \in todo) /\ got[i] = call[w].got[i]
         \/ got[i] = lock[t][o]
  PROVE  LineBacked(w, o, i)
<1>1. /\ call[w].pc # "idle" /\ call[w].pc \notin Creating /\ due' = due
      /\ status[o] \notin {"PENDING", "PAID"}
  BY DEF Creating, PerLine, Backing, OrderInv, ReleasesEnded, Ended, At
<1>2. WorkKeys(w, o, i)
  BY <1>1, WorkFacts
<1>3. /\ call[w].got[i] \in Nat /\ got[i] \in Nat
      /\ lock[t][o] \in Nat /\ counter[t] \in Int /\ sold[t] \in Nat
      /\ counter'[t] \in Int /\ sold'[t] \in Nat /\ sold'[t] = sold[t]
  <2>1. call[w].got \in [Lines(o) -> Nat]
    BY <1>1, WorkFacts DEF CallOn
  <2>2. got[i] \in {call[w].got[i], lock[t][o]}
    OBVIOUS
  <2>3. /\ lock[t][o] \in Nat /\ counter[t] \in Int /\ sold[t] \in Nat
        /\ counter'[t] \in Int /\ sold'[t] \in Nat /\ sold'[t] = sold[t]
    BY LineNumbers, Zenon
  <2> QED
    BY <2>1, <2>2, <2>3
<1>4. i \in InHand(w) <=> i \in call[w].todo \/ call[w].got[i] > 0
  BY <1>1 DEF InHand, At
<1>5. /\ lock[t][o] > 0 => t \in quotaKeys
      /\ o \notin due /\ lock[t][o] > 0 => i \in InHand(w)
      /\ call[w].got[i] > 0 => t \in quotaKeys
      /\ o \notin due /\ call[w].got[i] > 0 => call[w].got[i] = lock[t][o]
  BY <1>1, <1>2 DEF WorkKeys
<1>6. /\ got[i] > 0 => t \in quotaKeys
      /\ o \notin due /\ got[i] > 0 => got[i] = lock[t][o]
      /\ o \notin due /\ lock[t][o] > 0 => i \in todo \/ got[i] > 0
  BY <1>3, <1>4, <1>5
<1>7. /\ WorkKeys(w, o, i)'
      /\ call'[w].pc \notin Creating
  <2>1. CASE /\ call'[w].pc = "release" /\ call'[w].order = o
             /\ call'[w].todo = todo /\ call'[w].got = got
    <3>1. i \in InHand(w)' <=> i \in todo \/ got[i] > 0
      BY <2>1 DEF InHand, At, Creating, PerLine
    <3> QED
      BY <1>1, <1>5, <1>6, <2>1, <3>1, Zenon DEF WorkKeys, Creating, PerLine
  <2>2. CASE call'[w].pc = "reread" /\ call'[w].order = o
    <3>1. i \in InHand(w)'
      BY <2>2 DEF InHand, At, Creating, PerLine
    <3> QED
      BY <1>1, <1>5, <2>2, <3>1 DEF WorkKeys, Creating, PerLine
  <2>3. CASE call'[w].pc = "idle" /\ todo = {} /\ ~\E j \in DOMAIN got : got[j] > 0
    <3>1. ~(o \notin due /\ lock[t][o] > 0)
      BY <1>6, <2>3
    <3> QED
      BY <1>1, <1>5, <2>3, <3>1 DEF WorkKeys, Creating, PerLine
  <2> QED
    BY <2>1, <2>2, <2>3, ReleasedEnds DEF Backing
<1>8. PICK k \in Nat : k = IF o \in due THEN Items[o][i].qty ELSE lock[t][o]
  BY <1>3, LineFields, Zenon
<1>9. WorkKept(w, o, i) = k
  BY <1>1, <1>8 DEF WorkKept, RestKept
<1>10. WorkKept(w, o, i)' = k
  BY <1>1, <1>7, <1>8 DEF WorkKept, RestKept
<1>11. TicketBacked(w, o, i, t)
  BY <1>3, <1>8, <1>9, <1>10, SameBacked
<1> QED
  BY <1>7, <1>11 DEF LineBacked

\* Reading a lock key moves no unit.
LEMMA GetBacked ==
  ASSUME NoRepeats, Backing, NEW w \in Workers, NEW o \in Orders, o = call[w].order, GetLock(w)
  PROVE  OrderBacked(w, o)
<1>1. call[w].pc = "release" /\ call[w].pc # "idle" /\ UNCHANGED <<quotaKeys, counter, lock, status, sold>>
  BY DEF GetLock, At, redisVars, dbVars
<1>2. PICK j \in Lines(o) :
        Released(w, call[w].todo \ {j}, [call[w].got EXCEPT ![j] = lock[Ticket(w, j)][o]])
  BY DEF GetLock
<1>3. PICK todo, got : /\ todo = call[w].todo \ {j}
                       /\ got = [call[w].got EXCEPT ![j] = lock[Ticket(w, j)][o]]
  BY Zenon
<1>4. /\ DOMAIN got = Lines(o)
      /\ got[j] = lock[Items[o][j].ticket][o]
      /\ \A i \in Lines(o) : i # j => got[i] = call[w].got[i]
  BY <1>1, <1>2, <1>3, CallFields, Zenon DEF Backing, Ticket
<1>5. ASSUME NEW i \in Lines(o) PROVE LineBacked(w, o, i)
  <2>1. PICK t : t = Items[o][i].ticket
    OBVIOUS
  <2>2. \/ (i \in call[w].todo => i \in todo) /\ got[i] = call[w].got[i]
        \/ got[i] = lock[t][o]
    BY <1>3, <1>4, <2>1
  <2> QED
    BY <1>1, <1>2, <1>3, <1>4, <2>1, <2>2, ReleaseLine
<1> QED
  BY <1>1, <1>5 DEF OrderBacked, OwnLocks

\* What is given back is what the lock key said, unless the order is overdue.
LEMMA ReturnBacked ==
  ASSUME NoRepeats, Backing, NEW w \in Workers, NEW o \in Orders, o = call[w].order, ReturnLock(w)
  PROVE  OrderBacked(w, o)
<1>1. /\ call[w].pc = "release" /\ call[w].pc # "idle" /\ UNCHANGED <<status, sold>>
      /\ due' = due /\ call[w].pc \notin Creating
      /\ status[o] \notin {"PENDING", "PAID"}
  BY DEF ReturnLock, At, dbVars, Creating, PerLine, Backing, OrderInv, ReleasesEnded, Ended
<1>2. PICK j \in Lines(o) :
        /\ call[w].got[j] > 0
        /\ ReturnQuota(Ticket(w, j), o, call[w].got[j])
        /\ Released(w, call[w].todo, [call[w].got EXCEPT ![j] = 0])
  BY DEF ReturnLock, MayReturn
<1>3. PICK u, got : u = Items[o][j].ticket /\ got = [call[w].got EXCEPT ![j] = 0]
  OBVIOUS
<1>4. /\ DOMAIN got = Lines(o) /\ got[j] = 0
      /\ \A i \in Lines(o) : i # j => got[i] = call[w].got[i]
      /\ Ticket(w, j) = u /\ u \in Tickets /\ call[w].got[j] \in Nat
  BY <1>1, <1>2, <1>3, CallFields, LineFields DEF Backing, Ticket
<1>5. OnlyAt(u, o)
  BY <1>2, <1>4, RedisLocal DEF Backing
<1>6. Released(w, call[w].todo, got)
  BY <1>2, <1>3
<1>7. ASSUME NEW i \in Lines(o), i # j PROVE LineBacked(w, o, i)
  <2>1. PICK t : t = Items[o][i].ticket
    OBVIOUS
  <2>2. t \in Tickets /\ t # u
    BY <1>3, <1>7, <2>1, LineFields DEF NoRepeats
  <2>3. lock'[t][o] = lock[t][o] /\ counter'[t] = counter[t] /\ (t \in quotaKeys' <=> t \in quotaKeys)
    BY <1>5, <2>2 DEF OnlyAt
  <2> QED
    BY <1>1, <1>4, <1>6, <1>7, <2>1, <2>3, ReleaseLine
<1>8. LineBacked(w, o, j)
  <2>0. counter \in [Tickets -> Int] /\ lock \in [Tickets -> [Orders -> Nat]]
    BY DEF Backing, TypeOK, RedisTypeOK
  <2>1. WorkKeys(w, o, j)
    BY <1>1, WorkFacts
  <2>2. /\ counter[u] \in Int /\ sold[u] \in Nat /\ lock[u][o] \in Nat
        /\ counter'[u] \in Int /\ sold'[u] \in Nat /\ sold'[u] = sold[u]
        /\ Items[o][j].qty \in Nat
    BY <1>1, <1>3, LineNumbers
  <2>3. /\ u \in quotaKeys
        /\ o \notin due => call[w].got[j] = lock[u][o]
    BY <1>1, <1>2, <1>3, <2>1 DEF WorkKeys
  <2>4. /\ counter'[u] = counter[u] + call[w].got[j]
        /\ lock'[u][o] = 0
        /\ quotaKeys \subseteq quotaKeys'
    BY <1>2, <1>4, <2>0 DEF ReturnQuota
  <2>5. /\ call'[w].pc \in {"idle", "reread", "release"}
        /\ call'[w].pc = "release" => call'[w].got[j] = 0
    BY <1>1, <1>2, <1>3, <1>4, ReleasedEnds DEF Backing
  <2>6. WorkKeys(w, o, j)'
    <3>1. ~(lock'[u][o] > 0)
      BY <2>4
    <3>2. call'[w].pc = "release" => ~(call'[w].got[j] > 0)
      BY <2>5
    <3> QED
      BY <1>1, <1>3, <2>5, <3>1, <3>2 DEF WorkKeys, Creating, PerLine
  <2>7. WorkKept(w, o, j) = IF o \in due THEN Items[o][j].qty ELSE lock[u][o]
    BY <1>1, <1>3 DEF WorkKept, RestKept
  <2>8. WorkKept(w, o, j)' = IF o \in due THEN Items[o][j].qty ELSE 0
    BY <1>1, <1>3, <2>4, <2>5 DEF WorkKept, RestKept, Creating, PerLine
  <2>9. TicketBacked(w, o, j, u)
    BY <1>4, <2>2, <2>3, <2>4, <2>7, <2>8 DEF TicketBacked
  <2> QED
    BY <1>3, <2>6, <2>9 DEF LineBacked
<1> QED
  BY <1>1, <1>3, <1>5, <1>7, <1>8, LocalBacked

\* The three kinds of steps.
LEMMA CreateBacked ==
  ASSUME NoRepeats, Backing, NEW w \in Workers, NEW o \in Orders, o = call[w].order, CreateStep(w)
  PROVE  OrderBacked(w, o)
<1>1. CASE CheckLine(w)
  <2>1. call[w].pc = "row" /\ UNCHANGED <<redisVars, status, sold>>
    BY <1>1 DEF CheckLine, At, dbVars
  <2>2. CASE Abort(w)
    BY <2>1, <2>2, AbortBacked DEF At
  <2>3. CASE call' = [call EXCEPT ![w].pc = "init",
                                  ![w].rows = @ \cup {Ticket(w, call[w].line)}]
    <3>1. call'[w].pc = "init" /\ call'[w].order = o /\ call'[w].line = call[w].line
      BY <2>1, <2>3, WorkFacts DEF CallOn
    <3> QED
      BY <2>1, <3>1, LineBegins
  <2> QED
    BY <1>1, <2>2, <2>3 DEF CheckLine
<1>2. CASE InitQuota(w)
  <2>1. call[w].pc = "init" /\ UNCHANGED <<status, sold>>
    BY <1>2 DEF InitQuota, At, dbVars
  <2>2. call'[w].pc = "take" /\ call'[w].order = o /\ call'[w].line = call[w].line
    BY <1>2, <2>1, WorkFacts DEF InitQuota, Goto, CallOn
  <2>3. InitializeQuotaIfAbsent(Ticket(w, call[w].line),
                                Quota[Ticket(w, call[w].line)] - sold[Ticket(w, call[w].line)])
    BY <1>2 DEF InitQuota
  <2> QED
    BY <2>1, <2>2, <2>3, LineBegins
<1>3. CASE UnsetLine(w)
  BY <1>3, AbortBacked DEF UnsetLine, dbVars
<1>4. CASE BillOpen(w) \/ BillSettled(w) \/ BillFails(w)
  <2>1. call[w].pc = "bill" /\ UNCHANGED <<redisVars, status, sold>>
    BY <1>4 DEF BillOpen, BillSettled, BillFails, At, dbVars
  <2>2. call'[w].pc \in {"idle", "payread", "read"}
    BY <1>4, <2>1, WorkFacts DEF BillOpen, BillSettled, BillFails, Finish, Goto, Idle, CallOn
  <2> QED
    BY <2>1, <2>2, QuietBacked DEF Creating, PerLine
<1>5. CASE DeadlockVictim(w)
  <2>1. UNCHANGED <<redisVars, status, sold>>
    BY <1>5 DEF DeadlockVictim, dbVars
  <2>2. CASE At(w, "row") /\ Abort(w)
    BY <2>1, <2>2, AbortBacked
  <2>3. CASE At(w, "sell") /\ PaymentThrows(w)
    <3>1. call[w].pc = "sell" /\ call'[w].pc \in {"idle", "read"}
      BY <2>3, ThrowStage DEF At, Idle, Backing
    <3> QED
      BY <2>1, <3>1, QuietBacked DEF Creating, PerLine
  <2> QED
    BY <1>5, <2>2, <2>3 DEF DeadlockVictim
<1> QED
  BY <1>1, <1>2, <1>3, <1>4, <1>5, TakeBacked, UndoBacked, CommitBacked DEF CreateStep

LEMMA PaymentBacked ==
  ASSUME NoRepeats, Backing, NEW w \in Workers, NEW o \in Orders, o = call[w].order, PaymentStep(w)
  PROVE  OrderBacked(w, o)
<1>1. CASE PayRead(w)
  <2>1. call[w].pc = "payread" /\ UNCHANGED <<redisVars, status, sold>>
    BY <1>1 DEF PayRead, At, dbVars
  <2>2. call'[w].pc \in {"idle", "sell"}
    BY <1>1, <2>1, WorkFacts DEF PayRead, Finish, Idle, CallOn
  <2> QED
    BY <2>1, <2>2, QuietBacked DEF Creating, PerLine
<1>2. CASE SellRow(w)
  <2>1. call[w].pc = "sell" /\ UNCHANGED <<redisVars, status, sold>>
    BY <1>2 DEF SellRow, At, dbVars
  <2>2. call'[w].pc \in {"idle", "sell", "read"}
    <3>1. CASE PaymentThrows(w)
      BY <2>1, <3>1, ThrowStage DEF Idle, Backing
    <3>2. CASE \E i, t : call' = [call EXCEPT ![w].todo = @ \ {i}, ![w].rows = @ \cup {t}]
      BY <2>1, <3>2, WorkFacts DEF CallOn
    <3> QED
      BY <1>2, <3>1, <3>2 DEF SellRow
  <2> QED
    BY <2>1, <2>2, QuietBacked DEF Creating, PerLine
<1>3. CASE CountIssued(w)
  <2>1. call[w].pc = "count" /\ UNCHANGED <<redisVars, status, sold>>
    BY <1>3 DEF CountIssued, At, dbVars
  <2>2. call'[w].pc \in {"idle", "issue", "read"}
    <3>1. CASE PaymentThrows(w)
      BY <2>1, <3>1, ThrowStage DEF Idle, Backing
    <3>2. CASE call' = [call EXCEPT ![w].pc = "issue", ![w].todo = Lines(o), ![w].got = issued[o]]
      BY <2>1, <3>2, WorkFacts DEF CallOn
    <3> QED
      BY <1>3, <3>1, <3>2 DEF CountIssued
  <2> QED
    BY <2>1, <2>2, QuietBacked DEF Creating, PerLine
<1>4. CASE IssueLine(w)
  <2>1. call[w].pc = "issue" /\ UNCHANGED <<redisVars, status, sold>>
    BY <1>4 DEF IssueLine, At
  <2>2. call'[w].pc \in {"idle", "issue"}
    <3>1. CASE Finish(w)
      BY <2>1, <3>1, WorkFacts DEF Finish, Idle
    <3>2. CASE \E i : call' = [call EXCEPT ![w].todo = @ \ {i}]
      BY <2>1, <3>2, WorkFacts DEF CallOn
    <3> QED
      BY <1>4, <3>1, <3>2 DEF IssueLine
  <2> QED
    BY <2>1, <2>2, QuietBacked DEF Creating, PerLine
<1> QED
  BY <1>1, <1>2, <1>3, <1>4, SaleBacked, ConfirmBacked DEF PaymentStep

LEMMA EndBacked ==
  ASSUME NoRepeats, Backing, NEW w \in Workers, NEW o \in Orders, o = call[w].order, EndStep(w)
  PROVE  OrderBacked(w, o)
<1>1. CASE ReadStatus(w)
  <2>1. call[w].pc = "read" /\ UNCHANGED <<redisVars, status, sold>>
    BY <1>1 DEF ReadStatus, At, dbVars
  <2>2. call'[w].pc \in {"idle", "save", "reread"}
    BY <1>1, <2>1, WorkFacts DEF ReadStatus, Goto, Finish, Idle, CallOn
  <2> QED
    BY <2>1, <2>2, QuietBacked DEF Creating, PerLine
<1> QED
  BY <1>1, SaveBacked, RereadBacked, GetBacked, ReturnBacked DEF EndStep

\* Every step of a call accounts for what it takes off a counter.
LEMMA StepBacked ==
  ASSUME NoRepeats, Backing, NEW w \in Workers, NEW o \in Orders, o = call[w].order, Step(w)
  PROVE  OrderBacked(w, o)
  BY CreateBacked, PaymentBacked, EndBacked DEF Step

\* A call begins on an order that no call works on; nobody holds its lock keys.
LEMMA BeginBacked ==
  ASSUME NoRepeats, Backing, ~Overlap, NEW w \in Workers, NEW o \in Orders, Begin(w, o)
  PROVE  Alone(w, o) /\ Alone(w, o)' /\ OrderBacked(w, o)
<1>1. /\ call[w] = Idle /\ call[w].pc = "idle" /\ call[w].pc \notin Creating
      /\ \A v \in Workers \ {w} : call'[v] = call[v]
      /\ UNCHANGED <<status, sold>>
      /\ call'[w].pc # "idle" /\ call'[w].order = o
      /\ Untouched(o) /\ due' = due
  BY Beginning DEF Backing, Idle, Creating, PerLine
<1>2. Alone(w, o) /\ Alone(w, o)'
  BY <1>1 DEF Alone, Untouched, Idle
<1>3. UNCHANGED redisVars
  BY DEF Begin, BeginCreate, StartPaid, StartExpired, StartFailed, StartCancel, StartCron
<1>4. \/ /\ call'[w].pc = "row" /\ call'[w].line = 1
         /\ status[o] = "absent" /\ o \notin due
      \/ status[o] = "PENDING" /\ call'[w].pc \in {"read", "sell"}
  <2>1. CASE BeginCreate(w, o)
    <3>1. call'[w].pc = "row" /\ call'[w].line = 1
      BY <2>1 DEF BeginCreate, Start, NewCall, Backing, TypeOK, CallsTyped
    <3>2. o \notin begun /\ status[o] = "absent" /\ o \notin due
      BY <2>1 DEF BeginCreate, Backing, OrderInv, CreatedOnce, TypeOK
    <3> QED
      BY <3>1, <3>2
  <2>2. CASE ~BeginCreate(w, o)
    <3>1. \E op, stage, todo : Start(w, o, op, stage, todo) /\ stage \in {"read", "sell"}
      BY <2>2 DEF Begin, StartPaid, StartExpired, StartFailed, StartCancel, StartCron
    <3>2. call'[w].pc \in {"read", "sell"}
      BY <3>1 DEF Start, NewCall, Backing, TypeOK, CallsTyped
    <3>3. status[o] = "PENDING"
      BY <2>2 DEF Begin, StartPaid, StartExpired, StartFailed, StartCancel, StartCron
    <3> QED
      BY <3>2, <3>3
  <2> QED
    BY <2>1, <2>2
<1>5. ASSUME NEW i \in Lines(o)
      PROVE  /\ WorkKeys(w, o, i)'
             /\ \E k \in Nat : WorkKept(w, o, i) = k /\ WorkKept(w, o, i)' = k
  <2>0. PICK t : t = Items[o][i].ticket
    OBVIOUS
  <2>1. WorkKeys(w, o, i)
    BY <1>2, WorkViews DEF Backing
  <2>2. i \notin InHand(w)
    BY <1>1 DEF InHand, At
  <2>3. lock[t][o] \in Nat /\ Items[o][i].qty \in Nat /\ i \in Nat \ {0}
    BY <2>0, LineNumbers, LineFields
  <2>4. CASE /\ call'[w].pc = "row" /\ call'[w].line = 1
             /\ status[o] = "absent" /\ o \notin due
    <3>1. lock[t][o] = 0
      BY <2>0, <2>1, <2>2, <2>3, <2>4 DEF WorkKeys
    <3>2. i \notin InHand(w)' /\ i \notin Taken(w)'
      BY <1>1, <2>3, <2>4 DEF InHand, Taken, At, Creating, PerLine
    <3>3. WorkKeys(w, o, i)'
      BY <1>1, <1>3, <2>0, <2>1, <2>4, <3>1, <3>2 DEF WorkKeys, redisVars
    <3>4. WorkKept(w, o, i) = 0
      BY <1>1, <2>0, <2>4, <3>1 DEF WorkKept, RestKept
    <3>5. WorkKept(w, o, i)' = 0
      BY <2>4, <3>2 DEF WorkKept, Creating, PerLine
    <3> QED
      BY <3>3, <3>4, <3>5
  <2>5. CASE status[o] = "PENDING" /\ call'[w].pc \in {"read", "sell"}
    <3>1. WorkKeys(w, o, i)'
      BY <1>1, <1>3, <2>0, <2>1, <2>5 DEF WorkKeys, Creating, PerLine, redisVars
    <3>2. WorkKept(w, o, i) = Items[o][i].qty
      BY <1>1, <2>5 DEF WorkKept, RestKept
    <3>3. WorkKept(w, o, i)' = Items[o][i].qty
      BY <1>1, <2>5 DEF WorkKept, RestKept, Creating, PerLine
    <3> QED
      BY <2>3, <3>1, <3>2, <3>3
  <2> QED
    BY <1>4, <2>4, <2>5
<1>6. ASSUME NEW i \in Lines(o) PROVE LineBacked(w, o, i)
  <2>1. PICK t : t = Items[o][i].ticket
    OBVIOUS
  <2>2. PICK k \in Nat : WorkKept(w, o, i) = k /\ WorkKept(w, o, i)' = k
    BY <1>5
  <2>3. counter[t] \in Int /\ sold[t] \in Nat /\ UNCHANGED <<counter, sold, quotaKeys>>
    BY <1>1, <1>3, <2>1, LineNumbers DEF redisVars
  <2>4. TicketBacked(w, o, i, t)
    BY <2>2, <2>3, SameBacked
  <2> QED
    BY <1>5, <2>1, <2>4 DEF LineBacked
<1>7. UNCHANGED <<quotaKeys, counter, lock, sold>>
  BY <1>1, <1>3 DEF redisVars
<1>8. OrderBacked(w, o)
  BY <1>6, <1>7 DEF OrderBacked, OwnLocks
<1> QED
  BY <1>2, <1>8

\* No step of a call is a fault, and none makes an order fall due.
LEMMA StepTime ==
  ASSUME NEW w \in Workers, Step(w)
  PROVE  faults' = faults /\ due' = due
<1>1. CASE CreateStep(w)
  BY <1>1 DEF CreateStep, CheckLine, InitQuota, LockLine, UndoLine, UnsetLine, CommitOrder,
              BillOpen, BillSettled, BillFails, DeadlockVictim, orderVars
<1>2. CASE PaymentStep(w)
  BY <1>2 DEF PaymentStep, PayRead, SellRow, CommitSale, ConfirmLock, CountIssued, IssueLine, orderVars
<1>3. CASE EndStep(w)
  BY <1>3 DEF EndStep, ReadStatus, SaveStatus, RereadOrder, GetLock, ReturnLock, orderVars
<1> QED
  BY <1>1, <1>2, <1>3 DEF Step

LEMMA BeginTime ==
  ASSUME NEW w \in Workers, NEW o \in Orders, Begin(w, o)
  PROVE  faults' = faults /\ due' = due
  BY DEF Begin, BeginCreate, StartPaid, StartExpired, StartFailed, StartCancel, StartCron, orderVars

\* After a fault nothing is promised any more.
LEMMA FaultCounts ==
  ASSUME TypeOK, NEW w \in Workers, Fault(w)
  PROVE  faults' # 0
<1>1. faults' = faults + 1
  BY DEF Fault, RedisFails, DatabaseFails, UploadFails, Crash
<1>2. faults \in Nat
  BY OrdersAssumption DEF TypeOK
<1> QED
  BY <1>1, <1>2

\* What the orders keep of a ticket all together.
KeptTotal(t) == SumFunction([o \in Orders |-> Kept(o, t)])

KeptNumbers ==
  /\ \A o \in Orders : \A i \in Lines(o) :
       LineKept(o, i) \in Nat /\ Kept(o, Items[o][i].ticket) = LineKept(o, i)
  /\ \A o \in Orders, t \in Tickets : Kept(o, t) \in Nat /\ (LinesOf(o, t) = {} => Kept(o, t) = 0)
  /\ \A t \in Tickets : KeptTotal(t) \in Nat

\* They are numbers, before and after a step.
LEMMA KeptFacts == ASSUME NoRepeats PROVE TypeOK => KeptNumbers
<1> SUFFICES ASSUME TypeOK PROVE KeptNumbers
  OBVIOUS
<1>1. \A o \in Orders :
        /\ \A i \in Lines(o) : LineKept(o, i) \in Nat /\ Kept(o, Items[o][i].ticket) = LineKept(o, i)
        /\ \A t \in Tickets : Kept(o, t) \in Nat /\ (LinesOf(o, t) = {} => Kept(o, t) = 0)
  BY KeptOfLine
<1>2. ASSUME NEW t \in Tickets PROVE KeptTotal(t) \in Nat
  <2> DEFINE f == [o \in Orders |-> Kept(o, t)]
  <2>1. \A o \in Orders : f[o] \in Nat
    BY <1>1
  <2>2. KeptTotal(t) = SumFunctionOnSet(f, Orders)
    BY DEF KeptTotal, SumFunction
  <2>3. IsFiniteSet(Orders)
    BY OrdersAssumption
  <2> HIDE DEF f
  <2> QED
    BY <2>1, <2>2, <2>3, SumIsNat
<1> QED
  BY <1>1, <1>2 DEF KeptNumbers

LEMMA KeptFactsAfter == ASSUME NoRepeats PROVE TypeOK' => KeptNumbers'
<1>1. NoRepeats
  OBVIOUS
<1>2. TypeOK => KeptNumbers
  BY <1>1, KeptFacts
<1> QED
  BY <1>2, PTL

\* What orders keep together follows what one of them keeps, and what none of
\* them gives up they do not give up together.
LEMMA KeptTotalChange ==
  ASSUME NoRepeats, TypeOK, TypeOK', NEW o \in Orders, NEW t \in Tickets,
         \A p \in Orders \ {o} : Kept(p, t)' = Kept(p, t)
  PROVE  KeptTotal(t)' + Kept(o, t) = KeptTotal(t) + Kept(o, t)'
<1> DEFINE f == [p \in Orders |-> Kept(p, t)]
           g == [p \in Orders |-> Kept(p, t)']
<1>1. \A p \in Orders : f[p] \in Nat /\ g[p] \in Nat
  BY KeptFacts, KeptFactsAfter DEF KeptNumbers
<1>2. /\ KeptTotal(t) = SumFunctionOnSet(f, Orders)
      /\ KeptTotal(t)' = SumFunctionOnSet(g, Orders)
      /\ f[o] = Kept(o, t) /\ g[o] = Kept(o, t)'
      /\ \A p \in Orders \ {o} : f[p] = g[p]
  BY DEF KeptTotal, SumFunction
<1>3. IsFiniteSet(Orders)
  BY OrdersAssumption
<1> HIDE DEF f, g
<1>4. SumFunctionOnSet(g, Orders) + f[o] = SumFunctionOnSet(f, Orders) + g[o]
  BY <1>1, <1>2, <1>3, SumChanges
<1> QED
  BY <1>2, <1>4

LEMMA KeptTotalGrows ==
  ASSUME NoRepeats, TypeOK, TypeOK', NEW t \in Tickets,
         \A p \in Orders : Kept(p, t) <= Kept(p, t)'
  PROVE  KeptTotal(t) <= KeptTotal(t)'
<1> DEFINE f == [p \in Orders |-> Kept(p, t)]
           g == [p \in Orders |-> Kept(p, t)']
<1>1. /\ \A p \in Orders : f[p] \in Nat /\ g[p] \in Nat
      /\ \A p \in Orders : f[p] <= g[p]
  BY KeptFacts, KeptFactsAfter DEF KeptNumbers
<1>2. /\ KeptTotal(t) = SumFunctionOnSet(f, Orders)
      /\ KeptTotal(t)' = SumFunctionOnSet(g, Orders)
  BY DEF KeptTotal, SumFunction
<1>3. IsFiniteSet(Orders)
  BY OrdersAssumption
<1> HIDE DEF f, g
<1> QED
  BY <1>1, <1>2, <1>3, SumMonotone

\* The only call on an order sees all there is to it, also after its step.
AllViews ==
  \A w \in Workers, o \in Orders : Alone(w, o) =>
    /\ \A i \in Lines(o) : LineKept(o, i) = WorkKept(w, o, i)
    /\ (\A i \in Lines(o) : WorkKeys(w, o, i))
         => OrderKeys(o) /\ (call[w].pc # "idle" => CallKeys(w))

\* WorkViews for all calls and orders.
LEMMA ViewsHold == TypeOK => AllViews
  BY WorkViews DEF AllViews

LEMMA ViewsAfter == TypeOK' => AllViews'
  BY ViewsHold, PTL

\* Other orders and calls than those of o stay as they are.
Elsewhere(o) ==
  /\ \A v \in Workers :
       \/ call'[v] = call[v]
       \/ /\ call[v].pc # "idle" => call[v].order = o
          /\ call'[v].pc # "idle" => call'[v].order = o
  /\ \A p \in Orders \ {o} : status'[p] = status[p] /\ (p \in due' <=> p \in due)
  /\ OwnLocks(o)
  /\ quotaKeys \subseteq quotaKeys'

\* So is what they keep and what is known of their lock keys.
LEMMA ElsewhereKept ==
  ASSUME TypeOK, KeysInv, faults = 0, NEW o \in Orders, Elsewhere(o)
  PROVE  /\ \A p \in Orders \ {o} :
              OrderKeys(p)' /\ \A i \in Lines(p) : LineKept(p, i)' = LineKept(p, i)
         /\ \A v \in Workers :
              call'[v] = call[v] /\ call[v].pc # "idle" /\ call[v].order # o => CallKeys(v)'
<1>1. ASSUME NEW p \in Orders \ {o}
      PROVE  OrderKeys(p)' /\ \A i \in Lines(p) : LineKept(p, i)' = LineKept(p, i)
  <2>1. \A v \in Workers : /\ Works(v, p)' <=> Works(v, p)
                           /\ Works(v, p) => call'[v] = call[v]
    BY DEF Elsewhere, Works, At
  <2>2. \A v \in Workers : Creates(v, p)' <=> Creates(v, p)
    BY <2>1 DEF Creates
  <2>3. \A v \in Workers : Works(v, p) => InHand(v)' = InHand(v) /\ Taken(v)' = Taken(v)
    BY <2>1 DEF InHand, Taken, At
  <2>4. /\ status'[p] = status[p] /\ (p \in due' <=> p \in due)
        /\ quotaKeys \subseteq quotaKeys'
        /\ \A t \in Tickets : lock'[t][p] = lock[t][p]
    BY DEF Elsewhere, OwnLocks
  <2>5. ASSUME NEW i \in Lines(p) PROVE LineKept(p, i)' = LineKept(p, i)
    <3>1. RestKept(p, i)' = RestKept(p, i)
      BY <2>4, LineFields DEF RestKept
    <3>2. (\E v \in Workers : Creates(v, p) /\ i \in Taken(v))'
            <=> \E v \in Workers : Creates(v, p) /\ i \in Taken(v)
      BY <2>2, <2>3 DEF Creates
    <3>3. (\E v \in Workers : Creates(v, p))' <=> \E v \in Workers : Creates(v, p)
      BY <2>2
    <3> QED
      BY <3>1, <3>2, <3>3 DEF LineKept
  <2>6. OrderKeys(p)'
    <3>1. OrderKeys(p)
      BY DEF KeysInv
    <3>2. \A i \in Lines(p) :
            /\ Items[p][i].ticket \in Tickets
            /\ (\E v \in Workers : Works(v, p) /\ i \in InHand(v))
                 => (\E v \in Workers : Works(v, p) /\ i \in InHand(v))'
      BY <2>1, <2>3, LineFields
    <3> QED
      BY <2>4, <3>1, <3>2 DEF OrderKeys
  <2> QED
    BY <2>5, <2>6
<1>2. ASSUME NEW v \in Workers, call'[v] = call[v], call[v].pc # "idle", call[v].order # o
      PROVE  CallKeys(v)'
  <2>1. PICK p \in Orders \ {o} : p = call[v].order
    BY <1>2, BegunRecord
  <2>2. /\ (p \in due' <=> p \in due)
        /\ quotaKeys \subseteq quotaKeys'
        /\ \A i \in Lines(p) : /\ lock'[Items[p][i].ticket][p] = lock[Items[p][i].ticket][p]
                               /\ Ticket(v, i) = Items[p][i].ticket /\ Ticket(v, i)' = Items[p][i].ticket
                               /\ Qty(v, i)' = Qty(v, i)
    BY <1>2, <2>1, LineFields DEF Elsewhere, OwnLocks, Ticket, Qty
  <2>3. /\ InHand(v)' = InHand(v)
        /\ InHand(v) \subseteq Lines(p)
        /\ call[v].pc \in {"take", "undo", "unset"} => call[v].line \in Lines(p)
    BY <1>2, <2>1, LineOfCall DEF InHand, At, PerLine
  <2>4. CallKeys(v)
    BY <1>2 DEF KeysInv
  <2> QED
    BY <1>2, <2>1, <2>2, <2>3, <2>4 DEF CallKeys
<1> QED
  BY <1>1, <1>2

\* A step of the only call on an order keeps what counters lack sold or kept.
LEMMA BackedKeeps ==
  ASSUME NoRepeats, Backing, BackedInv, faults' = faults,
         NEW w \in Workers, NEW o \in Orders, OrderBacked(w, o), OthersStay({w}, o),
         Alone(w, o), Alone(w, o)'
  PROVE  KeysInv' /\ BackedInv'
<1>1. TypeOK /\ TypeOK' /\ KeysInv /\ faults = 0 /\ due' = due
  BY DEF Backing
<1>2. Elsewhere(o)
  <2>1. \A v \in Workers : \/ call'[v] = call[v]
                           \/ /\ call[v].pc # "idle" => call[v].order = o
                              /\ call'[v].pc # "idle" => call'[v].order = o
    BY DEF OthersStay, Alone
  <2> QED
    BY <1>1, <2>1 DEF Elsewhere, OthersStay, OrderBacked
<1>3. /\ \A p \in Orders \ {o} :
           OrderKeys(p)' /\ \A i \in Lines(p) : LineKept(p, i)' = LineKept(p, i)
      /\ \A v \in Workers \ {w} : call[v].pc # "idle" => CallKeys(v)'
  <2>1. \A v \in Workers \ {w} : call'[v] = call[v] /\ (call[v].pc # "idle" => call[v].order # o)
    BY DEF OthersStay
  <2> QED
    BY <1>1, <1>2, <2>1, ElsewhereKept
<1>4. /\ \A i \in Lines(o) : LineKept(o, i) = WorkKept(w, o, i)
      /\ \A i \in Lines(o) : LineKept(o, i)' = WorkKept(w, o, i)'
      /\ (\A i \in Lines(o) : WorkKeys(w, o, i)') => OrderKeys(o)' /\ (call'[w].pc # "idle" => CallKeys(w)')
  BY <1>1, ViewsHold, ViewsAfter DEF AllViews
<1>5. \A i \in Lines(o) : WorkKeys(w, o, i)' /\ TicketBacked(w, o, i, Items[o][i].ticket)
  BY DEF OrderBacked, LineBacked
<1>6. KeysInv'
  <2>1. \A p \in Orders : OrderKeys(p)'
    BY <1>3, <1>4, <1>5
  <2>2. \A v \in Workers : call'[v].pc # "idle" => CallKeys(v)'
    BY <1>3, <1>4, <1>5 DEF OthersStay
  <2> QED
    BY <2>1, <2>2 DEF KeysInv
<1>7. KeptNumbers /\ KeptNumbers'
  BY <1>1, KeptFacts, KeptFactsAfter
<1>8. ASSUME NEW t \in quotaKeys'
      PROVE  counter'[t] + KeptTotal(t)' + sold'[t] >= Quota[t]
  <2>0. /\ t \in Tickets /\ Quota[t] \in Nat
        /\ counter[t] \in Int /\ sold[t] \in Nat /\ counter'[t] \in Int /\ sold'[t] \in Nat
    BY <1>1, OrdersAssumption DEF TypeOK, RedisTypeOK
  <2>1. \A p \in Orders \ {o} : Kept(p, t)' = Kept(p, t)
    <3> SUFFICES ASSUME NEW p \in Orders \ {o} PROVE Kept(p, t)' = Kept(p, t)
      OBVIOUS
    <3>1. CASE LinesOf(p, t) = {}
      BY <1>7, <2>0, <3>1 DEF KeptNumbers
    <3>2. CASE LinesOf(p, t) # {}
      <4>1. PICK i \in Lines(p) : Items[p][i].ticket = t
        BY <3>2 DEF LinesOf
      <4> QED
        BY <1>3, <1>7, <4>1 DEF KeptNumbers
    <3> QED
      BY <3>1, <3>2
  <2>2. KeptTotal(t)' + Kept(o, t) = KeptTotal(t) + Kept(o, t)'
    BY <1>1, <2>0, <2>1, KeptTotalChange
  <2>3. /\ KeptTotal(t) \in Nat /\ KeptTotal(t)' \in Nat
        /\ Kept(o, t) \in Nat /\ Kept(o, t)' \in Nat
    BY <1>7, <2>0 DEF KeptNumbers
  <2>4. t \in quotaKeys => counter[t] + KeptTotal(t) + sold[t] >= Quota[t]
    BY <1>1 DEF BackedInv, KeptTotal
  <2>5. CASE LinesOf(o, t) = {}
    <3>1. Kept(o, t) = 0 /\ Kept(o, t)' = 0
      BY <1>7, <2>0, <2>5 DEF KeptNumbers
    <3>2. counter'[t] = counter[t] /\ sold'[t] = sold[t] /\ t \in quotaKeys
      BY <2>0, <2>5 DEF OrderBacked
    <3> QED
      BY <2>0, <2>2, <2>3, <2>4, <3>1, <3>2
  <2>6. CASE LinesOf(o, t) # {}
    <3>1. PICK i \in Lines(o) : Items[o][i].ticket = t
      BY <2>6 DEF LinesOf
    <3>2. Kept(o, t) = WorkKept(w, o, i) /\ Kept(o, t)' = WorkKept(w, o, i)'
      BY <1>4, <1>7, <3>1 DEF KeptNumbers
    <3>3. /\ t \in quotaKeys =>
               counter[t] + Kept(o, t) + sold[t] <= counter'[t] + Kept(o, t)' + sold'[t]
          /\ t \notin quotaKeys => Quota[t] <= counter'[t] + sold'[t]
      BY <1>5, <3>1, <3>2 DEF TicketBacked
    <3> QED
      BY <2>0, <2>2, <2>3, <2>4, <3>3
  <2> QED
    BY <2>5, <2>6
<1> QED
  BY <1>6, <1>8 DEF BackedInv, KeptTotal

\* When an order falls due, or a lock key of an overdue one expires, what it
\* kept is kept for good.
LEMMA TimeBacked ==
  ASSUME NoRepeats, TypeOK, TypeOK', LockInv, KeysInv, BackedInv, NEW o \in Orders,
         FallDue(o) \/ \E u \in Tickets : LockExpires(u, o)
  PROVE  KeysInv' /\ BackedInv'
<1>1. /\ UNCHANGED <<quotaKeys, counter, status, sold, call, faults>>
      /\ o \in due' /\ \A p \in Orders \ {o} : p \in due' <=> p \in due
      /\ OwnLocks(o)
      /\ \A t \in Tickets : lock'[t][o] \in {lock[t][o], 0} /\ lock[t][o] \in Nat
  <2>1. lock \in [Tickets -> [Orders -> Nat]]
    BY DEF TypeOK, RedisTypeOK
  <2>2. CASE FallDue(o)
    BY <2>1, <2>2 DEF FallDue, redisVars, dbVars, OwnLocks
  <2>3. ASSUME NEW u \in Tickets, LockExpires(u, o)
        PROVE  /\ UNCHANGED <<quotaKeys, counter, status, sold, call, faults, due>>
               /\ o \in due
               /\ \A t \in Tickets, p \in Orders : lock'[t][p] = IF t = u /\ p = o THEN 0 ELSE lock[t][p]
    BY <2>1, <2>3 DEF LockExpires, LockLapses, dbVars, orderVars
  <2> QED
    BY <2>1, <2>2, <2>3 DEF OwnLocks
<1>2. CASE faults # 0
  BY <1>1, <1>2 DEF KeysInv, BackedInv
<1>3. CASE faults = 0
  <2>1. Elsewhere(o)
    BY <1>1 DEF Elsewhere
  <2>2. /\ \A p \in Orders \ {o} :
             OrderKeys(p)' /\ \A i \in Lines(p) : LineKept(p, i)' = LineKept(p, i)
        /\ \A v \in Workers : call[v].pc # "idle" /\ call[v].order # o => CallKeys(v)'
    BY <1>1, <1>3, <2>1, ElsewhereKept
  <2>3. OrderKeys(o)'
    <3>1. OrderKeys(o)
      BY <1>3 DEF KeysInv
    <3>2. ASSUME NEW i \in Lines(o), lock'[Items[o][i].ticket][o] > 0
          PROVE  Items[o][i].ticket \in quotaKeys
      <4>1. lock'[Items[o][i].ticket][o] \in {lock[Items[o][i].ticket][o], 0}
        BY <1>1, LineFields
      <4>2. lock[Items[o][i].ticket][o] > 0
        BY <3>2, <4>1
      <4> QED
        BY <3>1, <4>2 DEF OrderKeys
    <3> QED
      BY <1>1, <3>2 DEF OrderKeys
  <2>4. ASSUME NEW v \in Workers, call[v].pc # "idle", call[v].order = o PROVE CallKeys(v)'
    <3>1. CallKeys(v)
      BY <1>3, <2>4 DEF KeysInv
    <3> QED
      BY <1>1, <2>4, <3>1 DEF CallKeys, Ticket, Qty
  <2>5. KeysInv'
    BY <1>1, <2>2, <2>3, <2>4 DEF KeysInv
  <2>6. ASSUME NEW i \in Lines(o) PROVE LineKept(o, i) <= LineKept(o, i)'
    <3>1. PICK t \in Tickets : t = Items[o][i].ticket
      BY LineFields
    <3>2. lock[t][o] \in Nat /\ lock[t][o] <= Items[o][i].qty /\ Items[o][i].qty \in Nat
      <4>1. lock[t][o] <= Need(o, t) /\ Need(o, t) = Items[o][i].qty
        BY <3>1, OneLineEach DEF LockInv
      <4> QED
        BY <1>1, <4>1, LineFields
    <3>3. RestKept(o, i) <= RestKept(o, i)'
      BY <1>1, <3>1, <3>2 DEF RestKept
    <3>4. \A v \in Workers : (Creates(v, o)' <=> Creates(v, o)) /\ Taken(v)' = Taken(v)
      BY <1>1 DEF Creates, Works, Taken, At
    <3>5. \/ LineKept(o, i) = RestKept(o, i) /\ LineKept(o, i)' = RestKept(o, i)'
          \/ LineKept(o, i)' = LineKept(o, i) /\ LineKept(o, i) \in Nat
      BY <3>2, <3>4 DEF LineKept
    <3> QED
      BY <3>3, <3>5
  <2>7. KeptNumbers /\ KeptNumbers'
    BY KeptFacts, KeptFactsAfter
  <2>8. ASSUME NEW t \in Tickets PROVE KeptTotal(t) <= KeptTotal(t)'
    <3>1. ASSUME NEW p \in Orders PROVE Kept(p, t) <= Kept(p, t)'
      <4>1. CASE LinesOf(p, t) = {}
        BY <2>7, <4>1 DEF KeptNumbers
      <4>2. CASE LinesOf(p, t) # {}
        <5>1. PICK i \in Lines(p) : Items[p][i].ticket = t
          BY <4>2 DEF LinesOf
        <5>2. Kept(p, t) = LineKept(p, i) /\ Kept(p, t)' = LineKept(p, i)' /\ LineKept(p, i) \in Nat
          BY <2>7, <5>1 DEF KeptNumbers
        <5> QED
          BY <2>2, <2>6, <5>2
      <4> QED
        BY <4>1, <4>2
    <3> QED
      BY <3>1, KeptTotalGrows
  <2>9. ASSUME NEW t \in quotaKeys'
        PROVE  counter'[t] + KeptTotal(t)' + sold'[t] >= Quota[t]
    <3>1. /\ t \in quotaKeys /\ t \in Tickets /\ Quota[t] \in Nat
          /\ counter[t] \in Int /\ sold[t] \in Nat /\ counter'[t] = counter[t] /\ sold'[t] = sold[t]
      BY <1>1, OrdersAssumption DEF TypeOK, RedisTypeOK
    <3>2. KeptTotal(t) \in Nat /\ KeptTotal(t)' \in Nat /\ KeptTotal(t) <= KeptTotal(t)'
      BY <2>7, <2>8, <3>1 DEF KeptNumbers
    <3>3. counter[t] + KeptTotal(t) + sold[t] >= Quota[t]
      BY <1>3, <3>1 DEF BackedInv, KeptTotal
    <3> QED
      BY <3>1, <3>2, <3>3
  <2> QED
    BY <2>5, <2>9 DEF BackedInv, KeptTotal
<1> QED
  BY <1>2, <1>3

\* If nothing has failed, a step keeps what counters lack sold or kept.
LEMMA BackedNext ==
  ASSUME ~Overlap, NoRepeats, TypeOK, TypeOK', OrderInv, SerialInv, LockInv, TicketInv,
         KeysInv, BackedInv, [Next]_vars
  PROVE  KeysInv' /\ BackedInv'
<1>1. ASSUME NEW w \in Workers, Step(w) PROVE KeysInv' /\ BackedInv'
  <2>1. faults' = faults /\ due' = due
    BY <1>1, StepTime
  <2>2. CASE faults # 0
    BY <2>1, <2>2 DEF KeysInv, BackedInv
  <2>3. CASE faults = 0
    <3>1. Backing
      BY <2>1, <2>3 DEF Backing
    <3>2. Advance(w) /\ Writes(w)
      BY <1>1, CreateAdvances, PaymentAdvances, EndAdvances, StepWrites DEF Step
    <3>3. call[w].pc # "idle"
      BY <3>2 DEF Advance, Idle
    <3>4. PICK o \in Orders : o = call[w].order
      BY <3>3, BegunRecord
    <3>5. Alone(w, o) /\ OrderBacked(w, o)
      BY <1>1, <3>1, <3>3, <3>4, WorkFacts, StepBacked
    <3>6. OthersStay({w}, o)
      <4>1. \A v \in Workers \ {w} : call'[v] = call[v] /\ (call[v].pc # "idle" => call[v].order # o)
        BY <3>2, <3>5 DEF Advance, Alone
      <4>2. \A p \in Orders \ {o} : status'[p] = status[p]
        BY <3>2, <3>4 DEF Writes, PaidIfPending, TypeOK
      <4> QED
        BY <3>5, <4>1, <4>2 DEF OthersStay, OrderBacked
    <3>7. Alone(w, o)'
      <4>1. call'[w].pc # "idle" => call'[w].order = o
        BY <3>2, <3>4 DEF Advance, Idle
      <4> QED
        BY <3>6, <4>1 DEF Alone, OthersStay
    <3> QED
      BY <2>1, <3>1, <3>5, <3>6, <3>7, BackedKeeps
  <2> QED
    BY <2>2, <2>3
<1>2. ASSUME NEW w \in Workers, Fault(w) PROVE KeysInv' /\ BackedInv'
  BY <1>2, FaultCounts DEF KeysInv, BackedInv
<1>3. ASSUME NEW w \in Workers, NEW o \in Orders, Begin(w, o) PROVE KeysInv' /\ BackedInv'
  <2>1. faults' = faults /\ due' = due
    BY <1>3, BeginTime
  <2>2. CASE faults # 0
    BY <2>1, <2>2 DEF KeysInv, BackedInv
  <2>3. CASE faults = 0
    <3>1. Backing
      BY <2>1, <2>3 DEF Backing
    <3>2. Alone(w, o) /\ Alone(w, o)' /\ OrderBacked(w, o)
      BY <1>3, <3>1, BeginBacked
    <3>3. /\ \A v \in Workers \ {w} : call'[v] = call[v]
          /\ UNCHANGED status
      BY <1>3, Beginning
    <3>4. OthersStay({w}, o)
      BY <3>2, <3>3 DEF OthersStay, OrderBacked, Alone
    <3> QED
      BY <2>1, <3>1, <3>2, <3>4, BackedKeeps
  <2> QED
    BY <2>2, <2>3
<1>4. ASSUME NEW o \in Orders, FallDue(o) PROVE KeysInv' /\ BackedInv'
  BY <1>4, TimeBacked
<1>5. ASSUME NEW t \in Tickets, NEW o \in Orders, LockExpires(t, o) PROVE KeysInv' /\ BackedInv'
  BY <1>5, TimeBacked
<1>6. CASE UNCHANGED vars
  <2>1. UNCHANGED <<quotaKeys, counter, lock, status, sold, due, call, faults>>
    BY <1>6 DEF vars, redisVars, dbVars, orderVars
  <2>2. \A o \in Orders : OrderKeys(o)' <=> OrderKeys(o)
    BY <2>1 DEF OrderKeys, Works, InHand, At
  <2>3. \A w \in Workers : CallKeys(w)' <=> CallKeys(w)
    BY <2>1 DEF CallKeys, InHand, At, Ticket, Qty
  <2>4. \A o, t : Kept(o, t)' = Kept(o, t)
    BY <2>1 DEF Kept, LineKept, RestKept, Creates, Works, Taken, At
  <2> QED
    BY <2>1, <2>2, <2>3, <2>4 DEF KeysInv, BackedInv
<1> QED
  BY <1>1, <1>2, <1>3, <1>4, <1>5, <1>6 DEF Next

\* In the beginning there are no counters to lack anything.
LEMMA BackedInit == Init => KeysInv /\ BackedInv
<1> SUFFICES ASSUME Init PROVE KeysInv /\ BackedInv
  OBVIOUS
<1>1. /\ \A t \in Tickets, o \in Orders : lock[t][o] = 0
      /\ \A o \in Orders : status[o] = "absent"
      /\ \A w \in Workers : call[w].pc = "idle"
      /\ quotaKeys = {}
  BY DEF Init, RedisInit, Idle
<1>2. \A o \in Orders : OrderKeys(o)
  BY <1>1, LineFields DEF OrderKeys
<1> QED
  BY <1>1, <1>2 DEF KeysInv, BackedInv

\* As long as nothing fails, lock keys tell what their orders took until those
\* are overdue, and every unit that a counter lacks is sold or kept by an order:
\* by one that is being created, by one that waits for payment, by one that has
\* ended and whose keys are still to be released, or by one that was overdue
\* before they were.
THEOREM BackedInvariant ==
  ASSUME ~Overlap, NoRepeats PROVE Spec => [](KeysInv /\ BackedInv)
<1>1. NoRepeats
  OBVIOUS
<1>2. /\ TypeOK /\ TypeOK' /\ OrderInv /\ SerialInv /\ LockInv /\ TicketInv
      /\ KeysInv /\ BackedInv /\ [Next]_vars
      => KeysInv' /\ BackedInv'
  BY <1>1, BackedNext
<1>3. Spec => []SerialInv
  BY SerialInvariant
<1>4. Spec => [](LockInv /\ CounterInv)
  BY NoRepeatsSmaller, ClaimsInvariant
<1>5. Spec => [](TicketInv /\ PaidHasTickets)
  BY TicketInvariant
<1> QED
  BY <1>2, <1>3, <1>4, <1>5, BackedInit, TypeCorrect, OrderInvariant, PTL DEF Spec

\* When nobody works, only orders that wait for payment and overdue ones that
\* have ended keep anything, and no more than they asked for.
LEMMA KeptAtRest ==
  ASSUME NoRepeats, TypeOK, KeysInv, AllIdle, faults = 0,
         NEW S, S = Having("PENDING") \cup {o \in due : status[o] \notin {"PENDING", "PAID"}},
         NEW t \in Tickets
  PROVE  KeptTotal(t) <= UnitsOf(S, t)
<1> DEFINE f == [o \in Orders |-> Kept(o, t)]
           g == [o \in Orders |-> Need(o, t)]
<1>1. S \subseteq Orders /\ IsFiniteSet(S) /\ IsFiniteSet(Orders)
  <2>1. S \subseteq Orders
    BY DEF Having, TypeOK
  <2> QED
    BY <2>1, OrdersAssumption, FS_Subset
<1>2. KeptNumbers
  BY KeptFacts
<1>3. ASSUME NEW o \in Orders, NEW i \in Lines(o)
      PROVE  LineKept(o, i) = IF o \in S THEN Items[o][i].qty ELSE 0
  <2>1. \A w \in Workers : ~Works(w, o) /\ ~Creates(w, o)
    BY DEF AllIdle, Idle, Works, Creates, At
  <2>2. LineKept(o, i) = RestKept(o, i)
    BY <2>1 DEF LineKept
  <2>3. lock[Items[o][i].ticket][o] \in Nat
    BY LineFields DEF TypeOK, RedisTypeOK
  <2>4. o \notin due /\ status[o] \notin {"PENDING", "PAID"} => lock[Items[o][i].ticket][o] = 0
    BY <2>1, <2>3 DEF KeysInv, OrderKeys
  <2> QED
    BY <2>2, <2>4 DEF RestKept, Having
<1>4. ASSUME NEW o \in Orders
      PROVE  /\ Kept(o, t) \in Nat /\ Need(o, t) \in Nat
             /\ o \in S => Kept(o, t) <= Need(o, t)
             /\ o \notin S => Kept(o, t) = 0
  <2>1. Kept(o, t) \in Nat /\ Need(o, t) \in Nat
    BY <1>2, NeedFacts DEF KeptNumbers
  <2>2. CASE LinesOf(o, t) = {}
    BY <1>2, <2>1, <2>2 DEF KeptNumbers
  <2>3. CASE LinesOf(o, t) # {}
    <3>1. PICK i \in Lines(o) : Items[o][i].ticket = t
      BY <2>3 DEF LinesOf
    <3>2. Kept(o, t) = LineKept(o, i) /\ Need(o, t) = Items[o][i].qty
      BY <1>2, <3>1, OneLineEach DEF KeptNumbers
    <3> QED
      BY <1>3, <2>1, <3>2
  <2> QED
    BY <2>2, <2>3
<1>5. /\ \A o \in Orders : f[o] \in Nat /\ g[o] \in Nat
      /\ \A o \in S : f[o] <= g[o]
      /\ \A o \in Orders \ S : f[o] = 0
  BY <1>1, <1>4
<1>6. KeptTotal(t) = SumFunctionOnSet(f, Orders) /\ UnitsOf(S, t) = SumFunctionOnSet(g, S)
  BY DEF KeptTotal, SumFunction, UnitsOf
<1> HIDE DEF f, g
<1>7. SumFunctionOnSet(f, Orders) = SumFunctionOnSet(f, S)
  BY <1>1, <1>5, SumWithinPart
<1>8. SumFunctionOnSet(f, S) <= SumFunctionOnSet(g, S)
  BY <1>1, <1>5, SumMonotone
<1> QED
  BY <1>6, <1>7, <1>8

\* What Redis loses for good it loses by overdue orders only, if nothing fails,
\* calls on one order do not overlap and no order names a ticket twice: when
\* nobody works, a counter lacks what is sold, what waits for payment, and at
\* most what orders took whose lock keys may have expired before they ended.
THEOREM SerialLeak == ASSUME ~Overlap, NoRepeats PROVE Spec => []OnlyOverdueLeak
<1>1. NoRepeats
  OBVIOUS
<1>2. ASSUME TypeOK, KeysInv, BackedInv, CounterHonest PROVE OnlyOverdueLeak
  <2> DEFINE overdue == {o \in due : status[o] \notin {"PENDING", "PAID"}}
  <2> SUFFICES ASSUME AllIdle, faults = 0, NEW t \in quotaKeys
               PROVE  /\ counter[t] <= Quota[t] - sold[t] - UnitsOf(Having("PENDING"), t)
                      /\ counter[t] >= Quota[t] - sold[t] - UnitsOf(Having("PENDING") \cup overdue, t)
    BY DEF OnlyOverdueLeak
  <2>1. PICK S : S = Having("PENDING") \cup overdue
    OBVIOUS
  <2>2. /\ t \in Tickets /\ counter[t] \in Int /\ sold[t] \in Nat /\ Quota[t] \in Nat
        /\ S \subseteq Orders /\ Having("PENDING") \subseteq Orders
    BY <1>2, <2>1, OrdersAssumption DEF TypeOK, RedisTypeOK, Having
  <2>3. /\ UnitsOf(Having("PENDING"), t) \in Nat
        /\ UnitsOf(S, t) \in Nat
        /\ KeptTotal(t) \in Nat
    BY <1>1, <1>2, <2>2, UnitsFacts, KeptFacts DEF KeptNumbers
  <2>4. counter[t] + UnitsOf(Having("PENDING"), t) + sold[t] <= Quota[t]
    BY <1>2 DEF CounterHonest
  <2>5. counter[t] + KeptTotal(t) + sold[t] >= Quota[t]
    BY <1>2 DEF BackedInv, KeptTotal
  <2>6. KeptTotal(t) <= UnitsOf(S, t)
    BY <1>1, <1>2, <2>1, <2>2, KeptAtRest
  <2>7. counter[t] <= Quota[t] - sold[t] - UnitsOf(Having("PENDING"), t)
    BY <2>2, <2>3, <2>4
  <2>8. counter[t] >= Quota[t] - sold[t] - UnitsOf(S, t)
    BY <2>2, <2>3, <2>5, <2>6
  <2> QED
    BY <2>1, <2>7, <2>8
<1>3. Spec => [](KeysInv /\ BackedInv)
  BY <1>1, BackedInvariant
<1>4. Spec => []CounterHonest
  BY NoRepeatsSmaller, SerialHonest
<1> QED
  BY <1>2, <1>3, <1>4, TypeCorrect, PTL

(***************************************************************************)
(* No calls wait for ever.                                                 *)
(***************************************************************************)

\* If every call in progress waits for rows that others hold, PostgreSQL finds
\* a deadlock: of the sets of calls in which each waits for another of the set,
\* a smallest one has each of its calls waited for.
LEMMA WaitersDeadlock ==
  ASSUME TypeOK, ~AllIdle, \A w \in Workers : call[w].pc # "idle" => Waits(w)
  PROVE  \E w \in Workers : call[w].pc # "idle" /\ Deadlocked(w)
<1> DEFINE Busy == {w \in Workers : call[w].pc # "idle"}
           Closed == {S \in SUBSET Workers : S # {} /\ \A u \in S : \E v \in S : Blocks(v, u)}
<1>1. ASSUME NEW u \in Workers, call[u].pc # "idle"
      PROVE  \E v \in Workers : call[v].pc # "idle" /\ Blocks(v, u)
  <2>1. PICK t \in WantedRows(u) : ~RowFree(u, t)
    BY <1>1 DEF Waits
  <2>2. PICK v \in Workers \ {u} : t \in call[v].rows
    BY <2>1 DEF RowFree
  <2>3. call[v].pc # "idle"
    BY <2>2 DEF TypeOK, CallsTyped, CallTyped, CallOn, Idle, Stages
  <2> QED
    BY <2>1, <2>2, <2>3 DEF Blocks
<1>2. Busy # {}
  BY CallBegun DEF AllIdle, TypeOK, CallsTyped
<1>3. Busy \in Closed
  BY <1>1, <1>2
<1>4. PICK T \in Closed : \A U \in Closed : U \subseteq T => U = T
  <2> HIDE DEF Busy
  <2>1. Closed \subseteq SUBSET Workers /\ Closed # {}
    BY <1>3
  <2> HIDE DEF Closed
  <2> QED
    BY <2>1, SmallestSet, OrdersAssumption
<1>5. ASSUME NEW u \in T, \A v \in T : ~Blocks(u, v)
      PROVE  FALSE
  <2>1. PICK v \in T : Blocks(v, u)
    BY <1>4
  <2>2. v \in T \ {u}
    BY <2>1 DEF Blocks
  <2>3. T \ {u} \in Closed
    BY <1>4, <1>5, <2>2
  <2> QED
    BY <1>4, <2>3
<1>6. PICK w : w \in T
  BY <1>4
<1>7. w \in Workers /\ Deadlocked(w)
  BY <1>4, <1>5, <1>6 DEF Deadlocked
<1>8. call[w].pc # "idle"
  BY <1>4, <1>6 DEF Blocks, WantedRows, At
<1> QED
  BY <1>7, <1>8

\* The ways in which a call ends or goes on leave it lines where it needs them.
LEMMA AbortLeaves ==
  ASSUME TypeOK, NEW w \in Workers, call[w].pc # "idle", Abort(w)
  PROVE  LinesLeft(call'[w])
<1>1. DOMAIN call = Workers /\ call[w] \in CallOn(call[w].order)
  BY BegunRecord
<1>2. CASE Locked(w) = {}
  BY <1>1, <1>2 DEF Abort, Finish, LinesLeft, Idle
<1>3. CASE Locked(w) # {}
  BY <1>1, <1>3 DEF Abort, CallOn, LinesLeft
<1> QED
  BY <1>2, <1>3

LEMMA ThrowLeaves ==
  ASSUME TypeOK, NEW w \in Workers, call[w].pc # "idle", PaymentThrows(w)
  PROVE  LinesLeft(call'[w])
  BY ThrowStage DEF LinesLeft, Idle

LEMMA ConfirmLeaves ==
  ASSUME TypeOK, NEW w \in Workers, At(w, "confirm"), NEW i \in call[w].todo, ConfirmNext(w, i)
  PROVE  LinesLeft(call'[w])
<1>1. DOMAIN call = Workers /\ call[w] \in CallOn(call[w].order)
  BY BegunRecord DEF At
<1>2. /\ call'[w].todo = call[w].todo \ {i}
      /\ call'[w].pc = IF call[w].todo = {i} THEN "count" ELSE "confirm"
  BY <1>1 DEF ConfirmNext, CallOn
<1> QED
  BY <1>2 DEF LinesLeft

LEMMA ReleasedLeaves ==
  ASSUME TypeOK, NEW w \in Workers, At(w, "release"),
         NEW todo, NEW got \in [Lines(call[w].order) -> Nat], Released(w, todo, got)
  PROVE  LinesLeft(call'[w])
<1>1. DOMAIN call = Workers /\ call[w] \in CallOn(call[w].order) /\ call[w].pc = "release"
  BY BegunRecord DEF At
<1>2. CASE todo # {} \/ \E i \in DOMAIN got : got[i] > 0
  <2>1. /\ call'[w].pc = "release" /\ call'[w].order = call[w].order
        /\ call'[w].todo = todo /\ call'[w].got = got
    BY <1>1, <1>2 DEF Released, CallOn
  <2> QED
    BY <1>2, <2>1 DEF LinesLeft
<1>3. CASE ~(todo # {} \/ \E i \in DOMAIN got : got[i] > 0)
  <2>1. call'[w] = Idle \/ call'[w].pc = "reread"
    BY <1>1, <1>3 DEF Released, CallOn
  <2> QED
    BY <2>1 DEF LinesLeft, Idle
<1> QED
  BY <1>2, <1>3

\* The first lines of an order, from which a release and a confirmation begin.
LEMMA FirstLinesLeft ==
  ASSUME NEW o \in Orders
  PROVE  FirstLines(o) # {} /\ Lines(o) # {}
<1>1. 1 \in Lines(o)
  BY LinesRange
<1>2. LinesOf(o, Items[o][1].ticket) # {}
  BY <1>1 DEF LinesOf
<1> QED
  BY <1>1, <1>2, FirstLineExists

\* A step of a call leaves it lines.
LEMMA StepLeaves ==
  ASSUME TypeOK, NEW w \in Workers, Step(w) \/ Fault(w), LinesLeft(call[w])
  PROVE  LinesLeft(call'[w])
<1>1. ASSUME call[w].pc # "idle"
      PROVE  DOMAIN call = Workers /\ call[w].order \in Orders /\ call[w] \in CallOn(call[w].order)
  BY <1>1, BegunRecord
<1>2. ASSUME call[w].pc # "idle",
             call'[w] = Idle \/ call'[w].pc \notin {"confirm", "issue", "release"}
      PROVE  LinesLeft(call'[w])
  BY <1>2 DEF LinesLeft, Idle
<1>3. CASE CreateStep(w)
  <2>1. CASE CheckLine(w)
    <3>1. call[w].pc = "row"
      BY <2>1 DEF CheckLine, At
    <3>2. CASE Abort(w)
      BY <3>1, <3>2, AbortLeaves
    <3>3. CASE ~Abort(w)
      <4>1. call'[w].pc = "init"
        BY <1>1, <2>1, <3>1, <3>3 DEF CheckLine, CallOn
      <4> QED
        BY <1>2, <3>1, <4>1
    <3> QED
      BY <3>2, <3>3
  <2>2. CASE InitQuota(w) \/ UndoLine(w) \/ BillSettled(w) \/ BillFails(w)
    <3>1. call[w].pc # "idle" /\ call[w].pc \in {"init", "undo", "bill"}
      BY <2>2 DEF InitQuota, UndoLine, BillSettled, BillFails, At
    <3>2. PICK stage \in {"take", "unset", "payread", "read"} : Goto(w, stage)
      BY <2>2 DEF InitQuota, UndoLine, BillSettled, BillFails
    <3>3. call'[w].pc = stage
      BY <3>1, <3>2, GotoStage
    <3> QED
      BY <1>2, <3>1, <3>3
  <2>3. CASE LockLine(w)
    <3>1. call[w].pc = "take"
      BY <2>3 DEF LockLine, At
    <3>2. call'[w].pc \in {"undo", "commit", "row"}
      BY <1>1, <2>3, <3>1 DEF LockLine, Goto, CallOn
    <3> QED
      BY <1>2, <3>1, <3>2
  <2>4. CASE UnsetLine(w)
    BY <2>4, AbortLeaves DEF UnsetLine, At
  <2>5. CASE CommitOrder(w)
    <3>1. call[w].pc = "commit"
      BY <2>5 DEF CommitOrder, At
    <3>2. call'[w].pc = "bill"
      BY <1>1, <2>5, <3>1 DEF CommitOrder, CallOn
    <3> QED
      BY <1>2, <3>1, <3>2
  <2>6. CASE BillOpen(w)
    BY <1>1, <1>2, <2>6 DEF BillOpen, Finish, At
  <2>7. CASE DeadlockVictim(w)
    BY <2>7, AbortLeaves, ThrowLeaves DEF DeadlockVictim, At
  <2> QED
    BY <1>3, <2>1, <2>2, <2>3, <2>4, <2>5, <2>6, <2>7 DEF CreateStep
<1>4. CASE PaymentStep(w)
  <2>1. CASE PayRead(w)
    <3>1. call[w].pc = "payread"
      BY <2>1 DEF PayRead, At
    <3>2. call'[w] = Idle \/ call'[w].pc = "sell"
      BY <1>1, <2>1, <3>1 DEF PayRead, Finish, CallOn
    <3> QED
      BY <1>2, <3>1, <3>2
  <2>2. CASE SellRow(w)
    <3>1. call[w].pc = "sell"
      BY <2>2 DEF SellRow, At
    <3>2. CASE PaymentThrows(w)
      BY <3>1, <3>2, ThrowLeaves
    <3>3. CASE ~PaymentThrows(w)
      <4>1. PICK i \in call[w].todo :
              call' = [call EXCEPT ![w].todo = @ \ {i}, ![w].rows = @ \cup {Ticket(w, i)}]
        BY <2>2, <3>3 DEF SellRow
      <4>2. call'[w].pc = "sell"
        BY <1>1, <3>1, <4>1 DEF CallOn
      <4> QED
        BY <1>2, <3>1, <4>2
    <3> QED
      BY <3>2, <3>3
  <2>3. CASE CommitSale(w)
    <3>1. call[w].pc = "sell"
      BY <2>3 DEF CommitSale, At
    <3>2. call'[w].pc = "confirm" /\ call'[w].todo = FirstLines(call[w].order)
      BY <1>1, <2>3, <3>1 DEF CommitSale, CallOn
    <3> QED
      BY <1>1, <3>1, <3>2, FirstLinesLeft DEF LinesLeft
  <2>4. CASE ConfirmLock(w)
    BY <2>4, ConfirmLeaves DEF ConfirmLock
  <2>5. CASE CountIssued(w)
    <3>1. call[w].pc = "count"
      BY <2>5 DEF CountIssued, At
    <3>2. CASE PaymentThrows(w)
      BY <3>1, <3>2, ThrowLeaves
    <3>3. CASE ~PaymentThrows(w)
      <4>1. call'[w].pc = "issue" /\ call'[w].todo = Lines(call[w].order)
        BY <1>1, <2>5, <3>1, <3>3 DEF CountIssued, CallOn
      <4> QED
        BY <1>1, <3>1, <4>1, FirstLinesLeft DEF LinesLeft
    <3> QED
      BY <3>2, <3>3
  <2>6. CASE IssueLine(w)
    <3>1. call[w].pc = "issue"
      BY <2>6 DEF IssueLine, At
    <3>2. PICK i \in call[w].todo : IF call[w].todo = {i} THEN Finish(w)
                                    ELSE call' = [call EXCEPT ![w].todo = @ \ {i}]
      BY <2>6 DEF IssueLine
    <3>3. CASE call[w].todo = {i}
      BY <1>1, <1>2, <3>1, <3>2, <3>3 DEF Finish
    <3>4. CASE call[w].todo # {i}
      <4>1. call'[w].pc = "issue" /\ call'[w].todo = call[w].todo \ {i}
        BY <1>1, <3>1, <3>2, <3>4 DEF CallOn
      <4> QED
        BY <3>2, <3>4, <4>1 DEF LinesLeft
    <3> QED
      BY <3>3, <3>4
  <2> QED
    BY <1>4, <2>1, <2>2, <2>3, <2>4, <2>5, <2>6 DEF PaymentStep
<1>5. ASSUME At(w, "release"), NEW i \in Lines(call[w].order)
      PROVE  /\ call[w].got \in [Lines(call[w].order) -> Nat]
             /\ [call[w].got EXCEPT ![i] = 0] \in [Lines(call[w].order) -> Nat]
             /\ [call[w].got EXCEPT ![i] = lock[Ticket(w, i)][call[w].order]]
                  \in [Lines(call[w].order) -> Nat]
  <2>1. call[w].order \in Orders /\ call[w].got \in [Lines(call[w].order) -> Nat]
    BY <1>5, CallFields DEF At
  <2>2. lock[Ticket(w, i)][call[w].order] \in Nat
    BY <1>5, <2>1, LineFields DEF TypeOK, RedisTypeOK, Ticket
  <2> QED
    BY <2>1, <2>2
<1>6. CASE EndStep(w)
  <2>1. CASE ReadStatus(w)
    <3>1. call[w].pc = "read"
      BY <2>1 DEF ReadStatus, At
    <3>2. call'[w] = Idle \/ call'[w].pc \in {"save", "reread"}
      BY <1>1, <2>1, <3>1 DEF ReadStatus, Goto, Finish, CallOn
    <3> QED
      BY <1>2, <3>1, <3>2
  <2>2. CASE SaveStatus(w)
    <3>1. call[w].pc = "save"
      BY <2>2 DEF SaveStatus, At
    <3>2. call'[w].pc = "reread"
      BY <1>1, <2>2, <3>1 DEF SaveStatus, CallOn
    <3> QED
      BY <1>2, <3>1, <3>2
  <2>3. CASE RereadOrder(w)
    <3>1. call[w].pc = "reread"
      BY <2>3 DEF RereadOrder, At
    <3>2. call'[w].pc = "release" /\ call'[w].todo = FirstLines(call[w].order)
      BY <1>1, <2>3, <3>1 DEF RereadOrder, CallOn
    <3> QED
      BY <1>1, <3>1, <3>2, FirstLinesLeft DEF LinesLeft
  <2>4. CASE GetLock(w)
    BY <1>5, <2>4, ReleasedLeaves DEF GetLock
  <2>5. CASE ReturnLock(w)
    BY <1>5, <2>5, ReleasedLeaves DEF ReturnLock
  <2> QED
    BY <1>6, <2>1, <2>2, <2>3, <2>4, <2>5 DEF EndStep
<1>7. CASE Fault(w)
  <2>1. CASE RedisFails(w)
    <3>1. CASE At(w, "init") /\ Goto(w, "take")
      BY <1>2, <3>1, GotoStage DEF At
    <3>2. CASE call[w].pc \in {"take", "undo", "unset"} /\ Abort(w)
      BY <3>2, AbortLeaves
    <3>3. CASE At(w, "confirm") /\ \E i \in call[w].todo : ConfirmNext(w, i)
      BY <3>3, ConfirmLeaves
    <3>4. CASE /\ At(w, "release")
               /\ \E i \in Lines(call[w].order) :
                    \/ Released(w, call[w].todo \ {i}, call[w].got)
                    \/ Released(w, call[w].todo, [call[w].got EXCEPT ![i] = 0])
      BY <1>5, <3>4, ReleasedLeaves
    <3> QED
      BY <2>1, <3>1, <3>2, <3>3, <3>4 DEF RedisFails
  <2>2. CASE UploadFails(w)
    BY <2>2, ThrowLeaves DEF UploadFails, At
  <2>3. CASE Crash(w)
    <3>1. call'[w] = Idle
      BY <2>3 DEF Crash, Finish, TypeOK, CallsTyped
    <3> QED
      BY <3>1 DEF LinesLeft, Idle
  <2>4. CASE DatabaseFails(w)
    BY <2>4, AbortLeaves, ThrowLeaves DEF DatabaseFails
  <2> QED
    BY <1>7, <2>1, <2>2, <2>3, <2>4 DEF Fault
<1> QED
  BY <1>3, <1>4, <1>6, <1>7 DEF Step

\* Every step leaves every call lines.
LEMMA LinesLeftNext == TypeOK /\ LinesLeftInv /\ [Next]_vars => LinesLeftInv'
<1> SUFFICES ASSUME TypeOK, LinesLeftInv, [Next]_vars
             PROVE  LinesLeftInv'
  OBVIOUS
<1>1. ASSUME NEW w \in Workers, Step(w) \/ Fault(w)
      PROVE  LinesLeftInv'
  <2>1. \A v \in Workers \ {w} : call'[v] = call[v]
    BY <1>1, CreateAdvances, PaymentAdvances, EndAdvances, FaultAdvances DEF Step, Advance
  <2>2. LinesLeft(call'[w])
    BY <1>1, StepLeaves DEF LinesLeftInv
  <2>3. \A v \in Workers : LinesLeft(call'[v])
    BY <2>1, <2>2 DEF LinesLeftInv
  <2> QED
    BY <2>3 DEF LinesLeftInv, LinesLeft, Lines
<1>2. ASSUME NEW w \in Workers, NEW o \in Orders, Begin(w, o)
      PROVE  LinesLeftInv'
  <2>1. /\ \A v \in Workers \ {w} : call'[v] = call[v]
        /\ call'[w].pc \in {"row", "read", "sell"}
    BY <1>2, Beginning
  <2>2. \A v \in Workers : LinesLeft(call'[v])
    BY <2>1 DEF LinesLeftInv, LinesLeft
  <2> QED
    BY <2>2 DEF LinesLeftInv, LinesLeft, Lines
<1>3. ASSUME UNCHANGED call
      PROVE  LinesLeftInv'
  BY <1>3 DEF LinesLeftInv, LinesLeft, Lines
<1> QED
  BY <1>1, <1>2, <1>3 DEF Next, FallDue, LockExpires, vars

\* No calls wait for each other for ever, whatever calls overlap and fail:
\* while any is in progress, one of them finds what the guards of its next
\* statement ask for, or is the victim of a deadlock, which PostgreSQL ends.
THEOREM NobodyStuck == Spec => [](LinesLeftInv /\ SomeCallMayGoOn)
<1>1. Init => LinesLeftInv
  BY DEF Init, LinesLeftInv, LinesLeft, Idle
<1>2. ASSUME TypeOK, LinesLeftInv PROVE SomeCallMayGoOn
  <2>1. ASSUME NEW w \in Workers, At(w, "release")
        PROVE  \E i \in Lines(call[w].order) : MayGet(w, i) \/ MayReturn(w, i)
    <3>1. /\ call[w].todo \subseteq Lines(call[w].order)
          /\ call[w].got \in [Lines(call[w].order) -> Nat]
      BY <1>2, <2>1, CallFields DEF At
    <3>2. call[w].todo # {} \/ \E i \in Lines(call[w].order) : call[w].got[i] > 0
      BY <1>2, <2>1 DEF LinesLeftInv, LinesLeft, At
    <3>3. CASE call[w].todo # {} /\ (Aborting(w) \/ NothingRead(w))
      BY <2>1, <3>1, <3>3 DEF MayGet
    <3>4. CASE call[w].todo # {} /\ ~Aborting(w) /\ ~NothingRead(w)
      BY <2>1, <3>1, <3>4 DEF MayReturn, NothingRead
    <3>5. CASE call[w].todo = {}
      BY <2>1, <3>2, <3>5 DEF MayReturn
    <3> QED
      BY <3>3, <3>4, <3>5
  <2>2. \A w \in Workers : call[w].pc \in {"confirm", "issue"} => call[w].todo # {}
    BY <1>2 DEF LinesLeftInv, LinesLeft
  <2>3. CASE \E w \in Workers : call[w].pc # "idle" /\ ~Waits(w)
    BY <2>1, <2>2, <2>3 DEF SomeCallMayGoOn, MayGoOn
  <2>4. CASE \A w \in Workers : call[w].pc # "idle" => Waits(w)
    BY <1>2, <2>1, <2>2, <2>4, WaitersDeadlock DEF SomeCallMayGoOn, MayGoOn
  <2> QED
    BY <2>3, <2>4
<1> QED
  BY <1>1, <1>2, LinesLeftNext, TypeCorrect, PTL DEF Spec

(***************************************************************************)
(* Calls come to an end.                                                   *)
(***************************************************************************)

\* The lines of the order of a call, those that it has to go, and the lock values
\* that it has read and not yet given back.
Size(c) == Len(Items[c.order])
ToGo(c) == Cardinality(c.todo)
ToReturn(c) == Cardinality({i \in Lines(c.order) : c.got[i] > 0})

\* How many steps a call still takes at the most: the longest way that leads on
\* from its stage.  The cron releases the locks of an order in two rounds.
StepsToGo(c) ==
  LET n == Size(c)
      rounds == IF c.rounds = 0 THEN 0 ELSE 3 * n + 2
      lines == 9 * n + 12 + 3 * (n - c.line)
  IN
  CASE c.pc = "idle"    -> 0
    [] c.pc = "release" -> 2 * ToGo(c) + ToReturn(c) + rounds
    [] c.pc = "reread"  -> 3 * n + 1 + rounds
    [] c.pc = "save"    -> 6 * n + 4
    [] c.pc = "read"    -> 6 * n + 5
    [] c.pc = "issue"   -> 6 * n + 6 + ToGo(c)
    [] c.pc = "count"   -> 7 * n + 7
    [] c.pc = "confirm" -> 7 * n + 7 + ToGo(c)
    [] c.pc = "sell"    -> 8 * n + 8 + ToGo(c)
    [] c.pc = "payread" -> 9 * n + 9
    [] c.pc = "bill"    -> 9 * n + 10
    [] c.pc = "commit"  -> 9 * n + 11
    [] c.pc = "unset"   -> 9 * n + 11
    [] c.pc = "undo"    -> 9 * n + 12
    [] c.pc = "take"    -> lines + 1
    [] c.pc = "init"    -> lines + 2
    [] c.pc = "row"     -> lines + 3

\* No call takes more steps than these, and none has none left.
StepsBounded ==
  \A w \in Workers :
    call[w].pc # "idle" => StepsToGo(call[w]) \in 1 .. 12 * Size(call[w]) + 12

\* Every step of a call, also one that fails, leaves it fewer; nobody else moves it.
StepsRunOut ==
  [][\A w \in Workers :
       /\ Step(w) \/ Fault(w) => StepsToGo(call'[w]) < StepsToGo(call[w])
       /\ call[w].pc # "idle" /\ call'[w] # call[w] => Step(w) \/ Fault(w)]_vars

\* The stages that may follow one another, and what becomes of the lines.
LeadsOn(c, d) ==
  \/ d.pc = "idle"
  \/ /\ \/ c.pc = "row" /\ d.pc = "init"
        \/ c.pc = "init" /\ d.pc = "take"
     /\ d.line = c.line
  \/ c.pc = "take" /\ d.pc = "row" /\ d.line = c.line + 1
  \/ c.pc = "take" /\ d.pc \in {"undo", "commit"}
  \/ c.pc = "undo" /\ d.pc = "unset"
  \/ c.pc \in Creating /\ d.pc = "release"
  \/ c.pc = "commit" /\ d.pc = "bill"
  \/ c.pc = "bill" /\ d.pc \in {"payread", "read"}
  \/ c.pc = "payread" /\ d.pc = "sell"
  \/ c.pc = "sell" /\ d.pc = "confirm"
  \/ c.pc = "confirm" /\ d.pc = "count" /\ ToGo(c) > 0
  \/ c.pc = "count" /\ d.pc = "issue"
  \/ c.pc \in {"sell", "confirm", "issue"} /\ d.pc = c.pc /\ ToGo(d) < ToGo(c)
  \/ c.pc \in {"payread", "sell", "count", "issue"} /\ d.pc = "read"
  \/ c.pc = "read" /\ d.pc \in {"save", "reread"}
  \/ c.pc = "save" /\ d.pc = "reread"
  \/ c.pc = "reread" /\ d.pc = "release" /\ d.rounds = c.rounds
  \/ /\ c.pc = "release" /\ d.pc = "release" /\ d.rounds = c.rounds
     /\ 2 * ToGo(d) + ToReturn(d) < 2 * ToGo(c) + ToReturn(c)
  \/ c.pc = "release" /\ d.pc = "reread" /\ c.rounds > 0 /\ d.rounds = 0

\* What there is to count of a call.
Counts(c) ==
  /\ Size(c) \in Nat \ {0} /\ ToGo(c) \in 0..Size(c) /\ ToReturn(c) \in 0..Size(c)
  /\ c.rounds \in 0..1
  /\ c.pc \in PerLine => c.line \in 1..Size(c)
  /\ c.pc = "release" => ToGo(c) > 0 \/ ToReturn(c) > 0

\* Some of n lines are no more than n.
LEMMA PartCounts ==
  ASSUME NEW n \in Nat, NEW S, S \subseteq 1..n
  PROVE  /\ IsFiniteSet(S) /\ Cardinality(S) \in 0..n
         /\ S # {} => Cardinality(S) > 0
<1>1. IsFiniteSet(1..n) /\ Cardinality(1..n) = n
  <2> DEFINE size == IF 1 > n THEN 0 ELSE n - 1 + 1
  <2>1. IsFiniteSet(1..n) /\ Cardinality(1..n) = size
    <3>1. 1 \in Int /\ n \in Int
      OBVIOUS
    <3> QED
      BY <3>1, FS_Interval
  <2>2. size = n
    OBVIOUS
  <2> HIDE DEF size
  <2> QED
    BY <2>1, <2>2
<1>2. IsFiniteSet(S) /\ Cardinality(S) <= n
  BY <1>1, FS_Subset
<1>3. Cardinality(S) \in Nat /\ (Cardinality(S) = 0 <=> S = {})
  BY <1>2, FS_CardinalityType, FS_EmptySet
<1> DEFINE k == Cardinality(S)
<1>4. k \in 0..n /\ (k # 0 => k > 0)
  BY <1>2, <1>3
<1> QED
  BY <1>2, <1>3, <1>4

\* A call in progress has something to count.
LEMMA CallCounts ==
  ASSUME NEW c, CallTyped(c), c.pc # "idle", LinesLeft(c)
  PROVE  Counts(c) /\ IsFiniteSet(c.todo) /\ IsFiniteSet({i \in Lines(c.order) : c.got[i] > 0})
<1> DEFINE R == {i \in Lines(c.order) : c.got[i] > 0}
<1>1. /\ c.order \in Orders /\ c \in CallOn(c.order)
      /\ c.pc \in PerLine => c.line \in Lines(c.order)
  BY CallRecord
<1>2. c.todo \subseteq Lines(c.order) /\ c.rounds \in 0..1
  BY <1>1 DEF CallOn
<1>3. /\ Lines(c.order) = 1..Size(c) /\ Size(c) \in Nat \ {0}
  <2>1. /\ Lines(c.order) = 1..Size(c) /\ 1 \in Lines(c.order)
    BY <1>1, LinesRange DEF Size
  <2>2. Size(c) \in Nat
    BY <1>1, OrdersAssumption DEF Size
  <2> QED
    BY <2>1, <2>2
<1>4. /\ IsFiniteSet(c.todo) /\ Cardinality(c.todo) \in 0..Size(c)
      /\ c.todo # {} => Cardinality(c.todo) > 0
  BY <1>2, <1>3, PartCounts
<1>5. /\ IsFiniteSet(R) /\ Cardinality(R) \in 0..Size(c)
      /\ R # {} => Cardinality(R) > 0
  <2>1. R \subseteq 1..Size(c)
    BY <1>3
  <2> HIDE DEF R
  <2> QED
    BY <1>3, <2>1, PartCounts
<1>6. c.pc = "release" => c.todo # {} \/ R # {}
  BY DEF LinesLeft
<1>7. c.pc = "release" => Cardinality(c.todo) > 0 \/ Cardinality(R) > 0
  BY <1>4, <1>5, <1>6
<1>8. ToGo(c) = Cardinality(c.todo) /\ ToReturn(c) = Cardinality(R)
  BY DEF ToGo, ToReturn
<1>9. /\ ToGo(c) \in 0..Size(c) /\ ToReturn(c) \in 0..Size(c)
      /\ c.pc = "release" => ToGo(c) > 0 \/ ToReturn(c) > 0
  BY <1>4, <1>5, <1>7, <1>8
<1> QED
  BY <1>1, <1>2, <1>3, <1>4, <1>5, <1>9 DEF Counts

\* A call in progress has steps to go, and no more than twelve for each line and
\* twelve besides.
LEMMA CountsBound ==
  ASSUME NEW c, Counts(c), c.pc # "idle", c.pc \in Stages
  PROVE  StepsToGo(c) \in 1 .. 12 * Size(c) + 12
<1> DEFINE n == Size(c)
<1>0. /\ n \in Nat \ {0} /\ ToGo(c) \in 0..n /\ ToReturn(c) \in 0..n /\ c.rounds \in 0..1
      /\ c.pc \in PerLine => c.line \in 1..n
      /\ c.pc = "release" => ToGo(c) > 0 \/ ToReturn(c) > 0
  BY DEF Counts
<1>1. CASE c.pc \in PerLine
  <2>1. StepsToGo(c) \in {9 * n + 11, 9 * n + 12, 9 * n + 12 + 3 * (n - c.line) + 1,
                         9 * n + 12 + 3 * (n - c.line) + 2, 9 * n + 12 + 3 * (n - c.line) + 3}
    BY <1>1 DEF StepsToGo, PerLine
  <2> QED
    BY <1>0, <1>1, <2>1
<1>2. CASE c.pc \in {"commit", "bill", "payread", "read", "save"}
  <2>1. StepsToGo(c) \in {9 * n + 11, 9 * n + 10, 9 * n + 9, 6 * n + 5, 6 * n + 4}
    BY <1>2 DEF StepsToGo
  <2> QED
    BY <1>0, <2>1
<1>3. CASE c.pc \in {"sell", "confirm", "count", "issue"}
  <2>1. StepsToGo(c) \in {8 * n + 8 + ToGo(c), 7 * n + 7 + ToGo(c), 7 * n + 7, 6 * n + 6 + ToGo(c)}
    BY <1>3 DEF StepsToGo
  <2> QED
    BY <1>0, <2>1
<1>4. CASE c.pc \in {"reread", "release"}
  <2> DEFINE rounds == IF c.rounds = 0 THEN 0 ELSE 3 * n + 2
  <2>1. \/ c.pc = "reread" /\ StepsToGo(c) = 3 * n + 1 + rounds
        \/ c.pc = "release" /\ StepsToGo(c) = 2 * ToGo(c) + ToReturn(c) + rounds
    BY <1>4 DEF StepsToGo
  <2>2. rounds \in 0 .. 3 * n + 2
    BY <1>0
  <2> HIDE DEF rounds
  <2> QED
    BY <1>0, <2>1, <2>2
<1> QED
  BY <1>1, <1>2, <1>3, <1>4 DEF Stages, PerLine

\* Whatever leads on leaves fewer steps.
LEMMA LeadsDown ==
  ASSUME NEW c, NEW d, Counts(c), c.pc # "idle", c.pc \in Stages,
         LeadsOn(c, d), d.pc # "idle" => Counts(d) /\ Size(d) = Size(c)
  PROVE  StepsToGo(d) < StepsToGo(c)
<1>1. CASE d.pc = "idle"
  <2>1. StepsToGo(d) = 0
    BY <1>1 DEF StepsToGo
  <2>2. StepsToGo(c) \in 1 .. 12 * Size(c) + 12
    BY CountsBound
  <2> QED
    BY <2>1, <2>2
<1>2. CASE d.pc # "idle"
  <2>1. Counts(d) /\ Size(d) = Size(c)
    BY <1>2
  <2>2. CASE c.pc \in PerLine
    BY <1>2, <2>1, <2>2 DEF StepsToGo, Counts, LeadsOn, Creating, PerLine
  <2>3. CASE c.pc \in {"commit", "bill", "payread", "read", "save"}
    BY <1>2, <2>1, <2>3 DEF StepsToGo, Counts, LeadsOn, Creating, PerLine
  <2>4. CASE c.pc \in {"sell", "confirm", "count", "issue"}
    BY <1>2, <2>1, <2>4 DEF StepsToGo, Counts, LeadsOn, Creating, PerLine
  <2>5. CASE c.pc \in {"reread", "release"}
    BY <1>2, <2>1, <2>5 DEF StepsToGo, Counts, LeadsOn, Creating, PerLine
  <2> QED
    BY <2>2, <2>3, <2>4, <2>5 DEF Stages, PerLine
<1> QED
  BY <1>1, <1>2

\* A step after which no line is left to go of those there were, or one fewer.
LEMMA OneFewer ==
  ASSUME NEW S, IsFiniteSet(S), NEW i \in S
  PROVE  Cardinality(S \ {i}) = Cardinality(S) - 1 /\ Cardinality(S) \in Nat
  BY FS_RemoveElement, FS_CardinalityType

LEMMA FewerToGo ==
  ASSUME NEW c, NEW d, IsFiniteSet(c.todo), NEW i \in c.todo, d.todo = c.todo \ {i}
  PROVE  ToGo(d) < ToGo(c)
<1> DEFINE k == Cardinality(c.todo)
<1>1. Cardinality(d.todo) = k - 1 /\ k \in Nat
  BY OneFewer
<1>2. Cardinality(d.todo) < k
  <2> HIDE DEF k
  <2> QED
    BY <1>1
<1> QED
  BY <1>2 DEF ToGo

\* A call that ends has been led on, and so has one that aborts, throws, or takes
\* the lock of a line off its list.
LEMMA AbortLeads ==
  ASSUME TypeOK, NEW w \in Workers, call[w].pc \in Creating, Abort(w)
  PROVE  LeadsOn(call[w], call'[w])
  BY AbortStage DEF LeadsOn, Idle, Creating, PerLine

LEMMA ThrowLeads ==
  ASSUME TypeOK, NEW w \in Workers, call[w].pc \in {"payread", "sell", "count", "issue"},
         PaymentThrows(w)
  PROVE  LeadsOn(call[w], call'[w])
  BY ThrowStage DEF LeadsOn, Idle

LEMMA ConfirmLeads ==
  ASSUME TypeOK, NEW w \in Workers, At(w, "confirm"), IsFiniteSet(call[w].todo),
         NEW i \in call[w].todo, ConfirmNext(w, i)
  PROVE  LeadsOn(call[w], call'[w])
<1>1. DOMAIN call = Workers /\ call[w] \in CallOn(call[w].order) /\ call[w].pc = "confirm"
  BY BegunRecord DEF At
<1>2. /\ call'[w].todo = call[w].todo \ {i}
      /\ call'[w].pc = IF call[w].todo = {i} THEN "count" ELSE "confirm"
  BY <1>1 DEF ConfirmNext, CallOn
<1> DEFINE k == ToGo(call[w])
<1>3. ToGo(call'[w]) = k - 1 /\ k \in Nat
  BY <1>2, OneFewer DEF ToGo
<1>4. k > 0
  <2>1. ToGo(call'[w]) \in Nat
    BY <1>2, FS_RemoveElement, FS_CardinalityType DEF ToGo
  <2> HIDE DEF k
  <2> QED
    BY <1>3, <2>1
<1>5. ToGo(call'[w]) < k
  <2> HIDE DEF k
  <2> QED
    BY <1>3
<1>6. CASE call[w].todo = {i}
  BY <1>1, <1>2, <1>4, <1>6 DEF LeadsOn
<1>7. CASE call[w].todo # {i}
  BY <1>1, <1>2, <1>5, <1>7 DEF LeadsOn
<1> QED
  BY <1>6, <1>7

LEMMA ReleasedLeads ==
  ASSUME TypeOK, NEW w \in Workers, At(w, "release"),
         NEW todo, NEW got \in [Lines(call[w].order) -> Nat], Released(w, todo, got),
         2 * Cardinality(todo) + Cardinality({i \in Lines(call[w].order) : got[i] > 0})
           < 2 * ToGo(call[w]) + ToReturn(call[w])
  PROVE  LeadsOn(call[w], call'[w])
<1>1. DOMAIN call = Workers /\ call[w] \in CallOn(call[w].order) /\ call[w].pc = "release"
  BY BegunRecord DEF At
<1>2. CASE todo # {} \/ \E i \in DOMAIN got : got[i] > 0
  <2>1. /\ call'[w].pc = "release" /\ call'[w].order = call[w].order
        /\ call'[w].rounds = call[w].rounds
        /\ call'[w].todo = todo /\ call'[w].got = got
    BY <1>1, <1>2 DEF Released, CallOn
  <2>2. /\ ToGo(call'[w]) = Cardinality(todo)
        /\ ToReturn(call'[w]) = Cardinality({i \in Lines(call[w].order) : got[i] > 0})
    BY <2>1 DEF ToGo, ToReturn
  <2> QED
    BY <1>1, <2>1, <2>2 DEF LeadsOn
<1>3. CASE ~(todo # {} \/ \E i \in DOMAIN got : got[i] > 0) /\ call[w].rounds > 0
  <2>1. call'[w].pc = "reread" /\ call'[w].rounds = 0
    BY <1>1, <1>3 DEF Released, CallOn
  <2> QED
    BY <1>1, <1>3, <2>1 DEF LeadsOn
<1>4. CASE ~(todo # {} \/ \E i \in DOMAIN got : got[i] > 0) /\ ~(call[w].rounds > 0)
  BY <1>1, <1>4 DEF Released, LeadsOn, Idle
<1> QED
  BY <1>2, <1>3, <1>4

\* To read a lock key takes a line off the list, and leaves at most one more value
\* to give back.
LEMMA GetLeads ==
  ASSUME TypeOK, NEW w \in Workers, At(w, "release"), Counts(call[w]),
         IsFiniteSet(call[w].todo),
         IsFiniteSet({i \in Lines(call[w].order) : call[w].got[i] > 0}),
         NEW i \in Lines(call[w].order), i \in call[w].todo,
         NEW got \in [Lines(call[w].order) -> Nat],
         \A j \in Lines(call[w].order) \ {i} : got[j] = call[w].got[j],
         Released(w, call[w].todo \ {i}, got)
  PROVE  LeadsOn(call[w], call'[w])
<1> DEFINE R == {j \in Lines(call[w].order) : call[w].got[j] > 0}
           Q == {j \in Lines(call[w].order) : got[j] > 0}
           k == ToGo(call[w])
           r == ToReturn(call[w])
<1>1. Cardinality(call[w].todo \ {i}) = k - 1 /\ k \in Nat
  BY OneFewer DEF ToGo
<1>2. /\ IsFiniteSet(R \cup {i})
      /\ Cardinality(R \cup {i}) = r \/ Cardinality(R \cup {i}) = r + 1
  <2> HIDE DEF R
  <2>1. IsFiniteSet(R) /\ r = Cardinality(R)
    BY DEF R, ToReturn
  <2> QED
    BY <2>1, FS_AddElement
<1>3. Cardinality(Q) <= Cardinality(R \cup {i}) /\ Cardinality(Q) \in Nat
  <2>1. Q \subseteq R \cup {i}
    OBVIOUS
  <2> HIDE DEF Q, R
  <2> QED
    BY <1>2, <2>1, FS_Subset, FS_CardinalityType
<1>4. r \in Nat
  BY DEF Counts
<1>5. 2 * Cardinality(call[w].todo \ {i}) + Cardinality(Q) < 2 * k + r
  <2> HIDE DEF Q, R, k, r
  <2> DEFINE q == Cardinality(Q)  s == Cardinality(R \cup {i})
  <2>1. q \in Nat /\ q <= s /\ (s = r \/ s = r + 1) /\ r \in Nat /\ k \in Nat
    BY <1>1, <1>2, <1>3, <1>4
  <2> HIDE DEF q, s
  <2>2. 2 * (k - 1) + q < 2 * k + r
    BY <2>1
  <2> QED
    BY <1>1, <2>2 DEF q
<1> QED
  BY <1>5, ReleasedLeads

\* To give back a value leaves one fewer.
LEMMA ReturnLeads ==
  ASSUME TypeOK, NEW w \in Workers, At(w, "release"), Counts(call[w]),
         IsFiniteSet({i \in Lines(call[w].order) : call[w].got[i] > 0}),
         NEW i \in Lines(call[w].order), call[w].got[i] > 0,
         Released(w, call[w].todo, [call[w].got EXCEPT ![i] = 0])
  PROVE  LeadsOn(call[w], call'[w])
<1> DEFINE got == [call[w].got EXCEPT ![i] = 0]
           R == {j \in Lines(call[w].order) : call[w].got[j] > 0}
           Q == {j \in Lines(call[w].order) : got[j] > 0}
           k == ToGo(call[w])
           r == ToReturn(call[w])
<1>1. call[w].got \in [Lines(call[w].order) -> Nat]
  BY CallFields DEF At
<1>2. got \in [Lines(call[w].order) -> Nat]
  BY <1>1
<1>3. Q = R \ {i} /\ i \in R
  BY <1>1
<1>4. Cardinality(Q) = r - 1 /\ r \in Nat
  <2>1. IsFiniteSet(R) /\ r = Cardinality(R)
    BY DEF ToReturn
  <2> HIDE DEF Q, R, r
  <2> QED
    BY <1>3, <2>1, OneFewer
<1>5. k \in Nat
  BY DEF Counts
<1>6. 2 * Cardinality(call[w].todo) + Cardinality(Q) < 2 * k + r
  <2>1. Cardinality(call[w].todo) = k
    BY DEF ToGo
  <2> HIDE DEF Q, k, r
  <2>2. 2 * k + (r - 1) < 2 * k + r
    BY <1>4, <1>5
  <2> QED
    BY <1>4, <2>1, <2>2
<1> QED
  BY <1>2, <1>6, ReleasedLeads

\* A step of a call leads it on.
LEMMA StepLeads ==
  ASSUME TypeOK, NEW w \in Workers, Step(w) \/ Fault(w), call[w].pc # "idle",
         LinesLeft(call[w])
  PROVE  LeadsOn(call[w], call'[w])
<1> DEFINE c == call[w]
           d == call'[w]
<1>1. DOMAIN call = Workers /\ c.order \in Orders /\ c \in CallOn(c.order)
  BY BegunRecord
<1>2. /\ Counts(c) /\ IsFiniteSet(c.todo)
      /\ IsFiniteSet({i \in Lines(c.order) : c.got[i] > 0})
  BY CallCounts DEF TypeOK, CallsTyped
<1>3. CASE CreateStep(w)
  <2>1. CASE CheckLine(w)
    <3>1. c.pc = "row"
      BY <2>1 DEF CheckLine, At
    <3>2. CASE Abort(w)
      BY <3>1, <3>2, AbortLeads DEF Creating, PerLine
    <3>3. CASE ~Abort(w)
      <4>1. d.pc = "init" /\ d.line = c.line
        BY <1>1, <2>1, <3>1, <3>3 DEF CheckLine, CallOn
      <4> QED
        BY <3>1, <4>1 DEF LeadsOn
    <3> QED
      BY <3>2, <3>3
  <2>2. CASE InitQuota(w)
    <3>1. c.pc = "init" /\ Goto(w, "take")
      BY <2>2 DEF InitQuota, At
    <3>2. d.pc = "take" /\ d.line = c.line
      BY <1>1, <3>1 DEF Goto, CallOn
    <3> QED
      BY <3>1, <3>2 DEF LeadsOn
  <2>3. CASE LockLine(w)
    <3>1. c.pc = "take"
      BY <2>3 DEF LockLine, At
    <3>2. d.pc \in {"undo", "commit"} \/ (d.pc = "row" /\ d.line = c.line + 1)
      BY <1>1, <2>3, <3>1 DEF LockLine, Goto, CallOn
    <3> QED
      BY <3>1, <3>2 DEF LeadsOn
  <2>4. CASE UndoLine(w) \/ BillSettled(w) \/ BillFails(w)
    <3>1. PICK stage \in {"unset", "payread", "read"} :
            Goto(w, stage) /\ ((c.pc = "undo" /\ stage = "unset")
                                \/ (c.pc = "bill" /\ stage \in {"payread", "read"}))
      BY <2>4 DEF UndoLine, BillSettled, BillFails, At
    <3>2. d.pc = stage
      BY <3>1, GotoStage
    <3> QED
      BY <3>1, <3>2 DEF LeadsOn
  <2>5. CASE UnsetLine(w)
    BY <2>5, AbortLeads DEF UnsetLine, At, Creating, PerLine
  <2>6. CASE CommitOrder(w)
    <3>1. c.pc = "commit"
      BY <2>6 DEF CommitOrder, At
    <3>2. d.pc = "bill"
      BY <1>1, <2>6, <3>1 DEF CommitOrder, CallOn
    <3> QED
      BY <3>1, <3>2 DEF LeadsOn
  <2>7. CASE BillOpen(w)
    <3>1. d = Idle
      BY <1>1, <2>7 DEF BillOpen, Finish
    <3> QED
      BY <3>1 DEF LeadsOn, Idle
  <2>8. CASE DeadlockVictim(w)
    BY <2>8, AbortLeads, ThrowLeads DEF DeadlockVictim, At, Creating, PerLine
  <2> QED
    BY <1>3, <2>1, <2>2, <2>3, <2>4, <2>5, <2>6, <2>7, <2>8 DEF CreateStep
<1>4. CASE PaymentStep(w)
  <2>1. CASE PayRead(w)
    <3>1. c.pc = "payread"
      BY <2>1 DEF PayRead, At
    <3>2. d = Idle \/ d.pc = "sell"
      BY <1>1, <2>1, <3>1 DEF PayRead, Finish, CallOn
    <3> QED
      BY <3>1, <3>2 DEF LeadsOn, Idle
  <2>2. CASE SellRow(w)
    <3>1. c.pc = "sell"
      BY <2>2 DEF SellRow, At
    <3>2. CASE PaymentThrows(w)
      BY <3>1, <3>2, ThrowLeads
    <3>3. CASE ~PaymentThrows(w)
      <4>1. PICK i \in c.todo :
              call' = [call EXCEPT ![w].todo = @ \ {i}, ![w].rows = @ \cup {Ticket(w, i)}]
        BY <2>2, <3>3 DEF SellRow
      <4>2. d.pc = "sell" /\ d.todo = c.todo \ {i}
        BY <1>1, <3>1, <4>1 DEF CallOn
      <4>3. ToGo(d) < ToGo(c)
        BY <1>2, <4>2, FewerToGo
      <4> QED
        BY <3>1, <4>2, <4>3 DEF LeadsOn
    <3> QED
      BY <3>2, <3>3
  <2>3. CASE CommitSale(w)
    <3>1. c.pc = "sell"
      BY <2>3 DEF CommitSale, At
    <3>2. d.pc = "confirm"
      BY <1>1, <2>3, <3>1 DEF CommitSale, CallOn
    <3> QED
      BY <3>1, <3>2 DEF LeadsOn
  <2>4. CASE ConfirmLock(w)
    BY <1>2, <2>4, ConfirmLeads DEF ConfirmLock
  <2>5. CASE CountIssued(w)
    <3>1. c.pc = "count"
      BY <2>5 DEF CountIssued, At
    <3>2. CASE PaymentThrows(w)
      BY <3>1, <3>2, ThrowLeads
    <3>3. CASE ~PaymentThrows(w)
      <4>1. d.pc = "issue"
        BY <1>1, <2>5, <3>1, <3>3 DEF CountIssued, CallOn
      <4> QED
        BY <3>1, <4>1 DEF LeadsOn
    <3> QED
      BY <3>2, <3>3
  <2>6. CASE IssueLine(w)
    <3>1. c.pc = "issue"
      BY <2>6 DEF IssueLine, At
    <3>2. PICK i \in c.todo : IF c.todo = {i} THEN Finish(w)
                             ELSE call' = [call EXCEPT ![w].todo = @ \ {i}]
      BY <2>6 DEF IssueLine
    <3>3. CASE c.todo = {i}
      <4>1. d = Idle
        BY <1>1, <3>2, <3>3 DEF Finish
      <4> QED
        BY <4>1 DEF LeadsOn, Idle
    <3>4. CASE c.todo # {i}
      <4>1. d.pc = "issue" /\ d.todo = c.todo \ {i}
        BY <1>1, <3>1, <3>2, <3>4 DEF CallOn
      <4>2. ToGo(d) < ToGo(c)
        BY <1>2, <3>2, <4>1, FewerToGo
      <4> QED
        BY <3>1, <4>1, <4>2 DEF LeadsOn
    <3> QED
      BY <3>3, <3>4
  <2> QED
    BY <1>4, <2>1, <2>2, <2>3, <2>4, <2>5, <2>6 DEF PaymentStep
<1>5. ASSUME At(w, "release"), NEW i \in Lines(c.order)
      PROVE  /\ c.got \in [Lines(c.order) -> Nat]
             /\ lock[Ticket(w, i)][c.order] \in Nat
             /\ [c.got EXCEPT ![i] = lock[Ticket(w, i)][c.order]] \in [Lines(c.order) -> Nat]
             /\ \A j \in Lines(c.order) \ {i} :
                  [c.got EXCEPT ![i] = lock[Ticket(w, i)][c.order]][j] = c.got[j]
  <2>1. c.order \in Orders /\ c.got \in [Lines(c.order) -> Nat]
    BY <1>5, CallFields DEF At
  <2>2. lock[Ticket(w, i)][c.order] \in Nat
    BY <1>5, <2>1, LineFields DEF TypeOK, RedisTypeOK, Ticket
  <2> QED
    BY <2>1, <2>2
<1>6. CASE EndStep(w)
  <2>1. CASE ReadStatus(w)
    <3>1. c.pc = "read"
      BY <2>1 DEF ReadStatus, At
    <3>2. d = Idle \/ d.pc \in {"save", "reread"}
      BY <1>1, <2>1, <3>1 DEF ReadStatus, Goto, Finish, CallOn
    <3> QED
      BY <3>1, <3>2 DEF LeadsOn, Idle
  <2>2. CASE SaveStatus(w)
    <3>1. c.pc = "save"
      BY <2>2 DEF SaveStatus, At
    <3>2. d.pc = "reread"
      BY <1>1, <2>2, <3>1 DEF SaveStatus, CallOn
    <3> QED
      BY <3>1, <3>2 DEF LeadsOn
  <2>3. CASE RereadOrder(w)
    <3>1. c.pc = "reread"
      BY <2>3 DEF RereadOrder, At
    <3>2. d.pc = "release" /\ d.rounds = c.rounds
      BY <1>1, <2>3, <3>1 DEF RereadOrder, CallOn
    <3> QED
      BY <3>1, <3>2 DEF LeadsOn
  <2>4. CASE GetLock(w)
    <3>1. PICK i \in Lines(c.order) :
            /\ At(w, "release") /\ i \in c.todo
            /\ Released(w, c.todo \ {i}, [c.got EXCEPT ![i] = lock[Ticket(w, i)][c.order]])
      BY <2>4 DEF GetLock, MayGet
    <3> QED
      BY <1>2, <1>5, <3>1, GetLeads
  <2>5. CASE ReturnLock(w)
    <3>1. PICK i \in Lines(c.order) :
            /\ At(w, "release") /\ c.got[i] > 0
            /\ Released(w, c.todo, [c.got EXCEPT ![i] = 0])
      BY <2>5 DEF ReturnLock, MayReturn
    <3> QED
      BY <1>2, <3>1, ReturnLeads
  <2> QED
    BY <1>6, <2>1, <2>2, <2>3, <2>4, <2>5 DEF EndStep
<1>7. CASE Fault(w)
  <2>1. CASE RedisFails(w)
    <3>1. CASE At(w, "init") /\ Goto(w, "take")
      <4>1. c.pc = "init" /\ d.pc = "take" /\ d.line = c.line
        BY <1>1, <3>1 DEF Goto, CallOn, At
      <4> QED
        BY <4>1 DEF LeadsOn
    <3>2. CASE c.pc \in {"take", "undo", "unset"} /\ Abort(w)
      BY <3>2, AbortLeads DEF Creating, PerLine
    <3>3. CASE At(w, "confirm") /\ \E i \in c.todo : ConfirmNext(w, i)
      BY <1>2, <3>3, ConfirmLeads
    <3>4. CASE /\ At(w, "release")
               /\ \E i \in Lines(c.order) :
                    MayGet(w, i) /\ Released(w, c.todo \ {i}, c.got)
      <4>1. PICK i \in Lines(c.order) : i \in c.todo /\ Released(w, c.todo \ {i}, c.got)
        BY <3>4 DEF MayGet
      <4>2. c.got \in [Lines(c.order) -> Nat]
        BY <1>5, <3>4
      <4> QED
        BY <1>2, <3>4, <4>1, <4>2, GetLeads
    <3>5. CASE /\ At(w, "release")
               /\ \E i \in Lines(c.order) :
                    MayReturn(w, i) /\ Released(w, c.todo, [c.got EXCEPT ![i] = 0])
      <4>1. PICK i \in Lines(c.order) :
              c.got[i] > 0 /\ Released(w, c.todo, [c.got EXCEPT ![i] = 0])
        BY <3>5 DEF MayReturn
      <4> QED
        BY <1>2, <3>5, <4>1, ReturnLeads
    <3> QED
      BY <2>1, <3>1, <3>2, <3>3, <3>4, <3>5 DEF RedisFails
  <2>2. CASE UploadFails(w)
    BY <2>2, ThrowLeads DEF UploadFails, At
  <2>3. CASE Crash(w)
    <3>1. d = Idle
      BY <1>1, <2>3 DEF Crash, Finish
    <3> QED
      BY <3>1 DEF LeadsOn, Idle
  <2>4. CASE DatabaseFails(w)
    BY <2>4, AbortLeads, ThrowLeads DEF DatabaseFails, Creating, PerLine
  <2> QED
    BY <1>7, <2>1, <2>2, <2>3, <2>4 DEF Fault
<1> QED
  BY <1>3, <1>4, <1>6, <1>7 DEF Step

\* Every call in progress has steps to take, and not too many.
LEMMA StepsBoundedIf == TypeOK /\ LinesLeftInv => StepsBounded
<1> SUFFICES ASSUME TypeOK, LinesLeftInv, NEW w \in Workers, call[w].pc # "idle"
             PROVE  StepsToGo(call[w]) \in 1 .. 12 * Size(call[w]) + 12
  BY DEF StepsBounded
<1>1. CallTyped(call[w]) /\ LinesLeft(call[w])
  BY DEF TypeOK, CallsTyped, LinesLeftInv
<1>2. Counts(call[w]) /\ call[w].pc \in Stages
  BY <1>1, CallCounts, CallBegun
<1> QED
  BY <1>2, CountsBound

\* A step of a call leaves it fewer steps.
LEMMA StepsFall ==
  ASSUME TypeOK, TypeOK', LinesLeftInv, LinesLeftInv', NEW w \in Workers, Step(w) \/ Fault(w)
  PROVE  StepsToGo(call'[w]) < StepsToGo(call[w])
<1> DEFINE c == call[w]
           d == call'[w]
<1>1. Advance(w)
  BY CreateAdvances, PaymentAdvances, EndAdvances, FaultAdvances DEF Step
<1>2. c.pc # "idle" /\ (d.pc # "idle" => d.order = c.order)
  BY <1>1 DEF Advance, Idle
<1>3. CallTyped(c) /\ LinesLeft(c)
  BY DEF TypeOK, CallsTyped, LinesLeftInv
<1>4. CallTyped(d) /\ LinesLeft(d)
  BY DEF TypeOK, CallsTyped, LinesLeftInv, LinesLeft, CallTyped, Idle, CallOn, Lines,
         InTransaction, PerLine, Stages
<1>5. Counts(c) /\ c.pc \in Stages
  BY <1>2, <1>3, CallCounts, CallBegun
<1>6. d.pc # "idle" => Counts(d) /\ Size(d) = Size(c)
  BY <1>2, <1>4, CallCounts DEF Size
<1>7. LeadsOn(c, d)
  BY <1>2, <1>3, StepLeads
<1> QED
  BY <1>2, <1>5, <1>6, <1>7, LeadsDown

\* Nobody but the call itself moves it on.
LEMMA OwnSteps ==
  ASSUME TypeOK, [Next]_vars, NEW w \in Workers, call[w].pc # "idle", call'[w] # call[w]
  PROVE  Step(w) \/ Fault(w)
<1>1. ASSUME NEW v \in Workers, Step(v) \/ Fault(v)
      PROVE  v = w
  <2>1. Advance(v)
    BY <1>1, CreateAdvances, PaymentAdvances, EndAdvances, FaultAdvances DEF Step
  <2> QED
    BY <2>1 DEF Advance
<1>2. ASSUME NEW v \in Workers, NEW o \in Orders, Begin(v, o)
      PROVE  FALSE
  <2>1. call[v] = Idle /\ \A u \in Workers \ {v} : call'[u] = call[u]
    BY <1>2, Beginning
  <2> QED
    BY <2>1 DEF Idle
<1>3. ASSUME UNCHANGED call
      PROVE  FALSE
  BY <1>3
<1> QED
  BY <1>1, <1>2, <1>3 DEF Next, FallDue, LockExpires, vars

\* Calls come to an end, whatever calls overlap and fail: a call in progress has
\* between one and 12 * n + 12 steps to go, n the lines of its order, each step
\* of it leaves fewer, one in which Redis, an upload or the process fails too, and
\* nothing else moves it.  No handler of OrderService goes round in circles.
THEOREM CallsRunOut == Spec => []StepsBounded /\ StepsRunOut
<1>1. ASSUME TypeOK, TypeOK', LinesLeftInv, LinesLeftInv', [Next]_vars
      PROVE  \A w \in Workers :
               /\ Step(w) \/ Fault(w) => StepsToGo(call'[w]) < StepsToGo(call[w])
               /\ call[w].pc # "idle" /\ call'[w] # call[w] => Step(w) \/ Fault(w)
  BY <1>1, StepsFall, OwnSteps
<1>2. TypeOK /\ TypeOK' /\ LinesLeftInv /\ LinesLeftInv' /\ [Next]_vars
        => [\A w \in Workers :
               /\ Step(w) \/ Fault(w) => StepsToGo(call'[w]) < StepsToGo(call[w])
               /\ call[w].pc # "idle" /\ call'[w] # call[w] => Step(w) \/ Fault(w)]_vars
  BY <1>1
<1>3. Spec => [](TypeOK /\ LinesLeftInv)
  BY TypeCorrect, NobodyStuck, PTL
<1> QED
  BY <1>2, <1>3, StepsBoundedIf, PTL DEF Spec, StepsRunOut
=============================================================================
