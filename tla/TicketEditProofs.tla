-------------------------- MODULE TicketEditProofs --------------------------
(***************************************************************************)
(* Theorems about TicketEdits for any number of ticket types, orders and   *)
(* requests of administrators, and any quotas they set.                    *)
(***************************************************************************)
EXTENDS TicketEdits, SumTheorems

(***************************************************************************)
(* Types.                                                                  *)
(***************************************************************************)

\* A request is replaced by another one.
LEMMA EditReplaced ==
  ASSUME TypeOK, NEW e \in Edits, NEW k, EditTyped(k), edit' = [edit EXCEPT ![e] = k]
  PROVE  DOMAIN edit' = Edits /\ \A d \in Edits : EditTyped(edit'[d])
  BY DEF TypeOK

\* A request in progress names a ticket and has the fields of its stage.
LEMMA EditRecord ==
  ASSUME TypeOK, NEW e \in Edits
  PROVE  /\ At(e, "compare") =>
              edit[e] \in [pc : {"compare"}, ticket : Tickets, sold : Nat, quota : Nat]
         /\ At(e, "write") =>
              edit[e] \in [pc : {"write"}, ticket : Tickets, sold : Nat, quota : Nat,
                           columns : (SUBSET Columns) \ {{}}]
  BY DEF TypeOK, EditTyped, At, Idle

\* The columns of a ticket that a request writes keep their type.
LEMMA WrittenTyped ==
  ASSUME TypeOK, NEW e \in Edits, At(e, "write")
  PROVE  /\ Written(e, "sold", sold) \in [Tickets -> Nat]
         /\ Written(e, "quota", quota) \in [Tickets -> Nat]
  BY EditRecord DEF TypeOK, Written

LEMMA TypeInit == EditsInit => TypeOK
  BY EditsAssumption DEF EditsInit, Init, TypeOK, EditTyped

\* Every step of a request keeps the types.
LEMMA TypeEdit ==
  ASSUME TypeOK, NEW e \in Edits,
         Compare(e) \/ Write(e) \/ BreakOff(e) \/ \E t \in Tickets : Preload(e, t)
  PROVE  TypeOK'
<1>1. CASE Compare(e)
  <2> DEFINE k == ToWrite(edit[e], Differing(e))
             c == edit[e]
  <2>1. Differing(e) \in SUBSET Columns
    BY DEF Differing
  <2>2. c.ticket \in Tickets /\ c.sold \in Nat /\ c.quota \in Nat
    BY <1>1, EditRecord DEF Compare
  <2>3. EditTyped(k)
    <3> HIDE DEF c
    <3>1. CASE Differing(e) = {}
      BY <3>1 DEF ToWrite, EditTyped
    <3>2. CASE Differing(e) # {}
      <4>1. k = [pc |-> "write", ticket |-> c.ticket, sold |-> c.sold, quota |-> c.quota,
                 columns |-> Differing(e)]
        BY <3>2 DEF ToWrite, c
      <4> HIDE DEF k
      <4>2. k \in [pc : {"write"}, ticket : Tickets, sold : Nat, quota : Nat,
                   columns : (SUBSET Columns) \ {{}}]
        BY <2>1, <2>2, <3>2, <4>1
      <4> QED
        BY <4>2 DEF EditTyped
    <3> QED
      BY <3>1, <3>2
  <2>4. edit' = [edit EXCEPT ![e] = k]
    BY <1>1 DEF Compare
  <2> HIDE DEF k
  <2> QED
    BY <1>1, <2>3, <2>4, EditReplaced DEF Compare, TypeOK, bookVars, payments, history, EditTyped
<1>2. CASE Write(e)
  <2>1. EditTyped(Idle) /\ edit[e].ticket \in Tickets
    BY <1>2, EditRecord DEF EditTyped, Write
  <2> QED
    BY <1>2, <2>1, WrittenTyped, EditReplaced DEF Write, TypeOK, payments, EditTyped
<1>3. CASE BreakOff(e)
  <2>1. EditTyped(Idle)
    BY DEF EditTyped
  <2> QED
    BY <1>3, <2>1, EditReplaced DEF BreakOff, TypeOK, bookVars, payments, history, EditTyped
<1>4. ASSUME NEW t \in Tickets, Preload(e, t)
      PROVE  TypeOK'
  <2>1. PICK q \in NewQuotas \cup {quota[t]} :
          edit' = [edit EXCEPT ![e] = [pc |-> "compare", ticket |-> t, sold |-> sold[t], quota |-> q]]
    BY <1>4 DEF Preload
  <2>2. EditTyped([pc |-> "compare", ticket |-> t, sold |-> sold[t], quota |-> q])
    BY EditsAssumption DEF EditTyped, TypeOK
  <2> QED
    BY <1>4, <2>1, <2>2, EditReplaced DEF Preload, TypeOK, bookVars, payments, history, EditTyped
<1> QED
  BY <1>1, <1>2, <1>3, <1>4

\* So does every step of an order.
LEMMA TypeOrder ==
  ASSUME TypeOK, NEW o \in Orders,
         \/ PlaceOrder(o) \/ StartPayment(o) \/ PayOrder(o) \/ FailPayment(o) \/ EndOrder(o)
  PROVE  TypeOK'
<1>1. CASE PlaceOrder(o)
  BY <1>1 DEF PlaceOrder, Place, TypeOK, payments, history, EditTyped
<1>2. CASE StartPayment(o)
  BY <1>2 DEF StartPayment, TypeOK, bookVars, history, EditTyped
<1>3. CASE PayOrder(o)
  <2>1. \A t \in Tickets : Counted(o)[t] \in Nat
    BY EditsAssumption DEF Counted
  <2>2. sold' \in [Tickets -> Nat]
    BY <1>3, <2>1 DEF PayOrder, PayFor, TypeOK
  <2> QED
    BY <1>3, <2>2 DEF PayOrder, PayFor, PaymentEnds, TypeOK, EditTyped
<1>4. CASE FailPayment(o)
  BY <1>4 DEF FailPayment, PaymentEnds, TypeOK, bookVars, history, EditTyped
<1>5. CASE EndOrder(o)
  BY <1>5 DEF EndOrder, End, TypeOK, payments, history, EditTyped
<1> QED
  BY <1>1, <1>2, <1>3, <1>4, <1>5

LEMMA TypeNext == TypeOK /\ [EditsNext]_vars => TypeOK'
<1> SUFFICES ASSUME TypeOK, [EditsNext]_vars PROVE TypeOK'
  OBVIOUS
<1>1. ASSUME NEW t \in Tickets, Remove(t) PROVE TypeOK'
  BY <1>1 DEF Remove, TypeOK, bookVars, payments, history, EditTyped
<1>2. CASE UNCHANGED vars
  BY <1>2 DEF vars, bookVars, payments, history, TypeOK, EditTyped
<1> QED
  BY <1>1, <1>2, TypeEdit, TypeOrder DEF EditsNext

\* Rows and requests keep their types, whatever administrators and orders do.
THEOREM TypeCorrect == EditsSpec => []TypeOK
  BY TypeInit, TypeNext, PTL DEF EditsSpec

(***************************************************************************)
(* Sales.                                                                  *)
(***************************************************************************)

\* A request whose ticket was not sold between its two reads has read the
\* `sold` that the row holds, and therefore does not write that column.
EditsAhead ==
  \A e \in Edits :
    /\ At(e, "compare") /\ edit[e].ticket \notin raced => edit[e].sold = sold[edit[e].ticket]
    /\ At(e, "write") /\ edit[e].ticket \notin raced => "sold" \notin edit[e].columns

\* Sales stay within the quota until an administrator sets it below them.
WithinQuota == \A t \in Tickets \ lowered : sold[t] <= quota[t]

\* `sold` is the units of the PAID orders, of every ticket that no payment has skipped.
SoldIsPaid == \A t \in Tickets \ (raced \cup skipped) : sold[t] = PaidUnits(t)

SalesInv == EditsAhead /\ WithinQuota /\ SoldIsPaid

\* What is paid for changes only with the orders that are PAID.
LEMMA PaidUnitsKept ==
  ASSUME NEW t, \A o \in Orders : status[o] = "PAID" <=> status'[o] = "PAID"
  PROVE  PaidUnits(t)' = PaidUnits(t)
<1>1. {o \in Orders : status'[o] = "PAID"} = {o \in Orders : status[o] = "PAID"}
  OBVIOUS
<1> QED
  BY <1>1 DEF PaidUnits

\* An order that becomes PAID adds its units.
LEMMA PaidUnitsGrow ==
  ASSUME TypeOK, NEW t \in Tickets, NEW o \in Orders, status[o] # "PAID",
         status' = [status EXCEPT ![o] = "PAID"]
  PROVE  PaidUnits(t) \in Nat /\ PaidUnits(t)' = PaidUnits(t) + Demand[o][t]
<1> DEFINE S == {p \in Orders : status[p] = "PAID"}
           T == {p \in Orders : status'[p] = "PAID"}
           f == [p \in Orders |-> Demand[p][t]]
<1>1. o \in T /\ T \ {o} = S /\ T \subseteq Orders /\ S \subseteq Orders
  BY DEF TypeOK
<1>2. IsFiniteSet(T) /\ IsFiniteSet(S)
  BY <1>1, EditsAssumption, FS_Subset
<1>3. \A p \in Orders : f[p] \in Nat
  BY EditsAssumption
<1>4. PaidUnits(t) = SumFunctionOnSet(f, S) /\ PaidUnits(t)' = SumFunctionOnSet(f, T)
  BY DEF PaidUnits
<1>5. f[o] = Demand[o][t]
  OBVIOUS
<1> HIDE DEF S, T, f
<1>6. SumFunctionOnSet(f, T) = f[o] + SumFunctionOnSet(f, S)
  BY <1>1, <1>2, <1>3, SumSplits
<1>7. SumFunctionOnSet(f, S) \in Nat
  BY <1>1, <1>2, <1>3, SumIsNat
<1> QED
  BY <1>3, <1>4, <1>5, <1>6, <1>7

LEMMA SalesInit == EditsInit => SalesInv
<1> SUFFICES ASSUME EditsInit PROVE SalesInv
  OBVIOUS
<1>1. EditsAhead
  BY DEF EditsInit, EditsAhead, At, Idle
<1>2. ASSUME NEW t \in Tickets PROVE sold[t] <= quota[t]
  <2>1. sold[t] = 0 /\ quota[t] \in Nat
    BY EditsAssumption DEF EditsInit, Init
  <2> QED
    BY <2>1
<1>3. ASSUME NEW t \in Tickets PROVE sold[t] = PaidUnits(t)
  <2>1. {o \in Orders : status[o] = "PAID"} = {}
    BY DEF EditsInit, Init
  <2> QED
    BY <2>1, SumOfNone DEF EditsInit, Init, PaidUnits
<1> QED
  BY <1>1, <1>2, <1>3 DEF SalesInv, WithinQuota, SoldIsPaid

\* A payment: what it counts is what the order becomes PAID for, and a request
\* between its reads is noted as overtaken.
LEMMA SalesPay ==
  ASSUME TypeOK, SalesInv, NEW o \in Orders, PayOrder(o)
  PROVE  SalesInv'
<1>1. /\ status[o] = "PENDING" /\ status' = [status EXCEPT ![o] = "PAID"]
      /\ quota' = quota /\ edit' = edit /\ lowered' = lowered
      /\ skipped' = skipped \cup {t \in Tickets \ found[o] : Demand[o][t] # 0}
      /\ raced' = raced \cup {t \in Tickets : Counted(o)[t] # 0 /\ Racing(t)}
  BY DEF PayOrder, PayFor
<1>2. ASSUME NEW t \in Tickets
      PROVE  /\ sold'[t] = sold[t] + Counted(o)[t]
             /\ Counted(o)[t] # 0 => sold'[t] <= quota[t]
             /\ Counted(o)[t] = (IF t \in found[o] THEN Demand[o][t] ELSE 0)
             /\ Counted(o)[t] \in Nat /\ sold[t] \in Nat
  <2>1. Counted(o)[t] = (IF t \in found[o] THEN Demand[o][t] ELSE 0) /\ Demand[o][t] \in Nat
    BY EditsAssumption DEF Counted
  <2>2. /\ Counted(o)[t] # 0 => sold[t] + Counted(o)[t] <= quota[t]
        /\ sold'[t] = sold[t] + Counted(o)[t]
    BY DEF PayOrder, PayFor
  <2>3. sold[t] \in Nat
    BY DEF TypeOK
  <2> QED
    BY <2>1, <2>2, <2>3
<1>3. EditsAhead'
  <2> SUFFICES ASSUME NEW e \in Edits
               PROVE  /\ At(e, "compare") /\ edit[e].ticket \notin raced'
                           => edit[e].sold = sold'[edit[e].ticket]
                      /\ At(e, "write") /\ edit[e].ticket \notin raced'
                           => "sold" \notin edit[e].columns
    BY <1>1 DEF EditsAhead, At
  <2>1. ASSUME At(e, "compare"), edit[e].ticket \notin raced'
        PROVE  edit[e].sold = sold'[edit[e].ticket]
    <3> DEFINE t == edit[e].ticket
    <3>1. t \in Tickets /\ Racing(t)
      BY <2>1, EditRecord DEF Racing
    <3>2. Counted(o)[t] = 0 /\ t \notin raced
      BY <1>1, <2>1, <3>1
    <3>3. edit[e].sold = sold[t]
      BY <2>1, <3>2 DEF SalesInv, EditsAhead
    <3>4. sold'[t] = sold[t]
      BY <1>2, <3>1, <3>2
    <3> QED
      BY <3>3, <3>4
  <2>2. ASSUME At(e, "write"), edit[e].ticket \notin raced'
        PROVE  "sold" \notin edit[e].columns
    BY <1>1, <2>2 DEF SalesInv, EditsAhead
  <2> QED
    BY <2>1, <2>2
<1>4. ASSUME NEW t \in Tickets \ lowered
      PROVE  sold'[t] <= quota[t]
  <2>1. sold[t] <= quota[t]
    BY DEF SalesInv, WithinQuota
  <2> QED
    BY <1>2, <2>1
<1>5. ASSUME NEW t \in Tickets \ (raced' \cup skipped')
      PROVE  sold'[t] = PaidUnits(t)'
  <2>1. sold[t] = PaidUnits(t)
    BY <1>1 DEF SalesInv, SoldIsPaid
  <2>2. PaidUnits(t)' = PaidUnits(t) + Demand[o][t]
    BY <1>1, PaidUnitsGrow
  <2>3. Counted(o)[t] = Demand[o][t]
    BY <1>1, <1>2, <1>5
  <2> QED
    BY <1>2, <2>1, <2>2, <2>3
<1> QED
  BY <1>1, <1>3, <1>4, <1>5 DEF SalesInv, WithinQuota, SoldIsPaid

\* The end of an edit: it writes no `sold` unless it was overtaken.
LEMMA SalesWrite ==
  ASSUME TypeOK, SalesInv, NEW e \in Edits, Write(e)
  PROVE  SalesInv'
<1> DEFINE t == edit[e].ticket
<1>1. /\ t \in Tickets /\ At(e, "write")
      /\ sold' = Written(e, "sold", sold) /\ quota' = Written(e, "quota", quota)
      /\ edit' = [edit EXCEPT ![e] = Idle] /\ DOMAIN edit = Edits
      /\ status' = status /\ raced' = raced /\ skipped' = skipped
      /\ lowered' = IF quota'[t] < sold'[t] THEN lowered \cup {t} ELSE lowered
  BY EditRecord DEF Write, TypeOK
<1>2. \A s \in Tickets \ {t} : sold'[s] = sold[s] /\ quota'[s] = quota[s]
  BY <1>1 DEF Written, TypeOK
<1>3. t \notin raced => sold'[t] = sold[t]
  BY <1>1 DEF SalesInv, EditsAhead, Written
<1>4. sold' \in [Tickets -> Nat] /\ quota' \in [Tickets -> Nat]
  BY <1>1, WrittenTyped
<1>5. EditsAhead'
  <2> SUFFICES ASSUME NEW d \in Edits
               PROVE  /\ edit'[d].pc = "compare" /\ edit'[d].ticket \notin raced
                           => edit'[d].sold = sold'[edit'[d].ticket]
                      /\ edit'[d].pc = "write" /\ edit'[d].ticket \notin raced
                           => "sold" \notin edit'[d].columns
    BY <1>1 DEF EditsAhead, At
  <2>1. CASE d = e
    BY <1>1, <2>1 DEF Idle
  <2>2. CASE d # e
    <3>1. edit'[d] = edit[d]
      BY <1>1, <2>2
    <3>2. edit[d].pc = "compare" => edit[d].ticket \in Tickets
      BY EditRecord DEF At
    <3>3. /\ At(d, "compare") /\ edit[d].ticket \notin raced => edit[d].sold = sold[edit[d].ticket]
          /\ At(d, "write") /\ edit[d].ticket \notin raced => "sold" \notin edit[d].columns
      BY DEF SalesInv, EditsAhead
    <3> QED
      BY <1>2, <1>3, <3>1, <3>2, <3>3 DEF At
  <2> QED
    BY <2>1, <2>2
<1>6. ASSUME NEW s \in Tickets \ lowered'
      PROVE  sold'[s] <= quota'[s]
  <2>1. CASE s = t
    BY <1>1, <1>4, <2>1
  <2>2. CASE s # t
    BY <1>1, <1>2, <2>2 DEF SalesInv, WithinQuota
  <2> QED
    BY <2>1, <2>2
<1>7. ASSUME NEW s \in Tickets \ (raced \cup skipped)
      PROVE  sold'[s] = PaidUnits(s)'
  <2>1. sold[s] = PaidUnits(s) /\ sold'[s] = sold[s]
    BY <1>2, <1>3 DEF SalesInv, SoldIsPaid
  <2>2. PaidUnits(s)' = PaidUnits(s)
    BY <1>1, PaidUnitsKept
  <2> QED
    BY <2>1, <2>2
<1> QED
  BY <1>1, <1>5, <1>6, <1>7 DEF SalesInv, WithinQuota, SoldIsPaid

\* A request that moves without writing.
LEMMA SalesMove ==
  ASSUME TypeOK, SalesInv, NEW e \in Edits, NEW k, edit' = [edit EXCEPT ![e] = k],
         UNCHANGED <<bookVars, removed, payments, history>>,
         k.pc = "compare" => k.sold = sold[k.ticket],
         k.pc = "write" /\ k.ticket \notin raced => "sold" \notin k.columns
  PROVE  SalesInv'
<1>1. EditsAhead'
  <2>1. \A d \in Edits : d # e => edit'[d] = edit[d]
    BY DEF TypeOK
  <2>2. edit'[e] = k
    BY DEF TypeOK
  <2> QED
    BY <2>1, <2>2 DEF SalesInv, EditsAhead, At, bookVars, history
<1>2. \A t : PaidUnits(t)' = PaidUnits(t)
  BY PaidUnitsKept DEF bookVars
<1> QED
  BY <1>1, <1>2 DEF SalesInv, WithinQuota, SoldIsPaid, bookVars, history

\* Nothing is sold: an order is placed or ended, its payment begins or fails, or a ticket is
\* removed.
LEMMA SalesKept ==
  ASSUME SalesInv, UNCHANGED <<sold, quota, edit, history>>,
         \A o \in Orders : status[o] = "PAID" <=> status'[o] = "PAID"
  PROVE  SalesInv'
<1>1. \A t : PaidUnits(t)' = PaidUnits(t)
  BY PaidUnitsKept
<1> QED
  BY <1>1 DEF SalesInv, EditsAhead, WithinQuota, SoldIsPaid, At, history

LEMMA SalesNext == TypeOK /\ SalesInv /\ [EditsNext]_vars => SalesInv'
<1> SUFFICES ASSUME TypeOK, SalesInv, [EditsNext]_vars PROVE SalesInv'
  OBVIOUS
<1>1. ASSUME NEW e \in Edits, Compare(e) PROVE SalesInv'
  <2> DEFINE k == ToWrite(edit[e], Differing(e))
  <2>1. edit[e].ticket \notin raced => "sold" \notin Differing(e)
    BY <1>1 DEF Compare, SalesInv, EditsAhead, Differing
  <2>2. /\ k.pc # "compare"
        /\ k.pc = "write" => k.ticket = edit[e].ticket /\ k.columns = Differing(e)
    BY DEF ToWrite, Idle
  <2>3. edit' = [edit EXCEPT ![e] = k] /\ UNCHANGED <<bookVars, removed, payments, history>>
    BY <1>1 DEF Compare
  <2> HIDE DEF k
  <2> QED
    BY <2>1, <2>2, <2>3, SalesMove
<1>2. ASSUME NEW e \in Edits, BreakOff(e) PROVE SalesInv'
  BY <1>2, SalesMove DEF BreakOff, Idle
<1>3. ASSUME NEW e \in Edits, NEW t \in Tickets, Preload(e, t) PROVE SalesInv'
  <2>1. PICK q \in NewQuotas \cup {quota[t]} :
          edit' = [edit EXCEPT ![e] = [pc |-> "compare", ticket |-> t, sold |-> sold[t], quota |-> q]]
    BY <1>3 DEF Preload
  <2> QED
    BY <1>3, <2>1, SalesMove DEF Preload
<1>4. ASSUME NEW t \in Tickets, Remove(t) PROVE SalesInv'
  BY <1>4, SalesKept DEF Remove, bookVars
<1>5. ASSUME NEW o \in Orders, PlaceOrder(o) PROVE SalesInv'
  BY <1>5, SalesKept DEF PlaceOrder, Place, TypeOK
<1>6. ASSUME NEW o \in Orders, EndOrder(o) PROVE SalesInv'
  BY <1>6, SalesKept DEF EndOrder, End, TypeOK
<1>8. ASSUME NEW o \in Orders, StartPayment(o) \/ FailPayment(o) PROVE SalesInv'
  BY <1>8, SalesKept DEF StartPayment, FailPayment, bookVars
<1>9. CASE UNCHANGED vars
  BY <1>9, SalesKept DEF vars, bookVars
<1> QED
  BY <1>1, <1>2, <1>3, <1>4, <1>5, <1>6, <1>8, <1>9, SalesPay, SalesWrite DEF EditsNext

\* Edits of a ticket type lose no sale and sales stay within its quota, whether it is
\* removed, revived by an edit or neither, but for the tickets that the property names:
\* sold between the two reads of an edit, given a quota below what was sold, or skipped
\* by a payment that found them removed.
THEOREM EditsKeepSales == EditsSpec => []SalesSurviveEdits
<1>1. SalesInv => SalesSurviveEdits
  BY DEF SalesInv, WithinQuota, SoldIsPaid, SalesSurviveEdits
<1> QED
  BY <1>1, TypeCorrect, SalesInit, SalesNext, PTL DEF EditsSpec
=============================================================================
