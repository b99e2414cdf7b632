----------------------------- MODULE TicketEdits -----------------------------
(***************************************************************************)
(* Ticket types that administrators change and remove while orders for     *)
(* them are paid (src/src/modules/tickets/ticket.service.ts).              *)
(*                                                                         *)
(* Orders are those of OrderBook, which the order service implements as    *)
(* long as calls on one order do not overlap (OrderLifecycle).  A payment  *)
(* reads which of its tickets are there, and then counts its units in one  *)
(* step: the row of a ticket is locked from the comparison with its quota  *)
(* to the commit.                                                          *)
(***************************************************************************)
EXTENDS OrderBook, FiniteSetsExt

CONSTANTS
  Edits,       \* requests to change a ticket in progress at a time
  NewQuotas    \* the quotas that administrators set

ASSUME EditsAssumption ==
  /\ IsFiniteSet(Orders)
  /\ Quota \in [Tickets -> Nat]
  /\ Demand \in [Orders -> [Tickets -> Nat]]
  /\ NewQuotas \subseteq Nat

VARIABLES
  removed,   \* the tickets that are deleted softly
  edit,      \* edit[e]: what request e has read and what it is to write
  paying,    \* orders whose payment is in progress
  found,     \* found[o]: the tickets that the payment of o has found
  \* What the property speaks of:
  raced,     \* tickets sold between the two reads of an edit
  lowered,   \* tickets whose quota an edit has set below their `sold`
  skipped    \* tickets that a payment did not count because they were removed

payments == <<paying, found>>
history == <<raced, lowered, skipped>>
vars == <<bookVars, removed, edit, payments, history>>

Idle == [pc |-> "idle"]

At(e, stage) == edit[e].pc = stage

-----------------------------------------------------------------------------
(***************************************************************************)
(* TicketService.update: preload merges the payload into the row it reads, *)
(* save reads the row again, be it deleted or not, and writes the columns  *)
(* in which the two differ, be they in the payload or not.  preload finds  *)
(* no deleted row: of one that was deleted since, `deletedAt` differs too, *)
(* and writing it back brings the ticket back.                             *)
(***************************************************************************)

\* The payload has a quota, or only columns that sales do not look at.
Preload(e, t) ==
  /\ edit[e] = Idle
  /\ t \notin removed
  /\ \E q \in NewQuotas \cup {quota[t]} :
       edit' = [edit EXCEPT ![e] = [pc |-> "compare", ticket |-> t, sold |-> sold[t], quota |-> q]]
  /\ UNCHANGED <<bookVars, removed, payments, history>>

Columns == {"sold", "quota", "deletedAt"}

\* Slip: save writes every column it was given.
Everything(e) == Columns

Differing(e) ==
  LET t == edit[e].ticket IN
  {column \in Columns :
     \/ column = "sold" /\ edit[e].sold # sold[t]
     \/ column = "quota" /\ edit[e].quota # quota[t]
     \/ column = "deletedAt" /\ t \in removed}

\* Slip: it is written even if nothing differs.
WriteAnyway(k, columns) ==
  [pc |-> "write", ticket |-> k.ticket, sold |-> k.sold, quota |-> k.quota, columns |-> columns]

\* Nothing is written if nothing differs.
ToWrite(k, columns) ==
  IF columns = {} THEN Idle
  ELSE [pc |-> "write", ticket |-> k.ticket, sold |-> k.sold, quota |-> k.quota, columns |-> columns]

Compare(e) ==
  /\ At(e, "compare")
  /\ edit' = [edit EXCEPT ![e] = ToWrite(edit[e], Differing(e))]
  /\ UNCHANGED <<bookVars, removed, payments, history>>

Written(e, column, f) ==
  IF column \in edit[e].columns THEN [f EXCEPT ![edit[e].ticket] = edit[e][column]] ELSE f

Write(e) ==
  LET t == edit[e].ticket IN
  /\ At(e, "write")
  /\ sold' = Written(e, "sold", sold)
  /\ quota' = Written(e, "quota", quota)
  /\ removed' = IF "deletedAt" \in edit[e].columns THEN removed \ {t} ELSE removed
  /\ lowered' = IF quota'[t] < sold'[t] THEN lowered \cup {t} ELSE lowered
  /\ edit' = [edit EXCEPT ![e] = Idle]
  /\ UNCHANGED <<status, payments, raced, skipped>>

\* The request ends early: an error, or the process dies.
BreakOff(e) ==
  /\ edit[e] # Idle
  /\ edit' = [edit EXCEPT ![e] = Idle]
  /\ UNCHANGED <<bookVars, removed, payments, history>>

\* remove
Remove(t) ==
  /\ t \notin removed
  /\ removed' = removed \cup {t}
  /\ UNCHANGED <<bookVars, edit, payments, history>>

-----------------------------------------------------------------------------
(***************************************************************************)
(* Orders.                                                                 *)
(***************************************************************************)

\* createOrder does not find removed tickets.
PlaceOrder(o) ==
  /\ \A t \in removed : Demand[o][t] = 0
  /\ Place(o)
  /\ UNCHANGED <<removed, edit, payments, history>>

\* handleSuccessfulPayment reads the order with those of its tickets that are not removed.
StartPayment(o) ==
  /\ status[o] = "PENDING" /\ o \notin paying
  /\ paying' = paying \cup {o}
  /\ found' = [found EXCEPT ![o] = {t \in Tickets \ removed : Demand[o][t] # 0}]
  /\ UNCHANGED <<bookVars, removed, edit, history>>

Racing(t) == \E e \in Edits : At(e, "compare") /\ edit[e].ticket = t

\* It skips the lines whose ticket it has not found, and counts the others, also those
\* whose ticket has been removed since.
Counted(o) == [t \in Tickets |-> IF t \in found[o] THEN Demand[o][t] ELSE 0]

PaymentEnds(o) ==
  /\ paying' = paying \ {o}
  /\ found' = [found EXCEPT ![o] = {}]

PayOrder(o) ==
  /\ o \in paying
  /\ PayFor(o, Counted(o))
  /\ PaymentEnds(o)
  /\ raced' = raced \cup {t \in Tickets : Counted(o)[t] # 0 /\ Racing(t)}
  /\ skipped' = skipped \cup {t \in Tickets \ found[o] : Demand[o][t] # 0}
  /\ UNCHANGED <<removed, edit, lowered>>

\* It finds too little quota, or breaks off, and its transaction is rolled back.
FailPayment(o) ==
  /\ o \in paying
  /\ PaymentEnds(o)
  /\ UNCHANGED <<bookVars, removed, edit, history>>

EndOrder(o) ==
  /\ o \notin paying
  /\ End(o)
  /\ UNCHANGED <<removed, edit, payments, history>>

-----------------------------------------------------------------------------
EditsInit ==
  /\ Init
  /\ removed = {} /\ raced = {} /\ lowered = {} /\ skipped = {}
  /\ paying = {} /\ found = [o \in Orders |-> {}]
  /\ edit = [e \in Edits |-> Idle]

EditsNext ==
  \/ \E e \in Edits : Compare(e) \/ Write(e) \/ BreakOff(e) \/ \E t \in Tickets : Preload(e, t)
  \/ \E t \in Tickets : Remove(t)
  \/ \E o \in Orders :
       PlaceOrder(o) \/ StartPayment(o) \/ PayOrder(o) \/ FailPayment(o) \/ EndOrder(o)

EditsSpec == EditsInit /\ [][EditsNext]_vars
-----------------------------------------------------------------------------
(***************************************************************************)
(* Properties.                                                             *)
(***************************************************************************)
EditTyped(k) ==
  \/ k = Idle
  \/ k \in [pc : {"compare"}, ticket : Tickets, sold : Nat, quota : Nat]
  \/ k \in [pc : {"write"}, ticket : Tickets, sold : Nat, quota : Nat,
            columns : (SUBSET Columns) \ {{}}]

\* Rows and requests have their types, and a request that is to write has something to.
TypeOK ==
  /\ status \in [Orders -> {"absent", "PENDING", "PAID", "EXPIRED", "CANCELLED"}]
  /\ sold \in [Tickets -> Nat] /\ quota \in [Tickets -> Nat]
  /\ {removed, raced, lowered, skipped} \subseteq SUBSET Tickets
  /\ paying \in SUBSET Orders /\ found \in [Orders -> SUBSET Tickets]
  /\ DOMAIN edit = Edits /\ \A e \in Edits : EditTyped(edit[e])

PaidUnits(t) ==
  SumFunctionOnSet([o \in Orders |-> Demand[o][t]], {o \in Orders : status[o] = "PAID"})

\* No edit takes a sale back, and no more is paid for than the quota allows, of tickets
\* that are removed and revived by edits too, unless a payment came between the two reads
\* of an edit (which then writes the `sold` of before: UPDATE guarded by `sold + quantity
\* <= quota` does not help), an administrator set the quota below what was sold, or an
\* order was paid that had not found the ticket because it was removed.
SalesSurviveEdits ==
  \A t \in Tickets \ (raced \cup skipped) :
    /\ sold[t] = PaidUnits(t)
    /\ t \notin lowered => PaidUnits(t) <= quota[t]
=============================================================================
