------------------------------ MODULE OrderBook ------------------------------
(***************************************************************************)
(* What an order promises, without stores, calls or stages: an order is    *)
(* placed, and then it is either paid, which counts its units into `sold`  *)
(* in the same step and never beyond the quota, or ended unpaid.  Paid,    *)
(* expired and cancelled are final.  Orders never change a quota.          *)
(***************************************************************************)
EXTENDS Integers

CONSTANTS
  Tickets, Orders,
  Quota,    \* Quota[t]: units of ticket t on sale to begin with
  Demand    \* Demand[o][t]: units of ticket t that order o asks for

VARIABLES status, sold, quota

bookVars == <<status, sold, quota>>

Init ==
  /\ status = [o \in Orders |-> "absent"]
  /\ sold = [t \in Tickets |-> 0]
  /\ quota = Quota

Place(o) ==
  /\ status[o] = "absent"
  /\ status' = [status EXCEPT ![o] = "PENDING"]
  /\ UNCHANGED <<sold, quota>>

\* The order is paid, and `units` of each ticket are sold by it.
PayFor(o, units) ==
  /\ status[o] = "PENDING"
  /\ \A t \in Tickets : units[t] # 0 => sold[t] + units[t] <= quota[t]
  /\ sold' = [t \in Tickets |-> sold[t] + units[t]]
  /\ status' = [status EXCEPT ![o] = "PAID"]
  /\ UNCHANGED quota

Pay(o) == PayFor(o, Demand[o])

End(o) ==
  /\ status[o] = "PENDING"
  /\ \E s \in {"EXPIRED", "CANCELLED"} : status' = [status EXCEPT ![o] = s]
  /\ UNCHANGED <<sold, quota>>

Next == \E o \in Orders : Place(o) \/ Pay(o) \/ End(o)

Spec == Init /\ [][Next]_bookVars
=============================================================================
