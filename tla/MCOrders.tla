------------------------------ MODULE MCOrders ------------------------------
(***************************************************************************)
(* Instances of OrderLifecycle for TLC.                                    *)
(***************************************************************************)
EXTENDS OrderLifecycle, TLC

CONSTANTS a, b, o1, o2   \* tickets and orders

Line(t, q) == [ticket |-> t, qty |-> q]

\* One ticket type, two orders that do not fit together; the first names its
\* ticket on two lines.
OneTicket == {a}
TwoOrders == {o1, o2}
QuotaOne == [t \in {a} |-> 4]
ItemsOne == (o1 :> <<Line(a, 1), Line(a, 1)>>) @@ (o2 :> <<Line(a, 3)>>)

\* Two ticket types, two orders that name them in opposite order and do not fit together.
TwoTickets == {a, b}
QuotaTwo == (a :> 2) @@ (b :> 2)
ItemsTwo == (o1 :> <<Line(a, 1), Line(b, 2)>>) @@ (o2 :> <<Line(b, 1), Line(a, 1)>>)

\* One order by itself.
OneOrder == {o1}
ItemsLone == o1 :> <<Line(a, 2)>>

\* Calls are interchangeable.  No liveness is checked under symmetry.
Symmetry == Permutations(Workers)
=============================================================================
