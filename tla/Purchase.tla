------------------------------- MODULE Purchase -------------------------------
(***************************************************************************)
(* What a checkout promises about money and orders, whichever services,    *)
(* messages and browsers take part: each stage of a purchase follows the   *)
(* stage before it, and none is taken back.                                *)
(***************************************************************************)

CONSTANT OrderIds

VARIABLES
    placed,    \* the orders that were placed
    paidFor,   \* those with a payment that has succeeded
    announced, \* those the order service was told are paid
    settled    \* those it has marked as paid for that reason

vars == <<placed, paidFor, announced, settled>>

Init == placed = {} /\ paidFor = {} /\ announced = {} /\ settled = {}

Place(o) ==
    /\ placed' = placed \cup {o}
    /\ UNCHANGED <<paidFor, announced, settled>>

PayFor(o) ==
    /\ o \in placed
    /\ paidFor' = paidFor \cup {o}
    /\ UNCHANGED <<placed, announced, settled>>

Announce(o) ==
    /\ o \in paidFor
    /\ announced' = announced \cup {o}
    /\ UNCHANGED <<placed, paidFor, settled>>

Settle(o) ==
    /\ o \in announced
    /\ settled' = settled \cup {o}
    /\ UNCHANGED <<placed, paidFor, announced>>

Next == \E o \in OrderIds : Place(o) \/ PayFor(o) \/ Announce(o) \/ Settle(o)

Spec == Init /\ [][Next]_vars

=============================================================================
