--------------------------- MODULE IdempotentCharge ---------------------------
(***************************************************************************)
(* What the payment service promises a client that repeats a checkout: an  *)
(* idempotency key is bound to one payment for good, and the provider is   *)
(* asked to charge it at most once.                                        *)
(***************************************************************************)
EXTENDS Naturals

CONSTANTS Keys, PaymentIds

VARIABLES
    bound,   \* the payments each key is bound to
    charges  \* how often each payment was charged

vars == <<bound, charges>>

Init ==
    /\ bound   = [k \in Keys |-> {}]
    /\ charges = [i \in PaymentIds |-> 0]

\* An unused key is bound to a payment no other key is bound to.
Bind(k) ==
    /\ bound[k] = {}
    /\ \E i \in PaymentIds :
          /\ \A other \in Keys : i \notin bound[other]
          /\ bound' = [bound EXCEPT ![k] = {i}]
    /\ UNCHANGED charges

ChargeBound(k) ==
    /\ \E i \in bound[k] :
          /\ charges[i] = 0
          /\ charges' = [charges EXCEPT ![i] = 1]
    /\ UNCHANGED bound

Next == \E k \in Keys : Bind(k) \/ ChargeBound(k)

Spec == Init /\ [][Next]_vars

=============================================================================
