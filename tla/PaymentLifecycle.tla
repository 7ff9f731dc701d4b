--------------------------- MODULE PaymentLifecycle ---------------------------
(***************************************************************************)
(* The life of a payment as Create, Refund, Confirm and Cancel mean it:    *)
(* the moves of its status, and one refunds row for a refunded payment.    *)
(***************************************************************************)
EXTENDS Naturals

CONSTANT PaymentIds

VARIABLES
    status,  \* the status of each payment, or "absent"
    refunds  \* refunds rows written for each payment

vars == <<status, refunds>>

Init ==
    /\ status  = [i \in PaymentIds |-> "absent"]
    /\ refunds = [i \in PaymentIds |-> 0]

Become(i, from, to) ==
    /\ status[i] \in from
    /\ status' = [status EXCEPT ![i] = to]
    /\ UNCHANGED refunds

Open(i)    == Become(i, {"absent"}, "pending")
Succeed(i) == Become(i, {"pending"}, "succeeded")
Fail(i)    == Become(i, {"pending"}, "failed")
Cancel(i)  == Become(i, {"pending", "succeeded", "failed"}, "cancelled")
Refund(i)  == Become(i, {"succeeded"}, "refunded")

RecordRefund(i) ==
    /\ status[i] = "refunded" /\ refunds[i] = 0
    /\ refunds' = [refunds EXCEPT ![i] = 1]
    /\ UNCHANGED status

Next == \E i \in PaymentIds :
    Open(i) \/ Succeed(i) \/ Fail(i) \/ Cancel(i) \/ Refund(i) \/ RecordRefund(i)

Spec == Init /\ [][Next]_vars

=============================================================================
