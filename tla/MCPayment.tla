------------------------------ MODULE MCPayment ------------------------------
(***************************************************************************)
(* TLC instance of Payment.  A behaviour is either concurrent, with at     *)
(* most MaxCalls calls, or each call waits until the handlers before it    *)
(* have ended, with at most MaxAlone calls.                                *)
(***************************************************************************)
EXTENDS Payment, TLC

CONSTANTS MaxCalls, MaxAlone

VARIABLES
    calls, \* how many calls there were
    alone  \* whether one handler runs at a time

mcVars == <<vars, calls, alone>>

MCInit == Init /\ calls = 0 /\ alone \in BOOLEAN

Admitted ==
    IF alone THEN calls < MaxAlone /\ \A w \in Workers : pc[w] = "idle"
             ELSE calls < MaxCalls

MCCall(w) ==
    /\ Admitted
    /\ calls' = calls + 1
    /\ Request(w) \/ \E i \in PaymentIds : Webhook(w, i)
    /\ UNCHANGED alone

MCInternal ==
    /\ UNCHANGED <<calls, alone>>
    /\ \/ \E w \in Workers : RejectInput(w) \/ Step(w) \/ StepError(w)
       \/ Crash
       \/ \E k \in Keys : ExpireKey(k)

MCNext == (\E w \in Workers : MCCall(w)) \/ MCInternal

MCSpec == MCInit /\ [][MCNext]_mcVars

Symmetry == Permutations(Workers) \cup Permutations(Keys) \cup Permutations(PaymentIds)

\* Handlers that run one at a time move a payment through its life cycle and
\* write one refunds row, whatever fails in each.
AloneFollowsLifecycle == [][alone => [Lifecycle!Next]_(Lifecycle!vars)]_mcVars

\* A payment that is confirmed after it has succeeded, by a handler or by the
\* provider's webhook, publishes nothing and sends no second receipt.
AloneSucceedsOnce == alone => SucceedsOnce
=============================================================================
