------------------------------ MODULE MCCheckout ------------------------------
(***************************************************************************)
(* TLC instance of Checkout: at most MaxInputs checkouts and, in a         *)
(* behaviour that is not calm, calls of others and of the provider,        *)
(* MaxVisits of them at most, and at most MaxTroubles failures.            *)
(***************************************************************************)
EXTENDS Checkout, TLC

CONSTANTS MaxInputs, MaxVisits, MaxTroubles

VARIABLES
    taps,     \* how many checkouts there were
    visits,   \* how many calls of others and of the provider
    troubles, \* how many failures
    calm      \* whether nothing fails and nobody else calls

bounds == <<taps, visits, troubles, calm>>
mcVars == <<vars, bounds>>

ASSUME SomeWorker == Workers # {}

\* Handlers are alike: a request runs in one that is free, always the same.
Free(pc) == CHOOSE w \in Workers : Idle(pc, w) \/ \A other \in Workers : ~Idle(pc, other)

\* New ids are alike as well: the next is always the same.  An order may also
\* get an id that is in use.
UsedOrders ==
    {o \in OrderIds : \/ orders[o] # None
                      \/ \E w \in Workers : ordPc[w] # "idle" /\ ordJob[w].order = o}
NextOrder   == CHOOSE o \in OrderIds : o \notin UsedOrders \/ UsedOrders = OrderIds
NextPayment ==
    CHOOSE i \in PaymentIds : ~Pay!Exists(i) \/ \A other \in PaymentIds : Pay!Exists(other)

NewOrderIsNext(c) == current'[c] \in UsedOrders \cup {NextOrder}
NewPaymentIsNext  == \A i \in PaymentIds : Pay!Exists(i)' => Pay!Exists(i) \/ i = NextPayment

MCInit == Init /\ taps = 0 /\ visits = 0 /\ troubles = 0 /\ calm \in BOOLEAN

MCTap ==
    /\ taps + visits < MaxInputs
    /\ taps' = taps + 1
    /\ \E c \in Customers : Tap(c, Free(ordPc)) /\ NewOrderIsNext(c)
    /\ UNCHANGED <<visits, troubles, calm>>

MCVisit ==
    /\ ~calm /\ visits < MaxVisits /\ taps + visits < MaxInputs
    /\ visits' = visits + 1
    /\ \/ ChangeOrder(Free(ordPc))
       \/ \E i \in PaymentIds : ChangePayment(Free(payPc), i)
    /\ UNCHANGED <<taps, troubles, calm>>

MCTrouble ==
    /\ ~calm /\ troubles < MaxTroubles
    /\ troubles' = troubles + 1
    /\ Trouble
    /\ UNCHANGED <<taps, visits, calm>>

\* The order service's cache and its own events, which nobody reads here,
\* fail all the time.
Muted == UNCHANGED <<cache, ordPublished>>

MCSystem ==
    /\ \/ \E c \in Customers : Poll(c) \/ SendPayment(c, Free(payPc))
       \/ \E w \in Workers : Muted /\ OrderStep(w)
       \/ \E w \in Workers : PaymentStep(w) /\ NewPaymentIsNext
       \/ \E s \in Ord!Subscribers : Muted /\ OrderReacts(s)
    /\ UNCHANGED bounds

MCNext == MCTap \/ MCVisit \/ MCTrouble \/ MCSystem

MCSpec == MCInit /\ [][MCNext]_mcVars

\* Whoever can go on, somebody does: a handler, a subscription or a browser.
\* There is an end to what they do, so nobody needs fairness of its own.
MCFairSpec == MCSpec /\ WF_mcVars(MCSystem)

\* An order is settled once by the events, as long as only browsers call: a
\* Confirm beside a Create, and a webhook, publish an outcome of their own.
OwnSettlesOnce == visits = 0 => SettledOnce

\* docs/demo-workflow.md: "payment.succeeded event updates order to paid".
\* While nothing fails and nobody else calls, a payment that succeeds makes its
\* order paid.
CalmSuccessIsPaid == \A o \in OrderIds : calm /\ Succeeds(o) ~> IsPaid(o)
=============================================================================
