--------------------------- MODULE MCOrderService ---------------------------
(***************************************************************************)
(* TLC instance of OrderService: requests and payment events, at most      *)
(* MaxInputs together and at most MaxEvents events.  In a behaviour that   *)
(* is alone, a request waits until those before it have ended; the two     *)
(* subscriptions go on beside it.                                          *)
(***************************************************************************)
EXTENDS OrderService, TLC

CONSTANTS MaxInputs, MaxEvents

VARIABLES
    calls,      \* how many requests there were
    eventCount, \* how many payment events
    alone       \* whether one request runs at a time

bounds == <<calls, eventCount, alone>>
mcVars == <<vars, bounds>>

MCInit == Init /\ calls = 0 /\ eventCount = 0 /\ alone \in BOOLEAN

MCRequest ==
    /\ calls + eventCount < MaxInputs
    /\ alone => \A w \in Workers : pc[w] = "idle"
    /\ calls' = calls + 1
    /\ \E w \in Workers : Request(w)
    /\ UNCHANGED <<eventCount, alone>>

MCPaymentEvent ==
    /\ eventCount < MaxEvents /\ calls + eventCount < MaxInputs
    /\ eventCount' = eventCount + 1
    /\ \E s \in Subscribers, o \in OrderIds : PaymentEvent(s, o)
    /\ UNCHANGED <<calls, alone>>

MCNext == MCRequest \/ MCPaymentEvent \/ (Internal /\ UNCHANGED bounds)

MCSpec == MCInit /\ [][MCNext]_mcVars

Symmetry == Permutations(Workers) \cup Permutations(OrderIds)

\* While requests come one at a time, Cancel leaves an order alone that is
\* completed or cancelled, also beside the handlers of payment events.
AloneCancelsOnlyOpen == alone => CancelledOnlyOpen
=============================================================================
