------------------------------- MODULE Checkout -------------------------------
(***************************************************************************)
(* A purchase from the tap on "Pay" to the notice the customer reads: the  *)
(* browser (frontend/src/App.tsx), the order service and the payment       *)
(* service, which meet in the order id, in the idempotency key             *)
(* "web-<order id>" and in the events payment.succeeded and                *)
(* payment.failed.                                                         *)
(*                                                                         *)
(* Both services are the modules OrderService and Payment.  A request of   *)
(* the browser runs in one handler of a service; when the browser loses    *)
(* the answer, the handler is left to itself.  Beside the browser, others  *)
(* call what the gateway offers for orders and payments that are there.    *)
(* Left out are payments that no browser asked for, requests that are      *)
(* refused at once, and the expiry of a status cache that nobody reads.    *)
(***************************************************************************)
EXTENDS Naturals, FiniteSets

CONSTANTS
    Customers,  \* browsers
    Workers,    \* request handlers of each service
    OrderIds,   \* order ids; an order's id is also its payment's key
    PaymentIds,
    Polls,      \* how often a browser asks whether its order is paid: 10
    None

ASSUME PollsIsPositive == Polls \in Nat \ {0}

VARIABLES
    \* the payment service
    payments, idempotency, logged, refunds, payPublished, emails, charges,
    payPc, payArg, payP, payReply,
    \* the order service
    orders, history, lock, cache, sent, inbox, ordPublished, ordPc, ordJob,
    \* the browsers
    screen,   \* what a browser is doing
    current,  \* the order of its latest checkout
    served,   \* the handler its open request runs in
    polls,    \* how often it may still ask for the order
    attempts, \* the orders it has placed for the cart it holds
    notice    \* how its latest checkout ended

payVars == <<payments, idempotency, logged, refunds, payPublished, emails, charges,
             payPc, payArg, payP, payReply>>
ordVars == <<orders, history, lock, cache, sent, inbox, ordPublished, ordPc, ordJob>>
webVars == <<screen, current, served, polls, attempts, notice>>
vars    == <<payVars, ordVars, webVars>>

Pay == INSTANCE Payment WITH
    Keys <- OrderIds, published <- payPublished, pc <- payPc, arg <- payArg,
    p <- payP, reply <- payReply

Ord == INSTANCE OrderService WITH
    published <- ordPublished, pc <- ordPc, job <- ordJob

ASSUME NoneIsNothing ==
    /\ None \notin Customers \cup Workers \cup OrderIds \cup PaymentIds
    /\ None \notin Pay!PaymentRecord \cup Ord!Status \cup Ord!Jobs \cup Ord!Subscribers
    /\ Workers \cap Ord!Subscribers = {}

ASSUME FiniteWorkers == IsFiniteSet(Workers)

Screens == {"cart", "ordering", "ordered", "paying", "waiting"}
Notices == {"none", "accepted", "failed"}

Init ==
    /\ Pay!Init /\ Ord!Init
    /\ screen   = [c \in Customers |-> "cart"]
    /\ current  = [c \in Customers |-> None]
    /\ served   = [c \in Customers |-> None]
    /\ polls    = [c \in Customers |-> 0]
    /\ attempts = [c \in Customers |-> {}]
    /\ notice   = [c \in Customers |-> "none"]

-----------------------------------------------------------------------------
(* The browser *)

Show(c, s) == screen' = [screen EXCEPT ![c] = s]

\* The checkout throws: the notice says "Checkout failed" and the cart stays.
GiveUp(c) ==
    /\ Show(c, "cart")
    /\ served' = [served EXCEPT ![c] = None]
    /\ notice' = [notice EXCEPT ![c] = "failed"]
    /\ UNCHANGED <<current, polls, attempts>>

\* The checkout returns: the notice says "Payment accepted", the cart is empty.
Accept(c) ==
    /\ Show(c, "cart")
    /\ notice'   = [notice EXCEPT ![c] = "accepted"]
    /\ attempts' = [attempts EXCEPT ![c] = {}]
    /\ UNCHANGED <<current, served, polls>>

Idle(pc, w) == pc[w] = "idle" /\ \A c \in Customers : served[c] # w

\* The button is disabled while a checkout runs.  Every tap places an order.
Tap(c, w) ==
    /\ screen[c] = "cart" /\ Idle(ordPc, w)
    /\ Ord!Create(w)
    /\ Show(c, "ordering")
    /\ current' = [current EXCEPT ![c] = ordJob'[w].order]
    /\ served'  = [served EXCEPT ![c] = w]
    /\ notice'  = [notice EXCEPT ![c] = "none"]
    /\ UNCHANGED <<polls, attempts, payVars>>

\* The order has come back; the payment is requested under the order's key.
SendPayment(c, w) ==
    /\ screen[c] = "ordered" /\ Idle(payPc, w)
    /\ Pay!Call(w, "create", current[c])
    /\ Show(c, "paying")
    /\ served' = [served EXCEPT ![c] = w]
    /\ UNCHANGED <<current, polls, attempts, notice, ordVars>>

\* Mutant: the browser waits until the order is paid.
PollUntilPaid(c) ==
    /\ screen[c] = "waiting"
    /\ \/ orders[current[c]] = "paid" /\ Accept(c)
       \/ orders[current[c]] # "paid" /\ UNCHANGED webVars
    /\ UNCHANGED <<payVars, ordVars>>

\* waitForPaidOrder: it ends with the order when it is paid, and without it
\* after the last question.
Poll(c) ==
    /\ screen[c] = "waiting"
    /\ \/ /\ orders[current[c]] = "paid" \/ polls[c] = 1
          /\ Accept(c)
       \/ /\ orders[current[c]] # "paid" /\ polls[c] > 1
          /\ polls' = [polls EXCEPT ![c] = @ - 1]
          /\ UNCHANGED <<screen, current, served, attempts, notice>>
    /\ UNCHANGED <<payVars, ordVars>>

\* A request fails on its way: the connection, the gateway or a service that
\* is not up.  A handler that has begun goes on or is cancelled (Fail and
\* StepError of its service).
LoseConnection(c) ==
    /\ screen[c] # "cart"
    /\ GiveUp(c)
    /\ UNCHANGED <<payVars, ordVars>>

-----------------------------------------------------------------------------
(* The order service: a Create that gets to its last step has succeeded.     *)

OrderEnds(w, how) ==
    \/ /\ \E c \in Customers :
              /\ served[c] = w /\ screen[c] = "ordering"
              /\ ordPc'[w] = "idle"
              /\ \/ /\ how = "ok"
                    /\ Show(c, "ordered")
                    /\ served'   = [served EXCEPT ![c] = None]
                    /\ attempts' = [attempts EXCEPT ![c] = @ \cup {current[c]}]
                    /\ UNCHANGED <<current, polls, notice>>
                 \/ how = "error" /\ GiveUp(c)
    \/ /\ ordPc'[w] # "idle" \/ \A c \in Customers : ~(served[c] = w /\ screen[c] = "ordering")
       /\ UNCHANGED webVars

OrderStep(w) ==
    /\ Ord!Step(w)
    /\ OrderEnds(w, IF ordPc[w] = "publish" THEN "ok" ELSE "error")
    /\ UNCHANGED payVars

OrderFails(w) ==
    /\ Ord!Fail(w)
    /\ OrderEnds(w, "error")
    /\ UNCHANGED payVars

\* The subscriptions, on their own
OrderReacts(s) ==
    /\ Ord!Consume(s) \/ Ord!Step(s)
    /\ UNCHANGED <<payVars, webVars>>

\* Somebody else calls the gateway, which has any status set or an order
\* cancelled, beside its payment.
ChangeOrder(w) ==
    /\ Idle(ordPc, w)
    /\ Ord!UpdateStatus(w) \/ Ord!Cancel(w)
    /\ UNCHANGED <<payVars, webVars>>

\* What a subscription was told is lost, before it is read or while it is
\* handled.
LoseEvent(s) ==
    /\ Ord!Fail(s) \/ \E o \in OrderIds : Ord!Lose(s, o)
    /\ UNCHANGED <<payVars, webVars>>

\* Browsers whose request runs in a service that dies are told of an error.
Abandon(s) ==
    LET cut == {c \in Customers : screen[c] = s}
    IN  /\ screen' = [c \in Customers |-> IF c \in cut THEN "cart" ELSE screen[c]]
        /\ served' = [c \in Customers |-> IF c \in cut THEN None ELSE served[c]]
        /\ notice' = [c \in Customers |-> IF c \in cut THEN "failed" ELSE notice[c]]
        /\ UNCHANGED <<current, polls, attempts>>

OrderCrash == Ord!Crash /\ Abandon("ordering") /\ UNCHANGED payVars

-----------------------------------------------------------------------------
(* The payment service *)

\* Mutant: the two subjects are swapped.
SubjectsSwapped == [s \in {"succeeded", "failed"} |->
                       IF s = "failed" THEN "payment.succeeded" ELSE "payment.failed"]

\* The subject each outcome is published on.  payment.created, .refunded and
\* .cancelled have no subscriber here.
SubjectOf == [s \in {"succeeded", "failed"} |->
                 IF s = "succeeded" THEN "payment.succeeded" ELSE "payment.failed"]

\* Mutant: nobody listens to payment.succeeded.
DeliverFailures(w) ==
    IF payPc[w] = "publish" /\ payP[w].status = "failed"
    THEN Ord!PaymentEvent("payment.failed", payP[w].key)
    ELSE UNCHANGED ordVars

\* What the payment service publishes for an outcome reaches the order
\* service's subscription.
Deliver(w) ==
    IF payPc[w] = "publish" /\ payP[w].status \in DOMAIN SubjectOf
    THEN Ord!PaymentEvent(SubjectOf[payP[w].status], payP[w].key)
    ELSE UNCHANGED ordVars

\* A payment has come back to the browser, whatever its status is.
PaymentEnds(w) ==
    \/ \E c \in Customers :
           /\ served[c] = w /\ screen[c] = "paying"
           /\ payPc'[w] = "idle"
           /\ \/ /\ payReply'[w] = "ok"
                 /\ Show(c, "waiting")
                 /\ served' = [served EXCEPT ![c] = None]
                 /\ polls'  = [polls EXCEPT ![c] = Polls]
                 /\ UNCHANGED <<current, attempts, notice>>
              \/ payReply'[w] # "ok" /\ GiveUp(c)
    \/ /\ payPc'[w] # "idle" \/ \A c \in Customers : ~(served[c] = w /\ screen[c] = "paying")
       /\ UNCHANGED webVars

PaymentStep(w) == Pay!Step(w) /\ Deliver(w) /\ PaymentEnds(w)

PaymentFails(w) == Pay!StepError(w) /\ PaymentEnds(w) /\ UNCHANGED ordVars

\* Somebody else calls the gateway, which has a payment refunded, confirmed
\* or cancelled, or the provider reports its outcome to the webhook.  The id
\* of a payment is known when there is one.
ChangePayment(w, i) ==
    /\ Idle(payPc, w) /\ Pay!Exists(i)
    /\ \/ \E op \in {"refund", "confirm", "cancel"} : Pay!Call(w, op, i)
       \/ Pay!Webhook(w, i)
    /\ UNCHANGED <<ordVars, webVars>>

PaymentCrash == Pay!Crash /\ Abandon("paying") /\ UNCHANGED ordVars

ExpireKey(k) == Pay!ExpireKey(k) /\ UNCHANGED <<ordVars, webVars>>

-----------------------------------------------------------------------------

Browse(c) == Poll(c) \/ \E w \in Workers : SendPayment(c, w)

Serve(w) == OrderStep(w) \/ PaymentStep(w)

Trouble ==
    \/ \E c \in Customers : LoseConnection(c)
    \/ \E w \in Workers : OrderFails(w) \/ PaymentFails(w)
    \/ \E s \in Ord!Subscribers : LoseEvent(s)
    \/ \E k \in OrderIds : ExpireKey(k)
    \/ OrderCrash \/ PaymentCrash

Next ==
    \/ \E c \in Customers, w \in Workers : Tap(c, w)
    \/ \E c \in Customers : Browse(c)
    \/ \E w \in Workers : Serve(w) \/ ChangeOrder(w)
    \/ \E w \in Workers, i \in PaymentIds : ChangePayment(w, i)
    \/ \E s \in Ord!Subscribers : OrderReacts(s)
    \/ Trouble

Spec == Init /\ [][Next]_vars

-----------------------------------------------------------------------------
(* Properties *)

\* The payments requested for an order.
PaymentsOf(o) == {i \in PaymentIds : Pay!Exists(i) /\ payments[i].key = o}

\* Nobody is told "Payment accepted" for an order whose outcome the payment
\* service has not published: every failure before that reaches the browser.
AcceptedWasAnnounced ==
    \A c \in Customers : notice[c] = "accepted" =>
        \E s \in Ord!Subscribers : sent[s][current[c]] > 0

\* An order is settled by one event, paid or failed, and not twice or both.
SettledOnce ==
    \A o \in OrderIds :
        Cardinality(UNION {Ord!EntriesBy(o, s) : s \in Ord!Subscribers}) <= 1

\* The purchase goes through its stages in order, whatever fails and whatever
\* others do to its order and its payment: the event that marks an order paid
\* was published, and only for a payment of that order which has succeeded, by
\* the provider's answer or a Confirm.  An order that somebody sets to paid by
\* hand is not settled by that.
Promise == INSTANCE Purchase WITH
    placed    <- {o \in OrderIds : orders[o] # None},
    paidFor   <- {o \in OrderIds : \E i \in PaymentsOf(o) : logged[i]["succeeded"] > 0},
    announced <- {o \in OrderIds : sent["payment.succeeded"][o] > 0},
    settled   <- {o \in OrderIds : Ord!EntriesBy(o, "payment.succeeded") # {}}

FollowsPurchase == Promise!Spec

\* A checkout comes to an end, whatever fails in the services behind it.
CheckoutEnds == \A c \in Customers : screen[c] # "cart" ~> screen[c] = "cart"

\* The payment of an order has succeeded, and the order is paid.
Succeeds(o) == \E i \in PaymentsOf(o) : Pay!StatusOf(i) = "succeeded"
IsPaid(o)   == orders[o] = "paid"

-----------------------------------------------------------------------------
(* What the screen says, which holds of a checkout that nothing disturbs.   *)

\* App.tsx: "repeated taps do not create duplicate charges".  Of the orders a
\* customer placed for one cart, one payment has succeeded at most.
ChargedOncePerCart ==
    \A c \in Customers : Cardinality({o \in attempts[c] : Succeeds(o)}) <= 1

\* App.tsx: "Payment accepted ... Receipt email sent to ...".
ReceiptWasSent ==
    \A c \in Customers : notice[c] = "accepted" =>
        \E i \in PaymentsOf(current[c]) : emails[i]["succeeded"] > 0

=============================================================================
