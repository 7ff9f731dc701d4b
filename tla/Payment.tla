------------------------------- MODULE Payment -------------------------------
(***************************************************************************)
(* The payment service: Create, Refund, Confirm and Cancel of              *)
(* payment-service/internal/payment/service.go, run by concurrent request  *)
(* handlers over a PostgreSQL row per payment, a Redis idempotency key, an *)
(* event log, core NATS, the payment provider and the SMTP service.        *)
(*                                                                         *)
(* A handler holds no lock and no transaction across its calls.  It is     *)
(* therefore one action per call to a repository, Redis, NATS, the         *)
(* provider or the SMTP service, with the Payment struct it carries in     *)
(* memory (p) between them.  Any of those calls may return an error, with  *)
(* or without having taken effect, and the process may crash: the handler  *)
(* then stops where it is and leaves behind what it already did.           *)
(***************************************************************************)
EXTENDS Naturals, FiniteSets

CONSTANTS
    Workers,     \* request handlers running at the same time
    Keys,        \* idempotency keys the clients send
    PaymentIds,  \* the ids uuid.NewString() may hand out
    None         \* no row, no Redis entry, no struct

Status == {"pending", "succeeded", "failed", "refunded", "cancelled"}

\* Where a provider_transaction_id came from: Charge's result or the argument
\* of Confirm.
Transaction == {"none", "charge", "webhook"}

\* A payment: a row of the table, and the struct a handler holds.  The reasons
\* are kept as "the column is not empty".
PaymentRecord ==
    [id : PaymentIds, key : Keys, status : Status, transaction : Transaction,
     refundReason : BOOLEAN, failureReason : BOOLEAN]

ASSUME NoneAssumption ==
    None \notin PaymentIds /\ None \notin Keys /\ None \notin PaymentRecord

ASSUME FiniteWorkers == IsFiniteSet(Workers)

VARIABLES
    payments,   \* table payments: the row of each id
    idempotency,\* Redis: payment id saved under each idempotency key
    logged,     \* table payment_events: rows per payment and status
    refunds,    \* table refunds: rows per payment
    published,  \* NATS messages handed to the connection, per payment and status
    emails,     \* emails sent, per payment and status
    charges,    \* calls of the provider's Charge, per payment
    pc,         \* what each handler does next
    arg,        \* the idempotency key or the payment id the handler works for
    p,          \* the handler's local Payment struct
    reply       \* how the handler's last call was answered

storage == <<payments, idempotency, logged, refunds>>
effects == <<published, emails, charges>>
control == <<pc, arg, p, reply>>
vars    == <<storage, effects, control>>

Operations == {"create", "refund", "confirm", "cancel"}
Labels     == Operations \cup {"idle", "fetch", "insert", "save", "log",
                               "refundRow", "publish", "charge", "update", "email"}
\* Labels at which the handler has a Payment struct
Holding    == {"save", "log", "refundRow", "publish", "charge", "update", "email"}
Replies    == {"none", "ok", "rejected", "duplicate", "error"}

Init ==
    /\ payments    = [i \in PaymentIds |-> None]
    /\ idempotency = [k \in Keys |-> None]
    /\ logged      = [i \in PaymentIds |-> [s \in Status |-> 0]]
    /\ refunds     = [i \in PaymentIds |-> 0]
    /\ published   = [i \in PaymentIds |-> [s \in Status |-> 0]]
    /\ emails      = [i \in PaymentIds |-> [s \in Status |-> 0]]
    /\ charges     = [i \in PaymentIds |-> 0]
    /\ pc          = [w \in Workers |-> "idle"]
    /\ arg         = [w \in Workers |-> None]
    /\ p           = [w \in Workers |-> None]
    /\ reply       = [w \in Workers |-> "none"]

Exists(i)   == payments[i] # None
StatusOf(i) == IF Exists(i) THEN payments[i].status ELSE "absent"

-----------------------------------------------------------------------------
(* A handler moves on with struct x, or returns. *)

Proceed(w, label, x) ==
    /\ pc' = [pc EXCEPT ![w] = label]
    /\ p'  = [p EXCEPT ![w] = x]
    /\ UNCHANGED <<arg, reply>>

\* Mutant: the handler's struct outlives the call.
ReturnKeepingStruct(w, r) ==
    /\ pc'    = [pc EXCEPT ![w] = "idle"]
    /\ arg'   = [arg EXCEPT ![w] = None]
    /\ reply' = [reply EXCEPT ![w] = r]
    /\ UNCHANGED p

Return(w, r) ==
    /\ pc'    = [pc EXCEPT ![w] = "idle"]
    /\ arg'   = [arg EXCEPT ![w] = None]
    /\ p'     = [p EXCEPT ![w] = None]
    /\ reply' = [reply EXCEPT ![w] = r]

\* A request passes the service's input checks and its handler starts.
Call(w, op, x) ==
    /\ pc[w] = "idle"
    /\ pc'    = [pc EXCEPT ![w] = op]
    /\ arg'   = [arg EXCEPT ![w] = x]
    /\ reply' = [reply EXCEPT ![w] = "none"]
    /\ UNCHANGED <<p, storage, effects>>

\* A request with an empty or unknown field is answered with ErrInvalidInput
\* before anything is read.
RejectInput(w) ==
    /\ pc[w] = "idle"
    /\ Return(w, "rejected")
    /\ UNCHANGED <<storage, effects>>

-----------------------------------------------------------------------------
(* Create *)

\* idempotency.GetPaymentID
LookUpKey(w) ==
    /\ pc[w] = "create"
    /\ \/ /\ idempotency[arg[w]] = None
          /\ Proceed(w, "insert", None)
       \/ /\ idempotency[arg[w]] # None
          /\ pc'  = [pc EXCEPT ![w] = "fetch"]
          /\ arg' = [arg EXCEPT ![w] = idempotency[arg[w]]]
          /\ UNCHANGED <<p, reply>>
    /\ UNCHANGED <<storage, effects>>

\* The key is known: the stored payment is the answer.
FetchExisting(w) ==
    /\ pc[w] = "fetch"
    /\ Return(w, IF Exists(arg[w]) THEN "ok" ELSE "rejected")
    /\ UNCHANGED <<storage, effects>>

\* Mutant: idempotency_key is not unique.
KeyNeverTaken(k) == FALSE

KeyTaken(k) == \E i \in PaymentIds : Exists(i) /\ payments[i].key = k

\* The struct is built with a fresh id and inserted; idempotency_key is a
\* unique column, so a second insert of the same key is an error.
InsertPayment(w) ==
    /\ pc[w] = "insert"
    /\ \/ /\ ~KeyTaken(arg[w])
          /\ \E i \in PaymentIds :
                /\ ~Exists(i)
                /\ LET new == [id |-> i, key |-> arg[w], status |-> "pending",
                               transaction |-> "none",
                               refundReason |-> FALSE, failureReason |-> FALSE]
                   IN  /\ payments' = [payments EXCEPT ![i] = new]
                       /\ Proceed(w, "save", new)
       \/ /\ KeyTaken(arg[w])
          /\ Return(w, "duplicate")
          /\ UNCHANGED payments
    /\ UNCHANGED <<idempotency, logged, refunds, effects>>

\* Mutant: the Redis key does not contain the idempotency key.
SaveUnderEveryKey(w) ==
    /\ pc[w] = "save"
    /\ idempotency' = [k \in Keys |-> p[w].id]
    /\ Proceed(w, "log", p[w])
    /\ UNCHANGED <<payments, logged, refunds, effects>>

\* idempotency.SavePaymentID: an unconditional SET with a TTL
SaveKey(w) ==
    /\ pc[w] = "save"
    /\ idempotency' = [idempotency EXCEPT ![arg[w]] = p[w].id]
    /\ Proceed(w, "log", p[w])
    /\ UNCHANGED <<payments, logged, refunds, effects>>

\* Mutant: an outcome Create has no case for is stored instead of refused.
UncheckedOutcomes == {"succeeded", "failed", "pending"}

\* provider.Charge: the mock declines a wallet payment above its limit and
\* accepts anything else, so the outcome depends on data this model leaves out.
Outcomes == {"succeeded", "failed"}

Charged(x, outcome) ==
    [x EXCEPT !.status = outcome, !.transaction = "charge",
              !.failureReason = (outcome = "failed")]

\* Mutant: a charge whose answer is late is tried again.
ChargeAgain(w) ==
    /\ pc[w] = "charge"
    /\ charges' = [charges EXCEPT ![p[w].id] = @ + 1]
    /\ \/ \E outcome \in Outcomes : Proceed(w, "update", Charged(p[w], outcome))
       \/ Proceed(w, "charge", p[w])
    /\ UNCHANGED <<storage, published, emails>>

Charge(w) ==
    /\ pc[w] = "charge"
    /\ charges' = [charges EXCEPT ![p[w].id] = @ + 1]
    /\ \E outcome \in Outcomes : Proceed(w, "update", Charged(p[w], outcome))
    /\ UNCHANGED <<storage, published, emails>>

-----------------------------------------------------------------------------
(* Refund, Confirm and Cancel start by reading the row, deciding on the     *)
(* copy, and changing the copy.                                             *)

\* Mutant: the check of already refunded payments is dropped.
RefundableTwice == {"succeeded", "refunded"}

Refundable == {"succeeded"}

ReadForRefund(w) ==
    /\ pc[w] = "refund"
    /\ \/ /\ StatusOf(arg[w]) \in Refundable
          /\ Proceed(w, "update", [payments[arg[w]] EXCEPT !.status = "refunded",
                                                         !.refundReason = TRUE])
       \/ /\ StatusOf(arg[w]) \notin Refundable
          /\ Return(w, "rejected")
    /\ UNCHANGED <<storage, effects>>

\* Mutant: a succeeded payment is confirmed again.
ConfirmableTwice == {"pending", "succeeded"}

Confirmable == {"pending"}

\* An already confirmed payment is returned as it is, with no event or email.
ReadForConfirm(w) ==
    /\ pc[w] = "confirm"
    /\ \/ /\ StatusOf(arg[w]) = "succeeded"
          /\ Return(w, "ok")
       \/ /\ StatusOf(arg[w]) \in Confirmable
          /\ Proceed(w, "update", [payments[arg[w]] EXCEPT !.status = "succeeded",
                                                         !.transaction = "webhook"])
       \/ /\ StatusOf(arg[w]) \notin Confirmable \cup {"succeeded"}
          /\ Return(w, "rejected")
    /\ UNCHANGED <<storage, effects>>

Cancellable == Status \ {"refunded", "cancelled"}

ReadForCancel(w) ==
    /\ pc[w] = "cancel"
    /\ \/ /\ StatusOf(arg[w]) \in Cancellable
          /\ Proceed(w, "update", [payments[arg[w]] EXCEPT !.status = "cancelled",
                                                         !.failureReason = TRUE])
       \/ /\ StatusOf(arg[w]) \notin Cancellable
          /\ Return(w, "rejected")
    /\ UNCHANGED <<storage, effects>>

-----------------------------------------------------------------------------
(* What every operation does with its struct.                               *)

\* Mutant: the update leaves failure_reason out.
OverwriteExceptFailure(row, x) ==
    [row EXCEPT !.status = x.status, !.transaction = x.transaction,
                !.refundReason = x.refundReason]

Overwrite(row, x) ==
    [row EXCEPT !.status = x.status, !.transaction = x.transaction,
                !.refundReason = x.refundReason, !.failureReason = x.failureReason]

\* repo.Update: overwrites the mutable columns of the row with this id,
\* whatever they are now.  No code deletes rows, so the row is there.
UpdateRow(w) ==
    /\ pc[w] = "update"
    /\ payments' = [payments EXCEPT ![p[w].id] = Overwrite(@, p[w])]
    /\ Proceed(w, "log", p[w])
    /\ UNCHANGED <<idempotency, logged, refunds, effects>>

\* Mutant: a refund is logged without its refunds row.
AfterLogNoRefund(s) == "publish"

AfterLog(s) == IF s = "refunded" THEN "refundRow" ELSE "publish"

\* repo.AppendEvent, first insert
LogEvent(w) ==
    /\ pc[w] = "log"
    /\ logged' = [logged EXCEPT ![p[w].id][p[w].status] = @ + 1]
    /\ Proceed(w, AfterLog(p[w].status), p[w])
    /\ UNCHANGED <<payments, idempotency, refunds, effects>>

\* repo.AppendEvent, second insert, outside any transaction
InsertRefund(w) ==
    /\ pc[w] = "refundRow"
    /\ refunds' = [refunds EXCEPT ![p[w].id] = @ + 1]
    /\ Proceed(w, "publish", p[w])
    /\ UNCHANGED <<payments, idempotency, logged, effects>>

\* Mutant: Create answers as soon as the payment is announced.
EndsAtPublishEarly == {"cancelled", "pending"}

\* Cancel sends no email: its event is its last step.
EndsAtPublish == {"cancelled"}

\* One of the five subjects, named after the struct's status.  Create goes on
\* to charge after payment.created.
Publish(w) ==
    /\ pc[w] = "publish"
    /\ published' = [published EXCEPT ![p[w].id][p[w].status] = @ + 1]
    /\ \/ p[w].status = "pending" /\ Proceed(w, "charge", p[w])
       \/ p[w].status \in EndsAtPublish /\ Return(w, "ok")
       \/ p[w].status \notin EndsAtPublish \cup {"pending"} /\ Proceed(w, "email", p[w])
    /\ UNCHANGED <<storage, emails, charges>>

\* SendReceipt, SendFailure or SendRefund, after which the call has succeeded
SendEmail(w) ==
    /\ pc[w] = "email"
    /\ emails' = [emails EXCEPT ![p[w].id][p[w].status] = @ + 1]
    /\ Return(w, "ok")
    /\ UNCHANGED <<storage, published, charges>>

-----------------------------------------------------------------------------
(* Failures *)

\* The call the handler is making returns an error, which the handler returns
\* at once.  A call that fails after taking effect (a deadline that expires
\* once PostgreSQL has committed or the message is on the wire) is the call's
\* own action followed by this one.
StepError(w) ==
    /\ pc[w] # "idle"
    /\ Return(w, "error")
    /\ UNCHANGED <<storage, effects>>

\* The process dies with every handler in it.
Crash ==
    /\ \E w \in Workers : pc[w] # "idle"
    /\ pc'    = [w \in Workers |-> "idle"]
    /\ arg'   = [w \in Workers |-> None]
    /\ p'     = [w \in Workers |-> None]
    /\ reply' = [w \in Workers |-> IF pc[w] = "idle" THEN reply[w] ELSE "error"]
    /\ UNCHANGED <<storage, effects>>

\* The TTL of an idempotency entry runs out, or Redis loses it.
ExpireKey(k) ==
    /\ idempotency[k] # None
    /\ idempotency' = [idempotency EXCEPT ![k] = None]
    /\ UNCHANGED <<payments, logged, refunds, effects, control>>

-----------------------------------------------------------------------------

\* The operation each status of a provider webhook asks for; any other status
\* is refused by the HTTP handler.
WebhookOperation ==
    [succeeded |-> "confirm", failed |-> "cancel", cancelled |-> "cancel"]

Webhook(w, i) ==
    \E s \in DOMAIN WebhookOperation : Call(w, WebhookOperation[s], i)

\* The gateway's gRPC calls
Request(w) ==
    \/ \E k \in Keys : Call(w, "create", k)
    \/ \E op \in {"refund", "confirm", "cancel"}, i \in PaymentIds : Call(w, op, i)

Step(w) ==
    \/ LookUpKey(w) \/ FetchExisting(w) \/ InsertPayment(w) \/ SaveKey(w) \/ Charge(w)
    \/ ReadForRefund(w) \/ ReadForConfirm(w) \/ ReadForCancel(w)
    \/ UpdateRow(w) \/ LogEvent(w) \/ InsertRefund(w) \/ Publish(w) \/ SendEmail(w)

Next ==
    \/ \E w \in Workers : Request(w) \/ RejectInput(w) \/ Step(w) \/ StepError(w)
    \/ \E w \in Workers, i \in PaymentIds : Webhook(w, i)
    \/ Crash
    \/ \E k \in Keys : ExpireKey(k)

Spec == Init /\ [][Next]_vars

\* A handler that has been started keeps running: the runtime schedules it and
\* each client library call returns, with or without an error.
Fairness == \A w \in Workers : WF_vars(Step(w))

FairSpec == Spec /\ Fairness

-----------------------------------------------------------------------------
(* Properties *)

TablesOK ==
    /\ payments \in [PaymentIds -> PaymentRecord \cup {None}]
    /\ idempotency \in [Keys -> PaymentIds \cup {None}]
    /\ logged \in [PaymentIds -> [Status -> Nat]]
    /\ refunds \in [PaymentIds -> Nat]

EffectsOK ==
    /\ published \in [PaymentIds -> [Status -> Nat]]
    /\ emails \in [PaymentIds -> [Status -> Nat]]
    /\ charges \in [PaymentIds -> Nat]

HandlersOK ==
    /\ pc \in [Workers -> Labels]
    /\ arg \in [Workers -> Keys \cup PaymentIds \cup {None}]
    /\ p \in [Workers -> PaymentRecord \cup {None}]
    /\ reply \in [Workers -> Replies]
    /\ \A w \in Workers :
          /\ pc[w] \in {"create", "insert", "save"} => arg[w] \in Keys
          /\ pc[w] \in {"fetch", "refund", "confirm", "cancel"} => arg[w] \in PaymentIds
          /\ pc[w] \in Holding <=> p[w] # None

\* The shape of the state: what the tables, Redis, the outside world and the
\* handlers may hold.  A handler has a struct exactly where its code does.
TypeOK == TablesOK /\ EffectsOK /\ HandlersOK

\* "Repeated taps do not create duplicate charges": whatever fails, expires or
\* interleaves in Create, the provider is called at most once for an
\* idempotency key.
ChargedOncePerKey ==
    /\ \A i \in PaymentIds : charges[i] <= 1
    /\ \A i, j \in PaymentIds :
          /\ charges[i] > 0 /\ charges[j] > 0
          /\ Exists(i) /\ Exists(j) /\ payments[i].key = payments[j].key
          => i = j

\* A Redis entry names a stored payment of its own key, so a repeated Create
\* never answers with someone else's payment or with nothing.
EntryNamesOwnPayment ==
    \A k \in Keys : idempotency[k] # None =>
        Exists(idempotency[k]) /\ payments[idempotency[k]].key = k

\* The order of the effects survives every failure and interleaving: there are
\* never more emails than events published, more events published than logged,
\* more refund events than refunds rows, or a charge whose payment.created was
\* not published.
EffectsInOrder ==
    \A i \in PaymentIds :
        /\ \A s \in Status : emails[i][s] <= published[i][s] /\ published[i][s] <= logged[i][s]
        /\ published[i]["refunded"] <= refunds[i] /\ refunds[i] <= logged[i]["refunded"]
        /\ charges[i] <= published[i]["pending"]

Explained(row) ==
    /\ row.status \in {"succeeded", "refunded"} => row.transaction # "none"
    /\ row.refundReason <=> row.status = "refunded"
    /\ row.failureReason <=> row.status \in {"failed", "cancelled"}

\* A row always explains its status, although handlers overwrite each other's
\* updates: money moved has a transaction id, a refund has its reason, a
\* failure or a cancellation has its reason.
RowExplainsStatus ==
    \A i \in PaymentIds : Exists(i) => Explained(payments[i])

\* A stored payment stays stored under its key, and once it has left pending no
\* handler, however stale its copy, makes it pending again.
NeverPendingAgain ==
    [][\A i \in PaymentIds : Exists(i) =>
          /\ Exists(i)'
          /\ payments'[i].key = payments[i].key
          /\ payments'[i].status = "pending" => payments[i].status = "pending"]_payments

\* The promise of the idempotency key: Create, with everything that can happen
\* to it, implements the abstract IdempotentCharge.
BoundPayments == [k \in Keys |-> {i \in PaymentIds : Exists(i) /\ payments[i].key = k}]

Promise == INSTANCE IdempotentCharge WITH bound <- BoundPayments

ChargesIdempotently == Promise!Spec

-----------------------------------------------------------------------------
(* What the code's tests and docs say, which holds of one handler at a time *)
(* but not of handlers that run side by side.                               *)

\* TestRefundPaymentRejectsAlreadyRefundedPayment: a refunded payment cannot be
\* refunded again.
RefundedOnce == \A i \in PaymentIds : refunds[i] <= 1

\* TestConfirmPaymentReturnsSucceededPaymentWithoutDuplicateSideEffects: a
\* payment succeeds once, so Confirm of a succeeded payment publishes nothing.
SucceedsOnce == \A i \in PaymentIds : published[i]["succeeded"] <= 1

\* README, Idempotency: repeating a request with its key returns the existing
\* payment; it is never refused because the key is taken.
RepeatIsAnswered == \A w \in Workers : reply[w] # "duplicate"

\* The moves of a payment's status are those its operations allow.
Lifecycle == INSTANCE PaymentLifecycle WITH
    status <- [i \in PaymentIds |-> StatusOf(i)]

=============================================================================
