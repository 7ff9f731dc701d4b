---------------------------- MODULE OrderService ----------------------------
(***************************************************************************)
(* The order service: Create, UpdateStatus and Cancel of                   *)
(* order-service/internal/order/service.go, run by concurrent requests,    *)
(* and HandlePaymentSucceeded and HandlePaymentFailed, run by one NATS      *)
(* subscription each, over PostgreSQL rows with a status history, a Redis  *)
(* status cache and core NATS.                                             *)
(*                                                                         *)
(* A status change is read (GetByID), then written by a transaction that   *)
(* updates the row and inserts a history entry: the UPDATE takes the row   *)
(* lock, COMMIT makes both visible and frees it.  The status read before   *)
(* is what the entry says the order came from.  Errors of Redis and NATS   *)
(* are logged and ignored; errors of PostgreSQL end the handler.           *)
(***************************************************************************)
EXTENDS Naturals, Sequences, FiniteSets

CONSTANTS
    Workers,   \* request handlers running at the same time
    OrderIds,  \* the ids "ord-<nanoseconds>" may take
    None       \* no row, no entry, no job, no lock

\* The subscriptions that change orders; each runs its messages one by one.
Subscribers == {"payment.succeeded", "payment.failed"}
Handlers    == Workers \cup Subscribers

Status   == {"created", "paid", "payment_failed", "shipped", "completed", "canceled"}
Terminal == {"completed", "canceled"}

\* What a status change is recorded for (the reason column).
Causes == {"order created", "manual", "cancel"} \cup Subscribers

\* What a handler is doing: the order, the status it will write, why, and the
\* status it has read.
Jobs == [order : OrderIds, to : Status, by : Causes, from : Status \cup {None}]

Entries == [from : Status \cup {None}, to : Status, by : Causes]

ASSUME NoneIsNothing ==
    /\ None \notin OrderIds \cup Workers \cup Subscribers \cup Status \cup Jobs
    /\ Workers \cap Subscribers = {}

ASSUME FiniteWorkers == IsFiniteSet(Workers)

VARIABLES
    orders,    \* table orders: the committed status of each order
    history,   \* table order_status_history, per order, oldest first
    lock,      \* the handler whose open transaction holds the row
    cache,     \* Redis: order:<id>:status
    sent,      \* events the payment service published, per subject and order
    inbox,     \* those waiting in the subscriptions' buffers
    published, \* order events handed to NATS, per order and status
    pc,        \* what each handler does next
    job        \* what it works on

tables == <<orders, history, lock>>
events == <<sent, inbox, published>>
vars   == <<tables, cache, events, pc, job>>

Labels == {"idle", "read", "update", "commit", "committed", "cache", "publish"}

Init ==
    /\ orders    = [o \in OrderIds |-> None]
    /\ history   = [o \in OrderIds |-> <<>>]
    /\ lock      = [o \in OrderIds |-> None]
    /\ cache     = [o \in OrderIds |-> None]
    /\ sent      = [s \in Subscribers |-> [o \in OrderIds |-> 0]]
    /\ inbox     = [s \in Subscribers |-> [o \in OrderIds |-> 0]]
    /\ published = [o \in OrderIds |-> [s \in Status |-> 0]]
    /\ pc        = [h \in Handlers |-> "idle"]
    /\ job       = [h \in Handlers |-> None]

-----------------------------------------------------------------------------

Start(h, label, o, by, to) ==
    /\ pc[h] = "idle"
    /\ pc'  = [pc EXCEPT ![h] = label]
    /\ job' = [job EXCEPT ![h] = [order |-> o, to |-> to, by |-> by, from |-> None]]

Goto(h, label) == pc' = [pc EXCEPT ![h] = label] /\ UNCHANGED job

\* Mutant: the transaction is not rolled back.
FinishInTransaction(h) ==
    /\ pc'  = [pc EXCEPT ![h] = "idle"]
    /\ job' = [job EXCEPT ![h] = None]
    /\ UNCHANGED lock

\* The handler returns; a transaction it has open is rolled back (the deferred
\* tx.Rollback).
Finish(h) ==
    /\ pc'   = [pc EXCEPT ![h] = "idle"]
    /\ job'  = [job EXCEPT ![h] = None]
    /\ lock' = [o \in OrderIds |-> IF lock[o] = h THEN None ELSE lock[o]]

-----------------------------------------------------------------------------
(* How a handler starts *)

\* Nothing keeps two calls of Create from taking the same nanosecond.
Create(w) ==
    /\ \E o \in OrderIds : Start(w, "update", o, "order created", "created")
    /\ UNCHANGED <<tables, cache, events>>

\* Any known status may be asked for, from any status.
UpdateStatus(w) ==
    /\ \E o \in OrderIds, s \in Status : Start(w, "read", o, "manual", s)
    /\ UNCHANGED <<tables, cache, events>>

Cancel(w) ==
    /\ \E o \in OrderIds : Start(w, "read", o, "cancel", "canceled")
    /\ UNCHANGED <<tables, cache, events>>

StatusFor == [s \in Subscribers |-> IF s = "payment.succeeded" THEN "paid" ELSE "payment_failed"]

\* Mutant: a message is handled again.
ConsumeAgain(s) ==
    /\ \E o \in OrderIds :
          /\ inbox[s][o] > 0
          /\ Start(s, "read", o, s, StatusFor[s])
    /\ UNCHANGED <<tables, cache, events>>

\* The subscription's callback gets its next message.  Messages of one subject
\* differ only in their order, so the buffer is kept as counts.
Consume(s) ==
    /\ \E o \in OrderIds :
          /\ inbox[s][o] > 0
          /\ inbox' = [inbox EXCEPT ![s][o] = @ - 1]
          /\ Start(s, "read", o, s, StatusFor[s])
    /\ UNCHANGED <<tables, cache, sent, published>>

-----------------------------------------------------------------------------
(* Its steps *)

\* Mutant: only a completed order refuses to be cancelled.
RefusesCompleted(j) == j.by = "cancel" /\ orders[j.order] = "completed"

Refuses(j) == j.by = "cancel" /\ orders[j.order] \in Terminal

\* Mutant: the handler does not keep the status it read.
ReadOnly(h) ==
    /\ pc[h] = "read"
    /\ IF orders[job[h].order] = None \/ Refuses(job[h])
       THEN Finish(h) ELSE Goto(h, "update") /\ UNCHANGED lock
    /\ UNCHANGED <<orders, history, cache, events>>

\* repo.GetByID reads the committed row; an order that does not exist, or that
\* Cancel finds closed, ends the handler.
Read(h) ==
    /\ pc[h] = "read"
    /\ LET status == orders[job[h].order]
       IN  \/ /\ status = None \/ Refuses(job[h])
              /\ Finish(h)
           \/ /\ status # None /\ ~Refuses(job[h])
              /\ pc'  = [pc EXCEPT ![h] = "update"]
              /\ job' = [job EXCEPT ![h].from = status]
              /\ UNCHANGED lock
    /\ UNCHANGED <<orders, history, cache, events>>

\* The transaction's INSERT or UPDATE waits for the row, takes it and holds it.
\* The INSERT of an id that exists by then violates the primary key.
Update(h) ==
    /\ pc[h] = "update"
    /\ LET o == job[h].order
       IN  /\ lock[o] = None
           /\ \/ /\ job[h].by = "order created" /\ orders[o] # None
                 /\ Finish(h)
              \/ /\ job[h].by # "order created" \/ orders[o] = None
                 /\ lock' = [lock EXCEPT ![o] = h]
                 /\ Goto(h, "commit")
    /\ UNCHANGED <<orders, history, cache, events>>

Entry(j) == [from |-> j.from, to |-> j.to, by |-> j.by]

\* Mutant: the history entry is not part of the transaction.
CommitRow(h) ==
    /\ pc[h] = "commit"
    /\ orders' = [orders EXCEPT ![job[h].order] = job[h].to]
    /\ lock'   = [lock EXCEPT ![job[h].order] = None]
    /\ Goto(h, "committed")
    /\ UNCHANGED <<history, cache, events>>

\* The status and the history entry are committed together.
Commit(h) ==
    /\ pc[h] = "commit"
    /\ LET o == job[h].order
       IN  /\ orders'  = [orders EXCEPT ![o] = job[h].to]
           /\ history' = [history EXCEPT ![o] = Append(@, Entry(job[h]))]
           /\ lock'    = [lock EXCEPT ![o] = None]
    /\ Goto(h, "committed")
    /\ UNCHANGED <<cache, events>>

\* The repository returns the row, after reading the items of an updated order.
ReturnRow(h) ==
    /\ pc[h] = "committed"
    /\ Goto(h, "cache")
    /\ UNCHANGED <<tables, cache, events>>

\* order.created, order.cancelled and order.completed; a manual cancellation
\* and the payment handlers publish nothing.
Announces(j) ==
    \/ j.by \in {"order created", "cancel"}
    \/ j.by = "manual" /\ j.to = "completed"

\* cacheStatus: Redis may fail, which is only logged.
CacheStatus(h) ==
    /\ pc[h] = "cache"
    /\ \/ cache' = [cache EXCEPT ![job[h].order] = job[h].to]
       \/ UNCHANGED cache
    /\ \/ Announces(job[h])  /\ Goto(h, "publish") /\ UNCHANGED lock
       \/ ~Announces(job[h]) /\ Finish(h)
    /\ UNCHANGED <<orders, history, events>>

\* Mutant: a publish that seems to have failed is repeated.
PublishAgain(h) ==
    /\ pc[h] = "publish"
    /\ published' = [published EXCEPT ![job[h].order][job[h].to] = @ + 1]
    /\ \/ Finish(h)
       \/ Goto(h, "publish") /\ UNCHANGED lock
    /\ UNCHANGED <<orders, history, cache, sent, inbox>>

\* publish: NATS may fail or be disabled, which is only logged.
Publish(h) ==
    /\ pc[h] = "publish"
    /\ \/ published' = [published EXCEPT ![job[h].order][job[h].to] = @ + 1]
       \/ UNCHANGED published
    /\ Finish(h)
    /\ UNCHANGED <<orders, history, cache, sent, inbox>>

Step(h) ==
    Read(h) \/ Update(h) \/ Commit(h) \/ ReturnRow(h) \/ CacheStatus(h) \/ Publish(h)

-----------------------------------------------------------------------------
(* Failures and the outside world *)

\* PostgreSQL returns an error.  A COMMIT whose answer is lost is Commit
\* followed by this action.
Fail(h) ==
    /\ pc[h] \in {"read", "update", "commit", "committed"}
    /\ Finish(h)
    /\ UNCHANGED <<orders, history, cache, events>>

\* The process dies: its transactions roll back and its buffers are gone.
Crash ==
    /\ \E h \in Handlers : pc[h] # "idle"
    /\ pc'    = [h \in Handlers |-> "idle"]
    /\ job'   = [h \in Handlers |-> None]
    /\ lock'  = [o \in OrderIds |-> None]
    /\ inbox' = [s \in Subscribers |-> [o \in OrderIds |-> 0]]
    /\ UNCHANGED <<orders, history, cache, sent, published>>

\* The payment service publishes an event for an order id it was given, which
\* need not be the id of an order.
PaymentEvent(s, o) ==
    /\ sent'  = [sent EXCEPT ![s][o] = @ + 1]
    /\ inbox' = [inbox EXCEPT ![s][o] = @ + 1]
    /\ UNCHANGED <<tables, cache, published, pc, job>>

\* Core NATS delivers at most once: nobody was connected, or the buffer was full.
Lose(s, o) ==
    /\ inbox[s][o] > 0
    /\ inbox' = [inbox EXCEPT ![s][o] = @ - 1]
    /\ UNCHANGED <<tables, cache, sent, published, pc, job>>

\* The TTL of a cached status runs out.
ExpireStatus(o) ==
    /\ cache[o] # None
    /\ cache' = [cache EXCEPT ![o] = None]
    /\ UNCHANGED <<tables, events, pc, job>>

Request(w) == Create(w) \/ UpdateStatus(w) \/ Cancel(w)

Internal ==
    \/ \E h \in Handlers : Step(h) \/ Fail(h)
    \/ \E s \in Subscribers : Consume(s)
    \/ \E s \in Subscribers, o \in OrderIds : Lose(s, o)
    \/ \E o \in OrderIds : ExpireStatus(o)
    \/ Crash

Next ==
    \/ \E w \in Workers : Request(w)
    \/ \E s \in Subscribers, o \in OrderIds : PaymentEvent(s, o)
    \/ Internal

Spec == Init /\ [][Next]_vars

-----------------------------------------------------------------------------
(* Properties *)

\* The shape of the state; a job exists exactly while a handler runs.
TypeOK ==
    /\ orders \in [OrderIds -> Status \cup {None}]
    /\ history \in [OrderIds -> Seq(Entries)]
    /\ lock \in [OrderIds -> Handlers \cup {None}]
    /\ cache \in [OrderIds -> Status \cup {None}]
    /\ sent \in [Subscribers -> [OrderIds -> Nat]]
    /\ inbox \in [Subscribers -> [OrderIds -> Nat]]
    /\ published \in [OrderIds -> [Status -> Nat]]
    /\ pc \in [Handlers -> Labels]
    /\ job \in [Handlers -> Jobs \cup {None}]
    /\ \A h \in Handlers : pc[h] = "idle" <=> job[h] = None

\* A row is locked by the handler whose transaction is open on it, and by no
\* other: every way out of a transaction, errors and crashes included, frees
\* its row, so those that wait for it go on.
LocksAreInUse ==
    \A h \in Handlers, o \in OrderIds :
        lock[o] = h <=> pc[h] = "commit" /\ job[h].order = o

\* The audit trail is complete: an order has a row exactly when it has a
\* history, and the row is what the last entry says, whichever handlers raced,
\* failed between the two statements or died.
HistoryExplainsRow ==
    \A o \in OrderIds :
        orders[o] = IF history[o] = <<>> THEN None ELSE history[o][Len(history[o])].to

\* An entry may name a status that has been overwritten since, but never one
\* the order did not have: every entry after the first comes from an earlier
\* one.
FromWasHeld ==
    \A o \in OrderIds : \A n \in DOMAIN history[o] :
        IF n = 1
        THEN history[o][n].from = None /\ history[o][n].by = "order created"
        ELSE \E m \in 1 .. n - 1 : history[o][m].to = history[o][n].from

EntriesBy(o, by) == {n \in DOMAIN history[o] : history[o][n].by = by}
EntriesTo(o, to) == {n \in DOMAIN history[o] : history[o][n].to = to}

\* A payment event changes its order at most once, over crashes, lost commits
\* and any interleaving of the two subscriptions.
AppliedAtMostOnce ==
    \A s \in Subscribers, o \in OrderIds :
        Cardinality(EntriesBy(o, s)) + inbox[s][o] <= sent[s][o]

\* order.created, order.cancelled and order.completed are announced at most
\* once per committed change, and never for a change that was rolled back.
AnnouncedAreCommitted ==
    \A o \in OrderIds, s \in Status : published[o][s] <= Cardinality(EntriesTo(o, s))

\* TestCancelAlreadyTerminalStatus: Cancel does not change an order that is
\* completed or cancelled when it is cancelled.
CancelledOnlyOpen ==
    \A o \in OrderIds : \A n \in EntriesBy(o, "cancel") :
        n > 1 => history[o][n - 1].to \notin Terminal

=============================================================================
