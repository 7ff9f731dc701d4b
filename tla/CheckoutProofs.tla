---------------------------- MODULE CheckoutProofs ----------------------------
(***************************************************************************)
(* Checkout for all sets of browsers, handlers, orders and payments: it    *)
(* implements Purchase, and what a browser says and how often an order is  *)
(* settled.  The invariants of Payment and OrderService are those their    *)
(* own proofs establish; what is added here is what ties them together.    *)
(***************************************************************************)
EXTENDS MCCheckout, Sequences, FiniteSetTheorems, TLAPS

\* The theorems about the two services, for the state they have here; how
\* TLC's instances of them count and bound their calls plays no part.
PayFacts == INSTANCE PaymentProofs WITH
    Keys <- OrderIds, published <- payPublished, pc <- payPc, arg <- payArg,
    p <- payP, reply <- payReply,
    calls <- 0, alone <- FALSE, MaxCalls <- 0, MaxAlone <- 0

OrdFacts == INSTANCE OrderProofs WITH
    published <- ordPublished, pc <- ordPc, job <- ordJob,
    calls <- 0, eventCount <- 0, alone <- FALSE, MaxInputs <- 0, MaxEvents <- 0

-----------------------------------------------------------------------------
(* The services here are the services there. *)

LEMMA SamePayment ==
    /\ Pay!Init <=> PayFacts!Init
    /\ Pay!Next <=> PayFacts!Next
    /\ Pay!vars = PayFacts!vars /\ Pay!vars' = PayFacts!vars'
  BY DEF Pay!Next, PayFacts!Next, Pay!Request, PayFacts!Request,
         Pay!RejectInput, PayFacts!RejectInput, Pay!Step, PayFacts!Step,
         Pay!StepError, PayFacts!StepError, Pay!Webhook, PayFacts!Webhook,
         Pay!WebhookOperation, PayFacts!WebhookOperation, Pay!Crash,
         PayFacts!Crash, Pay!ExpireKey, PayFacts!ExpireKey, Pay!Call,
         PayFacts!Call, Pay!LookUpKey, PayFacts!LookUpKey, Pay!FetchExisting,
         PayFacts!FetchExisting, Pay!InsertPayment, PayFacts!InsertPayment,
         Pay!SaveKey, PayFacts!SaveKey, Pay!Charge, PayFacts!Charge,
         Pay!ReadForRefund, PayFacts!ReadForRefund, Pay!ReadForConfirm,
         PayFacts!ReadForConfirm, Pay!ReadForCancel, PayFacts!ReadForCancel,
         Pay!UpdateRow, PayFacts!UpdateRow, Pay!LogEvent, PayFacts!LogEvent,
         Pay!InsertRefund, PayFacts!InsertRefund, Pay!Publish,
         PayFacts!Publish, Pay!SendEmail, PayFacts!SendEmail, Pay!Proceed,
         PayFacts!Proceed, Pay!Return, PayFacts!Return, Pay!KeyTaken,
         PayFacts!KeyTaken, Pay!Exists, PayFacts!Exists, Pay!StatusOf,
         PayFacts!StatusOf, Pay!Outcomes, PayFacts!Outcomes, Pay!Charged,
         PayFacts!Charged, Pay!Refundable, PayFacts!Refundable,
         Pay!Confirmable, PayFacts!Confirmable, Pay!Cancellable,
         PayFacts!Cancellable, Pay!Overwrite, PayFacts!Overwrite,
         Pay!AfterLog, PayFacts!AfterLog, Pay!EndsAtPublish,
         PayFacts!EndsAtPublish, Pay!Status, PayFacts!Status, Pay!storage,
         PayFacts!storage, Pay!effects, PayFacts!effects, Pay!control,
         PayFacts!control, Pay!vars, PayFacts!vars, Pay!Init, PayFacts!Init

LEMMA SameOrders ==
    /\ Ord!Init <=> OrdFacts!Init
    /\ Ord!Next <=> OrdFacts!Next
    /\ Ord!vars = OrdFacts!vars /\ Ord!vars' = OrdFacts!vars'
  BY DEF Ord!Next, OrdFacts!Next, Ord!Request, OrdFacts!Request,
         Ord!PaymentEvent, OrdFacts!PaymentEvent, Ord!Internal,
         OrdFacts!Internal, Ord!Create, OrdFacts!Create, Ord!UpdateStatus,
         OrdFacts!UpdateStatus, Ord!Cancel, OrdFacts!Cancel, Ord!Step,
         OrdFacts!Step, Ord!Fail, OrdFacts!Fail, Ord!Consume,
         OrdFacts!Consume, Ord!Lose, OrdFacts!Lose, Ord!ExpireStatus,
         OrdFacts!ExpireStatus, Ord!Crash, OrdFacts!Crash, Ord!Read,
         OrdFacts!Read, Ord!Update, OrdFacts!Update, Ord!Commit,
         OrdFacts!Commit, Ord!ReturnRow, OrdFacts!ReturnRow, Ord!CacheStatus,
         OrdFacts!CacheStatus, Ord!Publish, OrdFacts!Publish, Ord!Start,
         OrdFacts!Start, Ord!Goto, OrdFacts!Goto, Ord!Finish, OrdFacts!Finish,
         Ord!StatusFor, OrdFacts!StatusFor, Ord!Refuses, OrdFacts!Refuses,
         Ord!Terminal, OrdFacts!Terminal, Ord!Entry, OrdFacts!Entry,
         Ord!Announces, OrdFacts!Announces, Ord!Subscribers,
         OrdFacts!Subscribers, Ord!Handlers, OrdFacts!Handlers, Ord!Status,
         OrdFacts!Status, Ord!tables, OrdFacts!tables, Ord!events,
         OrdFacts!events, Ord!vars, OrdFacts!vars, Ord!Init, OrdFacts!Init

LEMMA PaymentAssumptions ==
    /\ None \notin PaymentIds /\ None \notin OrderIds /\ None \notin PayFacts!PaymentRecord
    /\ PayFacts!IsFiniteSet(Workers)
  BY NoneIsNothing, FiniteWorkers
     DEF Pay!PaymentRecord, PayFacts!PaymentRecord, Pay!Status, PayFacts!Status,
         Pay!Transaction, PayFacts!Transaction, PayFacts!IsFiniteSet, IsFiniteSet

LEMMA OrderAssumptions ==
    /\ None \notin OrderIds \cup Workers \cup OrdFacts!Subscribers \cup OrdFacts!Status
                            \cup OrdFacts!Jobs
    /\ Workers \cap OrdFacts!Subscribers = {}
    /\ OrdFacts!IsFiniteSet(Workers)
  BY NoneIsNothing, FiniteWorkers
     DEF Ord!Jobs, Ord!Status, Ord!Causes, Ord!Subscribers, OrdFacts!Jobs, OrdFacts!Status,
         OrdFacts!Causes, OrdFacts!Subscribers, OrdFacts!IsFiniteSet, IsFiniteSet

LEMMA PaymentStays ==
  ASSUME PayFacts!IInv, [Pay!Next]_(Pay!vars) PROVE PayFacts!IInv'
  BY SamePayment, PaymentAssumptions, PayFacts!StepIInv

LEMMA OrdersStay ==
  ASSUME OrdFacts!IInv, [Ord!Next]_(Ord!vars) PROVE OrdFacts!IInv'
  BY SameOrders, OrderAssumptions, OrdFacts!StepIsSound

LEMMA ServicesStart == Init => PayFacts!IInv /\ OrdFacts!IInv
  BY SamePayment, PaymentAssumptions, PayFacts!InitIInv,
     SameOrders, OrderAssumptions, OrdFacts!InitIsSound DEF Init

\* What their invariants say, in the words of Checkout.
LEMMA PaymentShape ==
  ASSUME PayFacts!IInv
  PROVE  /\ Pay!TypeOK
         /\ \A i \in PaymentIds : Pay!Exists(i) => payments[i].id = i
         /\ \A w \in Workers : payPc[w] \in Pay!Holding =>
              Pay!Exists(payP[w].id) /\ payments[payP[w].id].key = payP[w].key
         /\ \A w \in Workers :
              /\ payPc[w] \in {"save", "charge"} => payP[w].status = "pending"
              /\ payPc[w] = "update" => payP[w].status # "pending"
              /\ payPc[w] = "refundRow" => payP[w].status = "refunded"
              /\ payPc[w] = "save" => payArg[w] = payP[w].key
         /\ \A i, j \in PaymentIds : Pay!Exists(i) /\ Pay!Exists(j)
              /\ payments[i].key = payments[j].key => i = j
         /\ Pay!EntryNamesOwnPayment
  BY DEF PayFacts!IInv, PayFacts!RowsKnown, PayFacts!Phases, PayFacts!UniqueKeys,
         PayFacts!EntryNamesOwnPayment, Pay!EntryNamesOwnPayment, PayFacts!Exists, Pay!Exists,
         Pay!TypeOK, PayFacts!TypeOK, Pay!TablesOK, PayFacts!TablesOK,
         Pay!EffectsOK, PayFacts!EffectsOK, Pay!HandlersOK,
         PayFacts!HandlersOK, Pay!PaymentRecord, PayFacts!PaymentRecord,
         Pay!Status, PayFacts!Status, Pay!Transaction, PayFacts!Transaction,
         Pay!Labels, PayFacts!Labels, Pay!Holding, PayFacts!Holding,
         Pay!Operations, PayFacts!Operations, Pay!Replies, PayFacts!Replies

LEMMA OrderShape ==
  ASSUME OrdFacts!IInv
  PROVE  /\ Ord!TypeOK
         /\ Ord!LocksAreInUse
         /\ Ord!HistoryExplainsRow
         /\ \A h \in Ord!Handlers :
              ordPc[h] = "commit" /\ ordJob[h].by = "order created" => orders[ordJob[h].order] = None
         /\ \A h \in Ord!Handlers :
              ordPc[h] # "idle" /\ ordJob[h].by \in Ord!Subscribers => ordJob[h].by = h
  BY DEF OrdFacts!IInv, OrdFacts!Fit,
         Ord!TypeOK, OrdFacts!TypeOK, Ord!Status, OrdFacts!Status,
         Ord!Handlers, OrdFacts!Handlers, Ord!Subscribers,
         OrdFacts!Subscribers, Ord!Jobs, OrdFacts!Jobs, Ord!Causes,
         OrdFacts!Causes, Ord!Entries, OrdFacts!Entries, Ord!Labels,
         OrdFacts!Labels, Ord!LocksAreInUse, OrdFacts!LocksAreInUse,
         Ord!HistoryExplainsRow, OrdFacts!HistoryExplainsRow

-----------------------------------------------------------------------------
(* The order service, as a checkout uses it *)

\* What the order service does here: its cached statuses do not expire.
OrderMoves ==
    \/ \E w \in Workers : Ord!Request(w)
    \/ \E h \in Ord!Handlers : Ord!Step(h) \/ Ord!Fail(h)
    \/ \E s \in Ord!Subscribers : Ord!Consume(s)
    \/ \E s \in Ord!Subscribers, o \in OrderIds : Ord!Lose(s, o) \/ Ord!PaymentEvent(s, o)
    \/ Ord!Crash
    \/ UNCHANGED ordVars

Written == {"committed", "cache", "publish"}

\* A change made by an event was sent for, and a running change of an order
\* that exists, or has been written, has its row.
JobFits(h) ==
    ordPc[h] # "idle" =>
        /\ ordJob[h].by = "order created" => ordJob[h].to = "created"
        /\ ordJob[h].by \in Ord!Subscribers => sent[ordJob[h].by][ordJob[h].order] > 0
        /\ \/ ordPc[h] \in Written
           \/ ordPc[h] \in {"update", "commit"} /\ ordJob[h].by # "order created"
           => orders[ordJob[h].order] # None

Jobs == \A h \in Ord!Handlers : JobFits(h)

InboxWasSent == \A s \in Ord!Subscribers, o \in OrderIds : inbox[s][o] > 0 => sent[s][o] > 0

PaidByEvent == \A o \in OrderIds : \A n \in DOMAIN history[o] :
    history[o][n].by = "payment.succeeded" => sent["payment.succeeded"][o] > 0

OrderInv == Jobs /\ InboxWasSent /\ PaidByEvent

\* Orders are not deleted and events not unsent.
OrdersGrow ==
    /\ \A o \in OrderIds : orders[o] # None => orders'[o] # None
    /\ \A s \in Ord!Subscribers, o \in OrderIds : sent[s][o] > 0 => sent'[s][o] > 0

LEMMA MovesAreSteps ==
  ASSUME OrderMoves PROVE [Ord!Next]_(Ord!vars)
  BY DEF OrderMoves, Ord!Next, Ord!Request, Ord!Internal, ordVars, Ord!vars, Ord!tables,
         Ord!events

\* A commit writes the row, the history and the way on, and nothing else.
LEMMA CommitWrites ==
  ASSUME OrdFacts!IInv, NEW h \in Ord!Handlers, Ord!Commit(h)
  PROVE  /\ ordPc[h] = "commit" /\ ordJob[h] \in Ord!Jobs /\ ordJob[h].order \in OrderIds
         /\ ordJob[h].to \in Ord!Status /\ ordJob[h].to # None
         /\ orders' = [orders EXCEPT ![ordJob[h].order] = ordJob[h].to]
         /\ orders'[ordJob[h].order] = ordJob[h].to
         /\ \A o \in OrderIds : o # ordJob[h].order =>
              orders'[o] = orders[o] /\ history'[o] = history[o]
         /\ history'[ordJob[h].order] =
              Append(history[ordJob[h].order], Ord!Entry(ordJob[h]))
         /\ history[ordJob[h].order] \in Seq(Ord!Entries) /\ Ord!Entry(ordJob[h]) \in Ord!Entries
         /\ ordPc'[h] = "committed" /\ ordJob' = ordJob
         /\ \A g \in Ord!Handlers \ {h} : ordPc'[g] = ordPc[g]
         /\ UNCHANGED <<cache, sent, inbox, ordPublished>>
  <1>1. Ord!TypeOK
    BY OrderShape
  <1>2. ordPc[h] = "commit" /\ ordJob[h] \in Ord!Jobs
    BY <1>1 DEF Ord!Commit, Ord!TypeOK
  <1>3. ordJob[h].order \in OrderIds /\ ordJob[h].to \in Ord!Status
    BY <1>2 DEF Ord!Jobs
  <1>4. ordJob[h].to # None
    BY <1>3, NoneIsNothing
  <1>5. Ord!Entry(ordJob[h]) \in Ord!Entries
    BY <1>2 DEF Ord!Entry, Ord!Entries, Ord!Jobs
  <1>. QED BY <1>1, <1>2, <1>3, <1>4, <1>5 DEF Ord!Commit, Ord!TypeOK, Ord!Goto, Ord!events

LEMMA CommitKeepsOrderInv ==
  ASSUME OrdFacts!IInv, OrderInv, NEW h \in Ord!Handlers, Ord!Commit(h)
  PROVE  OrderInv' /\ OrdersGrow
  <1>. DEFINE o == ordJob[h].order
  <1>1. Ord!TypeOK
    BY OrderShape
  <1>2. OrdersGrow
    BY <1>1, CommitWrites DEF OrdersGrow, Ord!TypeOK
  <1>3. ASSUME NEW g \in Ord!Handlers PROVE JobFits(g)'
    <2>1. JobFits(g)
      BY DEF OrderInv, Jobs
    <2>2. CASE g = h
      BY <2>1, <2>2, CommitWrites DEF JobFits
    <2>3. CASE g # h
      <3>1. ordPc[g] # "idle" => ordJob[g].order \in OrderIds
        BY <1>1 DEF Ord!TypeOK, Ord!Jobs
      <3>. QED BY <2>1, <2>3, <3>1, <1>2, CommitWrites DEF JobFits, OrdersGrow
    <2>. QED BY <2>2, <2>3
  <1>4. InboxWasSent'
    BY CommitWrites DEF OrderInv, InboxWasSent
  <1>5. ASSUME NEW q \in OrderIds, NEW n \in DOMAIN history'[q], history'[q][n].by = "payment.succeeded"
        PROVE  sent'["payment.succeeded"][q] > 0
    <2>1. CASE q # o
      BY <1>5, <2>1, CommitWrites DEF OrderInv, PaidByEvent
    <2>2. CASE q = o /\ n \in DOMAIN history[o]
      <3>1. history'[o][n] = history[o][n]
        BY <2>2, CommitWrites
      <3>. QED BY <1>5, <2>2, <3>1, CommitWrites DEF OrderInv, PaidByEvent
    <2>3. CASE q = o /\ n \notin DOMAIN history[o]
      <3>1. history'[o][n] = Ord!Entry(ordJob[h])
        BY <1>5, <2>3, CommitWrites
      <3>2. ordJob[h].by = "payment.succeeded"
        BY <1>5, <2>3, <3>1 DEF Ord!Entry
      <3>. QED BY <2>3, <3>2, CommitWrites DEF OrderInv, Jobs, JobFits, Ord!Subscribers
    <2>. QED BY <2>1, <2>2, <2>3
  <1>. QED BY <1>2, <1>3, <1>4, <1>5 DEF OrderInv, Jobs, PaidByEvent

\* Any other step leaves orders and histories alone.
LEMMA OthersKeepTables ==
  ASSUME OrdFacts!IInv, OrderMoves, ~ \E h \in Ord!Handlers : Ord!Commit(h)
  PROVE  UNCHANGED <<orders, history>>
  BY DEF OrderMoves, Ord!Request, Ord!Create, Ord!UpdateStatus, Ord!Cancel, Ord!Step, Ord!Fail, Ord!Consume, Ord!Lose,
         Ord!PaymentEvent, Ord!Crash, Ord!Read, Ord!Update, Ord!ReturnRow, Ord!CacheStatus,
         Ord!Publish, ordVars, Ord!tables

LEMMA EventsOnlyGrow ==
  ASSUME OrdFacts!IInv, OrderInv, OrderMoves
  PROVE  InboxWasSent' /\ \A s \in Ord!Subscribers, o \in OrderIds : sent[s][o] > 0 => sent'[s][o] > 0
  <1>1. Ord!TypeOK
    BY OrderShape
  <1>2. CASE UNCHANGED <<sent, inbox>>
    BY <1>1, <1>2 DEF OrderInv, InboxWasSent, Ord!TypeOK
  <1>3. ASSUME NEW s \in Ord!Subscribers, NEW o \in OrderIds, UNCHANGED sent,
               inbox' = [inbox EXCEPT ![s][o] = @ - 1]
        PROVE  InboxWasSent' /\ \A t \in Ord!Subscribers, q \in OrderIds : sent[t][q] > 0 => sent'[t][q] > 0
    BY <1>1, <1>3 DEF OrderInv, InboxWasSent, Ord!TypeOK
  <1>4. ASSUME NEW s \in Ord!Subscribers, NEW o \in OrderIds, Ord!PaymentEvent(s, o)
        PROVE  InboxWasSent' /\ \A t \in Ord!Subscribers, q \in OrderIds : sent[t][q] > 0 => sent'[t][q] > 0
    BY <1>1, <1>4 DEF OrderInv, InboxWasSent, Ord!TypeOK, Ord!PaymentEvent
  <1>5. CASE Ord!Crash
    BY <1>1, <1>5 DEF InboxWasSent, Ord!TypeOK, Ord!Crash
  <1>6. ASSUME NEW h \in Ord!Handlers, Ord!Step(h) \/ Ord!Fail(h) PROVE UNCHANGED <<sent, inbox>>
    BY <1>6 DEF Ord!Step, Ord!Fail, Ord!Read, Ord!Update, Ord!Commit, Ord!ReturnRow,
         Ord!CacheStatus, Ord!Publish, Ord!events
  <1>7. ASSUME NEW w \in Workers, Ord!Request(w) PROVE UNCHANGED <<sent, inbox>>
    BY <1>7 DEF Ord!Request, Ord!Create, Ord!UpdateStatus, Ord!Cancel, Ord!events
  <1>. QED BY <1>2, <1>3, <1>4, <1>5, <1>6, <1>7
           DEF OrderMoves, Ord!Consume, Ord!Lose, ordVars

\* What becomes of a handler's job in a step of the order service.
LEMMA OthersKeepJobs ==
  ASSUME OrdFacts!IInv, OrderInv, OrderMoves, ~ \E h \in Ord!Handlers : Ord!Commit(h)
  PROVE  Jobs'
  <1>. SUFFICES ASSUME NEW g \in Ord!Handlers PROVE JobFits(g)'
    BY DEF Jobs
  <1>1. Ord!TypeOK /\ JobFits(g)
    BY OrderShape DEF OrderInv, Jobs
  <1>2. /\ UNCHANGED <<orders, history>>
        /\ \A s \in Ord!Subscribers, o \in OrderIds : sent[s][o] > 0 => sent'[s][o] > 0
    BY OthersKeepTables, EventsOnlyGrow
  <1>3. ordPc[g] # "idle" => ordJob[g] \in Ord!Jobs /\ ordJob[g].order \in OrderIds
    BY <1>1 DEF Ord!TypeOK, Ord!Jobs
  <1>4. CASE ordPc'[g] = "idle"
    BY <1>4 DEF JobFits
  <1>5. CASE ordPc'[g] = ordPc[g] /\ ordJob'[g] = ordJob[g]
    BY <1>1, <1>2, <1>3, <1>5 DEF JobFits
  <1>6. CASE ordPc[g] # "idle" /\ ordPc'[g] \in Written /\ ordJob'[g] = ordJob[g] /\ ordPc[g] \in Written
    BY <1>1, <1>2, <1>3, <1>6 DEF JobFits, Written
  <1>7. ASSUME NEW w \in Workers, Ord!Request(w) PROVE JobFits(g)'
    <2>1. CASE g = w
      <3>1. \/ ordPc'[g] = "update" /\ ordJob'[g].by = "order created" /\ ordJob'[g].to = "created"
            \/ ordPc'[g] = "read" /\ ordJob'[g].by \in {"manual", "cancel"}
        <4>1. CASE Ord!Create(w)
          <5>1. PICK o \in OrderIds : Ord!Start(w, "update", o, "order created", "created")
            BY <4>1 DEF Ord!Create
          <5>. QED BY <1>1, <2>1, <5>1 DEF Ord!Start, Ord!TypeOK
        <4>2. CASE Ord!Cancel(w)
          <5>1. PICK o \in OrderIds : Ord!Start(w, "read", o, "cancel", "canceled")
            BY <4>2 DEF Ord!Cancel
          <5>. QED BY <1>1, <2>1, <5>1 DEF Ord!Start, Ord!TypeOK
        <4>3. CASE Ord!UpdateStatus(w)
          <5>1. PICK o \in OrderIds, s \in Ord!Status : Ord!Start(w, "read", o, "manual", s)
            BY <4>3 DEF Ord!UpdateStatus
          <5>. QED BY <1>1, <2>1, <5>1 DEF Ord!Start, Ord!TypeOK
        <4>. QED BY <1>7, <4>1, <4>2, <4>3 DEF Ord!Request
      <3>. QED BY <3>1 DEF JobFits, Ord!Subscribers, Written
    <2>2. CASE g # w
      BY <1>1, <1>5, <1>7, <2>2
         DEF Ord!Request, Ord!Create, Ord!UpdateStatus, Ord!Cancel, Ord!Start, Ord!TypeOK
    <2>. QED BY <2>1, <2>2
  <1>8. ASSUME NEW s \in Ord!Subscribers, Ord!Consume(s) PROVE JobFits(g)'
    <2>1. CASE g = s
      <3>1. PICK o \in OrderIds : inbox[s][o] > 0 /\ Ord!Start(s, "read", o, s, Ord!StatusFor[s])
        BY <1>8 DEF Ord!Consume
      <3>2. /\ ordPc'[g] = "read" /\ ordJob'[g].order = o /\ ordJob'[g].by = s
            /\ ordJob'[g].to = Ord!StatusFor[s]
        BY <1>1, <2>1, <3>1 DEF Ord!Start, Ord!TypeOK
      <3>3. sent'[s][o] > 0
        BY <1>2, <3>1 DEF OrderInv, InboxWasSent
      <3>. QED BY <3>2, <3>3 DEF JobFits, Written, Ord!StatusFor, Ord!Subscribers
    <2>2. CASE g # s
      BY <1>1, <1>5, <1>8, <2>2 DEF Ord!Consume, Ord!Start, Ord!TypeOK
    <2>. QED BY <2>1, <2>2
  <1>9. ASSUME NEW h \in Ord!Handlers, Ord!Step(h) \/ Ord!Fail(h) PROVE JobFits(g)'
    <2>1. CASE g # h
      BY <1>1, <1>5, <1>9, <2>1 DEF Ord!Step, Ord!Fail, Ord!Read, Ord!Update, Ord!Commit, Ord!ReturnRow,
         Ord!CacheStatus, Ord!Publish, Ord!Finish, Ord!Goto, Ord!TypeOK
    <2>2. CASE g = h /\ ordPc'[g] # "idle"
      <3>1. Ord!Read(h) \/ Ord!Update(h) \/ Ord!ReturnRow(h) \/ Ord!CacheStatus(h)
        BY <1>1, <1>9, <2>2 DEF Ord!Step, Ord!Fail, Ord!Publish, Ord!Finish, Ord!TypeOK
      <3>2. CASE Ord!ReturnRow(h) \/ Ord!CacheStatus(h)
        BY <1>1, <1>6, <2>2, <3>2 DEF Ord!ReturnRow, Ord!CacheStatus, Ord!Goto, Ord!Finish, Ord!TypeOK, Written
      <3>3. CASE Ord!Update(h)
        <4>1. ordPc[g] = "update" /\ ordPc'[g] = "commit" /\ ordJob'[g] = ordJob[g]
          BY <1>1, <2>2, <3>3 DEF Ord!Update, Ord!Goto, Ord!Finish, Ord!TypeOK
        <4>. QED BY <1>1, <1>2, <1>3, <4>1 DEF JobFits, Written
      <3>4. CASE Ord!Read(h)
        <4>1. /\ ordPc[g] = "read" /\ ordPc'[g] = "update" /\ orders[ordJob[g].order] # None
              /\ ordJob' = [ordJob EXCEPT ![h].from = orders[ordJob[h].order]]
          BY <1>1, <2>2, <3>4 DEF Ord!Read, Ord!Finish, Ord!TypeOK
        <4>2. /\ ordJob'[g].order = ordJob[g].order /\ ordJob'[g].to = ordJob[g].to
              /\ ordJob'[g].by = ordJob[g].by
          BY <1>1, <1>3, <2>2, <4>1 DEF Ord!TypeOK, Ord!Jobs
        <4>. QED BY <1>1, <1>2, <1>3, <4>1, <4>2 DEF JobFits, Written
      <3>. QED BY <3>1, <3>2, <3>3, <3>4
    <2>. QED BY <1>4, <2>1, <2>2
  <1>10. ASSUME NEW s \in Ord!Subscribers, NEW o \in OrderIds, Ord!Lose(s, o) \/ Ord!PaymentEvent(s, o)
         PROVE  JobFits(g)'
    BY <1>5, <1>10 DEF Ord!Lose, Ord!PaymentEvent
  <1>11. CASE Ord!Crash
    BY <1>4, <1>11 DEF Ord!Crash
  <1>12. CASE UNCHANGED ordVars
    BY <1>5, <1>12 DEF ordVars
  <1>. QED BY <1>7, <1>8, <1>9, <1>10, <1>11, <1>12 DEF OrderMoves

LEMMA MovesKeepOrderInv ==
  ASSUME OrdFacts!IInv, OrderInv, OrderMoves
  PROVE  OrderInv' /\ OrdersGrow
  <1>1. CASE \E h \in Ord!Handlers : Ord!Commit(h)
    BY <1>1, CommitKeepsOrderInv
  <1>2. CASE ~ \E h \in Ord!Handlers : Ord!Commit(h)
    <2>1. UNCHANGED <<orders, history>>
      BY <1>2, OthersKeepTables
    <2>2. PaidByEvent'
      <3>1. "payment.succeeded" \in Ord!Subscribers
        BY DEF Ord!Subscribers
      <3>. QED BY <2>1, <3>1, EventsOnlyGrow DEF OrderInv, PaidByEvent
    <2>. QED BY <1>2, <2>1, <2>2, EventsOnlyGrow, OthersKeepJobs DEF OrderInv, OrdersGrow
  <1>. QED BY <1>1, <1>2


-----------------------------------------------------------------------------
(* The payment service, as a checkout uses it *)

Keeps(w) == payArg'[w] = payArg[w] /\ payP'[w] = payP[w]

\* Where a step takes its handler.
Turns(w) ==
    \/ payPc[w] = "create" /\ payPc'[w] = "insert" /\ payArg'[w] = payArg[w]
    \/ payPc[w] = "create" /\ payPc'[w] = "fetch" /\ idempotency[payArg[w]] # None
    \/ /\ payPc[w] = "insert" /\ payPc'[w] = "save" /\ payArg'[w] = payArg[w]
       /\ payP'[w].key = payArg[w] /\ payP'[w].status = "pending"
    \/ /\ payPc[w] = "charge" /\ payPc'[w] = "update"
       /\ payP'[w].key = payP[w].key /\ payP'[w].status \in {"succeeded", "failed"}
    \/ /\ payPc[w] \in {"refund", "confirm", "cancel"} /\ payPc'[w] = "update"
    \/ payPc[w] \in {"save", "update"} /\ payPc'[w] = "log" /\ Keeps(w)
    \/ payPc[w] = "log" /\ payPc'[w] = "publish" /\ Keeps(w)
    \/ payPc[w] = "log" /\ payPc'[w] = "refundRow" /\ Keeps(w) /\ payP[w].status = "refunded"
    \/ payPc[w] = "refundRow" /\ payPc'[w] = "publish" /\ Keeps(w)
    \/ payPc[w] = "publish" /\ payPc'[w] = "charge" /\ Keeps(w) /\ payP[w].status = "pending"
    \/ payPc[w] = "publish" /\ payPc'[w] = "email" /\ Keeps(w) /\ payP[w].status # "pending"
    \/ payPc[w] = "publish" /\ payPc'[w] = "idle" /\ payP[w].status = "cancelled"
    \/ /\ payPc[w] \in {"fetch", "refund", "confirm", "cancel", "insert", "email"}
       /\ payPc'[w] = "idle"
       /\ payReply'[w] = "ok" => payPc[w] \in {"fetch", "confirm", "email"}

OthersWait(w) ==
    \A v \in Workers \ {w} :
        /\ payPc'[v] = payPc[v] /\ payArg'[v] = payArg[v] /\ payP'[v] = payP[v]
        /\ payReply'[v] = payReply[v]

\* No row vanishes or changes its key; a new one comes from an insert.
RowsOf(w) ==
    /\ \A i \in PaymentIds : Pay!Exists(i) =>
          payments'[i] # None /\ payments'[i].key = payments[i].key
    /\ \A i \in PaymentIds : payments'[i] # None =>
          \/ Pay!Exists(i)
          \/ /\ payPc[w] = "insert" /\ payPc'[w] = "save"
             /\ payments'[i].key = payArg[w] /\ ~Pay!KeyTaken(payArg[w])

LogsOf(w) ==
    \A i \in PaymentIds, s \in Pay!Status :
        logged'[i][s] > 0 <=>
            \/ logged[i][s] > 0
            \/ payPc[w] = "log" /\ i = payP[w].id /\ s = payP[w].status

PaymentFlow(w) == Turns(w) /\ OthersWait(w) /\ RowsOf(w) /\ LogsOf(w)

\* A handler moves on, or returns, and leaves the others where they are.
LEMMA ProceedsAlone ==
  ASSUME Pay!TypeOK, NEW w \in Workers, NEW label, NEW x, Pay!Proceed(w, label, x)
  PROVE  /\ OthersWait(w)
         /\ payPc'[w] = label /\ payP'[w] = x /\ payArg'[w] = payArg[w]
  BY DEF Pay!TypeOK, Pay!HandlersOK, Pay!Proceed, OthersWait

LEMMA ReturnsAlone ==
  ASSUME Pay!TypeOK, NEW w \in Workers, NEW r, Pay!Return(w, r)
  PROVE  /\ OthersWait(w)
         /\ payPc'[w] = "idle" /\ payReply'[w] = r
  BY DEF Pay!TypeOK, Pay!HandlersOK, Pay!Return, OthersWait

LEMMA SameRows ==
  ASSUME UNCHANGED payments, NEW w PROVE RowsOf(w)
  BY DEF RowsOf, Pay!Exists

LEMMA SameLogs ==
  ASSUME UNCHANGED logged, NEW w, payPc[w] # "log" PROVE LogsOf(w)
  BY DEF LogsOf

LEMMA HandlersTyped ==
  ASSUME PayFacts!IInv, NEW w \in Workers
  PROVE  /\ Pay!TypeOK
         /\ payPc[w] \in {"create", "insert", "save"} => payArg[w] \in OrderIds
         /\ payPc[w] \in Pay!Holding =>
              /\ payP[w].id \in PaymentIds /\ payP[w].key \in OrderIds /\ payP[w].status \in Pay!Status
              /\ payP[w] \in Pay!PaymentRecord
  <1>1. Pay!TypeOK
    BY PaymentShape
  <1>2. payPc[w] \in Pay!Holding => payP[w] \in Pay!PaymentRecord
    BY <1>1 DEF Pay!TypeOK, Pay!HandlersOK
  <1>. QED BY <1>1, <1>2 DEF Pay!TypeOK, Pay!HandlersOK, Pay!PaymentRecord

\* Create, up to its first log entry
LEMMA LookUpFlows ==
  ASSUME PayFacts!IInv, NEW w \in Workers, Pay!LookUpKey(w) PROVE PaymentFlow(w)
  <1>1. Pay!TypeOK /\ payPc[w] = "create" /\ UNCHANGED <<payments, logged>>
    BY PaymentShape DEF Pay!LookUpKey, Pay!storage
  <1>2. CASE Pay!Proceed(w, "insert", None)
    BY <1>1, <1>2, ProceedsAlone, SameRows, SameLogs DEF PaymentFlow, Turns
  <1>3. CASE idempotency[payArg[w]] # None /\ ~Pay!Proceed(w, "insert", None)
    <2>1. OthersWait(w) /\ payPc'[w] = "fetch"
      BY <1>1, <1>3 DEF Pay!LookUpKey, Pay!TypeOK, Pay!HandlersOK, OthersWait
    <2>. QED BY <1>1, <1>3, <2>1, SameRows, SameLogs DEF PaymentFlow, Turns
  <1>. QED BY <1>2, <1>3 DEF Pay!LookUpKey

LEMMA InsertFlows ==
  ASSUME PayFacts!IInv, NEW w \in Workers, Pay!InsertPayment(w) PROVE PaymentFlow(w)
  <1>1. Pay!TypeOK /\ payPc[w] = "insert" /\ UNCHANGED logged
    BY PaymentShape DEF Pay!InsertPayment
  <1>2. CASE Pay!KeyTaken(payArg[w])
    <2>1. Pay!Return(w, "duplicate") /\ UNCHANGED payments
      BY <1>2 DEF Pay!InsertPayment
    <2>. QED BY <1>1, <2>1, ReturnsAlone, SameRows, SameLogs DEF PaymentFlow, Turns
  <1>3. CASE ~Pay!KeyTaken(payArg[w])
    <2>. DEFINE new(i) == [id |-> i, key |-> payArg[w], status |-> "pending",
                           transaction |-> "none",
                           refundReason |-> FALSE, failureReason |-> FALSE]
    <2>1. PICK i \in PaymentIds :
            /\ ~Pay!Exists(i)
            /\ payments' = [payments EXCEPT ![i] = new(i)]
            /\ Pay!Proceed(w, "save", new(i))
      BY <1>3 DEF Pay!InsertPayment
    <2>2. OthersWait(w) /\ payPc'[w] = "save" /\ payP'[w] = new(i) /\ payArg'[w] = payArg[w]
      BY <1>1, <2>1, ProceedsAlone
    <2>3. new(i).key = payArg[w] /\ new(i).status = "pending"
      OBVIOUS
    <2>4. \A j \in PaymentIds : payments'[j] = IF j = i THEN new(i) ELSE payments[j]
      BY <1>1, <2>1 DEF Pay!TypeOK, Pay!TablesOK
    <2>. HIDE DEF new
    <2>5. RowsOf(w)
      BY <1>1, <1>3, <2>1, <2>2, <2>3, <2>4 DEF RowsOf, Pay!Exists
    <2>. QED BY <1>1, <2>2, <2>3, <2>5, SameLogs DEF PaymentFlow, Turns
  <1>. QED BY <1>2, <1>3

LEMMA SaveFlows ==
  ASSUME PayFacts!IInv, NEW w \in Workers, Pay!SaveKey(w) PROVE PaymentFlow(w)
  <1>1. Pay!TypeOK /\ payPc[w] = "save" /\ UNCHANGED <<payments, logged>> /\ Pay!Proceed(w, "log", payP[w])
    BY PaymentShape DEF Pay!SaveKey
  <1>. QED BY <1>1, ProceedsAlone, SameRows, SameLogs DEF PaymentFlow, Turns, Keeps

LEMMA ChargeFlows ==
  ASSUME PayFacts!IInv, NEW w \in Workers, Pay!Charge(w) PROVE PaymentFlow(w)
  <1>1. Pay!TypeOK /\ payPc[w] = "charge" /\ UNCHANGED <<payments, logged>>
    BY PaymentShape DEF Pay!Charge, Pay!storage
  <1>2. PICK outcome \in Pay!Outcomes : Pay!Proceed(w, "update", Pay!Charged(payP[w], outcome))
    BY DEF Pay!Charge
  <1>3. payP[w] \in Pay!PaymentRecord
    BY <1>1, HandlersTyped DEF Pay!Holding
  <1>4. /\ Pay!Charged(payP[w], outcome).key = payP[w].key
        /\ Pay!Charged(payP[w], outcome).status = outcome
    BY <1>3 DEF Pay!Charged, Pay!PaymentRecord
  <1>. QED BY <1>1, <1>2, <1>4, ProceedsAlone, SameRows, SameLogs
           DEF PaymentFlow, Turns, Pay!Outcomes

\* The three operations that start by reading the row
LEMMA ReadFlows ==
  ASSUME PayFacts!IInv, NEW w \in Workers,
         Pay!FetchExisting(w) \/ Pay!ReadForRefund(w) \/ Pay!ReadForConfirm(w) \/ Pay!ReadForCancel(w)
  PROVE  PaymentFlow(w)
  <1>1. /\ Pay!TypeOK /\ UNCHANGED <<payments, logged>>
        /\ payPc[w] \in {"fetch", "refund", "confirm", "cancel"}
    BY PaymentShape DEF Pay!FetchExisting, Pay!ReadForRefund, Pay!ReadForConfirm, Pay!ReadForCancel,
       Pay!storage
  <1>2. CASE payPc[w] # "fetch" /\ \E x : Pay!Proceed(w, "update", x)
    <2>1. OthersWait(w) /\ payPc'[w] = "update"
      BY <1>1, <1>2, ProceedsAlone
    <2>. QED BY <1>1, <1>2, <2>1, SameRows, SameLogs DEF PaymentFlow, Turns
  <1>3. CASE \E r : Pay!Return(w, r) /\ (r = "ok" => payPc[w] \in {"fetch", "confirm"})
    <2>1. PICK r : Pay!Return(w, r) /\ (r = "ok" => payPc[w] \in {"fetch", "confirm"})
      BY <1>3
    <2>2. OthersWait(w) /\ payPc'[w] = "idle" /\ payReply'[w] = r
      BY <1>1, <2>1, ReturnsAlone
    <2>. QED BY <1>1, <2>1, <2>2, SameRows, SameLogs DEF PaymentFlow, Turns
  <1>. QED BY <1>2, <1>3 DEF Pay!FetchExisting, Pay!ReadForRefund, Pay!ReadForConfirm, Pay!ReadForCancel

\* What every operation does with its struct
LEMMA UpdateFlows ==
  ASSUME PayFacts!IInv, NEW w \in Workers, Pay!UpdateRow(w) PROVE PaymentFlow(w)
  <1>1. /\ Pay!TypeOK /\ payPc[w] = "update" /\ UNCHANGED logged /\ Pay!Proceed(w, "log", payP[w])
        /\ payments' = [payments EXCEPT ![payP[w].id] = Pay!Overwrite(payments[payP[w].id], payP[w])]
    BY PaymentShape DEF Pay!UpdateRow
  <1>2. payP[w].id \in PaymentIds /\ Pay!Exists(payP[w].id)
    BY <1>1, HandlersTyped, PaymentShape DEF Pay!Holding
  <1>3. payments[payP[w].id] \in Pay!PaymentRecord
    BY <1>1, <1>2 DEF Pay!Exists, Pay!TypeOK, Pay!TablesOK
  <1>. DEFINE row == Pay!Overwrite(payments[payP[w].id], payP[w])
  <1>4. row \in Pay!PaymentRecord /\ row.key = payments[payP[w].id].key
    BY <1>1, <1>3, HandlersTyped DEF Pay!Holding, Pay!Overwrite, Pay!PaymentRecord
  <1>5. row # None
    BY <1>4, NoneIsNothing
  <1>6. \A i \in PaymentIds : payments'[i] = IF i = payP[w].id THEN row ELSE payments[i]
    BY <1>1 DEF Pay!TypeOK, Pay!TablesOK
  <1>. HIDE DEF row
  <1>7. RowsOf(w)
    BY <1>2, <1>4, <1>5, <1>6 DEF RowsOf, Pay!Exists
  <1>. QED BY <1>1, <1>7, ProceedsAlone, SameLogs DEF PaymentFlow, Turns, Keeps

LEMMA LogFlows ==
  ASSUME PayFacts!IInv, NEW w \in Workers, Pay!LogEvent(w) PROVE PaymentFlow(w)
  <1>. DEFINE i == payP[w].id
              s == payP[w].status
  <1>1. /\ Pay!TypeOK /\ payPc[w] = "log" /\ UNCHANGED payments
        /\ logged' = [logged EXCEPT ![i][s] = @ + 1]
        /\ Pay!Proceed(w, Pay!AfterLog(s), payP[w])
    BY PaymentShape DEF Pay!LogEvent
  <1>2. i \in PaymentIds /\ s \in Pay!Status
    BY <1>1, HandlersTyped DEF Pay!Holding
  <1>3. \A j \in PaymentIds, t \in Pay!Status :
          logged'[j][t] = IF j = i /\ t = s THEN logged[j][t] + 1 ELSE logged[j][t]
    BY <1>1, <1>2 DEF Pay!TypeOK, Pay!TablesOK
  <1>4. \A j \in PaymentIds, t \in Pay!Status : logged[j][t] \in Nat
    BY <1>1 DEF Pay!TypeOK, Pay!TablesOK
  <1>5. LogsOf(w)
    BY <1>1, <1>3, <1>4 DEF LogsOf
  <1>6. Pay!AfterLog(s) = "publish" \/ (Pay!AfterLog(s) = "refundRow" /\ s = "refunded")
    BY DEF Pay!AfterLog
  <1>. QED BY <1>1, <1>5, <1>6, ProceedsAlone, SameRows DEF PaymentFlow, Turns, Keeps

LEMMA TailFlows ==
  ASSUME PayFacts!IInv, NEW w \in Workers, Pay!InsertRefund(w) \/ Pay!Publish(w) \/ Pay!SendEmail(w)
  PROVE  PaymentFlow(w)
  <1>1. Pay!TypeOK /\ UNCHANGED <<payments, logged>> /\ payPc[w] \in {"refundRow", "publish", "email"}
    BY PaymentShape DEF Pay!InsertRefund, Pay!Publish, Pay!SendEmail, Pay!storage
  <1>2. RowsOf(w) /\ LogsOf(w)
    BY <1>1, SameRows, SameLogs
  <1>3. CASE payPc[w] = "refundRow" /\ Pay!Proceed(w, "publish", payP[w])
    BY <1>1, <1>2, <1>3, ProceedsAlone DEF PaymentFlow, Turns, Keeps
  <1>4. CASE payPc[w] = "publish" /\ payP[w].status = "pending" /\ Pay!Proceed(w, "charge", payP[w])
    BY <1>1, <1>2, <1>4, ProceedsAlone DEF PaymentFlow, Turns, Keeps
  <1>5. CASE payPc[w] = "publish" /\ payP[w].status # "pending" /\ Pay!Proceed(w, "email", payP[w])
    BY <1>1, <1>2, <1>5, ProceedsAlone DEF PaymentFlow, Turns, Keeps
  <1>6. CASE payPc[w] = "publish" /\ payP[w].status = "cancelled" /\ Pay!Return(w, "ok")
    BY <1>1, <1>2, <1>6, ReturnsAlone DEF PaymentFlow, Turns
  <1>7. CASE payPc[w] = "email" /\ Pay!Return(w, "ok")
    BY <1>1, <1>2, <1>7, ReturnsAlone DEF PaymentFlow, Turns
  <1>. QED BY <1>3, <1>4, <1>5, <1>6, <1>7
           DEF Pay!InsertRefund, Pay!Publish, Pay!SendEmail, Pay!EndsAtPublish

LEMMA StepFlows ==
  ASSUME PayFacts!IInv, NEW w \in Workers, Pay!Step(w) PROVE PaymentFlow(w)
  BY LookUpFlows, InsertFlows, SaveFlows, ChargeFlows, ReadFlows, UpdateFlows, LogFlows, TailFlows
     DEF Pay!Step

-----------------------------------------------------------------------------
(* The browsers *)

OrderLabels == {"update", "commit", "committed", "cache", "publish"}

\* An open request has a handler of its own.
WebShape ==
    /\ screen \in [Customers -> Screens]
    /\ current \in [Customers -> OrderIds \cup {None}]
    /\ served \in [Customers -> Workers \cup {None}]
    /\ notice \in [Customers -> Notices]
    /\ \A c \in Customers : screen[c] # "cart" \/ notice[c] = "accepted" => current[c] \in OrderIds
    /\ \A c \in Customers : served[c] # None <=> screen[c] \in {"ordering", "paying"}
    /\ \A c, d \in Customers : served[c] # None /\ served[c] = served[d] => c = d

\* An order being placed is the one its handler inserts.
Orderings ==
    \A c \in Customers : screen[c] = "ordering" =>
        /\ ordPc[served[c]] \in OrderLabels
        /\ ordJob[served[c]].by = "order created" /\ ordJob[served[c]].order = current[c]

\* An order that was placed has its row.
Placed == \A c \in Customers : screen[c] = "ordered" => orders[current[c]] # None

Web == WebShape /\ Orderings /\ Placed

\* Payments are requested and stored for orders that exist, and what is logged
\* is stored; an outcome is logged before it is published.
Requested == \A w \in Workers : payPc[w] \in {"create", "insert"} => orders[payArg[w]] # None
Backed    == \A i \in PaymentIds : Pay!Exists(i) => orders[payments[i].key] # None
LogStored == \A i \in PaymentIds, s \in Pay!Status : logged[i][s] > 0 => Pay!Exists(i)
LogFirst  == \A w \in Workers : payPc[w] \in {"refundRow", "publish"} =>
                 logged[payP[w].id][payP[w].status] > 0

PayInv == Requested /\ Backed /\ LogStored /\ LogFirst

Inv == PayFacts!IInv /\ OrdFacts!IInv /\ OrderInv /\ PayInv /\ Web

-----------------------------------------------------------------------------
(* What a step of a checkout does to the services *)

\* A handler of the payment service starts.
PayCalls(w) ==
    /\ payPc[w] = "idle"
    /\ \/ /\ payPc'[w] = "create"
          /\ \E c \in Customers : /\ screen[c] = "ordered" /\ screen'[c] = "paying"
                                  /\ payArg'[w] = current[c]
       \/ payPc'[w] \in {"refund", "confirm", "cancel"}
    /\ OthersWait(w)
    /\ UNCHANGED <<payments, logged>>

\* Handlers stop, or nothing happens to them.
PayRests ==
    /\ UNCHANGED <<payments, logged>>
    /\ \A w \in Workers :
          \/ payPc'[w] = "idle"
          \/ payPc'[w] = payPc[w] /\ payArg'[w] = payArg[w] /\ payP'[w] = payP[w]

LEMMA WebTyped ==
  ASSUME Web, NEW c \in Customers
  PROVE  /\ screen[c] \in Screens /\ current[c] \in OrderIds \cup {None}
         /\ served[c] \in Workers \cup {None}
         /\ screen[c] # "cart" => current[c] \in OrderIds
  BY DEF Web, WebShape

LEMMA NextOnPayments ==
  ASSUME Inv, [Next]_vars
  PROVE  /\ [Pay!Next]_(Pay!vars)
         /\ PayRests \/ \E w \in Workers : PayCalls(w) \/ Pay!Step(w)
  <1>1. Pay!TypeOK
    BY PaymentShape DEF Inv
  <1>2. CASE UNCHANGED payVars
    BY <1>2 DEF payVars, Pay!vars, Pay!storage, Pay!effects, Pay!control, PayRests
  <1>3. ASSUME NEW c \in Customers, NEW w \in Workers, SendPayment(c, w)
        PROVE  Pay!Next /\ PayCalls(w)
    <2>1. current[c] \in OrderIds /\ screen[c] = "ordered" /\ Pay!Call(w, "create", current[c])
      BY <1>3, WebTyped DEF Inv, SendPayment
    <2>2. Pay!Next
      BY <2>1 DEF Pay!Next, Pay!Request
    <2>3. screen'[c] = "paying"
      BY <1>3 DEF SendPayment, Show, Inv, Web, WebShape
    <2>4. PayCalls(w)
      BY <1>1, <2>1, <2>3
         DEF PayCalls, OthersWait, Pay!Call, Pay!storage, Pay!TypeOK, Pay!HandlersOK
    <2>. QED BY <2>2, <2>4
  <1>4. ASSUME NEW w \in Workers, PaymentStep(w) PROVE Pay!Next /\ Pay!Step(w)
    BY <1>4 DEF PaymentStep, Pay!Next
  <1>5. ASSUME NEW w \in Workers, PaymentFails(w) PROVE Pay!Next /\ PayRests
    <2>1. Pay!StepError(w)
      BY <1>5 DEF PaymentFails
    <2>2. PayRests
      BY <1>1, <2>1 DEF PayRests, Pay!StepError, Pay!Return, Pay!storage, Pay!TypeOK, Pay!HandlersOK
    <2>. QED BY <2>1, <2>2 DEF Pay!Next
  <1>6. ASSUME NEW w \in Workers, NEW i \in PaymentIds, ChangePayment(w, i)
        PROVE  Pay!Next /\ PayCalls(w)
    <2>1. \A s \in DOMAIN Pay!WebhookOperation : Pay!WebhookOperation[s] \in {"confirm", "cancel"}
      BY DEF Pay!WebhookOperation
    <2>2. PICK op \in {"refund", "confirm", "cancel"} : Pay!Call(w, op, i)
      BY <1>6, <2>1 DEF ChangePayment, Pay!Webhook
    <2>3. PayCalls(w)
      BY <1>1, <2>2 DEF PayCalls, OthersWait, Pay!Call, Pay!storage, Pay!TypeOK, Pay!HandlersOK
    <2>4. Pay!Next
      BY <2>2 DEF Pay!Next, Pay!Request
    <2>. QED BY <2>3, <2>4
  <1>7. CASE PaymentCrash
    BY <1>7 DEF PaymentCrash, Pay!Crash, Pay!Next, PayRests, Pay!storage
  <1>8. ASSUME NEW k \in OrderIds, ExpireKey(k) PROVE Pay!Next /\ PayRests
    BY <1>8 DEF ExpireKey, Pay!ExpireKey, Pay!Next, PayRests, Pay!control
  <1>9. CASE \E c \in Customers, w \in Workers : Tap(c, w)
    BY <1>2, <1>9 DEF Tap
  <1>10. CASE \E c \in Customers : Poll(c) \/ LoseConnection(c)
    BY <1>2, <1>10 DEF Poll, LoseConnection
  <1>11. CASE \E w \in Workers : OrderStep(w) \/ OrderFails(w) \/ ChangeOrder(w)
    BY <1>2, <1>11 DEF OrderStep, OrderFails, ChangeOrder
  <1>12. CASE \E s \in Ord!Subscribers : OrderReacts(s) \/ LoseEvent(s)
    BY <1>2, <1>12 DEF OrderReacts, LoseEvent
  <1>13. CASE OrderCrash
    BY <1>2, <1>13 DEF OrderCrash
  <1>14. CASE UNCHANGED vars
    BY <1>2, <1>14 DEF vars
  <1>. QED BY <1>3, <1>4, <1>5, <1>6, <1>7, <1>8, <1>9, <1>10, <1>11, <1>12, <1>13, <1>14
           DEF Next, Browse, Serve, Trouble

LEMMA NextOnOrders ==
  ASSUME Inv, [Next]_vars
  PROVE  OrderMoves
  <1>1. ASSUME NEW w \in Workers, PaymentStep(w) PROVE OrderMoves
    <2>1. CASE payPc[w] = "publish" /\ payP[w].status \in DOMAIN SubjectOf
      <3>1. Ord!PaymentEvent(SubjectOf[payP[w].status], payP[w].key)
        BY <1>1, <2>1 DEF PaymentStep, Deliver
      <3>2. payP[w].key \in OrderIds
        BY <2>1, HandlersTyped DEF Inv, Pay!Holding
      <3>3. SubjectOf[payP[w].status] \in Ord!Subscribers
        BY <2>1 DEF SubjectOf, Ord!Subscribers
      <3>. QED BY <3>1, <3>2, <3>3 DEF OrderMoves
    <2>2. CASE ~(payPc[w] = "publish" /\ payP[w].status \in DOMAIN SubjectOf)
      BY <1>1, <2>2 DEF PaymentStep, Deliver, OrderMoves
    <2>. QED BY <2>1, <2>2
  <1>2. CASE UNCHANGED ordVars
    BY <1>2 DEF OrderMoves
  <1>3. CASE \E c \in Customers, w \in Workers : Tap(c, w)
    BY <1>3 DEF Tap, OrderMoves, Ord!Request
  <1>4. CASE \E w \in Workers : OrderStep(w) \/ OrderFails(w) \/ ChangeOrder(w)
    BY <1>4 DEF OrderStep, OrderFails, ChangeOrder, OrderMoves, Ord!Request, Ord!Handlers
  <1>5. CASE \E s \in Ord!Subscribers : OrderReacts(s) \/ LoseEvent(s)
    BY <1>5 DEF OrderReacts, LoseEvent, OrderMoves, Ord!Handlers
  <1>6. CASE OrderCrash
    BY <1>6 DEF OrderCrash, OrderMoves
  <1>7. CASE \E c \in Customers : Poll(c) \/ LoseConnection(c) \/ \E w \in Workers : SendPayment(c, w)
    BY <1>2, <1>7 DEF Poll, LoseConnection, SendPayment
  <1>8. CASE \/ \E w \in Workers : PaymentFails(w) \/ \E i \in PaymentIds : ChangePayment(w, i)
             \/ \E k \in OrderIds : ExpireKey(k)
             \/ PaymentCrash
    BY <1>2, <1>8 DEF PaymentFails, ChangePayment, ExpireKey, PaymentCrash
  <1>9. CASE UNCHANGED vars
    BY <1>2, <1>9 DEF vars
  <1>. QED BY <1>1, <1>3, <1>4, <1>5, <1>6, <1>7, <1>8, <1>9 DEF Next, Browse, Serve, Trouble

LEMMA ServicesGoOn ==
  ASSUME Inv, [Next]_vars
  PROVE  PayFacts!IInv' /\ OrdFacts!IInv' /\ OrderInv' /\ OrdersGrow
  BY NextOnPayments, NextOnOrders, PaymentStays, OrdersStay, MovesAreSteps, MovesKeepOrderInv
     DEF Inv

LEMMA StepKeepsPayInv ==
  ASSUME Inv, OrdersGrow, NEW w \in Workers, PaymentFlow(w) PROVE PayInv'
  <1>1. \A o \in OrderIds : orders[o] # None => orders'[o] # None
    BY DEF OrdersGrow
  <1>2. /\ \A i \in PaymentIds : Pay!Exists(i) => payments[i].key \in OrderIds
        /\ \A v \in Workers : payPc[v] \in {"create", "insert", "save"} => payArg[v] \in OrderIds
    BY PaymentShape, HandlersTyped
       DEF Inv, Pay!TypeOK, Pay!TablesOK, Pay!PaymentRecord, Pay!Exists
  <1>3. \A v \in Workers \ {w} : payPc'[v] = payPc[v] /\ payArg'[v] = payArg[v] /\ payP'[v] = payP[v]
    BY DEF PaymentFlow, OthersWait
  <1>4. Requested'
    <2>1. payPc'[w] \in {"create", "insert"} => payPc[w] = "create" /\ payArg'[w] = payArg[w]
      BY DEF PaymentFlow, Turns
    <2>. QED BY <1>1, <1>2, <1>3, <2>1 DEF Inv, PayInv, Requested
  <1>5. Backed'
    BY <1>1, <1>2 DEF Inv, PayInv, Requested, Backed, PaymentFlow, RowsOf, Pay!Exists
  <1>6. LogStored'
    <2>1. payPc[w] = "log" => Pay!Exists(payP[w].id)
      BY PaymentShape DEF Inv, Pay!Holding
    <2>. QED BY <2>1 DEF Inv, PayInv, LogStored, PaymentFlow, LogsOf, RowsOf, Pay!Exists
  <1>7. LogFirst'
    <2>1. \A v \in Workers : payPc[v] \in {"log", "refundRow", "publish"} =>
            payP[v].id \in PaymentIds /\ payP[v].status \in Pay!Status
      BY HandlersTyped DEF Inv, Pay!Holding
    <2>2. payPc'[w] \in {"refundRow", "publish"} =>
            payPc[w] \in {"log", "refundRow"} /\ payP'[w] = payP[w]
      BY DEF PaymentFlow, Turns, Keeps
    <2>3. \A v \in Workers : payPc'[v] \in {"refundRow", "publish"} =>
            /\ payPc[v] \in {"log", "refundRow", "publish"} /\ payP'[v] = payP[v]
            /\ payPc[v] = "log" => v = w
      BY <1>3, <2>2
    <2>. QED BY <2>1, <2>3 DEF Inv, PayInv, LogFirst, PaymentFlow, LogsOf
  <1>. QED BY <1>4, <1>5, <1>6, <1>7 DEF PayInv

LEMMA PaymentsGoOn ==
  ASSUME Inv, [Next]_vars PROVE PayInv'
  <1>1. OrdersGrow
    BY ServicesGoOn
  <1>2. ASSUME NEW w \in Workers, Pay!Step(w) PROVE PayInv'
    BY <1>1, <1>2, StepFlows, StepKeepsPayInv DEF Inv
  <1>3. CASE UNCHANGED <<payments, logged>>
    <2>1. \A i \in PaymentIds : Pay!Exists(i) => payments[i].key \in OrderIds
      BY PaymentShape DEF Inv, Pay!TypeOK, Pay!TablesOK, Pay!PaymentRecord, Pay!Exists
    <2>2. Backed' /\ LogStored'
      BY <1>1, <1>3, <2>1 DEF Inv, PayInv, Backed, LogStored, OrdersGrow, Pay!Exists
    <2>3. ASSUME NEW w \in Workers, PayCalls(w) PROVE Requested' /\ LogFirst'
      <3>1. payPc'[w] = "create" => payArg'[w] \in OrderIds /\ orders[payArg'[w]] # None
        BY <2>3, WebTyped DEF PayCalls, Inv, Web, Placed
      <3>2. \A v \in Workers : payPc[v] \in {"create", "insert"} => payArg[v] \in OrderIds
        BY HandlersTyped DEF Inv
      <3>3. Requested'
        BY <1>1, <2>3, <3>1, <3>2 DEF PayCalls, OthersWait, Inv, PayInv, Requested, OrdersGrow
      <3>4. LogFirst'
        BY <1>3, <2>3 DEF PayCalls, OthersWait, Inv, PayInv, LogFirst
      <3>. QED BY <3>3, <3>4
    <2>4. ASSUME PayRests PROVE Requested' /\ LogFirst'
      <3>1. \A v \in Workers : payPc[v] \in {"create", "insert"} => payArg[v] \in OrderIds
        BY HandlersTyped DEF Inv
      <3>. QED BY <1>1, <1>3, <2>4, <3>1 DEF PayRests, Inv, PayInv, Requested, LogFirst, OrdersGrow
    <2>5. PayRests \/ \E w \in Workers : PayCalls(w) \/ Pay!Step(w)
      BY NextOnPayments
    <2>. QED BY <1>2, <2>2, <2>3, <2>4, <2>5 DEF PayInv
  <1>. QED BY <1>2, <1>3, NextOnPayments DEF PayCalls, PayRests

-----------------------------------------------------------------------------
(* Placing an order *)

\* The handlers that a step of the order service leaves where they are.
OthersRest(h) ==
    \A g \in Ord!Handlers \ {h} : ordPc'[g] = ordPc[g] /\ ordJob'[g] = ordJob[g]

LEMMA StartsAlone ==
  ASSUME Ord!TypeOK, NEW h \in Ord!Handlers, NEW label, NEW o, NEW by, NEW to,
         Ord!Start(h, label, o, by, to)
  PROVE  /\ OthersRest(h) /\ ordPc[h] = "idle"
         /\ ordPc'[h] = label
         /\ ordJob'[h].order = o /\ ordJob'[h].by = by /\ ordJob'[h].to = to
  BY DEF Ord!TypeOK, Ord!Start, OthersRest

LEMMA StepsAlone ==
  ASSUME Ord!TypeOK, NEW h \in Ord!Handlers, Ord!Step(h) \/ Ord!Fail(h) PROVE OthersRest(h)
  BY DEF Ord!TypeOK, Ord!Step, Ord!Fail, Ord!Read, Ord!Update, Ord!Commit, Ord!ReturnRow,
     Ord!CacheStatus, Ord!Publish, Ord!Goto, Ord!Finish, OthersRest

\* Create goes through its labels or ends, and ends well only at the last.
LEMMA CreateGoesOn ==
  ASSUME Ord!TypeOK, NEW h \in Ord!Handlers, Ord!Step(h) \/ Ord!Fail(h),
         ordPc[h] \in OrderLabels, ordJob[h].by = "order created"
  PROVE  \/ ordPc'[h] = "idle"
         \/ /\ ordPc'[h] \in OrderLabels /\ ordJob'[h] = ordJob[h]
            /\ ordPc'[h] \in Written => ordPc[h] \in {"commit", "committed", "cache"}
            /\ ordPc[h] \in Written => ordPc'[h] \in Written
            /\ ordPc[h] = "commit" => Ord!Commit(h)
  <1>1. CASE Ord!Fail(h) \/ Ord!Publish(h)
    BY <1>1 DEF Ord!Fail, Ord!Publish, Ord!Finish, Ord!TypeOK
  <1>2. CASE Ord!Read(h)
    BY <1>2 DEF Ord!Read, OrderLabels
  <1>3. CASE Ord!Update(h) \/ Ord!Commit(h) \/ Ord!ReturnRow(h) \/ Ord!CacheStatus(h)
    BY <1>3 DEF Ord!Update, Ord!Commit, Ord!ReturnRow, Ord!CacheStatus, Ord!Goto, Ord!Finish,
       Ord!TypeOK, OrderLabels, Written
  <1>. QED BY <1>1, <1>2, <1>3 DEF Ord!Step

-----------------------------------------------------------------------------
(* What a step of a checkout does to the browsers *)

BrowserTo(c, x, o, w, n) ==
    /\ screen'  = [screen EXCEPT ![c] = x]
    /\ current' = [current EXCEPT ![c] = o]
    /\ served'  = [served EXCEPT ![c] = w]
    /\ notice'  = [notice EXCEPT ![c] = n]

\* One browser moves, and the others stay.
LEMMA OneBrowserMoves ==
  ASSUME WebShape, NEW c \in Customers, NEW x, NEW o, NEW w, NEW n, BrowserTo(c, x, o, w, n)
  PROVE  /\ screen'[c] = x /\ current'[c] = o /\ served'[c] = w /\ notice'[c] = n
         /\ \A d \in Customers \ {c} :
              /\ screen'[d] = screen[d] /\ current'[d] = current[d]
              /\ served'[d] = served[d] /\ notice'[d] = notice[d]
  BY DEF WebShape, BrowserTo

LEMMA MoveKeepsShape ==
  ASSUME WebShape, NEW c \in Customers, NEW x \in Screens, NEW o \in OrderIds \cup {None},
         NEW w \in Workers \cup {None}, NEW n \in Notices, BrowserTo(c, x, o, w, n),
         x # "cart" \/ n = "accepted" => o \in OrderIds,
         w # None <=> x \in {"ordering", "paying"},
         w # None => \A d \in Customers \ {c} : served[d] # w
  PROVE  WebShape'
  <1>1. /\ screen' \in [Customers -> Screens] /\ current' \in [Customers -> OrderIds \cup {None}]
        /\ served' \in [Customers -> Workers \cup {None}] /\ notice' \in [Customers -> Notices]
    BY DEF WebShape, BrowserTo
  <1>. QED BY <1>1, OneBrowserMoves DEF WebShape

LEMMA RestKeepsShape ==
  ASSUME WebShape, UNCHANGED webVars PROVE WebShape'
  BY DEF WebShape, webVars

\* The ways in which a browser moves
LEMMA GivingUp ==
  ASSUME WebShape, NEW c \in Customers, GiveUp(c)
  PROVE  BrowserTo(c, "cart", current[c], None, "failed") /\ WebShape'
  <1>1. BrowserTo(c, "cart", current[c], None, "failed")
    BY DEF WebShape, GiveUp, Show, BrowserTo
  <1>2. current[c] \in OrderIds \cup {None}
    BY DEF WebShape
  <1>. QED BY <1>1, <1>2, MoveKeepsShape DEF Screens, Notices

LEMMA Accepting ==
  ASSUME WebShape, NEW c \in Customers, screen[c] = "waiting", Accept(c)
  PROVE  BrowserTo(c, "cart", current[c], None, "accepted") /\ WebShape'
  <1>1. served[c] = None /\ current[c] \in OrderIds
    BY DEF WebShape
  <1>2. BrowserTo(c, "cart", current[c], None, "accepted")
    BY <1>1 DEF WebShape, Accept, Show, BrowserTo
  <1>. QED BY <1>1, <1>2, MoveKeepsShape DEF Screens, Notices

LEMMA Tapping ==
  ASSUME WebShape, Ord!TypeOK, NEW c \in Customers, NEW w \in Workers, Tap(c, w)
  PROVE  /\ \E o \in OrderIds :
              /\ BrowserTo(c, "ordering", o, w, "none")
              /\ ordPc'[w] = "update" /\ ordJob'[w].by = "order created" /\ ordJob'[w].order = o
         /\ \A d \in Customers : served[d] # w
         /\ screen[c] = "cart" /\ OthersRest(w)
         /\ WebShape'
  <1>1. PICK o \in OrderIds : Ord!Start(w, "update", o, "order created", "created")
    BY DEF Tap, Ord!Create
  <1>2. /\ ordPc'[w] = "update" /\ ordJob'[w].by = "order created" /\ ordJob'[w].order = o
        /\ OthersRest(w)
    <2>1. w \in Ord!Handlers
      BY DEF Ord!Handlers
    <2>. QED BY <1>1, <2>1, StartsAlone
  <1>3. BrowserTo(c, "ordering", o, w, "none")
    BY <1>2 DEF Tap, Show, BrowserTo
  <1>4. screen[c] = "cart" /\ \A d \in Customers : served[d] # w
    BY DEF Tap, Idle
  <1>5. w # None
    BY NoneIsNothing
  <1>6. WebShape'
    BY <1>3, <1>4, <1>5, MoveKeepsShape DEF Screens, Notices
  <1>. QED BY <1>2, <1>3, <1>4, <1>6

LEMMA Sending ==
  ASSUME WebShape, NEW c \in Customers, NEW w \in Workers, SendPayment(c, w)
  PROVE  /\ BrowserTo(c, "paying", current[c], w, notice[c])
         /\ screen[c] = "ordered" /\ \A d \in Customers : served[d] # w
         /\ WebShape'
  <1>1. screen[c] = "ordered" /\ \A d \in Customers : served[d] # w
    BY DEF SendPayment, Idle
  <1>2. w # None /\ current[c] \in OrderIds /\ notice[c] \in Notices
    BY <1>1, NoneIsNothing DEF WebShape
  <1>3. BrowserTo(c, "paying", current[c], w, notice[c])
    BY DEF SendPayment, Show, BrowserTo, WebShape
  <1>4. WebShape'
    BY <1>1, <1>2, <1>3, MoveKeepsShape DEF Screens
  <1>. QED BY <1>1, <1>3, <1>4

\* A request is answered: the order, or the payment, has come back.
LEMMA Answered ==
  ASSUME WebShape, NEW c \in Customers, screen[c] \in {"ordering", "paying"},
         NEW x \in {"ordered", "waiting"}, Show(c, x),
         served' = [served EXCEPT ![c] = None], UNCHANGED <<current, notice>>
  PROVE  BrowserTo(c, x, current[c], None, notice[c]) /\ WebShape'
  <1>1. current[c] \in OrderIds /\ notice[c] \in Notices
    BY DEF WebShape
  <1>2. BrowserTo(c, x, current[c], None, notice[c])
    BY DEF Show, BrowserTo, WebShape
  <1>. QED BY <1>1, <1>2, MoveKeepsShape DEF Screens

LEMMA Abandoning ==
  ASSUME WebShape, NEW s \in {"ordering", "paying"}, Abandon(s)
  PROVE  /\ WebShape'
         /\ \A d \in Customers :
              /\ screen[d] = s => screen'[d] = "cart" /\ notice'[d] = "failed"
              /\ screen[d] # s =>
                   screen'[d] = screen[d] /\ served'[d] = served[d] /\ notice'[d] = notice[d]
              /\ current'[d] = current[d]
  <1>1. \A d \in Customers :
              /\ screen[d] = s =>
                   screen'[d] = "cart" /\ served'[d] = None /\ notice'[d] = "failed"
              /\ screen[d] # s =>
                   screen'[d] = screen[d] /\ served'[d] = served[d] /\ notice'[d] = notice[d]
              /\ current'[d] = current[d]
    BY DEF Abandon
  <1>2. /\ screen' \in [Customers -> Screens] /\ current' \in [Customers -> OrderIds \cup {None}]
        /\ served' \in [Customers -> Workers \cup {None}] /\ notice' \in [Customers -> Notices]
    BY <1>1 DEF WebShape, Abandon, Screens, Notices
  <1>. QED BY <1>1, <1>2 DEF WebShape

\* What the end of a handler means for the browser it runs for.
LEMMA OrderEnding ==
  ASSUME WebShape, NEW w \in Workers, NEW how, OrderEnds(w, how)
  PROVE  /\ WebShape'
         /\ \/ UNCHANGED webVars
            \/ \E c \in Customers :
                 /\ served[c] = w /\ screen[c] = "ordering" /\ ordPc'[w] = "idle"
                 /\ \/ how = "ok" /\ BrowserTo(c, "ordered", current[c], None, notice[c])
                    \/ BrowserTo(c, "cart", current[c], None, "failed")
         /\ UNCHANGED webVars =>
              ordPc'[w] # "idle" \/ \A c \in Customers : ~(served[c] = w /\ screen[c] = "ordering")
  <1>1. ASSUME NEW c \in Customers, served[c] = w, screen[c] = "ordering", GiveUp(c)
        PROVE  /\ WebShape' /\ BrowserTo(c, "cart", current[c], None, "failed")
               /\ screen' # screen
    <2>1. WebShape' /\ BrowserTo(c, "cart", current[c], None, "failed")
      BY <1>1, GivingUp
    <2>. QED BY <1>1, <2>1, OneBrowserMoves
  <1>2. ASSUME NEW c \in Customers, served[c] = w, screen[c] = "ordering", Show(c, "ordered"),
               served' = [served EXCEPT ![c] = None], UNCHANGED <<current, notice>>
        PROVE  /\ WebShape' /\ BrowserTo(c, "ordered", current[c], None, notice[c])
               /\ screen' # screen
    <2>1. WebShape' /\ BrowserTo(c, "ordered", current[c], None, notice[c])
      BY <1>2, Answered
    <2>. QED BY <1>2, <2>1, OneBrowserMoves
  <1>3. CASE /\ ordPc'[w] # "idle" \/ \A c \in Customers : ~(served[c] = w /\ screen[c] = "ordering")
             /\ UNCHANGED webVars
    BY <1>3, RestKeepsShape
  <1>. QED BY <1>1, <1>2, <1>3 DEF OrderEnds, webVars

LEMMA PaymentEnding ==
  ASSUME WebShape, NEW w \in Workers, PaymentEnds(w)
  PROVE  /\ WebShape'
         /\ \/ UNCHANGED webVars
            \/ \E c \in Customers :
                 /\ served[c] = w /\ screen[c] = "paying" /\ payPc'[w] = "idle"
                 /\ \/ payReply'[w] = "ok" /\ BrowserTo(c, "waiting", current[c], None, notice[c])
                    \/ BrowserTo(c, "cart", current[c], None, "failed")
         /\ UNCHANGED webVars =>
              payPc'[w] # "idle" \/ \A c \in Customers : ~(served[c] = w /\ screen[c] = "paying")
  <1>1. ASSUME NEW c \in Customers, served[c] = w, screen[c] = "paying", GiveUp(c)
        PROVE  /\ WebShape' /\ BrowserTo(c, "cart", current[c], None, "failed")
               /\ screen' # screen
    <2>1. WebShape' /\ BrowserTo(c, "cart", current[c], None, "failed")
      BY <1>1, GivingUp
    <2>. QED BY <1>1, <2>1, OneBrowserMoves
  <1>2. ASSUME NEW c \in Customers, served[c] = w, screen[c] = "paying", Show(c, "waiting"),
               served' = [served EXCEPT ![c] = None], UNCHANGED <<current, notice>>
        PROVE  /\ WebShape' /\ BrowserTo(c, "waiting", current[c], None, notice[c])
               /\ screen' # screen
    <2>1. WebShape' /\ BrowserTo(c, "waiting", current[c], None, notice[c])
      BY <1>2, Answered
    <2>. QED BY <1>2, <2>1, OneBrowserMoves
  <1>3. CASE /\ payPc'[w] # "idle" \/ \A c \in Customers : ~(served[c] = w /\ screen[c] = "paying")
             /\ UNCHANGED webVars
    BY <1>3, RestKeepsShape
  <1>. QED BY <1>1, <1>2, <1>3 DEF PaymentEnds, webVars

-----------------------------------------------------------------------------
(* The browsers keep to their handlers *)

LEMMA CurrentIsOrder ==
  ASSUME Web, NEW c \in Customers, screen[c] # "cart" PROVE current[c] \in OrderIds
  BY DEF Web, WebShape

LEMMA ServedIsHandler ==
  ASSUME Web, NEW c \in Customers, screen[c] \in {"ordering", "paying"}
  PROVE  served[c] \in Workers /\ served[c] \in Ord!Handlers
  BY DEF Web, WebShape, Ord!Handlers

\* A step that begins or ends no order leaves the others to their handlers.
LEMMA CalmKeepsWeb ==
  ASSUME Web, OrdersGrow, WebShape',
         \A d \in Customers :
            /\ screen'[d] = "ordering" =>
                 /\ screen[d] = "ordering" /\ served'[d] = served[d] /\ current'[d] = current[d]
                 /\ ordPc'[served[d]] = ordPc[served[d]] /\ ordJob'[served[d]] = ordJob[served[d]]
            /\ screen'[d] = "ordered" => screen[d] = "ordered" /\ current'[d] = current[d]
  PROVE  Web'
  <1>1. Orderings'
    <2>. SUFFICES ASSUME NEW d \in Customers, screen'[d] = "ordering"
         PROVE  /\ ordPc'[served'[d]] \in OrderLabels
                /\ ordJob'[served'[d]].by = "order created"
                /\ ordJob'[served'[d]].order = current'[d]
      BY DEF Orderings, OrderLabels
    <2>1. /\ screen[d] = "ordering" /\ served'[d] = served[d] /\ current'[d] = current[d]
          /\ ordPc'[served[d]] = ordPc[served[d]] /\ ordJob'[served[d]] = ordJob[served[d]]
      OBVIOUS
    <2>2. /\ ordPc[served[d]] \in OrderLabels
          /\ ordJob[served[d]].by = "order created" /\ ordJob[served[d]].order = current[d]
      BY <2>1 DEF Web, Orderings
    <2>. QED BY <2>1, <2>2
  <1>2. Placed'
    BY CurrentIsOrder DEF Web, Placed, OrdersGrow
  <1>. QED BY <1>1, <1>2 DEF Web

LEMMA TapKeepsWeb ==
  ASSUME Inv, OrdersGrow, NEW c \in Customers, NEW w \in Workers, Tap(c, w) PROVE Web'
  <1>1. Web /\ WebShape /\ Ord!TypeOK
    BY OrderShape DEF Inv, Web
  <1>. PICK o \in OrderIds :
          /\ BrowserTo(c, "ordering", o, w, "none")
          /\ ordPc'[w] = "update" /\ ordJob'[w].by = "order created" /\ ordJob'[w].order = o
    BY <1>1, Tapping
  <1>2. ordPc'[w] = "update" /\ ordJob'[w].by = "order created" /\ ordJob'[w].order = o
    OBVIOUS
  <1>3. WebShape' /\ OthersRest(w) /\ \A d \in Customers : served[d] # w
    BY <1>1, Tapping
  <1>4. /\ screen'[c] = "ordering" /\ served'[c] = w /\ current'[c] = o
        /\ \A d \in Customers \ {c} :
             screen'[d] = screen[d] /\ served'[d] = served[d] /\ current'[d] = current[d]
    <2>1. BrowserTo(c, "ordering", o, w, "none")
      OBVIOUS
    <2>2. screen'[c] = "ordering" /\ served'[c] = w /\ current'[c] = o
      BY <1>1, <2>1 DEF WebShape, BrowserTo
    <2>3. \A d \in Customers \ {c} :
             screen'[d] = screen[d] /\ served'[d] = served[d] /\ current'[d] = current[d]
      BY <1>1, <2>1, OneBrowserMoves
    <2>. QED BY <2>2, <2>3
  <1>5. Orderings'
    <2>1. ASSUME NEW d \in Customers \ {c}, screen[d] = "ordering"
          PROVE  ordPc'[served[d]] = ordPc[served[d]] /\ ordJob'[served[d]] = ordJob[served[d]]
      BY <1>1, <1>3, <2>1, ServedIsHandler DEF OthersRest
    <2>2. ASSUME NEW d \in Customers \ {c}, screen'[d] = "ordering"
          PROVE  /\ ordPc'[served'[d]] \in OrderLabels
                 /\ ordJob'[served'[d]].by = "order created"
                 /\ ordJob'[served'[d]].order = current'[d]
      <3>1. screen[d] = "ordering" /\ served'[d] = served[d] /\ current'[d] = current[d]
        BY <1>4, <2>2
      <3>2. /\ ordPc[served[d]] \in OrderLabels
            /\ ordJob[served[d]].by = "order created" /\ ordJob[served[d]].order = current[d]
        BY <1>1, <3>1 DEF Web, Orderings
      <3>. QED BY <2>1, <3>1, <3>2
    <2>3. /\ ordPc'[served'[c]] \in OrderLabels
          /\ ordJob'[served'[c]].by = "order created" /\ ordJob'[served'[c]].order = current'[c]
      BY <1>2, <1>4 DEF OrderLabels
    <2>. QED BY <2>2, <2>3 DEF Orderings, OrderLabels
  <1>6. Placed'
    BY <1>1, <1>4, CurrentIsOrder DEF Web, Placed, OrdersGrow
  <1>. QED BY <1>3, <1>5, <1>6 DEF Web

LEMMA OrderStepKeepsWeb ==
  ASSUME Inv, OrdersGrow, NEW w \in Workers, NEW how, Ord!Step(w) \/ Ord!Fail(w),
         OrderEnds(w, how), how = "ok" => ordPc[w] = "publish"
  PROVE  Web'
  <1>1. Web /\ WebShape /\ Ord!TypeOK /\ w \in Ord!Handlers
    BY OrderShape DEF Inv, Web, Ord!Handlers
  <1>2. WebShape' /\ OthersRest(w)
    BY <1>1, OrderEnding, StepsAlone
  <1>3. CASE UNCHANGED webVars
    <2>1. ordPc'[w] # "idle" \/ \A c \in Customers : ~(served[c] = w /\ screen[c] = "ordering")
      BY <1>1, <1>3, OrderEnding
    <2>2. ASSUME NEW c \in Customers, screen[c] = "ordering", served[c] = w
          PROVE  ordPc'[w] \in OrderLabels /\ ordJob'[w] = ordJob[w]
      <3>1. ordPc[w] \in OrderLabels /\ ordJob[w].by = "order created" /\ ordPc'[w] # "idle"
        BY <1>1, <2>1, <2>2 DEF Web, Orderings
      <3>. QED BY <1>1, <3>1, CreateGoesOn
    <2>3. Orderings'
      BY <1>1, <1>2, <1>3, <2>2, ServedIsHandler DEF Web, Orderings, OthersRest, webVars
    <2>4. Placed'
      BY <1>1, <1>3, CurrentIsOrder DEF Web, Placed, OrdersGrow, webVars
    <2>. QED BY <1>2, <2>3, <2>4 DEF Web
  <1>4. ASSUME NEW c \in Customers, served[c] = w, screen[c] = "ordering",
               \/ how = "ok" /\ BrowserTo(c, "ordered", current[c], None, notice[c])
               \/ BrowserTo(c, "cart", current[c], None, "failed")
        PROVE  Web'
    <2>1. /\ (screen'[c] = "ordered" /\ how = "ok") \/ screen'[c] = "cart"
          /\ current'[c] = current[c]
          /\ \A d \in Customers \ {c} :
               screen'[d] = screen[d] /\ served'[d] = served[d] /\ current'[d] = current[d]
      BY <1>1, <1>4, OneBrowserMoves
    <2>2. \A d \in Customers \ {c} : served[d] # w
      BY <1>1, <1>4, NoneIsNothing DEF WebShape
    <2>3. Orderings'
      <3>1. ASSUME NEW d \in Customers \ {c}, screen[d] = "ordering"
            PROVE  ordPc'[served[d]] = ordPc[served[d]] /\ ordJob'[served[d]] = ordJob[served[d]]
        BY <1>1, <1>2, <2>2, <3>1, ServedIsHandler DEF OthersRest
      <3>2. ASSUME NEW d \in Customers, screen'[d] = "ordering"
            PROVE  /\ ordPc'[served'[d]] \in OrderLabels
                   /\ ordJob'[served'[d]].by = "order created"
                   /\ ordJob'[served'[d]].order = current'[d]
        <4>1. /\ d \in Customers \ {c} /\ screen[d] = "ordering"
              /\ served'[d] = served[d] /\ current'[d] = current[d]
          BY <2>1, <3>2
        <4>2. /\ ordPc[served[d]] \in OrderLabels
              /\ ordJob[served[d]].by = "order created" /\ ordJob[served[d]].order = current[d]
          BY <1>1, <4>1 DEF Web, Orderings
        <4>. QED BY <3>1, <4>1, <4>2
      <3>. QED BY <3>2 DEF Orderings, OrderLabels
    <2>4. how = "ok" => orders[current[c]] # None
      <3>1. JobFits(w)
        BY <1>1 DEF Inv, OrderInv, Jobs
      <3>. QED BY <1>1, <1>4, <3>1 DEF JobFits, Written, Web, Orderings
    <2>5. Placed'
      BY <1>1, <1>4, <2>1, <2>4, CurrentIsOrder DEF Web, Placed, OrdersGrow
    <2>. QED BY <1>2, <2>3, <2>5 DEF Web
  <1>. QED BY <1>1, <1>3, <1>4, OrderEnding

LEMMA BrowsersGoOn ==
  ASSUME Inv, [Next]_vars PROVE Web'
  <1>1. Web /\ WebShape /\ Ord!TypeOK /\ OrdersGrow
    BY ServicesGoOn, OrderShape DEF Inv, Web
  <1>2. ASSUME NEW w \in Workers, OrderStep(w) \/ OrderFails(w) PROVE Web'
    BY <1>1, <1>2, OrderStepKeepsWeb DEF OrderStep, OrderFails
  <1>3. ASSUME NEW c \in Customers, NEW w \in Workers, Tap(c, w) PROVE Web'
    BY <1>1, <1>3, TapKeepsWeb
  <1>4. ASSUME UNCHANGED <<ordPc, ordJob>>, NEW c \in Customers, NEW x \in Screens \ {"ordering", "ordered"},
               NEW o, NEW w, NEW n, BrowserTo(c, x, o, w, n), WebShape'
        PROVE  Web'
    BY <1>1, <1>4, OneBrowserMoves, CalmKeepsWeb
  <1>5. ASSUME NEW c \in Customers, LoseConnection(c) PROVE Web'
    BY <1>1, <1>4, <1>5, GivingUp DEF LoseConnection, ordVars, Screens
  <1>6. ASSUME UNCHANGED webVars, UNCHANGED <<ordPc, ordJob>> PROVE Web'
    BY <1>1, <1>6, RestKeepsShape, CalmKeepsWeb DEF webVars
  <1>7. ASSUME NEW c \in Customers, Poll(c) PROVE Web'
    <2>1. CASE Accept(c)
      BY <1>1, <1>4, <1>7, <2>1, Accepting DEF Poll, ordVars, Screens
    <2>2. CASE ~Accept(c)
      <3>1. UNCHANGED <<screen, current, served, notice, ordPc, ordJob>>
        BY <1>7, <2>2 DEF Poll, ordVars
      <3>2. WebShape'
        BY <1>1, <3>1 DEF WebShape
      <3>. QED BY <1>1, <3>1, <3>2, CalmKeepsWeb
    <2>. QED BY <2>1, <2>2
  <1>8. ASSUME NEW c \in Customers, NEW w \in Workers, SendPayment(c, w) PROVE Web'
    BY <1>1, <1>4, <1>8, Sending DEF SendPayment, ordVars, Screens
  <1>9. ASSUME NEW w \in Workers, PaymentStep(w) \/ PaymentFails(w) PROVE Web'
    <2>1. UNCHANGED <<ordPc, ordJob>> /\ PaymentEnds(w)
      BY <1>9 DEF PaymentStep, PaymentFails, Deliver, Ord!PaymentEvent, ordVars
    <2>2. CASE UNCHANGED webVars
      BY <1>6, <2>1, <2>2
    <2>3. CASE ~ UNCHANGED webVars
      <3>1. WebShape' /\ \E c \in Customers :
               \/ BrowserTo(c, "waiting", current[c], None, notice[c])
               \/ BrowserTo(c, "cart", current[c], None, "failed")
        BY <1>1, <2>1, <2>3, PaymentEnding
      <3>. QED BY <1>4, <2>1, <3>1 DEF Screens
    <2>. QED BY <2>2, <2>3
  <1>10. CASE \E s \in Ord!Subscribers : OrderReacts(s) \/ LoseEvent(s)
    <2>1. PICK s \in Ord!Subscribers : OrderReacts(s) \/ LoseEvent(s)
      BY <1>10
    <2>2. s \in Ord!Handlers /\ s \notin Workers
      BY NoneIsNothing DEF Ord!Handlers
    <2>3. OthersRest(s)
      BY <1>1, <2>1, <2>2, StepsAlone, StartsAlone
         DEF OrderReacts, LoseEvent, Ord!Consume, Ord!Lose, OthersRest
    <2>4. UNCHANGED webVars
      BY <2>1 DEF OrderReacts, LoseEvent
    <2>. QED BY <1>1, <2>2, <2>3, <2>4, ServedIsHandler, RestKeepsShape, CalmKeepsWeb
             DEF OthersRest, webVars
  <1>11. ASSUME NEW w \in Workers, ChangeOrder(w) PROVE Web'
    <2>1. UNCHANGED webVars /\ \A d \in Customers : served[d] # w
      BY <1>11 DEF ChangeOrder, Idle
    <2>2. OthersRest(w)
      BY <1>1, <1>11, StartsAlone DEF ChangeOrder, Ord!UpdateStatus, Ord!Cancel, Ord!Handlers
    <2>. QED BY <1>1, <2>1, <2>2, ServedIsHandler, RestKeepsShape, CalmKeepsWeb
             DEF OthersRest, webVars
  <1>12. CASE OrderCrash
    BY <1>1, <1>12, Abandoning, CalmKeepsWeb DEF OrderCrash
  <1>13. CASE PaymentCrash
    BY <1>1, <1>13, Abandoning, CalmKeepsWeb DEF PaymentCrash, ordVars
  <1>14. CASE \/ \E w \in Workers, i \in PaymentIds : ChangePayment(w, i)
              \/ \E k \in OrderIds : ExpireKey(k)
    BY <1>6, <1>14 DEF ChangePayment, ExpireKey, ordVars
  <1>15. CASE UNCHANGED vars
    BY <1>6, <1>15 DEF vars, ordVars
  <1>. QED BY <1>2, <1>3, <1>5, <1>7, <1>8, <1>9, <1>10, <1>11, <1>12, <1>13, <1>14, <1>15
           DEF Next, Browse, Serve, Trouble

LEMMA InitInv == Init => Inv
  <1>. SUFFICES ASSUME Init PROVE Inv
    OBVIOUS
  <1>1. PayFacts!IInv /\ OrdFacts!IInv
    BY ServicesStart
  <1>2. OrderInv
    BY DEF Init, Ord!Init, OrderInv, Jobs, JobFits, InboxWasSent, PaidByEvent
  <1>3. PayInv
    BY DEF Init, Pay!Init, PayInv, Requested, Backed, LogStored, LogFirst, Pay!Exists
  <1>4. Web
    BY DEF Init, Web, WebShape, Orderings, Placed, Screens, Notices
  <1>. QED BY <1>1, <1>2, <1>3, <1>4 DEF Inv

LEMMA NextInv == Inv /\ [Next]_vars => Inv'
  BY ServicesGoOn, PaymentsGoOn, BrowsersGoOn DEF Inv

LEMMA Invariance == Spec => []Inv
  BY InitInv, NextInv, PTL DEF Spec

-----------------------------------------------------------------------------
(* The stages of a purchase *)

PlacedOrders    == {o \in OrderIds : orders[o] # None}
PaidForOrders   == {o \in OrderIds : \E i \in PaymentsOf(o) : logged[i]["succeeded"] > 0}
AnnouncedOrders == {o \in OrderIds : sent["payment.succeeded"][o] > 0}
SettledOrders   == {o \in OrderIds : Ord!EntriesBy(o, "payment.succeeded") # {}}

PlacesOne   == \E o \in OrderIds : PlacedOrders' = PlacedOrders \cup {o}
PaysForOne  == \E o \in PlacedOrders : PaidForOrders' = PaidForOrders \cup {o}
AnnouncesOne == \E o \in PaidForOrders : AnnouncedOrders' = AnnouncedOrders \cup {o}
SettlesOne  == \E o \in AnnouncedOrders : SettledOrders' = SettledOrders \cup {o}

SamePlaced    == PlacedOrders' = PlacedOrders
SamePaidFor   == PaidForOrders' = PaidForOrders
SameAnnounced == AnnouncedOrders' = AnnouncedOrders
SameSettled   == SettledOrders' = SettledOrders

Advances ==
    \/ SamePlaced /\ SamePaidFor /\ SameAnnounced /\ SameSettled
    \/ PlacesOne /\ SamePaidFor /\ SameAnnounced /\ SameSettled
    \/ SamePlaced /\ PaysForOne /\ SameAnnounced /\ SameSettled
    \/ SamePlaced /\ SamePaidFor /\ AnnouncesOne /\ SameSettled
    \/ SamePlaced /\ SamePaidFor /\ SameAnnounced /\ SettlesOne

\* A step is one of the order service, or one of the payment service and what
\* it publishes.
LEMMA TwoSides ==
  ASSUME Inv, [Next]_vars
  PROVE  \/ UNCHANGED <<payments, logged, sent>>
         \/ /\ UNCHANGED <<orders, history>>
            /\ \E w \in Workers : PaymentStep(w)
  <1>1. CASE \E w \in Workers : PaymentStep(w)
    BY <1>1 DEF PaymentStep, Deliver, Ord!PaymentEvent, ordVars, Ord!tables
  <1>2. CASE \E c \in Customers, w \in Workers : Tap(c, w)
    BY <1>2 DEF Tap, Ord!Create, payVars, Ord!events
  <1>3. CASE \E c \in Customers : Poll(c) \/ LoseConnection(c) \/ \E w \in Workers : SendPayment(c, w)
    BY <1>3 DEF Poll, LoseConnection, SendPayment, Pay!Call, Pay!storage, payVars, ordVars
  <1>4. ASSUME NEW h, Ord!Step(h) \/ Ord!Fail(h) PROVE UNCHANGED sent
    BY <1>4 DEF Ord!Step, Ord!Fail, Ord!Read, Ord!Update, Ord!Commit, Ord!ReturnRow,
       Ord!CacheStatus, Ord!Publish, Ord!events
  <1>5. CASE \E w \in Workers : OrderStep(w) \/ OrderFails(w) \/ ChangeOrder(w)
    BY <1>4, <1>5 DEF OrderStep, OrderFails, ChangeOrder, Ord!UpdateStatus, Ord!Cancel, Ord!events, payVars
  <1>6. CASE \E s \in Ord!Subscribers : OrderReacts(s) \/ LoseEvent(s)
    BY <1>4, <1>6 DEF OrderReacts, LoseEvent, Ord!Consume, Ord!Lose, payVars
  <1>7. CASE OrderCrash \/ PaymentCrash
    BY <1>7 DEF OrderCrash, PaymentCrash, Ord!Crash, Pay!Crash, Pay!storage, payVars, ordVars
  <1>8. CASE \/ \E w \in Workers : PaymentFails(w) \/ \E i \in PaymentIds : ChangePayment(w, i)
             \/ \E k \in OrderIds : ExpireKey(k)
    BY <1>8 DEF PaymentFails, ChangePayment, ExpireKey, Pay!StepError, Pay!Webhook, Pay!Call,
       Pay!ExpireKey, Pay!storage, ordVars
  <1>9. CASE UNCHANGED vars
    BY <1>9 DEF vars, payVars, ordVars
  <1>. QED BY <1>1, <1>2, <1>3, <1>5, <1>6, <1>7, <1>8, <1>9 DEF Next, Browse, Serve, Trouble

\* An entry is added to one history.
LEMMA AddedEntry ==
  ASSUME NEW o \in OrderIds, NEW e, NEW S, history[o] \in Seq(S), e \in S,
         history'[o] = Append(history[o], e),
         \A q \in OrderIds : q # o => history'[q] = history[q]
  PROVE  \A q \in OrderIds :
            q \in SettledOrders' <=> q \in SettledOrders \/ (q = o /\ e.by = "payment.succeeded")
  <1>1. ASSUME NEW q \in OrderIds, q # o PROVE q \in SettledOrders' <=> q \in SettledOrders
    BY <1>1 DEF SettledOrders, Ord!EntriesBy
  <1>2. /\ \A n \in DOMAIN history[o] : n \in DOMAIN history'[o] /\ history'[o][n] = history[o][n]
        /\ Len(history[o]) + 1 \in DOMAIN history'[o]
        /\ history'[o][Len(history[o]) + 1] = e
        /\ \A n \in DOMAIN history'[o] : n \in DOMAIN history[o] \/ n = Len(history[o]) + 1
    OBVIOUS
  <1>3. o \in SettledOrders' <=> \E n \in DOMAIN history'[o] : history'[o][n].by = "payment.succeeded"
    BY DEF SettledOrders, Ord!EntriesBy
  <1>4. o \in SettledOrders <=> \E n \in DOMAIN history[o] : history[o][n].by = "payment.succeeded"
    BY DEF SettledOrders, Ord!EntriesBy
  <1>. QED BY <1>1, <1>2, <1>3, <1>4

\* A commit inserts the order, or settles one that was announced, or neither.
LEMMA CommitAdvances ==
  ASSUME Inv, NEW h \in Ord!Handlers, Ord!Commit(h)
  PROVE  \/ PlacesOne /\ SameSettled
         \/ SamePlaced /\ SettlesOne
         \/ SamePlaced /\ SameSettled
  <1>1. JobFits(h) /\ OrdFacts!IInv
    BY DEF Inv, OrderInv, Jobs
  <1>2. PICK o \in OrderIds : o = ordJob[h].order
    BY <1>1, CommitWrites
  <1>3. /\ ordPc[h] = "commit" /\ ordJob[h].to # None
        /\ orders'[o] = ordJob[h].to /\ \A q \in OrderIds : q # o => orders'[q] = orders[q]
    BY <1>1, <1>2, CommitWrites
  <1>4. \A q \in OrderIds : q \in PlacedOrders' <=> q \in PlacedOrders \/ q = o
    BY <1>3 DEF PlacedOrders
  <1>5. \A q \in OrderIds :
          q \in SettledOrders' <=> q \in SettledOrders \/ (q = o /\ ordJob[h].by = "payment.succeeded")
    <2>1. Ord!Entry(ordJob[h]).by = ordJob[h].by
      BY DEF Ord!Entry
    <2>2. /\ history[o] \in Seq(Ord!Entries) /\ Ord!Entry(ordJob[h]) \in Ord!Entries
          /\ history'[o] = Append(history[o], Ord!Entry(ordJob[h]))
          /\ \A q \in OrderIds : q # o => history'[q] = history[q]
      BY <1>1, <1>2, CommitWrites
    <2>. QED BY <2>1, <2>2, AddedEntry
  <1>6. /\ \A q : q \in PlacedOrders => q \in OrderIds
        /\ \A q : q \in PlacedOrders' => q \in OrderIds
        /\ \A q : q \in SettledOrders => q \in OrderIds
        /\ \A q : q \in SettledOrders' => q \in OrderIds
    BY DEF PlacedOrders, SettledOrders
  <1>7. PlacedOrders' = PlacedOrders \cup {o}
    BY <1>4, <1>6
  <1>8. CASE ordJob[h].by = "payment.succeeded"
    <2>1. SettledOrders' = SettledOrders \cup {o}
      BY <1>5, <1>6, <1>8
    <2>2. sent["payment.succeeded"][o] > 0 /\ orders[o] # None
      BY <1>1, <1>2, <1>3, <1>8 DEF JobFits, Ord!Subscribers
    <2>3. o \in PlacedOrders /\ o \in AnnouncedOrders
      BY <2>2 DEF PlacedOrders, AnnouncedOrders
    <2>4. SamePlaced
      BY <1>7, <2>3 DEF SamePlaced
    <2>. QED BY <2>1, <2>3, <2>4 DEF SettlesOne
  <1>9. CASE ordJob[h].by # "payment.succeeded"
    <2>1. SameSettled
      BY <1>5, <1>6, <1>9 DEF SameSettled
    <2>. QED BY <1>7, <2>1 DEF PlacesOne
  <1>. QED BY <1>8, <1>9

LEMMA OrdersAdvance ==
  ASSUME Inv, [Next]_vars, UNCHANGED <<payments, logged, sent>> PROVE Advances
  <1>1. SamePaidFor /\ SameAnnounced
    BY DEF SamePaidFor, SameAnnounced, PaidForOrders, AnnouncedOrders, PaymentsOf, Pay!Exists
  <1>2. CASE \E h \in Ord!Handlers : Ord!Commit(h)
    BY <1>1, <1>2, CommitAdvances DEF Advances
  <1>3. CASE ~ \E h \in Ord!Handlers : Ord!Commit(h)
    <2>1. UNCHANGED <<orders, history>>
      BY <1>3, NextOnOrders, OthersKeepTables DEF Inv
    <2>. QED BY <1>1, <2>1
             DEF Advances, SamePlaced, SameSettled, PlacedOrders, SettledOrders, Ord!EntriesBy
  <1>. QED BY <1>2, <1>3

\* What is paid for changes when a payment's success is logged.
LEMMA LogAdvances ==
  ASSUME Inv, NEW w \in Workers, PaymentFlow(w)
  PROVE  SamePaidFor \/ (payPc[w] = "log" /\ PaysForOne)
  <1>. DEFINE i == payP[w].id
              k == payP[w].key
  <1>1. \A j \in PaymentIds : logged[j]["succeeded"] > 0 => Pay!Exists(j)
    BY DEF Inv, PayInv, LogStored, Pay!Status
  <1>2. \A j \in PaymentIds : logged'[j]["succeeded"] > 0 <=>
          \/ logged[j]["succeeded"] > 0
          \/ payPc[w] = "log" /\ j = i /\ payP[w].status = "succeeded"
    BY DEF PaymentFlow, LogsOf, Pay!Status
  <1>3. \A j \in PaymentIds : Pay!Exists(j) =>
          payments'[j] # None /\ payments'[j].key = payments[j].key
    BY DEF PaymentFlow, RowsOf
  <1>4. CASE payPc[w] = "log" /\ payP[w].status = "succeeded"
    <2>1. i \in PaymentIds /\ Pay!Exists(i) /\ payments[i].key = k /\ k \in OrderIds
      BY <1>4, PaymentShape, HandlersTyped DEF Inv, Pay!Holding
    <2>2. PaidForOrders' = PaidForOrders \cup {k}
      BY <1>1, <1>2, <1>3, <1>4, <2>1 DEF PaidForOrders, PaymentsOf, Pay!Exists
    <2>3. k \in PlacedOrders
      BY <2>1 DEF Inv, PayInv, Backed, PlacedOrders
    <2>. QED BY <1>4, <2>2, <2>3 DEF PaysForOne
  <1>5. CASE ~(payPc[w] = "log" /\ payP[w].status = "succeeded")
    <2>1. \A j \in PaymentIds : logged'[j]["succeeded"] > 0 <=> logged[j]["succeeded"] > 0
      BY <1>2, <1>5
    <2>2. \A o \in OrderIds : o \in PaidForOrders' <=> o \in PaidForOrders
      BY <1>1, <1>3, <2>1 DEF PaidForOrders, PaymentsOf, Pay!Exists
    <2>3. (\A o \in PaidForOrders : o \in OrderIds) /\ \A o \in PaidForOrders' : o \in OrderIds
      BY DEF PaidForOrders
    <2>. QED BY <2>2, <2>3 DEF SamePaidFor
  <1>. QED BY <1>4, <1>5

\* What is announced changes when a payment's success is published.
LEMMA PublishAdvances ==
  ASSUME Inv, NEW w \in Workers, Deliver(w)
  PROVE  SameAnnounced \/ (payPc[w] = "publish" /\ AnnouncesOne)
  <1>. DEFINE i == payP[w].id
              k == payP[w].key
  <1>1. Ord!TypeOK
    BY OrderShape DEF Inv
  <1>2. CASE payPc[w] = "publish" /\ payP[w].status = "succeeded"
    <2>1. sent' = [sent EXCEPT !["payment.succeeded"][k] = @ + 1]
      BY <1>2 DEF Deliver, SubjectOf, Ord!PaymentEvent
    <2>2. i \in PaymentIds /\ Pay!Exists(i) /\ payments[i].key = k /\ k \in OrderIds
      BY <1>2, PaymentShape, HandlersTyped DEF Inv, Pay!Holding
    <2>3. logged[i]["succeeded"] > 0
      BY <1>2 DEF Inv, PayInv, LogFirst
    <2>4. k \in PaidForOrders
      BY <2>2, <2>3 DEF PaidForOrders, PaymentsOf
    <2>5. \A o \in OrderIds : sent'["payment.succeeded"][o] =
             IF o = k THEN sent["payment.succeeded"][o] + 1 ELSE sent["payment.succeeded"][o]
      BY <1>1, <2>1 DEF Ord!TypeOK, Ord!Subscribers
    <2>6. \A o \in OrderIds : sent["payment.succeeded"][o] \in Nat
      BY <1>1 DEF Ord!TypeOK, Ord!Subscribers
    <2>7. AnnouncedOrders' = AnnouncedOrders \cup {k}
      BY <2>2, <2>5, <2>6 DEF AnnouncedOrders
    <2>. QED BY <1>2, <2>4, <2>7 DEF AnnouncesOne
  <1>3. CASE payPc[w] = "publish" /\ payP[w].status = "failed"
    <2>1. sent' = [sent EXCEPT !["payment.failed"][k] = @ + 1]
      BY <1>3 DEF Deliver, SubjectOf, Ord!PaymentEvent
    <2>2. sent'["payment.succeeded"] = sent["payment.succeeded"]
      BY <1>1, <2>1 DEF Ord!TypeOK, Ord!Subscribers
    <2>3. AnnouncedOrders' = AnnouncedOrders
      BY <2>2 DEF AnnouncedOrders
    <2>. QED BY <2>3 DEF SameAnnounced
  <1>4. CASE ~(payPc[w] = "publish" /\ payP[w].status \in {"succeeded", "failed"})
    <2>1. UNCHANGED sent
      BY <1>4 DEF Deliver, SubjectOf, ordVars
    <2>2. AnnouncedOrders' = AnnouncedOrders
      BY <2>1 DEF AnnouncedOrders
    <2>. QED BY <2>2 DEF SameAnnounced
  <1>. QED BY <1>2, <1>3, <1>4

LEMMA NextAdvances == Inv /\ [Next]_vars => Advances
  <1>. SUFFICES ASSUME Inv, [Next]_vars PROVE Advances
    OBVIOUS
  <1>1. ASSUME NEW w \in Workers, PaymentStep(w), UNCHANGED <<orders, history>> PROVE Advances
    <2>1. PaymentFlow(w) /\ Deliver(w)
      BY <1>1, StepFlows DEF PaymentStep, Inv
    <2>2. SamePlaced /\ SameSettled
      BY <1>1 DEF SamePlaced, SameSettled, PlacedOrders, SettledOrders, Ord!EntriesBy
    <2>3. SamePaidFor \/ (payPc[w] = "log" /\ PaysForOne)
      BY <2>1, LogAdvances
    <2>4. SameAnnounced \/ (payPc[w] = "publish" /\ AnnouncesOne)
      BY <2>1, PublishAdvances
    <2>. QED BY <2>2, <2>3, <2>4 DEF Advances
  <1>. QED BY <1>1, TwoSides, OrdersAdvance

\* A purchase goes through its stages in order, whatever fails, whatever
\* interleaves and whatever others do to its order and its payment: the browser,
\* the payment service and the order service together implement Purchase.
THEOREM PurchaseGoesInOrder == Spec => FollowsPurchase
  <1>1. Init => Promise!Init
    BY DEF Init, Ord!Init, Pay!Init, Promise!Init, PaymentsOf, Pay!Exists, Ord!EntriesBy, Ord!Subscribers
  <1>2. Advances => [Promise!Next]_(Promise!vars)
    BY DEF Advances, SamePlaced, SamePaidFor, SameAnnounced, SameSettled, PlacesOne, PaysForOne,
       AnnouncesOne, SettlesOne, PlacedOrders, PaidForOrders, AnnouncedOrders, SettledOrders,
       Promise!Next, Promise!vars, Promise!Place, Promise!PayFor, Promise!Announce, Promise!Settle
  <1>. QED BY <1>1, <1>2, NextAdvances, Invariance, PTL DEF Spec, FollowsPurchase, Promise!Spec

-----------------------------------------------------------------------------
(* An order is paid for once, and its customer told after it is announced *)

Announced(o) == \E s \in Ord!Subscribers : sent[s][o] > 0

\* A customer who may still ask for the payment of its order, and a handler
\* that has been asked and has stored no payment yet.
Claims(c) ==
    \/ screen[c] = "ordered"
    \/ screen[c] = "ordering" /\ ordPc[served[c]] \in Written

Asks(w) == payPc[w] \in {"create", "insert"}

Unpaid(o) == \A i \in PaymentIds : Pay!Exists(i) => payments[i].key # o

\* No order has two of them, and none of these orders has a payment.
Apart ==
    /\ \A c, d \in Customers : Claims(c) /\ Claims(d) /\ current[c] = current[d] => c = d
    /\ \A c \in Customers, w \in Workers : Claims(c) /\ Asks(w) => payArg[w] # current[c]
    /\ \A v, w \in Workers : Asks(v) /\ Asks(w) /\ payArg[v] = payArg[w] => v = w
    /\ \A c \in Customers : Claims(c) => Unpaid(current[c])
    /\ \A w \in Workers : Asks(w) => Unpaid(payArg[w])

CreateLabels == {"create", "insert", "save", "log", "publish", "charge", "update", "email"}

\* A payment that is waited for is being created for the order, and announced
\* before its email is sent.
PaysFor(w, o) ==
    /\ payPc[w] \in CreateLabels
    /\ Asks(w) => payArg[w] = o
    /\ ~Asks(w) => payP[w].key = o /\ payP[w].status \in {"pending", "succeeded", "failed"}
    /\ payPc[w] = "email" => Announced(o)

Paying == \A c \in Customers : screen[c] = "paying" => PaysFor(served[c], current[c])

Told == \A c \in Customers :
    screen[c] = "waiting" \/ notice[c] = "accepted" => Announced(current[c])

Inv2 == Inv /\ Apart /\ Paying /\ Told

-----------------------------------------------------------------------------

\* The order that is claimed has been inserted.
LEMMA ClaimedExists ==
  ASSUME Inv, NEW c \in Customers, Claims(c)
  PROVE  current[c] \in OrderIds /\ orders[current[c]] # None
  <1>1. current[c] \in OrderIds
    BY CurrentIsOrder DEF Inv, Claims
  <1>2. CASE screen[c] = "ordered"
    BY <1>1, <1>2 DEF Inv, Web, Placed
  <1>3. CASE screen[c] = "ordering" /\ ordPc[served[c]] \in Written
    <2>1. served[c] \in Ord!Handlers /\ ordJob[served[c]].order = current[c]
      BY <1>3, ServedIsHandler DEF Inv, Web, Orderings
    <2>2. JobFits(served[c])
      BY <2>1 DEF Inv, OrderInv, Jobs
    <2>. QED BY <1>1, <1>3, <2>1, <2>2 DEF JobFits, Written
  <1>. QED BY <1>2, <1>3 DEF Claims

NewClaim(c) ==
    screen[c] = "ordering" /\ Ord!Commit(served[c]) /\ orders[current[c]] = None

-----------------------------------------------------------------------------
(* What a step of a checkout does to one customer *)

Steady(c) ==
    /\ screen'[c] = screen[c] /\ current'[c] = current[c]
    /\ served'[c] = served[c] /\ notice'[c] = notice[c]

OrderHandlerRests(c) ==
    ordPc'[served[c]] = ordPc[served[c]] /\ ordJob'[served[c]] = ordJob[served[c]]

PaymentHandlerRests(c) ==
    /\ payPc'[served[c]] = payPc[served[c]]
    /\ payArg'[served[c]] = payArg[served[c]] /\ payP'[served[c]] = payP[served[c]]

\* The customer waits for its handler, which waits or goes on.
Waits(c) ==
    /\ Steady(c)
    /\ screen[c] = "ordering" =>
         \/ OrderHandlerRests(c)
         \/ (Ord!Step(served[c]) \/ Ord!Fail(served[c])) /\ ordPc'[served[c]] # "idle"
    /\ screen[c] = "paying" =>
         \/ PaymentHandlerRests(c)
         \/ PaymentStep(served[c]) /\ payPc'[served[c]] # "idle"

CustomerMoves(c) ==
    \/ Waits(c)
    \/ screen'[c] = "cart" /\ notice'[c] = "failed"
    \/ screen[c] = "waiting" /\ screen'[c] = "cart" /\ current'[c] = current[c]
    \/ /\ screen[c] = "cart" /\ screen'[c] = "ordering" /\ notice'[c] = "none"
       /\ ordPc'[served'[c]] = "update"
    \/ \E w \in Workers : SendPayment(c, w) /\ screen'[c] = "paying" /\ served'[c] = w
                          /\ current'[c] = current[c] /\ notice'[c] = notice[c]
    \/ /\ screen[c] = "ordering" /\ ordPc[served[c]] = "publish"
       /\ screen'[c] = "ordered" /\ current'[c] = current[c] /\ notice'[c] = notice[c]
    \/ /\ screen[c] = "paying" /\ PaymentStep(served[c])
       /\ payPc'[served[c]] = "idle" /\ payReply'[served[c]] = "ok"
       /\ screen'[c] = "waiting" /\ current'[c] = current[c] /\ notice'[c] = notice[c]

LEMMA OthersAreSteady ==
  ASSUME WebShape, NEW d \in Customers, NEW x, NEW o, NEW w, NEW n, BrowserTo(d, x, o, w, n),
         NEW c \in Customers \ {d}
  PROVE  Steady(c)
  BY OneBrowserMoves DEF Steady

LEMMA OrderStepMovesCustomers ==
  ASSUME Inv, NEW w \in Workers, NEW how, Ord!Step(w) \/ Ord!Fail(w), UNCHANGED payVars,
         OrderEnds(w, how), how = "ok" => ordPc[w] = "publish", NEW c \in Customers
  PROVE  CustomerMoves(c)
  <1>1. Web /\ WebShape /\ Ord!TypeOK /\ w \in Ord!Handlers /\ OthersRest(w)
    BY OrderShape, StepsAlone DEF Inv, Web, Ord!Handlers
  <1>2. ASSUME screen[c] = "ordering", served[c] # w PROVE OrderHandlerRests(c)
    BY <1>1, <1>2, ServedIsHandler DEF OthersRest, OrderHandlerRests
  <1>3. PaymentHandlerRests(c)
    BY DEF PaymentHandlerRests, payVars
  <1>4. CASE UNCHANGED webVars
    <2>1. Steady(c)
      BY <1>4 DEF Steady, webVars
    <2>2. screen[c] = "ordering" /\ served[c] = w => ordPc'[served[c]] # "idle"
      BY <1>1, <1>4, OrderEnding
    <2>. QED BY <1>2, <1>3, <2>1, <2>2 DEF CustomerMoves, Waits
  <1>5. ASSUME NEW d \in Customers, served[d] = w, screen[d] = "ordering",
               \/ how = "ok" /\ BrowserTo(d, "ordered", current[d], None, notice[d])
               \/ BrowserTo(d, "cart", current[d], None, "failed")
        PROVE  CustomerMoves(c)
    <2>1. CASE c = d
      BY <1>1, <1>5, <2>1, OneBrowserMoves DEF CustomerMoves
    <2>2. CASE c # d
      <3>1. Steady(c)
        BY <1>1, <1>5, <2>2, OthersAreSteady
      <3>2. served[c] # w
        BY <1>1, <1>5, <2>2, NoneIsNothing DEF WebShape
      <3>. QED BY <1>2, <1>3, <3>1, <3>2 DEF CustomerMoves, Waits
    <2>. QED BY <2>1, <2>2
  <1>. QED BY <1>1, <1>4, <1>5, OrderEnding

LEMMA PaymentStepMovesCustomers ==
  ASSUME Inv, NEW w \in Workers, PaymentStep(w) \/ PaymentFails(w), NEW c \in Customers
  PROVE  CustomerMoves(c)
  <1>1. Web /\ WebShape /\ Pay!TypeOK /\ PaymentEnds(w)
    BY PaymentShape DEF Inv, Web, PaymentStep, PaymentFails
  <1>2. OthersWait(w)
    BY <1>1, StepFlows, ReturnsAlone DEF PaymentStep, PaymentFails, Inv, PaymentFlow, Pay!StepError
  <1>3. ASSUME screen[c] = "paying", served[c] # w PROVE PaymentHandlerRests(c)
    BY <1>1, <1>2, <1>3, ServedIsHandler DEF OthersWait, PaymentHandlerRests
  <1>4. OrderHandlerRests(c)
    BY DEF OrderHandlerRests, PaymentStep, PaymentFails, Deliver, Ord!PaymentEvent, ordVars
  <1>5. PaymentFails(w) => payPc'[w] = "idle" /\ payReply'[w] = "error"
    BY <1>1, ReturnsAlone DEF PaymentFails, Pay!StepError
  <1>6. CASE UNCHANGED webVars
    <2>1. Steady(c)
      BY <1>6 DEF Steady, webVars
    <2>2. screen[c] = "paying" /\ served[c] = w => payPc'[served[c]] # "idle"
      BY <1>1, <1>6, PaymentEnding
    <2>. QED BY <1>3, <1>4, <1>5, <2>1, <2>2 DEF CustomerMoves, Waits
  <1>7. ASSUME NEW d \in Customers, served[d] = w, screen[d] = "paying", payPc'[w] = "idle",
               \/ payReply'[w] = "ok" /\ BrowserTo(d, "waiting", current[d], None, notice[d])
               \/ BrowserTo(d, "cart", current[d], None, "failed")
        PROVE  CustomerMoves(c)
    <2>1. CASE c = d
      <3>1. \/ screen'[c] = "cart" /\ notice'[c] = "failed"
            \/ /\ payReply'[w] = "ok" /\ screen'[c] = "waiting"
               /\ current'[c] = current[c] /\ notice'[c] = notice[c]
        BY <1>1, <1>7, <2>1, OneBrowserMoves
      <3>2. payReply'[w] = "ok" => PaymentStep(w)
        BY <1>5
      <3>. QED BY <1>7, <2>1, <3>1, <3>2 DEF CustomerMoves
    <2>2. CASE c # d
      <3>1. Steady(c)
        BY <1>1, <1>7, <2>2, OthersAreSteady
      <3>2. served[c] # w
        BY <1>1, <1>7, <2>2, NoneIsNothing DEF WebShape
      <3>. QED BY <1>3, <1>4, <3>1, <3>2 DEF CustomerMoves, Waits
    <2>. QED BY <2>1, <2>2
  <1>. QED BY <1>1, <1>6, <1>7, PaymentEnding

LEMMA NextMovesCustomers ==
  ASSUME Inv, [Next]_vars, NEW c \in Customers PROVE CustomerMoves(c)
  <1>1. Web /\ WebShape /\ Ord!TypeOK /\ Pay!TypeOK
    BY OrderShape, PaymentShape DEF Inv, Web
  <1>2. ASSUME Steady(c), UNCHANGED <<ordPc, ordJob>>, UNCHANGED <<payPc, payArg, payP>>
        PROVE  CustomerMoves(c)
    BY <1>2 DEF CustomerMoves, Waits, OrderHandlerRests, PaymentHandlerRests
  <1>3. ASSUME NEW w \in Workers, OrderStep(w) \/ OrderFails(w) PROVE CustomerMoves(c)
    BY <1>3, OrderStepMovesCustomers DEF OrderStep, OrderFails
  <1>4. ASSUME NEW w \in Workers, PaymentStep(w) \/ PaymentFails(w) PROVE CustomerMoves(c)
    BY <1>4, PaymentStepMovesCustomers
  <1>5. ASSUME NEW d \in Customers, NEW w \in Workers, Tap(d, w) PROVE CustomerMoves(c)
    <2>1. PICK o \in OrderIds : BrowserTo(d, "ordering", o, w, "none") /\ ordPc'[w] = "update"
      BY <1>1, <1>5, Tapping
    <2>2. OthersRest(w) /\ \A b \in Customers : served[b] # w
      BY <1>1, <1>5, Tapping
    <2>3. CASE c = d
      <3>1. screen[c] = "cart"
        BY <1>5, <2>3 DEF Tap
      <3>. QED BY <1>1, <2>1, <2>3, <3>1 DEF CustomerMoves, BrowserTo, WebShape
    <2>4. CASE c # d
      <3>1. Steady(c)
        BY <1>1, <2>1, <2>4, OthersAreSteady
      <3>2. screen[c] = "ordering" => OrderHandlerRests(c)
        BY <1>1, <2>2, ServedIsHandler DEF OthersRest, OrderHandlerRests
      <3>3. PaymentHandlerRests(c)
        BY <1>5 DEF PaymentHandlerRests, Tap, payVars
      <3>. QED BY <3>1, <3>2, <3>3 DEF CustomerMoves, Waits
    <2>. QED BY <2>3, <2>4
  <1>6. ASSUME NEW d \in Customers, LoseConnection(d) PROVE CustomerMoves(c)
    <2>1. BrowserTo(d, "cart", current[d], None, "failed")
      BY <1>1, <1>6, GivingUp DEF LoseConnection
    <2>2. CASE c = d
      BY <1>1, <2>1, <2>2, OneBrowserMoves DEF CustomerMoves
    <2>3. CASE c # d
      BY <1>1, <1>2, <1>6, <2>1, <2>3, OthersAreSteady DEF LoseConnection, payVars, ordVars
    <2>. QED BY <2>2, <2>3
  <1>7. ASSUME NEW d \in Customers, Poll(d) PROVE CustomerMoves(c)
    <2>1. screen[d] = "waiting" /\ UNCHANGED <<payVars, ordVars>>
      BY <1>7 DEF Poll
    <2>2. CASE Accept(d)
      <3>1. BrowserTo(d, "cart", current[d], None, "accepted")
        BY <1>1, <2>1, <2>2, Accepting
      <3>2. CASE c = d
        BY <1>1, <2>1, <3>1, <3>2, OneBrowserMoves DEF CustomerMoves
      <3>3. CASE c # d
        BY <1>1, <1>2, <2>1, <3>1, <3>3, OthersAreSteady DEF payVars, ordVars
      <3>. QED BY <3>2, <3>3
    <2>3. CASE ~Accept(d)
      BY <1>2, <1>7, <2>1, <2>3 DEF Poll, Steady, payVars, ordVars
    <2>. QED BY <2>2, <2>3
  <1>8. ASSUME NEW d \in Customers, NEW w \in Workers, SendPayment(d, w) PROVE CustomerMoves(c)
    <2>1. BrowserTo(d, "paying", current[d], w, notice[d]) /\ \A b \in Customers : served[b] # w
      BY <1>1, <1>8, Sending
    <2>2. CASE c = d
      BY <1>1, <1>8, <2>1, <2>2, OneBrowserMoves DEF CustomerMoves
    <2>3. CASE c # d
      <3>1. Steady(c)
        BY <1>1, <2>1, <2>3, OthersAreSteady
      <3>2. screen[c] = "paying" => PaymentHandlerRests(c)
        BY <1>1, <1>8, <2>1, ServedIsHandler
           DEF PaymentHandlerRests, SendPayment, Pay!Call, Pay!TypeOK, Pay!HandlersOK
      <3>3. OrderHandlerRests(c)
        BY <1>8 DEF OrderHandlerRests, SendPayment, ordVars
      <3>. QED BY <3>1, <3>2, <3>3 DEF CustomerMoves, Waits
    <2>. QED BY <2>2, <2>3
  <1>9. ASSUME UNCHANGED webVars, UNCHANGED payVars, NEW h \in Ord!Handlers, OthersRest(h),
               \A b \in Customers : served[b] # h
        PROVE  CustomerMoves(c)
    <2>1. Steady(c) /\ PaymentHandlerRests(c)
      BY <1>9 DEF Steady, webVars, PaymentHandlerRests, payVars
    <2>2. screen[c] = "ordering" => OrderHandlerRests(c)
      BY <1>1, <1>9, ServedIsHandler DEF OthersRest, OrderHandlerRests
    <2>. QED BY <2>1, <2>2 DEF CustomerMoves, Waits
  <1>10. ASSUME NEW s \in Ord!Subscribers, OrderReacts(s) \/ LoseEvent(s) PROVE CustomerMoves(c)
    <2>1. s \in Ord!Handlers /\ \A b \in Customers : served[b] # s
      BY <1>1, NoneIsNothing DEF Ord!Handlers, WebShape
    <2>2. OthersRest(s)
      BY <1>1, <1>10, <2>1, StepsAlone, StartsAlone
         DEF OrderReacts, LoseEvent, Ord!Consume, Ord!Lose, OthersRest
    <2>3. UNCHANGED <<webVars, payVars>>
      BY <1>10 DEF OrderReacts, LoseEvent
    <2>. QED BY <1>9, <2>1, <2>2, <2>3
  <1>11. ASSUME NEW w \in Workers, ChangeOrder(w) PROVE CustomerMoves(c)
    <2>1. UNCHANGED <<webVars, payVars>> /\ \A d \in Customers : served[d] # w
      BY <1>11 DEF ChangeOrder, Idle
    <2>2. w \in Ord!Handlers /\ OthersRest(w)
      BY <1>1, <1>11, StartsAlone DEF ChangeOrder, Ord!UpdateStatus, Ord!Cancel, Ord!Handlers
    <2>. QED BY <1>9, <2>1, <2>2
  <1>12. CASE OrderCrash
    <2>1. \/ screen'[c] = "cart" /\ notice'[c] = "failed"
          \/ Steady(c) /\ screen[c] # "ordering"
      BY <1>1, <1>12, Abandoning DEF OrderCrash, Steady
    <2>2. PaymentHandlerRests(c)
      BY <1>12 DEF OrderCrash, payVars, PaymentHandlerRests
    <2>. QED BY <2>1, <2>2 DEF CustomerMoves, Waits
  <1>13. CASE PaymentCrash
    <2>1. \/ screen'[c] = "cart" /\ notice'[c] = "failed"
          \/ Steady(c) /\ screen[c] # "paying"
      BY <1>1, <1>13, Abandoning DEF PaymentCrash, Steady
    <2>2. OrderHandlerRests(c)
      BY <1>13 DEF PaymentCrash, ordVars, OrderHandlerRests
    <2>. QED BY <2>1, <2>2 DEF CustomerMoves, Waits
  <1>14. ASSUME NEW w \in Workers, NEW i \in PaymentIds, ChangePayment(w, i) PROVE CustomerMoves(c)
    <2>1. \A d \in Customers : served[d] # w
      BY <1>14 DEF ChangePayment, Idle
    <2>2. Steady(c) /\ OrderHandlerRests(c)
      BY <1>14 DEF ChangePayment, webVars, ordVars, Steady, OrderHandlerRests
    <2>3. screen[c] = "paying" => PaymentHandlerRests(c)
      BY <1>1, <1>14, <2>1, ServedIsHandler
         DEF PaymentHandlerRests, ChangePayment, Pay!Webhook, Pay!Call, Pay!TypeOK, Pay!HandlersOK
    <2>. QED BY <2>2, <2>3 DEF CustomerMoves, Waits
  <1>15. ASSUME NEW k \in OrderIds, ExpireKey(k) PROVE CustomerMoves(c)
    BY <1>2, <1>15 DEF ExpireKey, Pay!ExpireKey, Pay!control, webVars, ordVars, Steady
  <1>16. CASE UNCHANGED vars
    BY <1>2, <1>16 DEF vars, payVars, ordVars, webVars, Steady
  <1>. QED BY <1>3, <1>4, <1>5, <1>6, <1>7, <1>8, <1>10, <1>11, <1>12, <1>13, <1>14, <1>15, <1>16
           DEF Next, Browse, Serve, Trouble

-----------------------------------------------------------------------------
(* No order has two claims *)

\* A claim was one before, or its order is being committed.
LEMMA ClaimsComeFrom ==
  ASSUME Inv, [Next]_vars, NEW c \in Customers, Claims(c)'
  PROVE  current'[c] = current[c] /\ (Claims(c) \/ NewClaim(c))
  <1>1. Ord!TypeOK /\ Web
    BY OrderShape DEF Inv
  <1>2. CustomerMoves(c)
    BY NextMovesCustomers
  <1>3. CASE Waits(c) /\ (screen[c] = "ordering" => OrderHandlerRests(c))
    BY <1>3 DEF Waits, Steady, OrderHandlerRests, Claims
  <1>4. CASE /\ Waits(c) /\ screen[c] = "ordering" /\ ~OrderHandlerRests(c)
    <2>. DEFINE w == served[c]
    <2>1. /\ w \in Ord!Handlers /\ ordPc[w] \in OrderLabels /\ ordJob[w].by = "order created"
          /\ ordJob[w].order = current[c]
      BY <1>1, <1>4, ServedIsHandler DEF Web, Orderings
    <2>2. (Ord!Step(w) \/ Ord!Fail(w)) /\ ordPc'[w] # "idle"
      BY <1>4 DEF Waits
    <2>3. ordPc'[w] \in Written /\ current'[c] = current[c]
      BY <1>4 DEF Waits, Steady, Claims
    <2>. HIDE DEF w
    <2>4. ordPc[w] \in Written \/ (ordPc[w] = "commit" /\ Ord!Commit(w))
      BY <1>1, <2>1, <2>2, <2>3, CreateGoesOn DEF Written
    <2>5. ordPc[w] = "commit" => orders[current[c]] = None
      BY <2>1, OrderShape DEF Inv
    <2>. QED BY <1>4, <2>3, <2>4, <2>5 DEF Claims, NewClaim, w
  <1>5. CASE screen[c] = "ordering" /\ ordPc[served[c]] = "publish" /\ current'[c] = current[c]
    BY <1>5 DEF Claims, Written
  <1>6. ~(screen'[c] = "ordering" /\ ordPc'[served'[c]] = "update")
    BY DEF Claims, Written
  <1>. QED BY <1>2, <1>3, <1>4, <1>5, <1>6 DEF CustomerMoves, Claims

\* A handler was asked before, or by a customer who gives up its claim for it.
LEMMA AsksComeFrom ==
  ASSUME Inv, [Next]_vars, NEW w \in Workers, Asks(w)'
  PROVE  \/ Asks(w) /\ payArg'[w] = payArg[w]
         \/ \E c \in Customers : /\ payPc[w] = "idle" /\ OthersWait(w)
                                 /\ Claims(c) /\ ~Claims(c)'
                                 /\ payArg'[w] = current[c]
  <1>1. CASE \E v \in Workers : Pay!Step(v)
    <2>1. PICK v \in Workers : PaymentFlow(v)
      BY <1>1, StepFlows DEF Inv
    <2>. QED BY <2>1 DEF PaymentFlow, Turns, OthersWait, Asks
  <1>2. CASE PayRests
    BY <1>2 DEF PayRests, Asks
  <1>3. ASSUME NEW v \in Workers, PayCalls(v)
        PROVE  \/ Asks(w) /\ payArg'[w] = payArg[w]
               \/ \E c \in Customers : /\ payPc[w] = "idle" /\ OthersWait(w)
                                       /\ Claims(c) /\ ~Claims(c)'
                                       /\ payArg'[w] = current[c]
    <2>1. CASE v # w
      BY <1>3, <2>1 DEF PayCalls, OthersWait, Asks
    <2>2. CASE v = w
      <3>1. PICK c \in Customers : /\ screen[c] = "ordered" /\ screen'[c] = "paying"
                                   /\ payArg'[w] = current[c]
        BY <1>3, <2>2 DEF PayCalls, Asks
      <3>2. Claims(c) /\ ~Claims(c)'
        BY <3>1 DEF Claims
      <3>. QED BY <1>3, <2>2, <3>1, <3>2 DEF PayCalls
    <2>. QED BY <2>1, <2>2
  <1>. QED BY <1>1, <1>2, <1>3, NextOnPayments

\* A payment was stored before, or by a handler that was asked for it.
LEMMA RowsComeFrom ==
  ASSUME Inv, [Next]_vars, NEW i \in PaymentIds, payments'[i] # None
  PROVE  \/ Pay!Exists(i) /\ payments'[i].key = payments[i].key
         \/ \E w \in Workers : Asks(w) /\ ~Asks(w)' /\ payments'[i].key = payArg[w]
  <1>1. ASSUME NEW v \in Workers, Pay!Step(v)
        PROVE  \/ Pay!Exists(i) /\ payments'[i].key = payments[i].key
               \/ \E w \in Workers : Asks(w) /\ ~Asks(w)' /\ payments'[i].key = payArg[w]
    <2>1. PaymentFlow(v)
      BY <1>1, StepFlows DEF Inv
    <2>. QED BY <2>1 DEF PaymentFlow, RowsOf, Asks
  <1>2. CASE UNCHANGED payments
    BY <1>2 DEF Pay!Exists
  <1>. QED BY <1>1, <1>2, NextOnPayments DEF PayRests, PayCalls

\* What is being inserted is not claimed, asked for or paid.
LEMMA NewClaimIsNew ==
  ASSUME Inv, NEW c \in Customers, NewClaim(c)
  PROVE  /\ \A d \in Customers : Claims(d) => current[d] # current[c]
         /\ \A w \in Workers : Asks(w) => payArg[w] # current[c]
         /\ Unpaid(current[c])
         /\ \A d \in Customers : NewClaim(d) => c = d
  <1>1. orders[current[c]] = None
    BY DEF NewClaim
  <1>2. \A d \in Customers : Claims(d) => current[d] # current[c]
    BY <1>1, ClaimedExists
  <1>3. (\A w \in Workers : Asks(w) => payArg[w] # current[c]) /\ Unpaid(current[c])
    BY <1>1 DEF Inv, PayInv, Requested, Backed, Asks, Unpaid
  <1>4. ASSUME NEW d \in Customers, NewClaim(d) PROVE c = d
    <2>1. /\ screen[c] = "ordering" /\ screen[d] = "ordering"
          /\ Ord!Commit(served[c]) /\ Ord!Commit(served[d])
      BY <1>4 DEF NewClaim
    <2>2. /\ served[c] \in Ord!Handlers /\ served[d] \in Ord!Handlers /\ served[c] # None
      BY <2>1, ServedIsHandler, NoneIsNothing DEF Inv
    <2>3. Ord!TypeOK
      BY OrderShape DEF Inv
    <2>4. ordPc[served[d]] = "commit" /\ ordPc'[served[d]] = "committed"
      BY <2>1, <2>2, <2>3 DEF Ord!Commit, Ord!Goto, Ord!TypeOK
    <2>5. served[c] = served[d]
      BY <2>1, <2>2, <2>3, <2>4 DEF Ord!Commit, Ord!Goto, Ord!TypeOK
    <2>. QED BY <2>2, <2>5 DEF Inv, Web, WebShape
  <1>. QED BY <1>2, <1>3, <1>4

LEMMA ApartStays ==
  ASSUME Inv, Apart, [Next]_vars PROVE Apart'
  <1>1. ASSUME NEW c \in Customers, NEW d \in Customers, Claims(c)', Claims(d)',
               current'[c] = current'[d]
        PROVE  c = d
    BY <1>1, ClaimsComeFrom, NewClaimIsNew DEF Apart
  <1>2. ASSUME NEW c \in Customers, NEW w \in Workers, Claims(c)', Asks(w)'
        PROVE  payArg'[w] # current'[c]
    <2>1. current'[c] = current[c] /\ (Claims(c) \/ NewClaim(c))
      BY <1>2, ClaimsComeFrom
    <2>2. CASE Asks(w) /\ payArg'[w] = payArg[w]
      BY <2>1, <2>2, NewClaimIsNew DEF Apart
    <2>3. ASSUME NEW d \in Customers, Claims(d), ~Claims(d)', payArg'[w] = current[d]
          PROVE  payArg'[w] # current'[c]
      BY <1>2, <2>1, <2>3, NewClaimIsNew DEF Apart
    <2>. QED BY <1>2, <2>2, <2>3, AsksComeFrom
  <1>3. ASSUME NEW v \in Workers, NEW w \in Workers, Asks(v)', Asks(w)', payArg'[v] = payArg'[w]
        PROVE  v = w
    <2>1. CASE (Asks(v) /\ payArg'[v] = payArg[v]) /\ (Asks(w) /\ payArg'[w] = payArg[w])
      BY <1>3, <2>1 DEF Apart
    <2>2. CASE payPc[w] = "idle" /\ payPc[v] = "idle" /\ OthersWait(w)
      BY <1>3, <2>2 DEF OthersWait, Asks
    <2>3. ASSUME NEW d \in Customers, NEW x \in Workers, Claims(d), payArg'[x] = current[d],
                 NEW y \in Workers, Asks(y), payArg'[y] = payArg[y]
          PROVE  payArg'[x] # payArg'[y]
      BY <2>3 DEF Apart
    <2>. QED BY <1>3, <2>1, <2>2, <2>3, AsksComeFrom
  <1>4. ASSUME NEW c \in Customers, Claims(c)', NEW i \in PaymentIds, Pay!Exists(i)'
        PROVE  payments'[i].key # current'[c]
    <2>1. current'[c] = current[c] /\ (Claims(c) \/ NewClaim(c))
      BY <1>4, ClaimsComeFrom
    <2>2. Unpaid(current[c]) /\ \A w \in Workers : Asks(w) => payArg[w] # current[c]
      BY <2>1, NewClaimIsNew DEF Apart
    <2>3. payments'[i] # None
      BY <1>4 DEF Pay!Exists
    <2>. QED BY <2>1, <2>2, <2>3, RowsComeFrom DEF Unpaid
  <1>5. ASSUME NEW w \in Workers, Asks(w)', NEW i \in PaymentIds, Pay!Exists(i)'
        PROVE  payments'[i].key # payArg'[w]
    <2>1. payments'[i] # None
      BY <1>5 DEF Pay!Exists
    <2>2. CASE Asks(w) /\ payArg'[w] = payArg[w]
      BY <1>5, <2>1, <2>2, RowsComeFrom DEF Apart, Unpaid
    <2>3. ASSUME NEW c \in Customers, Claims(c), payArg'[w] = current[c]
          PROVE  payments'[i].key # payArg'[w]
      BY <2>1, <2>3, RowsComeFrom DEF Apart, Unpaid
    <2>. QED BY <1>5, <2>2, <2>3, AsksComeFrom
  <1>6. /\ \A c \in Customers : Claims(c)' => Unpaid(current[c])'
        /\ \A w \in Workers : Asks(w)' => Unpaid(payArg[w])'
    BY <1>4, <1>5 DEF Unpaid
  <1>. QED BY <1>1, <1>2, <1>3, <1>6 DEF Apart

-----------------------------------------------------------------------------
(* A payment that is waited for is announced *)

LEMMA AnnouncedStays ==
  ASSUME OrdersGrow, NEW o \in OrderIds, Announced(o) PROVE Announced(o)'
  BY DEF OrdersGrow, Announced, Ord!Subscribers

\* The end of a Create: the payment's outcome was published.
LEMMA PublishAnnounces ==
  ASSUME Inv, NEW w \in Workers, Deliver(w), payPc[w] = "publish",
         payP[w].status \in {"succeeded", "failed"}, NEW o, o = payP[w].key
  PROVE  Announced(o)'
  <1>1. Ord!TypeOK /\ o \in OrderIds
    BY OrderShape, HandlersTyped DEF Inv, Pay!Holding
  <1>2. PICK s \in Ord!Subscribers : Ord!PaymentEvent(s, o)
    BY DEF Deliver, SubjectOf, Ord!Subscribers
  <1>3. sent'[s][o] = sent[s][o] + 1 /\ sent[s][o] \in Nat
    BY <1>1, <1>2 DEF Ord!PaymentEvent, Ord!TypeOK
  <1>4. sent'[s][o] > 0
    BY <1>3
  <1>. QED BY <1>4 DEF Announced, Ord!Subscribers

\* The handler of a payment that is waited for goes on as a Create does.
LEMMA PaymentGoesOn ==
  ASSUME Inv2, OrdersGrow, NEW w \in Workers, PaymentStep(w), NEW o \in OrderIds, PaysFor(w, o),
         payPc'[w] # "idle"
  PROVE  PaysFor(w, o)'
  <1>1. Turns(w) /\ Pay!TypeOK /\ Deliver(w)
    BY StepFlows, PaymentShape DEF Inv2, Inv, PaymentStep, PaymentFlow
  <1>2. payPc[w] = "create" => payPc'[w] = "insert" /\ payArg'[w] = o
    <2>1. ASSUME payPc[w] = "create", idempotency[payArg[w]] # None PROVE FALSE
      <3>1. payArg[w] \in OrderIds /\ Unpaid(payArg[w])
        BY <2>1, HandlersTyped DEF Inv2, Inv, Apart, Asks
      <3>2. Pay!EntryNamesOwnPayment
        BY PaymentShape DEF Inv2, Inv
      <3>3. idempotency[payArg[w]] \in PaymentIds
        BY <1>1, <2>1, <3>1 DEF Pay!TypeOK, Pay!TablesOK
      <3>. QED BY <2>1, <3>1, <3>2, <3>3 DEF Pay!EntryNamesOwnPayment, Unpaid
    <2>. QED BY <1>1, <2>1 DEF Turns, PaysFor, Asks
  <1>3. payPc[w] = "insert" => /\ payPc'[w] = "save"
                               /\ payP'[w].key = o /\ payP'[w].status = "pending"
    BY <1>1 DEF Turns, PaysFor, Asks
  <1>4. payPc[w] \in {"save", "update"} => payPc'[w] = "log" /\ Keeps(w)
    BY <1>1 DEF Turns
  <1>5. payPc[w] = "log" => payPc'[w] = "publish" /\ Keeps(w)
    BY <1>1 DEF Turns, PaysFor, Asks
  <1>6. payPc[w] = "charge" => /\ payPc'[w] = "update" /\ payP'[w].key = payP[w].key
                               /\ payP'[w].status \in {"succeeded", "failed"}
    BY <1>1 DEF Turns
  <1>7. payPc[w] = "publish" => /\ payPc'[w] \in {"charge", "email"} /\ Keeps(w)
                                /\ payPc'[w] = "email" => payP[w].status # "pending"
    BY <1>1 DEF Turns
  <1>8. payPc[w] # "email"
    BY <1>1 DEF Turns
  <1>9. payPc'[w] = "email" => Announced(o)'
    <2>1. ASSUME payPc'[w] = "email" PROVE payPc[w] = "publish"
      BY <1>2, <1>3, <1>4, <1>5, <1>6, <1>8, <2>1 DEF PaysFor, CreateLabels
    <2>2. payPc[w] = "publish" => payP[w].key = o /\ payP[w].status \in {"pending", "succeeded", "failed"}
      BY DEF PaysFor, Asks
    <2>. QED BY <1>1, <1>7, <2>1, <2>2, PublishAnnounces DEF Inv2
  <1>. QED BY <1>2, <1>3, <1>4, <1>5, <1>6, <1>7, <1>8, <1>9 DEF PaysFor, CreateLabels, Asks, Keeps

\* The handler that answers has announced the outcome.
LEMMA AnswersWereAnnounced ==
  ASSUME Inv2, OrdersGrow, NEW w \in Workers, PaymentStep(w), NEW o \in OrderIds, PaysFor(w, o),
         payPc'[w] = "idle", payReply'[w] = "ok"
  PROVE  Announced(o)'
  <1>1. Turns(w)
    BY StepFlows DEF Inv2, Inv, PaymentStep, PaymentFlow
  <1>2. \/ payPc[w] \in {"fetch", "confirm", "email"}
        \/ payP[w].status = "cancelled" /\ payPc[w] = "publish"
    BY <1>1 DEF Turns
  <1>3. payPc[w] = "email"
    BY <1>2 DEF PaysFor, CreateLabels, Asks
  <1>. QED BY <1>3, AnnouncedStays DEF PaysFor

LEMMA PayingStays ==
  ASSUME Inv2, [Next]_vars PROVE Paying'
  <1>. SUFFICES ASSUME NEW c \in Customers, screen'[c] = "paying",
                       NEW w, w = served'[c], NEW o, o = current'[c]
       PROVE  PaysFor(w, o)'
    BY DEF Paying, PaysFor, Announced, CreateLabels, Asks
  <1>1. Inv /\ Web /\ WebShape /\ Web' /\ OrdersGrow /\ Pay!TypeOK /\ CustomerMoves(c)
    BY NextMovesCustomers, ServicesGoOn, BrowsersGoOn, PaymentShape DEF Inv2, Inv, Web
  <1>2. w \in Workers /\ o \in OrderIds
    BY <1>1 DEF Web, WebShape
  <1>3. CASE Waits(c)
    <2>1. screen[c] = "paying" /\ served[c] = w /\ current[c] = o
      BY <1>3 DEF Waits, Steady
    <2>2. PaysFor(w, o)
      BY <2>1 DEF Inv2, Paying
    <2>3. CASE PaymentHandlerRests(c)
      <3>1. payPc'[w] = payPc[w] /\ payArg'[w] = payArg[w] /\ payP'[w] = payP[w]
        BY <2>1, <2>3 DEF PaymentHandlerRests
      <3>2. Announced(o) => Announced(o)'
        BY <1>1, <1>2, AnnouncedStays
      <3>. QED BY <2>2, <3>1, <3>2 DEF PaysFor, CreateLabels, Asks
    <2>4. CASE PaymentStep(w) /\ payPc'[w] # "idle"
      BY <1>1, <1>2, <2>2, <2>4, PaymentGoesOn
    <2>. QED BY <1>3, <2>1, <2>3, <2>4 DEF Waits
  <1>4. CASE SendPayment(c, w) /\ current'[c] = current[c]
    BY <1>1, <1>2, <1>4
       DEF SendPayment, Pay!Call, Pay!TypeOK, Pay!HandlersOK, PaysFor, CreateLabels, Asks
  <1>. QED BY <1>1, <1>3, <1>4 DEF CustomerMoves

LEMMA ToldStays ==
  ASSUME Inv2, [Next]_vars PROVE Told'
  <1>. SUFFICES ASSUME NEW c \in Customers, screen'[c] = "waiting" \/ notice'[c] = "accepted",
                       NEW o, o = current'[c]
       PROVE  Announced(o)'
    BY DEF Told, Announced
  <1>1. Inv /\ Web /\ WebShape /\ Web' /\ OrdersGrow /\ CustomerMoves(c)
    BY NextMovesCustomers, ServicesGoOn, BrowsersGoOn DEF Inv2, Inv, Web
  <1>2. o \in OrderIds
    BY <1>1 DEF Web, WebShape
  <1>3. Announced(o) => Announced(o)'
    BY <1>1, <1>2, AnnouncedStays
  <1>4. CASE /\ current'[c] = current[c]
             /\ screen[c] = "waiting" \/ notice[c] = "accepted"
    BY <1>3, <1>4 DEF Inv2, Told
  <1>5. CASE /\ screen[c] = "paying" /\ PaymentStep(served[c]) /\ current'[c] = current[c]
             /\ payPc'[served[c]] = "idle" /\ payReply'[served[c]] = "ok"
    <2>1. served[c] \in Workers /\ PaysFor(served[c], o)
      BY <1>1, <1>5, ServedIsHandler DEF Inv2, Paying
    <2>. QED BY <1>1, <1>2, <1>5, <2>1, AnswersWereAnnounced
  <1>. QED BY <1>1, <1>4, <1>5 DEF CustomerMoves, Waits, Steady

LEMMA InitInv2 == Init => Inv2
  <1>. SUFFICES ASSUME Init PROVE Inv2
    OBVIOUS
  <1>1. Apart
    BY DEF Init, Pay!Init, Apart, Claims, Asks, Unpaid
  <1>2. Paying /\ Told
    BY DEF Init, Paying, Told
  <1>. QED BY <1>1, <1>2, InitInv DEF Inv2

LEMMA NextInv2 == Inv2 /\ [Next]_vars => Inv2'
  BY NextInv, ApartStays, PayingStays, ToldStays DEF Inv2

LEMMA Invariance2 == Spec => []Inv2
  BY InitInv2, NextInv2, PTL DEF Spec

\* Nobody reads "Payment accepted" for an order whose outcome the payment
\* service has not published: the browser waits for the order only when the
\* payment request has come back, which it does after the event.
THEOREM AcceptedWereAnnounced == Spec => []AcceptedWasAnnounced
  <1>1. Inv2 => AcceptedWasAnnounced
    BY DEF Inv2, Told, Announced, AcceptedWasAnnounced
  <1>. QED BY <1>1, Invariance2, PTL

-----------------------------------------------------------------------------
(* An order is settled once, as long as nobody but the browsers calls *)

\* How many outcomes of payments of o were published.
Outcomes(o) == sent["payment.succeeded"][o] + sent["payment.failed"][o]

Holds(w) == payPc[w] \in Pay!Holding

\* Only Create runs, and two handlers never hold payments of one order.
Creating == \A w \in Workers :
    /\ payPc[w] \in CreateLabels \cup {"idle", "fetch"}
    /\ Holds(w) => payP[w].status \in {"pending", "succeeded", "failed"}

OneHolder == \A v, w \in Workers : Holds(v) /\ Holds(w) /\ payP[v].key = payP[w].key => v = w

\* An order has one outcome; it has none before it has a payment, and none
\* while a handler may still publish it.
OneOutcome ==
    /\ \A o \in OrderIds : Outcomes(o) <= 1
    /\ \A o \in OrderIds : Unpaid(o) => Outcomes(o) = 0
    /\ \A w \in Workers : Holds(w) /\ payPc[w] # "email" => Outcomes(payP[w].key) = 0

Own == Creating /\ OneHolder /\ OneOutcome

LEMMA SentTyped ==
  ASSUME Inv, NEW o \in OrderIds
  PROVE  /\ sent["payment.succeeded"][o] \in Nat /\ sent["payment.failed"][o] \in Nat
         /\ Outcomes(o) \in Nat
  <1>1. Ord!TypeOK
    BY OrderShape DEF Inv
  <1>. QED BY <1>1 DEF Ord!TypeOK, Ord!Subscribers, Outcomes

\* The handler a request gets is one of them.
LEMMA FreeIsWorker == \A pc : Free(pc) \in Workers
  <1>. SUFFICES ASSUME NEW pc PROVE Free(pc) \in Workers
    OBVIOUS
  <1>1. \E w \in Workers : Idle(pc, w) \/ \A other \in Workers : ~Idle(pc, other)
    <2>1. CASE \E w \in Workers : Idle(pc, w)
      BY <2>1
    <2>2. CASE \A w \in Workers : ~Idle(pc, w)
      BY <2>2, SomeWorker
    <2>. QED BY <2>1, <2>2
  <1>. QED BY <1>1 DEF Free

LEMMA MCNextIsNext == [MCNext]_mcVars => [Next]_vars
  <1>1. MCTap => Next
    BY FreeIsWorker DEF MCTap, Next
  <1>2. MCVisit => Next
    BY FreeIsWorker DEF MCVisit, Next
  <1>3. MCTrouble => Next
    BY DEF MCTrouble, Next
  <1>4. MCSystem => Next
    BY FreeIsWorker DEF MCSystem, Next, Browse, Serve
  <1>. QED BY <1>1, <1>2, <1>3, <1>4 DEF MCNext, mcVars

\* What happens to the payments when only the browsers call.
OwnMoves ==
    \/ /\ UNCHANGED <<payments, sent>>
       /\ PayRests \/ \E w \in Workers : PayCalls(w) /\ payPc'[w] = "create"
    \/ \E w \in Workers : PaymentStep(w)

LEMMA OwnStepsMove ==
  ASSUME Inv, [MCNext]_mcVars, ~MCVisit PROVE OwnMoves
  <1>1. [Next]_vars /\ Pay!TypeOK
    BY MCNextIsNext, PaymentShape DEF Inv
  <1>2. CASE \E w \in Workers : PaymentStep(w)
    BY <1>2 DEF OwnMoves
  <1>3. CASE ~ \E w \in Workers : PaymentStep(w)
    <2>1. UNCHANGED <<payments, logged, sent>>
      BY <1>1, <1>3, TwoSides
    <2>2. CASE UNCHANGED payVars
      BY <2>1, <2>2 DEF payVars, OwnMoves, PayRests
    <2>3. ASSUME NEW c \in Customers, NEW w \in Workers, SendPayment(c, w) PROVE OwnMoves
      <3>1. screen[c] = "ordered" /\ Pay!Call(w, "create", current[c]) /\ screen'[c] = "paying"
        BY <2>3 DEF SendPayment, Show, Inv, Web, WebShape
      <3>2. PayCalls(w) /\ payPc'[w] = "create"
        BY <1>1, <2>1, <3>1
           DEF PayCalls, OthersWait, Pay!Call, Pay!storage, Pay!TypeOK, Pay!HandlersOK
      <3>. QED BY <2>1, <3>2 DEF OwnMoves
    <2>4. ASSUME NEW w \in Workers, PaymentFails(w) PROVE OwnMoves
      <3>1. OthersWait(w) /\ payPc'[w] = "idle"
        BY <1>1, <2>4, ReturnsAlone DEF PaymentFails, Pay!StepError
      <3>. QED BY <2>1, <3>1 DEF OwnMoves, PayRests, OthersWait
    <2>5. CASE PaymentCrash
      BY <2>1, <2>5 DEF PaymentCrash, Pay!Crash, OwnMoves, PayRests
    <2>6. CASE \E k \in OrderIds : ExpireKey(k)
      BY <2>1, <2>6 DEF ExpireKey, Pay!ExpireKey, Pay!control, OwnMoves, PayRests
    <2>7. Trouble => OwnMoves
      BY <2>2, <2>4, <2>5, <2>6
         DEF Trouble, LoseConnection, OrderFails, LoseEvent, OrderCrash
    <2>8. MCSystem => OwnMoves
      BY <1>3, <2>2, <2>3, FreeIsWorker DEF MCSystem, Poll, OrderStep, OrderReacts
    <2>9. MCTap => OwnMoves
      BY <2>2 DEF MCTap, Tap
    <2>. QED BY <2>2, <2>7, <2>8, <2>9 DEF MCNext, MCTrouble, mcVars, vars
  <1>. QED BY <1>2, <1>3

\* A handler that starts, stops or waits publishes nothing and gets no payment.
LEMMA CallsKeepOwn ==
  ASSUME Own, UNCHANGED <<payments, sent>>,
         PayRests \/ \E w \in Workers : PayCalls(w) /\ payPc'[w] = "create"
  PROVE  Own'
  <1>1. \A w \in Workers :
          \/ payPc'[w] \in {"idle", "create"}
          \/ payPc'[w] = payPc[w] /\ payP'[w] = payP[w]
    BY DEF PayRests, PayCalls, OthersWait
  <1>2. \A o : Outcomes(o)' = Outcomes(o) /\ Unpaid(o)' = Unpaid(o)
    BY DEF Outcomes, Unpaid, Pay!Exists
  <1>. QED BY <1>1, <1>2 DEF Own, Creating, OneHolder, OneOutcome, Holds, CreateLabels, Pay!Holding,
                             Outcomes

\* A row that is inserted is its handler's alone, and each outcome is published
\* by the one handler that holds the payment.
LEMMA StepsKeepOwn ==
  ASSUME Inv, Own, NEW w \in Workers, PaymentStep(w) PROVE Own'
  <1>1. Turns(w) /\ OthersWait(w) /\ RowsOf(w) /\ Deliver(w) /\ Ord!TypeOK
    BY StepFlows, OrderShape DEF Inv, PaymentStep, PaymentFlow
  <1>2. \A v \in Workers : Holds(v) =>
          /\ payP[v].id \in PaymentIds /\ Pay!Exists(payP[v].id)
          /\ payP[v].key = payments[payP[v].id].key /\ payP[v].key \in OrderIds
    BY PaymentShape, HandlersTyped DEF Inv, Holds
  <1>3. payPc[w] = "insert" => payArg[w] \in OrderIds
    BY HandlersTyped DEF Inv
  <1>4. \A v \in Workers : v # w => payPc'[v] = payPc[v] /\ payP'[v] = payP[v]
    BY <1>1 DEF OthersWait
  \* How the handler comes to hold what it holds
  <1>5. Holds(w)' =>
          \/ /\ Holds(w) /\ payP'[w].key = payP[w].key /\ payPc[w] # "email"
             /\ payP'[w].status \in {"pending", "succeeded", "failed"}
             /\ payPc'[w] = "email" => payPc[w] = "publish"
          \/ /\ payPc[w] = "insert" /\ payPc'[w] = "save" /\ payP'[w].key = payArg[w]
             /\ payP'[w].status = "pending" /\ Unpaid(payArg[w])
    <2>1. ASSUME payPc[w] = "insert", payPc'[w] = "save" PROVE Unpaid(payArg[w])
      <3>1. Pay!InsertPayment(w) /\ Pay!TypeOK
        BY <2>1, PaymentShape
           DEF Inv, PaymentStep, Pay!Step, Pay!LookUpKey, Pay!FetchExisting, Pay!SaveKey, Pay!Charge,
               Pay!ReadForRefund, Pay!ReadForConfirm, Pay!ReadForCancel, Pay!UpdateRow,
               Pay!LogEvent, Pay!InsertRefund, Pay!Publish, Pay!SendEmail
      <3>2. ~Pay!Return(w, "duplicate")
        BY <2>1, <3>1, ReturnsAlone
      <3>. QED BY <3>1, <3>2 DEF Pay!InsertPayment, Pay!KeyTaken, Unpaid
    <2>. QED BY <1>1, <2>1 DEF Turns, Keeps, Holds, Pay!Holding, Own, Creating, CreateLabels
  <1>6. Creating'
    <2>1. payPc'[w] \in CreateLabels \cup {"idle", "fetch"}
      BY <1>1 DEF Turns, Own, Creating, CreateLabels, Holds, Pay!Holding
    <2>. QED BY <1>4, <1>5, <2>1 DEF Own, Creating, Holds
  <1>7. OneHolder'
    <2>1. ASSUME NEW v \in Workers, v # w, Holds(v)', Holds(w)', payP'[v].key = payP'[w].key
          PROVE  FALSE
      <3>1. Holds(v) /\ payP'[v] = payP[v]
        BY <1>4, <2>1 DEF Holds
      <3>2. CASE Holds(w) /\ payP'[w].key = payP[w].key
        BY <2>1, <3>1, <3>2 DEF Own, OneHolder
      <3>3. CASE payP'[w].key = payArg[w] /\ Unpaid(payArg[w])
        BY <1>2, <2>1, <3>1, <3>3 DEF Unpaid
      <3>. QED BY <1>5, <2>1, <3>2, <3>3
    <2>2. \A v, u \in Workers : v # w /\ u # w /\ Holds(v)' /\ Holds(u)'
            /\ payP'[v].key = payP'[u].key => v = u
      BY <1>4 DEF Own, OneHolder, Holds
    <2>. QED BY <2>1, <2>2 DEF OneHolder, Holds
  <1>8. ASSUME NEW o \in OrderIds, Unpaid(o)' PROVE Unpaid(o)
    BY <1>1, <1>8 DEF RowsOf, Unpaid, Pay!Exists
  <1>9. ASSUME payPc[w] = "publish", payP[w].status \in {"succeeded", "failed"}
        PROVE  OneOutcome'
    <2>1. PICK k \in OrderIds : k = payP[w].key
      BY <1>2, <1>9 DEF Holds, Pay!Holding
    <2>2. Holds(w) /\ ~Unpaid(k) /\ Outcomes(k) = 0 /\ ~Unpaid(k)'
      BY <1>2, <1>8, <1>9, <2>1 DEF Holds, Pay!Holding, Unpaid, Own, OneOutcome
    <2>3. \A o \in OrderIds : Outcomes(o)' = Outcomes(o) + IF o = k THEN 1 ELSE 0
      <3>1. PICK s \in {"payment.succeeded", "payment.failed"} : Ord!PaymentEvent(s, k)
        BY <1>1, <1>9, <2>1 DEF Deliver, SubjectOf
      <3>2. \A t \in Ord!Subscribers, o \in OrderIds :
              sent'[t][o] = sent[t][o] + IF t = s /\ o = k THEN 1 ELSE 0
        BY <1>1, <3>1 DEF Ord!PaymentEvent, Ord!TypeOK
      <3>. QED BY <3>1, <3>2, SentTyped DEF Outcomes, Ord!Subscribers
    <2>4. payPc'[w] \in {"email", "idle"}
      BY <1>1, <1>9 DEF Turns
    <2>5. ASSUME NEW v \in Workers, Holds(v)', payPc'[v] # "email", NEW j, j = payP'[v].key
          PROVE  Outcomes(j)' = 0
      <3>1. v # w /\ Holds(v) /\ payP[v].key = j /\ payPc[v] # "email"
        BY <1>4, <2>4, <2>5 DEF Holds, Pay!Holding
      <3>2. j \in OrderIds /\ j # k /\ Outcomes(j) = 0
        BY <1>2, <2>1, <2>2, <3>1 DEF Own, OneHolder, OneOutcome
      <3>. QED BY <2>3, <3>2, SentTyped
    <2>6. \A o \in OrderIds : Outcomes(o)' <= 1
      BY <2>2, <2>3, SentTyped DEF Own, OneOutcome
    <2>7. \A o \in OrderIds : Unpaid(o)' => Outcomes(o)' = 0
      BY <1>8, <2>2, <2>3, SentTyped DEF Own, OneOutcome
    <2>. QED BY <2>5, <2>6, <2>7 DEF OneOutcome, Holds, Outcomes
  <1>10. ASSUME ~(payPc[w] = "publish" /\ payP[w].status \in {"succeeded", "failed"})
         PROVE  OneOutcome'
    <2>1. \A o : Outcomes(o)' = Outcomes(o)
      BY <1>1, <1>10 DEF Deliver, SubjectOf, ordVars, Outcomes
    <2>2. ASSUME NEW v \in Workers, Holds(v)', payPc'[v] # "email", NEW j, j = payP'[v].key
          PROVE  Outcomes(j) = 0
      <3>1. CASE v # w
        BY <1>4, <2>2, <3>1 DEF Own, OneOutcome, Holds
      <3>2. CASE v = w
        BY <1>3, <1>5, <2>2, <3>2 DEF Own, OneOutcome
      <3>. QED BY <3>1, <3>2
    <2>3. \A o \in OrderIds : Outcomes(o) <= 1 /\ (Unpaid(o)' => Outcomes(o) = 0)
      BY <1>8 DEF Own, OneOutcome
    <2>. QED BY <2>1, <2>2, <2>3 DEF OneOutcome, Holds, Outcomes
  <1>. QED BY <1>6, <1>7, <1>9, <1>10 DEF Own

\* A visit is counted, so that none was made as long as the count is zero.
OwnInv == visits \in Nat /\ (visits = 0 => Own)

LEMMA InitOwn == MCInit => OwnInv
  <1>. SUFFICES ASSUME MCInit PROVE Own
    BY DEF MCInit, OwnInv
  <1>1. \A w \in Workers : payPc[w] = "idle"
    BY DEF MCInit, Init, Pay!Init
  <1>2. \A o \in OrderIds : Outcomes(o) = 0
    BY DEF MCInit, Init, Ord!Init, Ord!Subscribers, Outcomes
  <1>. QED BY <1>1, <1>2 DEF Own, Creating, OneHolder, OneOutcome, Holds, Pay!Holding

LEMMA NextOwn == Inv /\ OwnInv /\ [MCNext]_mcVars => OwnInv'
  <1>. SUFFICES ASSUME Inv, OwnInv, [MCNext]_mcVars PROVE OwnInv'
    OBVIOUS
  <1>1. CASE MCVisit
    BY <1>1 DEF MCVisit, OwnInv
  <1>2. CASE ~MCVisit
    <2>1. UNCHANGED visits
      BY <1>2 DEF MCNext, MCTap, MCTrouble, MCSystem, bounds, mcVars
    <2>2. OwnMoves
      BY <1>2, OwnStepsMove
    <2>3. Own => Own'
      BY <2>2, CallsKeepOwn, StepsKeepOwn DEF OwnMoves
    <2>. QED BY <2>1, <2>3 DEF OwnInv
  <1>. QED BY <1>1, <1>2

LEMMA OwnIsSound == MCSpec => [](Inv /\ OwnInv /\ OrdFacts!Deliveries)
  <1>1. MCInit => Inv /\ OwnInv /\ OrdFacts!Deliveries
    BY InitOwn, InitInv, SameOrders, OrderAssumptions, OrdFacts!InitDelivers DEF MCInit, Init
  <1>2. Inv /\ OrdFacts!Deliveries /\ [Next]_vars => Inv' /\ OrdFacts!Deliveries'
    BY NextInv, NextOnOrders, MovesAreSteps, SameOrders, OrderAssumptions, OrdFacts!StepDelivers DEF Inv
  <1>. QED BY <1>1, <1>2, NextOwn, MCNextIsNext, PTL DEF MCSpec

\* An event that was sent has written one entry at most.
LEMMA EntriesAreFew ==
  ASSUME Inv, OrdFacts!Deliveries, NEW o \in OrderIds, NEW s \in Ord!Subscribers
  PROVE  /\ IsFiniteSet(Ord!EntriesBy(o, s)) /\ Cardinality(Ord!EntriesBy(o, s)) \in Nat
         /\ Cardinality(Ord!EntriesBy(o, s)) <= sent[s][o]
  <1>1. Ord!TypeOK /\ OrdFacts!IInv /\ s \in OrdFacts!Subscribers
    BY OrderShape DEF Inv, Ord!Subscribers, OrdFacts!Subscribers
  <1>2. Ord!EntriesBy(o, s) = OrdFacts!EntriesBy(o, s)
    BY DEF Ord!EntriesBy, OrdFacts!EntriesBy
  <1>3. IsFiniteSet(Ord!EntriesBy(o, s))
    <2>1. DOMAIN history[o] = 1 .. Len(history[o]) /\ Len(history[o]) \in Nat
      BY <1>1 DEF Ord!TypeOK
    <2>2. IsFiniteSet(DOMAIN history[o])
      BY <2>1, FS_Interval
    <2>. QED BY <2>2, FS_Subset DEF Ord!EntriesBy
  <1>4. Cardinality(Ord!EntriesBy(o, s)) \in Nat
    BY <1>3, FS_CardinalityType
  <1>5. OrdFacts!Cardinality(OrdFacts!EntriesBy(o, s)) = Cardinality(Ord!EntriesBy(o, s))
    BY <1>2 DEF OrdFacts!Cardinality, Cardinality, OrdFacts!IsFiniteSet, IsFiniteSet
  <1>6. /\ OrdFacts!Cardinality(OrdFacts!EntriesBy(o, s)) + inbox[s][o] + OrdFacts!Due(s, o)
              <= sent[s][o]
        /\ inbox[s][o] \in Nat /\ sent[s][o] \in Nat
    BY <1>1 DEF OrdFacts!Deliveries, Ord!TypeOK
  <1>7. OrdFacts!Due(s, o) \in {0, 1}
    BY DEF OrdFacts!Due
  <1>. QED BY <1>3, <1>4, <1>5, <1>6, <1>7

\* As long as only the browsers call, an order is settled by one event, paid or
\* failed: however often a checkout is repeated and whatever fails, one handler
\* gets to charge for the order, and what it publishes is applied once.
THEOREM OrdersSettleOnce == MCSpec => []OwnSettlesOnce
  <1>1. Inv /\ OwnInv /\ OrdFacts!Deliveries => OwnSettlesOnce
    <2>. SUFFICES ASSUME Inv, Own, OrdFacts!Deliveries, NEW o \in OrderIds
         PROVE  Cardinality(UNION {Ord!EntriesBy(o, s) : s \in Ord!Subscribers}) <= 1
      BY DEF OwnInv, OwnSettlesOnce, SettledOnce
    <2>. DEFINE paid   == Ord!EntriesBy(o, "payment.succeeded")
                failed == Ord!EntriesBy(o, "payment.failed")
    <2>1. /\ IsFiniteSet(paid) /\ Cardinality(paid) \in Nat
          /\ Cardinality(paid) <= sent["payment.succeeded"][o]
      BY EntriesAreFew DEF Ord!Subscribers
    <2>2. /\ IsFiniteSet(failed) /\ Cardinality(failed) \in Nat
          /\ Cardinality(failed) <= sent["payment.failed"][o]
      BY EntriesAreFew DEF Ord!Subscribers
    <2>3. Cardinality(paid) + Cardinality(failed) <= 1
      BY <2>1, <2>2, SentTyped DEF Own, OneOutcome, Outcomes
    <2>4. UNION {Ord!EntriesBy(o, s) : s \in Ord!Subscribers} = paid \cup failed
      BY DEF Ord!Subscribers
    <2>5. CASE Cardinality(paid) = 0
      <3>1. paid = {}
        BY <2>1, <2>5, FS_EmptySet
      <3>2. paid \cup failed = failed
        BY <3>1
      <3>3. Cardinality(failed) <= 1
        BY <2>2, <2>3, <2>5
      <3>. QED BY <2>4, <3>2, <3>3
    <2>6. CASE Cardinality(failed) = 0
      <3>1. failed = {}
        BY <2>2, <2>6, FS_EmptySet
      <3>2. paid \cup failed = paid
        BY <3>1
      <3>3. Cardinality(paid) <= 1
        BY <2>1, <2>3, <2>6
      <3>. QED BY <2>4, <3>2, <3>3
    <2>. QED BY <2>1, <2>2, <2>3, <2>5, <2>6
  <1>. QED BY <1>1, OwnIsSound, PTL

-----------------------------------------------------------------------------
(* A checkout has a bounded number of steps to go *)

\* What is left of a Create of the order service and of the payment service.
OrderLeft(h) ==
    CASE ordPc[h] = "update"    -> 5
      [] ordPc[h] = "commit"    -> 4
      [] ordPc[h] = "committed" -> 3
      [] ordPc[h] = "cache"     -> 2
      [] OTHER                  -> 1

PayLeft(w) ==
    LET charged == payP[w].status # "pending"
    IN  CASE payPc[w] = "create"               -> 10
          [] payPc[w] = "insert"               -> 9
          [] payPc[w] = "save"                 -> 8
          [] payPc[w] = "log" /\ ~charged      -> 7
          [] payPc[w] = "publish" /\ ~charged  -> 6
          [] payPc[w] = "charge"               -> 5
          [] payPc[w] = "update"               -> 4
          [] payPc[w] = "log" /\ charged       -> 3
          [] payPc[w] = "publish" /\ charged   -> 2
          [] OTHER                             -> 1

\* What is left of a checkout: the questions, the payment and the order.
Left(c) ==
    CASE screen[c] = "ordering" -> Polls + 11 + OrderLeft(served[c])
      [] screen[c] = "ordered"  -> Polls + 11
      [] screen[c] = "paying"   -> Polls + PayLeft(served[c])
      [] screen[c] = "waiting"  -> polls[c]
      [] OTHER                  -> 0

\* Nothing happens to a checkout.
Stands(c) ==
    /\ screen'[c] = screen[c] /\ current'[c] = current[c] /\ served'[c] = served[c]
    /\ screen[c] = "ordering" => OrderHandlerRests(c)
    /\ screen[c] = "paying" => PaymentHandlerRests(c)
    /\ screen[c] = "waiting" => polls'[c] = polls[c]

LeftBounded == \A c \in Customers :
    Left(c) \in 0 .. Polls + 16 /\ (Left(c) = 0 <=> screen[c] = "cart")

GoesForward == \A c \in Customers :
    screen[c] # "cart" => Stands(c) \/ Left(c)' < Left(c)

PollsLeft ==
    /\ polls \in [Customers -> 0 .. Polls]
    /\ \A c \in Customers : screen[c] = "waiting" => polls[c] >= 1

LEMMA LeftTyped ==
  /\ \A h : OrderLeft(h) \in 1 .. 5
  /\ \A w : PayLeft(w) \in 1 .. 10
  BY DEF OrderLeft, PayLeft

LEMMA LeftIsBounded == PollsLeft /\ WebShape => LeftBounded
  <1>. SUFFICES ASSUME PollsLeft, WebShape, NEW c \in Customers
       PROVE  Left(c) \in 0 .. Polls + 16 /\ (Left(c) = 0 <=> screen[c] = "cart")
    BY DEF LeftBounded
  <1>1. screen[c] \in Screens /\ Polls \in Nat \ {0}
    BY PollsIsPositive DEF WebShape
  <1>2. polls[c] \in 0 .. Polls /\ (screen[c] = "waiting" => polls[c] >= 1)
    BY DEF PollsLeft
  <1>3. OrderLeft(served[c]) \in 1 .. 5 /\ PayLeft(served[c]) \in 1 .. 10
    BY LeftTyped
  <1>. QED BY <1>1, <1>2, <1>3 DEF Left, Screens

\* Who changes how often a browser may ask.
LEMMA PollsMove ==
  ASSUME [Next]_vars
  PROVE  \/ UNCHANGED polls
         \/ \E d \in Customers : /\ screen[d] = "waiting" /\ polls[d] > 1
                                 /\ polls' = [polls EXCEPT ![d] = @ - 1]
         \/ \E d \in Customers : /\ screen[d] = "paying"
                                 /\ polls' = [polls EXCEPT ![d] = Polls]
  <1>1. ASSUME NEW c \in Customers, Poll(c)
        PROVE  UNCHANGED polls \/ (/\ screen[c] = "waiting" /\ polls[c] > 1
                                   /\ polls' = [polls EXCEPT ![c] = @ - 1])
    BY <1>1 DEF Poll, Accept
  <1>2. ASSUME NEW w, PaymentEnds(w)
        PROVE  UNCHANGED polls \/ \E d \in Customers : /\ screen[d] = "paying"
                                      /\ polls' = [polls EXCEPT ![d] = Polls]
    BY <1>2 DEF PaymentEnds, GiveUp, webVars
  <1>3. ASSUME NEW w, NEW how, OrderEnds(w, how) PROVE UNCHANGED polls
    BY <1>3 DEF OrderEnds, GiveUp, webVars
  <1>4. CASE \/ \E c \in Customers, w \in Workers : Tap(c, w) \/ SendPayment(c, w)
             \/ \E c \in Customers : LoseConnection(c)
    BY <1>4 DEF Tap, SendPayment, LoseConnection, GiveUp
  <1>5. CASE \/ \E w \in Workers : OrderStep(w) \/ OrderFails(w)
             \/ OrderCrash \/ PaymentCrash
    BY <1>3, <1>5 DEF OrderStep, OrderFails, OrderCrash, PaymentCrash, Abandon
  <1>6. CASE \/ \E w \in Workers : ChangeOrder(w) \/ \E i \in PaymentIds : ChangePayment(w, i)
             \/ \E s \in Ord!Subscribers : OrderReacts(s) \/ LoseEvent(s)
             \/ \E k \in OrderIds : ExpireKey(k)
             \/ UNCHANGED vars
    BY <1>6 DEF ChangeOrder, ChangePayment, OrderReacts, LoseEvent, ExpireKey, webVars, vars
  <1>7. CASE \E w \in Workers : PaymentStep(w) \/ PaymentFails(w)
    BY <1>2, <1>7 DEF PaymentStep, PaymentFails
  <1>. QED BY <1>1, <1>4, <1>5, <1>6, <1>7 DEF Next, Browse, Serve, Trouble

\* A browser that begins to wait has all its questions left.
LEMMA WaitBegins ==
  ASSUME Web, PollsLeft, NEW c \in Customers, screen[c] = "paying", PaymentStep(served[c]),
         payPc'[served[c]] = "idle", payReply'[served[c]] = "ok"
  PROVE  polls'[c] = Polls
  <1>1. PaymentEnds(served[c])
    BY DEF PaymentStep
  <1>2. \A d \in Customers : served[d] = served[c] => d = c
    BY DEF Web, WebShape
  <1>. QED BY <1>1, <1>2 DEF PaymentEnds, PollsLeft

LEMMA PollsStayLeft ==
  ASSUME Inv, PollsLeft, [Next]_vars PROVE PollsLeft'
  <1>1. Polls \in Nat \ {0} /\ Web /\ WebShape
    BY PollsIsPositive DEF Inv, Web
  <1>2. polls' \in [Customers -> 0 .. Polls]
    BY <1>1, PollsMove DEF PollsLeft
  <1>3. ASSUME NEW c \in Customers, screen'[c] = "waiting" PROVE polls'[c] >= 1
    <2>1. CASE Waits(c)
      <3>1. screen[c] = "waiting" /\ polls[c] >= 1
        BY <1>3, <2>1 DEF Waits, Steady, PollsLeft
      <3>. QED BY <1>1, <3>1, PollsMove DEF PollsLeft
    <2>2. CASE /\ screen[c] = "paying" /\ PaymentStep(served[c])
               /\ payPc'[served[c]] = "idle" /\ payReply'[served[c]] = "ok"
      BY <1>1, <2>2, WaitBegins
    <2>. QED BY <1>3, <2>1, <2>2, NextMovesCustomers DEF CustomerMoves
  <1>. QED BY <1>2, <1>3 DEF PollsLeft

LEMMA OrderGoesForward ==
  ASSUME Ord!TypeOK, NEW h \in Ord!Handlers, Ord!Step(h) \/ Ord!Fail(h), ordPc'[h] # "idle",
         ordPc[h] \in OrderLabels
  PROVE  OrderLeft(h)' < OrderLeft(h)
  <1>1. \/ ordPc[h] = "update" /\ ordPc'[h] = "commit"
        \/ ordPc[h] = "commit" /\ ordPc'[h] = "committed"
        \/ ordPc[h] = "committed" /\ ordPc'[h] = "cache"
        \/ ordPc[h] = "cache" /\ ordPc'[h] = "publish"
    BY DEF Ord!Step, Ord!Fail, Ord!Read, Ord!Update, Ord!Commit, Ord!ReturnRow, Ord!CacheStatus,
       Ord!Publish, Ord!Goto, Ord!Finish, Ord!TypeOK, OrderLabels
  <1>. QED BY <1>1 DEF OrderLeft

LEMMA PaymentGoesForward ==
  ASSUME Inv2, OrdersGrow, NEW w \in Workers, PaymentStep(w), NEW o \in OrderIds, PaysFor(w, o),
         payPc'[w] # "idle"
  PROVE  PayLeft(w)' < PayLeft(w)
  <1>1. Turns(w) /\ PaysFor(w, o)'
    BY StepFlows, PaymentGoesOn DEF Inv2, Inv, PaymentStep, PaymentFlow
  <1>2. /\ payPc[w] \in {"save", "charge"} => payP[w].status = "pending"
        /\ payPc[w] = "update" => payP[w].status # "pending"
    BY PaymentShape DEF Inv2, Inv
  <1>3. \/ payPc[w] = "create" /\ payPc'[w] = "insert"
        \/ payPc[w] = "insert" /\ payPc'[w] = "save"
        \/ payPc[w] = "save" /\ payPc'[w] = "log" /\ payP'[w].status = "pending"
        \/ payPc[w] = "log" /\ payPc'[w] = "publish" /\ payP'[w].status = payP[w].status
        \/ payPc[w] = "publish" /\ payPc'[w] = "charge" /\ payP[w].status = "pending"
        \/ payPc[w] = "charge" /\ payPc'[w] = "update"
        \/ payPc[w] = "update" /\ payPc'[w] = "log" /\ payP'[w].status # "pending"
        \/ payPc[w] = "publish" /\ payPc'[w] = "email" /\ payP[w].status # "pending"
    BY <1>1, <1>2 DEF Turns, PaysFor, CreateLabels, Keeps
  <1>. QED BY <1>3 DEF PayLeft

\* A customer whose handler waits stands still, and one whose handler goes on
\* has less to go.
LEMMA WaitingGoesForward ==
  ASSUME Inv2, PollsLeft, [Next]_vars, NEW c \in Customers, screen[c] # "cart", Waits(c)
  PROVE  Stands(c) \/ Left(c)' < Left(c)
  <1>1. /\ Inv /\ Web /\ WebShape /\ OrdersGrow /\ Ord!TypeOK
        /\ screen[c] \in Screens /\ Polls \in Nat
    BY ServicesGoOn, OrderShape, PollsIsPositive DEF Inv2, Inv, Web, WebShape
  <1>2. screen'[c] = screen[c] /\ current'[c] = current[c] /\ served'[c] = served[c]
    BY DEF Waits, Steady
  <1>3. CASE screen[c] = "ordering"
    <2>1. PICK h \in Ord!Handlers : h = served[c]
      BY <1>1, <1>3, ServedIsHandler
    <2>2. CASE OrderHandlerRests(c)
      BY <1>2, <1>3, <2>2 DEF Stands
    <2>3. CASE (Ord!Step(h) \/ Ord!Fail(h)) /\ ordPc'[h] # "idle"
      <3>1. ordPc[h] \in OrderLabels
        BY <1>1, <1>3, <2>1 DEF Web, Orderings
      <3>2. OrderLeft(h)' < OrderLeft(h) /\ OrderLeft(h)' \in 1 .. 5 /\ OrderLeft(h) \in 1 .. 5
        BY <1>1, <2>3, <3>1, OrderGoesForward DEF OrderLeft
      <3>3. Left(c) = Polls + 11 + OrderLeft(h) /\ Left(c)' = Polls + 11 + OrderLeft(h)'
        BY <1>2, <1>3, <2>1 DEF Left, OrderLeft
      <3>. QED BY <1>1, <3>2, <3>3
    <2>. QED BY <1>3, <2>1, <2>2, <2>3 DEF Waits
  <1>4. CASE screen[c] = "ordered"
    BY <1>2, <1>4 DEF Stands
  <1>5. CASE screen[c] = "paying"
    <2>1. PICK w \in Workers : w = served[c]
      BY <1>1, <1>5, ServedIsHandler
    <2>2. CASE PaymentHandlerRests(c)
      BY <1>2, <1>5, <2>2 DEF Stands
    <2>3. CASE PaymentStep(w) /\ payPc'[w] # "idle"
      <3>1. PICK o \in OrderIds : o = current[c]
        BY <1>1, <1>5, CurrentIsOrder
      <3>2. PaysFor(w, o)
        BY <1>5, <2>1, <3>1 DEF Inv2, Paying
      <3>3. PayLeft(w)' < PayLeft(w) /\ PayLeft(w)' \in 1 .. 10 /\ PayLeft(w) \in 1 .. 10
        BY <1>1, <2>3, <3>2, PaymentGoesForward DEF PayLeft
      <3>4. Left(c) = Polls + PayLeft(w) /\ Left(c)' = Polls + PayLeft(w)'
        BY <1>2, <1>5, <2>1 DEF Left, PayLeft
      <3>. QED BY <1>1, <3>3, <3>4
    <2>. QED BY <1>5, <2>1, <2>2, <2>3 DEF Waits
  <1>6. CASE screen[c] = "waiting"
    <2>1. polls'[c] = polls[c] \/ polls'[c] < polls[c]
      BY <1>6, PollsMove DEF PollsLeft
    <2>2. Left(c) = polls[c] /\ Left(c)' = polls'[c]
      BY <1>2, <1>6 DEF Left
    <2>. QED BY <1>2, <1>6, <2>1, <2>2 DEF Stands
  <1>. QED BY <1>1, <1>3, <1>4, <1>5, <1>6 DEF Screens

LEMMA NextGoesForward ==
  ASSUME Inv2, PollsLeft, [Next]_vars PROVE GoesForward
  <1>. SUFFICES ASSUME NEW c \in Customers, screen[c] # "cart"
       PROVE  Stands(c) \/ Left(c)' < Left(c)
    BY DEF GoesForward
  <1>1. /\ PollsLeft' /\ WebShape /\ WebShape' /\ Polls \in Nat
        /\ screen[c] \in Screens /\ Left(c) \in 0 .. Polls + 16 /\ Left(c) # 0
    BY PollsStayLeft, BrowsersGoOn, LeftIsBounded, PollsIsPositive
       DEF Inv2, Inv, Web, WebShape, LeftBounded
  <1>2. CASE screen'[c] = "cart"
    <2>1. Left(c)' = 0
      BY <1>2 DEF Left
    <2>. QED BY <1>1, <2>1
  <1>3. CASE screen[c] = "ordered" /\ SendPayment(c, served'[c]) /\ screen'[c] = "paying"
    <2>1. Left(c) = Polls + 11 /\ Left(c)' = Polls + PayLeft(served[c])'
      BY <1>3 DEF Left, PayLeft
    <2>2. PayLeft(served[c])' \in 1 .. 10
      BY DEF PayLeft
    <2>. QED BY <1>1, <2>1, <2>2
  <1>4. CASE screen[c] = "ordering" /\ screen'[c] = "ordered"
    <2>1. Left(c) = Polls + 11 + OrderLeft(served[c]) /\ Left(c)' = Polls + 11
      BY <1>4 DEF Left
    <2>. QED BY <1>1, <2>1, LeftTyped
  <1>5. CASE /\ screen[c] = "paying" /\ PaymentStep(served[c]) /\ screen'[c] = "waiting"
             /\ payPc'[served[c]] = "idle" /\ payReply'[served[c]] = "ok"
    <2>1. Left(c) = Polls + PayLeft(served[c]) /\ Left(c)' = polls'[c]
      BY <1>5 DEF Left
    <2>2. polls'[c] = Polls
      BY <1>5, WaitBegins DEF Inv2, Inv
    <2>. QED BY <1>1, <2>1, <2>2, LeftTyped
  <1>6. CASE Waits(c)
    BY <1>6, WaitingGoesForward
  <1>7. CustomerMoves(c)
    BY NextMovesCustomers DEF Inv2
  <1>8. \A w : SendPayment(c, w) => screen[c] = "ordered"
    BY DEF SendPayment
  <1>. QED BY <1>2, <1>3, <1>4, <1>5, <1>6, <1>7, <1>8 DEF CustomerMoves

\* A checkout never goes back and never turns in circles: whatever the handlers,
\* the other customers, others who call the gateway, and the provider do, and
\* whatever fails, each thing that happens to it leaves it fewer of its Polls + 16
\* steps, until the browser shows the cart again.  What is missing to CheckoutEnds is that
\* something happens to it, which is fairness.
THEOREM CheckoutsGoForward == Spec => []LeftBounded /\ [][GoesForward]_vars
  <1>1. Init => PollsLeft
    BY PollsIsPositive DEF Init, PollsLeft
  <1>2. Spec => []PollsLeft
    BY <1>1, PollsStayLeft, Invariance, PTL DEF Spec
  <1>3. Inv2 /\ PollsLeft => LeftBounded
    BY LeftIsBounded DEF Inv2, Inv, Web
  <1>. QED BY <1>2, <1>3, NextGoesForward, Invariance2, PTL DEF Spec

-----------------------------------------------------------------------------
(* The services of a checkout are the services proved about *)

\* A checkout lets its services do nothing they do not do elsewhere, so that
\* what is proved of Payment and of OrderService holds in it.
THEOREM ServicesKeepTheirSpecs == Spec => Pay!Spec /\ Ord!Spec
  <1>1. Init => Pay!Init /\ Ord!Init
    BY DEF Init
  <1>2. Inv /\ [Next]_vars => [Pay!Next]_(Pay!vars) /\ [Ord!Next]_(Ord!vars)
    BY NextOnPayments, NextOnOrders, MovesAreSteps
  <1>. QED BY <1>1, <1>2, Invariance, PTL DEF Spec, Pay!Spec, Ord!Spec

\* However often its customer taps, pays again or loses the answer, and whatever
\* others and the provider's webhook ask for beside, an order is charged for once.
THEOREM OrderIsChargedOnce == Spec => []Pay!ChargedOncePerKey
  <1>1. Pay!Spec => PayFacts!Spec
    <2>1. Pay!Init => PayFacts!Init
      BY SamePayment
    <2>2. [Pay!Next]_(Pay!vars) => [PayFacts!Next]_(PayFacts!vars)
      BY SamePayment
    <2>. QED BY <2>1, <2>2, PTL DEF Pay!Spec, PayFacts!Spec
  <1>2. PayFacts!Spec => []PayFacts!ChargedOncePerKey
    BY PaymentAssumptions, PayFacts!ChargesOncePerKey
  <1>3. PayFacts!ChargedOncePerKey => Pay!ChargedOncePerKey
    BY DEF PayFacts!ChargedOncePerKey, Pay!ChargedOncePerKey, PayFacts!Exists, Pay!Exists
  <1>. QED BY <1>1, <1>2, <1>3, ServicesKeepTheirSpecs, PTL
=============================================================================
