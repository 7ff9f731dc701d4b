---------------------------- MODULE PaymentProofs ----------------------------
(***************************************************************************)
(* Proofs about Payment, for any sets of handlers, keys and payment ids.   *)
(***************************************************************************)
EXTENDS MCPayment, FiniteSetTheorems, TLAPS

-----------------------------------------------------------------------------
(* Type correctness *)

\* A handler that moves on with a struct, or returns, keeps the handlers'
\* shape: the two ways every action ends.
LEMMA ProceedKeepsHandlers ==
  ASSUME HandlersOK, NEW w \in Workers, NEW l \in Holding, NEW x \in PaymentRecord,
         Proceed(w, l, x), l = "save" => arg[w] \in Keys
  PROVE  HandlersOK'
<1> USE NoneAssumption
<1>1. x # None
  OBVIOUS
<1>2. QED
  BY <1>1 DEF HandlersOK, Proceed, Holding, Labels, Operations

LEMMA ReturnKeepsHandlers ==
  ASSUME HandlersOK, NEW w \in Workers, NEW r \in Replies, Return(w, r)
  PROVE  HandlersOK'
BY DEF HandlersOK, Return, Labels, Operations, Holding

\* The struct of a handler that has one is a payment.
LEMMA HeldIsPayment ==
  ASSUME HandlersOK, NEW w \in Workers, pc[w] \in Holding
  PROVE  p[w] \in PaymentRecord
BY DEF HandlersOK

\* The copies Refund, Confirm, Cancel and Charge change are payments, and so is
\* a row whose mutable columns are overwritten.
LEMMA ChangedCopy ==
  ASSUME NEW x \in PaymentRecord
  PROVE  /\ [x EXCEPT !.status = "refunded", !.refundReason = TRUE] \in PaymentRecord
         /\ [x EXCEPT !.status = "succeeded", !.transaction = "webhook"] \in PaymentRecord
         /\ [x EXCEPT !.status = "cancelled", !.failureReason = TRUE] \in PaymentRecord
BY DEF PaymentRecord, Status, Transaction

LEMMA ChargedCopy ==
  ASSUME NEW x \in PaymentRecord, NEW outcome \in Outcomes
  PROVE  /\ Charged(x, outcome) \in PaymentRecord
         /\ Charged(x, outcome).id = x.id /\ Charged(x, outcome).key = x.key
         /\ Charged(x, outcome).status # "pending"
         /\ x.status = "pending" /\ Explained(x) => Explained(Charged(x, outcome))
<1>1. (outcome = "failed") \in BOOLEAN
  OBVIOUS
<1>2. Charged(x, outcome) \in PaymentRecord
  BY <1>1 DEF Outcomes, Charged, PaymentRecord, Status, Transaction
<1>3. QED
  BY <1>2 DEF Outcomes, Charged, PaymentRecord, Explained

LEMMA OverwrittenRow ==
  ASSUME NEW x \in PaymentRecord, NEW y \in PaymentRecord
  PROVE  Overwrite(x, y) \in PaymentRecord
BY DEF Overwrite, PaymentRecord

\* A row that a status was read from is there.
LEMMA StatusReadsRow ==
  ASSUME TablesOK, NEW i \in PaymentIds, StatusOf(i) # "absent"
  PROVE  payments[i] \in PaymentRecord /\ StatusOf(i) = payments[i].status /\ Exists(i)
BY DEF TablesOK, StatusOf, Exists

\* Rows are stored under their own id, and the row of every struct a handler
\* holds exists under the struct's key: nothing deletes rows or changes keys.
\* repo.Update keeps the table well-formed only because of it.
RowsKnown ==
    /\ \A i \in PaymentIds : Exists(i) => payments[i].id = i
    /\ \A w \in Workers : pc[w] \in Holding =>
          Exists(p[w].id) /\ payments[p[w].id].key = p[w].key

LEMMA InitTypeOK == Init => TypeOK /\ RowsKnown
BY NoneAssumption DEF Init, TypeOK, TablesOK, EffectsOK, HandlersOK, RowsKnown, Exists,
   Labels, Operations, Replies, Holding

LEMMA StepTypeOK == TypeOK /\ RowsKnown /\ [Next]_vars => TypeOK'
<1> USE NoneAssumption
<1> SUFFICES ASSUME TypeOK, RowsKnown, [Next]_vars PROVE TypeOK'
  OBVIOUS
<1>a. TablesOK /\ EffectsOK /\ HandlersOK
  BY DEF TypeOK
<1>b. ASSUME UNCHANGED storage PROVE TablesOK'
  BY <1>a, <1>b DEF TablesOK, storage
<1>c. ASSUME UNCHANGED effects PROVE EffectsOK'
  BY <1>a, <1>c DEF EffectsOK, effects
<1>1. ASSUME NEW w \in Workers, NEW k \in Keys, Call(w, "create", k) PROVE TypeOK'
  <2>1. HandlersOK'
    BY <1>a, <1>1 DEF HandlersOK, Call, Holding, Labels, Operations, Replies
  <2> QED BY <2>1, <1>b, <1>c, <1>1 DEF TypeOK, Call
<1>2. ASSUME NEW w \in Workers, NEW i \in PaymentIds,
             NEW op \in {"refund", "confirm", "cancel"}, Call(w, op, i)
      PROVE TypeOK'
  <2>1. HandlersOK'
    BY <1>a, <1>2 DEF HandlersOK, Call, Holding, Labels, Operations, Replies
  <2> QED BY <2>1, <1>b, <1>c, <1>2 DEF TypeOK, Call
<1>3. ASSUME NEW w \in Workers, NEW r \in Replies, Return(w, r), UNCHANGED <<storage, effects>>
      PROVE TypeOK'
  BY <1>3, <1>a, <1>b, <1>c, ReturnKeepsHandlers DEF TypeOK
<1>4. ASSUME NEW w \in Workers, RejectInput(w) PROVE TypeOK'
  BY <1>3, <1>4 DEF RejectInput, Replies
<1>5. ASSUME NEW w \in Workers, LookUpKey(w) PROVE TypeOK'
  <2>1. HandlersOK'
    BY <1>a, <1>5 DEF HandlersOK, TablesOK, LookUpKey, Proceed, Labels, Holding
  <2> QED BY <2>1, <1>b, <1>c, <1>5 DEF TypeOK, LookUpKey
<1>6. ASSUME NEW w \in Workers, FetchExisting(w) PROVE TypeOK'
  BY <1>3, <1>6 DEF FetchExisting, Replies
<1>7. ASSUME NEW w \in Workers, InsertPayment(w) PROVE TypeOK'
  <2>1. CASE KeyTaken(arg[w])
    BY <1>3, <1>7, <2>1 DEF InsertPayment, Replies, storage
  <2>2. CASE ~KeyTaken(arg[w])
    <3>1. PICK i \in PaymentIds :
            LET new == [id |-> i, key |-> arg[w], status |-> "pending",
                        transaction |-> "none",
                        refundReason |-> FALSE, failureReason |-> FALSE]
            IN  payments' = [payments EXCEPT ![i] = new] /\ Proceed(w, "save", new)
      BY <1>7, <2>2 DEF InsertPayment
    <3> DEFINE new == [id |-> i, key |-> arg[w], status |-> "pending",
                       transaction |-> "none",
                       refundReason |-> FALSE, failureReason |-> FALSE]
    <3>2. arg[w] \in Keys
      BY <1>a, <1>7 DEF HandlersOK, InsertPayment
    <3>3. new \in PaymentRecord
      BY <3>2 DEF PaymentRecord, Status, Transaction
    <3>4. payments' = [payments EXCEPT ![i] = new] /\ Proceed(w, "save", new)
      BY <3>1
    <3> HIDE DEF new
    <3>5. HandlersOK'
      BY <1>a, <3>2, <3>3, <3>4, ProceedKeepsHandlers DEF Holding
    <3>6. TablesOK'
      BY <1>a, <1>7, <3>3, <3>4 DEF TablesOK, InsertPayment
    <3> QED BY <3>5, <3>6, <1>c, <1>7 DEF InsertPayment, TypeOK
  <2> QED BY <2>1, <2>2
<1>8. ASSUME NEW w \in Workers, SaveKey(w) PROVE TypeOK'
  <2>1. p[w] \in PaymentRecord /\ arg[w] \in Keys
    BY <1>a, <1>8, HeldIsPayment DEF SaveKey, HandlersOK, Holding
  <2>2. HandlersOK'
    BY <1>a, <1>8, <2>1, ProceedKeepsHandlers DEF SaveKey, Holding
  <2>3. TablesOK'
    BY <1>a, <1>8, <2>1 DEF TablesOK, SaveKey, PaymentRecord
  <2> QED BY <2>2, <2>3, <1>c, <1>8 DEF TypeOK, SaveKey
<1>9. ASSUME NEW w \in Workers, Charge(w) PROVE TypeOK'
  <2>1. p[w] \in PaymentRecord
    BY <1>a, <1>9, HeldIsPayment DEF Charge, Holding
  <2>2. PICK outcome \in Outcomes : Proceed(w, "update", Charged(p[w], outcome))
    BY <1>9 DEF Charge
  <2>4. Charged(p[w], outcome) \in PaymentRecord
    BY <2>1, ChargedCopy
  <2>5. HandlersOK'
    BY <1>a, <2>2, <2>4, ProceedKeepsHandlers DEF Holding
  <2>6. EffectsOK'
    BY <1>a, <1>9, <2>1 DEF EffectsOK, Charge, PaymentRecord
  <2> QED BY <2>5, <2>6, <1>b, <1>9 DEF TypeOK, Charge
<1>10. ASSUME NEW w \in Workers, ReadForRefund(w) PROVE TypeOK'
  <2>1. CASE StatusOf(arg[w]) \in Refundable
    <3>1. arg[w] \in PaymentIds
      BY <1>a, <1>10 DEF HandlersOK, ReadForRefund
    <3>2. [payments[arg[w]] EXCEPT !.status = "refunded", !.refundReason = TRUE] \in PaymentRecord
      BY <1>a, <2>1, <3>1, StatusReadsRow, ChangedCopy DEF Refundable
    <3>3. HandlersOK'
      BY <1>a, <1>10, <2>1, <3>2, ProceedKeepsHandlers DEF ReadForRefund, Holding
    <3> QED BY <3>3, <1>b, <1>c, <1>10 DEF TypeOK, ReadForRefund
  <2>2. CASE StatusOf(arg[w]) \notin Refundable
    BY <1>3, <1>10, <2>2 DEF ReadForRefund, Replies
  <2> QED BY <2>1, <2>2
<1>11. ASSUME NEW w \in Workers, ReadForConfirm(w) PROVE TypeOK'
  <2>1. CASE StatusOf(arg[w]) \in Confirmable
    <3>1. arg[w] \in PaymentIds
      BY <1>a, <1>11 DEF HandlersOK, ReadForConfirm
    <3>2. [payments[arg[w]] EXCEPT !.status = "succeeded", !.transaction = "webhook"]
            \in PaymentRecord
      BY <1>a, <2>1, <3>1, StatusReadsRow, ChangedCopy DEF Confirmable
    <3>3. HandlersOK'
      BY <1>a, <1>11, <2>1, <3>2, ProceedKeepsHandlers DEF ReadForConfirm, Confirmable, Holding
    <3> QED BY <3>3, <1>b, <1>c, <1>11 DEF TypeOK, ReadForConfirm
  <2>2. CASE StatusOf(arg[w]) \notin Confirmable
    BY <1>3, <1>11, <2>2 DEF ReadForConfirm, Replies
  <2> QED BY <2>1, <2>2
<1>12. ASSUME NEW w \in Workers, ReadForCancel(w) PROVE TypeOK'
  <2>1. CASE StatusOf(arg[w]) \in Cancellable
    <3>1. arg[w] \in PaymentIds
      BY <1>a, <1>12 DEF HandlersOK, ReadForCancel
    <3>2. [payments[arg[w]] EXCEPT !.status = "cancelled", !.failureReason = TRUE]
            \in PaymentRecord
      BY <1>a, <2>1, <3>1, StatusReadsRow, ChangedCopy DEF Cancellable, Status
    <3>3. HandlersOK'
      BY <1>a, <1>12, <2>1, <3>2, ProceedKeepsHandlers DEF ReadForCancel, Holding
    <3> QED BY <3>3, <1>b, <1>c, <1>12 DEF TypeOK, ReadForCancel
  <2>2. CASE StatusOf(arg[w]) \notin Cancellable
    BY <1>3, <1>12, <2>2 DEF ReadForCancel, Replies
  <2> QED BY <2>1, <2>2
<1>13. ASSUME NEW w \in Workers, UpdateRow(w) PROVE TypeOK'
  <2>1. p[w] \in PaymentRecord
    BY <1>a, <1>13, HeldIsPayment DEF UpdateRow, Holding
  <2>2. HandlersOK'
    BY <1>a, <1>13, <2>1, ProceedKeepsHandlers DEF UpdateRow, Holding
  <2>3. payments[p[w].id] \in PaymentRecord
    BY <1>a, <1>13, <2>1 DEF TablesOK, RowsKnown, Exists, UpdateRow, Holding, PaymentRecord
  <2>4. Overwrite(payments[p[w].id], p[w]) \in PaymentRecord
    BY <2>1, <2>3, OverwrittenRow
  <2>5. TablesOK'
    BY <1>a, <1>13, <2>4 DEF TablesOK, UpdateRow
  <2> QED BY <2>2, <2>5, <1>c, <1>13 DEF TypeOK, UpdateRow
<1>14. ASSUME NEW w \in Workers, LogEvent(w) PROVE TypeOK'
  <2>1. p[w] \in PaymentRecord
    BY <1>a, <1>14, HeldIsPayment DEF LogEvent, Holding
  <2>2. HandlersOK'
    BY <1>a, <1>14, <2>1, ProceedKeepsHandlers DEF LogEvent, AfterLog, Holding
  <2>3. TablesOK'
    BY <1>a, <1>14, <2>1 DEF TablesOK, LogEvent, PaymentRecord
  <2> QED BY <2>2, <2>3, <1>c, <1>14 DEF TypeOK, LogEvent
<1>15. ASSUME NEW w \in Workers, InsertRefund(w) PROVE TypeOK'
  <2>1. p[w] \in PaymentRecord
    BY <1>a, <1>15, HeldIsPayment DEF InsertRefund, Holding
  <2>2. HandlersOK'
    BY <1>a, <1>15, <2>1, ProceedKeepsHandlers DEF InsertRefund, Holding
  <2>3. TablesOK'
    BY <1>a, <1>15, <2>1 DEF TablesOK, InsertRefund, PaymentRecord
  <2> QED BY <2>2, <2>3, <1>c, <1>15 DEF TypeOK, InsertRefund
<1>16. ASSUME NEW w \in Workers, Publish(w) PROVE TypeOK'
  <2>1. p[w] \in PaymentRecord
    BY <1>a, <1>16, HeldIsPayment DEF Publish, Holding
  <2>2. EffectsOK'
    BY <1>a, <1>16, <2>1 DEF EffectsOK, Publish, PaymentRecord
  <2>3. HandlersOK'
    BY <1>a, <1>16, <2>1, ProceedKeepsHandlers, ReturnKeepsHandlers DEF Publish, Holding, Replies
  <2> QED BY <2>2, <2>3, <1>b, <1>16 DEF TypeOK, Publish
<1>17. ASSUME NEW w \in Workers, SendEmail(w) PROVE TypeOK'
  <2>1. p[w] \in PaymentRecord
    BY <1>a, <1>17, HeldIsPayment DEF SendEmail, Holding
  <2>2. EffectsOK'
    BY <1>a, <1>17, <2>1 DEF EffectsOK, SendEmail, PaymentRecord
  <2>3. HandlersOK'
    BY <1>a, <1>17, ReturnKeepsHandlers DEF SendEmail, Replies
  <2> QED BY <2>2, <2>3, <1>b, <1>17 DEF TypeOK, SendEmail
<1>18. ASSUME NEW w \in Workers, StepError(w) PROVE TypeOK'
  BY <1>3, <1>18 DEF StepError, Replies
<1>19. CASE Crash
  <2>1. HandlersOK'
    BY <1>a, <1>19 DEF HandlersOK, Crash, Labels, Holding, Replies
  <2> QED BY <2>1, <1>b, <1>c, <1>19 DEF TypeOK, Crash
<1>20. ASSUME NEW k \in Keys, ExpireKey(k) PROVE TypeOK'
  BY <1>a, <1>20 DEF TypeOK, TablesOK, EffectsOK, HandlersOK, ExpireKey, effects, control
<1>21. CASE UNCHANGED vars
  BY <1>a, <1>21 DEF TypeOK, TablesOK, EffectsOK, HandlersOK, vars, storage, effects, control
<1>22. QED
  BY <1>1, <1>2, <1>4, <1>5, <1>6, <1>7, <1>8, <1>9, <1>10, <1>11, <1>12, <1>13, <1>14,
     <1>15, <1>16, <1>17, <1>18, <1>19, <1>20, <1>21
     DEF Next, Request, Webhook, WebhookOperation, Step
-----------------------------------------------------------------------------
(* The kinds of steps, as far as rows, Redis entries, charges and structs   *)
(* are concerned                                                            *)

\* No row, charge or struct appears or changes; entries and structs may go.
Quiet ==
    /\ UNCHANGED <<payments, charges>>
    /\ \A k \in Keys : idempotency'[k] \in {idempotency[k], None}
    /\ \A v \in Workers : pc'[v] \in Holding =>
          pc'[v] = pc[v] /\ p'[v] = p[v] /\ arg'[v] = arg[v]

\* Only handler w moves, to label l with struct x.
Moves(w, l, x) == pc' = [pc EXCEPT ![w] = l] /\ p' = [p EXCEPT ![w] = x] /\ arg' = arg

Inserts(w) == InsertPayment(w) /\ ~KeyTaken(arg[w])

\* Refund, Confirm or Cancel takes a copy of a row and gives it a new status.
Copies(w) ==
    /\ UNCHANGED <<payments, charges, idempotency>>
    /\ pc[w] \notin Holding /\ arg[w] \in PaymentIds /\ Exists(arg[w])
    /\ \E x \in PaymentRecord :
          /\ x.id = arg[w] /\ x.key = payments[arg[w]].key /\ x.status # "pending"
          /\ Explained(payments[arg[w]]) => Explained(x)
          /\ Moves(w, "update", x)

\* A handler goes on with the struct it has, which is not yet charged only if
\* it is a pending one.
Continues(w) ==
    /\ UNCHANGED <<payments, charges, idempotency>>
    /\ pc[w] \in {"log", "refundRow", "publish"}
    /\ \/ Moves(w, "charge", p[w]) /\ pc[w] = "publish" /\ p[w].status = "pending"
       \/ Moves(w, "refundRow", p[w]) /\ p[w].status = "refunded"
       \/ Moves(w, "publish", p[w])
            /\ (pc[w] = "log" \/ p[w].status # "pending")
       \/ Moves(w, "email", p[w]) /\ p[w].status # "pending"

Phases == \A w \in Workers :
    /\ pc[w] \in {"save", "charge"} => p[w].status = "pending"
    /\ pc[w] = "update" => p[w].status # "pending"
    /\ pc[w] = "refundRow" => p[w].status = "refunded"
    /\ pc[w] = "save" => arg[w] = p[w].key

\* The copy each operation makes explains its status if the row did.
LEMMA CopyExplained ==
  ASSUME NEW x \in PaymentRecord, Explained(x)
  PROVE  /\ x.status = "succeeded" =>
              Explained([x EXCEPT !.status = "refunded", !.refundReason = TRUE])
         /\ x.status = "pending" =>
              Explained([x EXCEPT !.status = "succeeded", !.transaction = "webhook"])
         /\ x.status \notin {"refunded", "cancelled"} =>
              Explained([x EXCEPT !.status = "cancelled", !.failureReason = TRUE])
BY DEF PaymentRecord, Explained

LEMMA ReturnIsQuiet ==
  ASSUME TypeOK, NEW w \in Workers, NEW r, Return(w, r), UNCHANGED <<payments, charges, idempotency>>
  PROVE  Quiet
BY DEF TypeOK, HandlersOK, Return, Quiet, Holding

LEMMA StepKinds ==
  ASSUME TypeOK, RowsKnown, Phases, [Next]_vars
  PROVE  \/ Quiet
         \/ \E w \in Workers :
              Inserts(w) \/ SaveKey(w) \/ Charge(w) \/ Copies(w) \/ UpdateRow(w) \/ Continues(w)
<1> DEFINE Kind(w) ==
      Inserts(w) \/ SaveKey(w) \/ Charge(w) \/ Copies(w) \/ UpdateRow(w) \/ Continues(w)
<1>a. HandlersOK /\ TablesOK
  BY DEF TypeOK
<1>1. ASSUME NEW w \in Workers, NEW op \in Operations, NEW x, Call(w, op, x) PROVE Quiet
  BY <1>a, <1>1 DEF HandlersOK, Call, Quiet, Holding, Operations, storage, effects
<1>2. ASSUME NEW w \in Workers, RejectInput(w) \/ FetchExisting(w) \/ StepError(w) PROVE Quiet
  BY <1>2, ReturnIsQuiet DEF RejectInput, FetchExisting, StepError, storage, effects
<1>3. ASSUME NEW w \in Workers, LookUpKey(w) PROVE Quiet
  BY <1>a, <1>3 DEF HandlersOK, LookUpKey, Proceed, Quiet, Holding, storage, effects
<1>4. ASSUME NEW w \in Workers, InsertPayment(w) PROVE Quiet \/ Kind(w)
  BY <1>4, ReturnIsQuiet DEF InsertPayment, Inserts, effects
<1>5. ASSUME NEW w \in Workers, ReadForRefund(w) PROVE Quiet \/ Kind(w)
  <2>1. CASE StatusOf(arg[w]) \notin Refundable
    BY <1>5, <2>1, ReturnIsQuiet DEF ReadForRefund, storage, effects
  <2>2. CASE StatusOf(arg[w]) \in Refundable
    <3> DEFINE x == [payments[arg[w]] EXCEPT !.status = "refunded", !.refundReason = TRUE]
    <3>1. /\ arg[w] \in PaymentIds
          /\ payments[arg[w]] \in PaymentRecord /\ Exists(arg[w])
          /\ payments[arg[w]].status = "succeeded" /\ payments[arg[w]].id = arg[w]
      BY <1>a, <1>5, <2>2, StatusReadsRow DEF HandlersOK, ReadForRefund, RowsKnown, Refundable
    <3>2. x \in PaymentRecord /\ (Explained(payments[arg[w]]) => Explained(x))
      BY <3>1, ChangedCopy, CopyExplained
    <3>3. x.id = arg[w] /\ x.key = payments[arg[w]].key /\ x.status # "pending"
      BY <3>1 DEF PaymentRecord
    <3>4. Moves(w, "update", x) /\ pc[w] = "refund" /\ UNCHANGED <<payments, charges, idempotency>>
      BY <1>5, <2>2 DEF ReadForRefund, Proceed, Moves, storage, effects
    <3> QED BY <3>1, <3>2, <3>3, <3>4 DEF Copies, Holding
  <2> QED BY <2>1, <2>2
<1>6. ASSUME NEW w \in Workers, ReadForConfirm(w) PROVE Quiet \/ Kind(w)
  <2>1. CASE StatusOf(arg[w]) \notin Confirmable
    BY <1>6, <2>1, ReturnIsQuiet DEF ReadForConfirm, storage, effects
  <2>2. CASE StatusOf(arg[w]) \in Confirmable
    <3> DEFINE x == [payments[arg[w]] EXCEPT !.status = "succeeded", !.transaction = "webhook"]
    <3>1. /\ arg[w] \in PaymentIds
          /\ payments[arg[w]] \in PaymentRecord /\ Exists(arg[w])
          /\ payments[arg[w]].status = "pending" /\ payments[arg[w]].id = arg[w]
      BY <1>a, <1>6, <2>2, StatusReadsRow DEF HandlersOK, ReadForConfirm, RowsKnown, Confirmable
    <3>2. x \in PaymentRecord /\ (Explained(payments[arg[w]]) => Explained(x))
      BY <3>1, ChangedCopy, CopyExplained
    <3>3. x.id = arg[w] /\ x.key = payments[arg[w]].key /\ x.status # "pending"
      BY <3>1 DEF PaymentRecord
    <3>4. Moves(w, "update", x) /\ pc[w] = "confirm" /\ UNCHANGED <<payments, charges, idempotency>>
      BY <1>6, <2>2 DEF ReadForConfirm, Confirmable, Proceed, Moves, storage, effects
    <3> QED BY <3>1, <3>2, <3>3, <3>4 DEF Copies, Holding
  <2> QED BY <2>1, <2>2
<1>7. ASSUME NEW w \in Workers, ReadForCancel(w) PROVE Quiet \/ Kind(w)
  <2>1. CASE StatusOf(arg[w]) \notin Cancellable
    BY <1>7, <2>1, ReturnIsQuiet DEF ReadForCancel, storage, effects
  <2>2. CASE StatusOf(arg[w]) \in Cancellable
    <3> DEFINE x == [payments[arg[w]] EXCEPT !.status = "cancelled", !.failureReason = TRUE]
    <3>1. /\ arg[w] \in PaymentIds
          /\ payments[arg[w]] \in PaymentRecord /\ Exists(arg[w])
          /\ payments[arg[w]].status \notin {"refunded", "cancelled"}
          /\ payments[arg[w]].id = arg[w]
      BY <1>a, <1>7, <2>2, StatusReadsRow DEF HandlersOK, ReadForCancel, RowsKnown, Cancellable, Status
    <3>2. x \in PaymentRecord /\ (Explained(payments[arg[w]]) => Explained(x))
      BY <3>1, ChangedCopy, CopyExplained
    <3>3. x.id = arg[w] /\ x.key = payments[arg[w]].key /\ x.status # "pending"
      BY <3>1 DEF PaymentRecord
    <3>4. Moves(w, "update", x) /\ pc[w] = "cancel" /\ UNCHANGED <<payments, charges, idempotency>>
      BY <1>7, <2>2 DEF ReadForCancel, Proceed, Moves, storage, effects
    <3> QED BY <3>1, <3>2, <3>3, <3>4 DEF Copies, Holding
  <2> QED BY <2>1, <2>2
<1>8. ASSUME NEW w \in Workers, LogEvent(w) PROVE Kind(w)
  BY <1>8 DEF LogEvent, AfterLog, Continues, Proceed, Moves, effects
<1>9. ASSUME NEW w \in Workers, InsertRefund(w) PROVE Kind(w)
  BY <1>9 DEF InsertRefund, Continues, Proceed, Moves, effects, Phases
<1>10. ASSUME NEW w \in Workers, Publish(w) PROVE Quiet \/ Kind(w)
  <2>1. CASE p[w].status \in EndsAtPublish
    BY <1>10, <2>1, ReturnIsQuiet DEF Publish, EndsAtPublish, storage
  <2>2. CASE p[w].status \notin EndsAtPublish
    BY <1>10, <2>2 DEF Publish, EndsAtPublish, Continues, Proceed, Moves, storage
  <2> QED BY <2>1, <2>2
<1>11. ASSUME NEW w \in Workers, SendEmail(w) PROVE Quiet
  BY <1>11, ReturnIsQuiet DEF SendEmail, storage
<1>12. CASE Crash
  BY <1>12 DEF Crash, Quiet, Holding, storage, effects
<1>13. ASSUME NEW k \in Keys, ExpireKey(k) PROVE Quiet
  BY <1>a, <1>13 DEF ExpireKey, TablesOK, Quiet, effects, control
<1>14. CASE UNCHANGED vars
  BY <1>14 DEF Quiet, vars, storage, effects, control
<1>15. QED
  BY <1>1, <1>2, <1>3, <1>4, <1>5, <1>6, <1>7, <1>8, <1>9, <1>10, <1>11, <1>12, <1>13, <1>14
     DEF Next, Request, Webhook, WebhookOperation, Step, Operations
-----------------------------------------------------------------------------
(* The inductive invariant *)

UniqueKeys ==
    \A i, j \in PaymentIds :
        Exists(i) /\ Exists(j) /\ payments[i].key = payments[j].key => i = j

\* Handler w is inside Create, between its insert and its charge.
Creating(w) == pc[w] \in {"save", "log", "publish", "charge"} /\ p[w].status = "pending"

\* The payment a Create is working on has not been charged, and no other
\* Create works on it.
CreatorsAlone ==
    /\ \A w \in Workers : Creating(w) => charges[p[w].id] = 0
    /\ \A v, w \in Workers : Creating(v) /\ Creating(w) /\ p[v].id = p[w].id => v = w

ChargesExist == \A i \in PaymentIds : charges[i] <= 1 /\ (charges[i] > 0 => Exists(i))

StructsExplained == \A w \in Workers : pc[w] \in Holding => Explained(p[w])

IInv ==
    /\ TypeOK
    /\ RowsKnown
    /\ Phases
    /\ UniqueKeys
    /\ CreatorsAlone
    /\ ChargesExist
    /\ StructsExplained
    /\ RowExplainsStatus
    /\ EntryNamesOwnPayment

LEMMA InitIInv == Init => IInv
<1> SUFFICES ASSUME Init PROVE IInv
  OBVIOUS
<1>1. TypeOK /\ RowsKnown
  BY InitTypeOK
<1>2. QED
  BY <1>1 DEF Init, IInv, Phases, UniqueKeys, CreatorsAlone, Creating, ChargesExist,
     StructsExplained, RowExplainsStatus, EntryNamesOwnPayment, Exists, Holding

\* A step of kind Quiet keeps the invariant: what is left was there before.
LEMMA QuietKeepsIInv ==
  ASSUME IInv, TypeOK', Quiet PROVE IInv'
<1>1. RowsKnown' /\ Phases' /\ StructsExplained'
  BY DEF IInv, Quiet, RowsKnown, Phases, StructsExplained, Exists, Holding
<1>2. UniqueKeys' /\ ChargesExist' /\ RowExplainsStatus'
  BY DEF IInv, Quiet, UniqueKeys, ChargesExist, RowExplainsStatus, Exists
<1>3. CreatorsAlone'
  BY DEF IInv, Quiet, CreatorsAlone, Creating, Holding
<1>4. EntryNamesOwnPayment'
  BY DEF IInv, Quiet, EntryNamesOwnPayment, Exists
<1>5. QED
  BY <1>1, <1>2, <1>3, <1>4 DEF IInv

\* Create's insert: a fresh id under a key no row has.
LEMMA InsertKeepsIInv ==
  ASSUME IInv, TypeOK', NEW w \in Workers, Inserts(w) PROVE IInv'
<1> USE NoneAssumption
<1> DEFINE new(i) == [id |-> i, key |-> arg[w], status |-> "pending", transaction |-> "none",
                      refundReason |-> FALSE, failureReason |-> FALSE]
<1>1. PICK i \in PaymentIds :
        /\ ~Exists(i)
        /\ payments' = [payments EXCEPT ![i] = new(i)]
        /\ Proceed(w, "save", new(i))
  BY DEF Inserts, InsertPayment
<1>2. /\ pc[w] = "insert" /\ ~KeyTaken(arg[w]) /\ arg[w] \in Keys
      /\ UNCHANGED <<idempotency, charges>>
  BY DEF Inserts, InsertPayment, IInv, TypeOK, HandlersOK, effects
<1> DEFINE x == new(i)
<1>3. /\ x \in PaymentRecord /\ x # None /\ Explained(x)
      /\ x.id = i /\ x.key = arg[w] /\ x.status = "pending"
  <2>1. x \in PaymentRecord
    BY <1>2 DEF PaymentRecord, Status, Transaction
  <2>2. Explained(x) /\ x.id = i /\ x.key = arg[w] /\ x.status = "pending"
    BY DEF Explained
  <2> HIDE DEF x
  <2>3. x # None
    BY <2>1
  <2> QED BY <2>1, <2>2, <2>3
<1> HIDE DEF x
<1>4. /\ payments' = [payments EXCEPT ![i] = x] /\ pc' = [pc EXCEPT ![w] = "save"]
      /\ p' = [p EXCEPT ![w] = x] /\ arg' = arg
  BY <1>1 DEF x, Proceed
<1>5. TypeOK
  BY DEF IInv
<1>6. \A j \in PaymentIds : Exists(j)' <=> Exists(j) \/ j = i
  BY <1>1, <1>3, <1>4, <1>5 DEF Exists, TypeOK, TablesOK
<1>7. \A j \in PaymentIds : payments'[j] = IF j = i THEN x ELSE payments[j]
  BY <1>4, <1>5 DEF TypeOK, TablesOK
<1>8. \A v \in Workers : /\ pc'[v] = (IF v = w THEN "save" ELSE pc[v])
                         /\ p'[v] = (IF v = w THEN x ELSE p[v])
                         /\ arg'[v] = arg[v]
  BY <1>4, <1>5 DEF TypeOK, HandlersOK
<1>9. \A v \in Workers : pc[v] \in Holding => p[v].id # i /\ p[v].id \in PaymentIds
  BY <1>1, <1>5 DEF IInv, RowsKnown, TypeOK, HandlersOK, PaymentRecord
<1>10. RowsKnown'
  BY <1>3, <1>6, <1>7, <1>8, <1>9 DEF IInv, RowsKnown
<1>11. Phases'
  BY <1>3, <1>8 DEF IInv, Phases
<1>12. UniqueKeys'
  BY <1>2, <1>3, <1>6, <1>7 DEF IInv, UniqueKeys, KeyTaken
<1>13. charges[i] = 0
  BY <1>1, <1>5 DEF IInv, ChargesExist, TypeOK, EffectsOK
<1>14. CreatorsAlone'
  BY <1>2, <1>3, <1>8, <1>9, <1>13 DEF IInv, CreatorsAlone, Creating, Holding
<1>15. ChargesExist'
  BY <1>2, <1>6 DEF IInv, ChargesExist
<1>16. StructsExplained' /\ RowExplainsStatus'
  BY <1>3, <1>6, <1>7, <1>8 DEF IInv, StructsExplained, RowExplainsStatus
<1>17. EntryNamesOwnPayment'
  BY <1>1, <1>2, <1>5, <1>6, <1>7 DEF IInv, EntryNamesOwnPayment, TypeOK, TablesOK
<1>18. QED
  BY <1>10, <1>11, <1>12, <1>14, <1>15, <1>16, <1>17 DEF IInv
\* SaveKey: the entry it writes names the row it inserted.
LEMMA SaveKeepsIInv ==
  ASSUME IInv, TypeOK', NEW w \in Workers, SaveKey(w) PROVE IInv'
<1>1. /\ UNCHANGED <<payments, charges, arg, p>> /\ pc[w] = "save"
      /\ pc' = [pc EXCEPT ![w] = "log"]
      /\ idempotency' = [idempotency EXCEPT ![arg[w]] = p[w].id]
  BY DEF SaveKey, Proceed, effects, IInv, TypeOK, HandlersOK
<1>2. \A v \in Workers : pc'[v] = IF v = w THEN "log" ELSE pc[v]
  BY <1>1 DEF IInv, TypeOK, HandlersOK
<1>3. RowsKnown' /\ StructsExplained'
  BY <1>1, <1>2 DEF IInv, RowsKnown, StructsExplained, Exists, Holding
<1>4. Phases'
  BY <1>1, <1>2 DEF IInv, Phases
<1>5. CreatorsAlone'
  BY <1>1, <1>2 DEF IInv, CreatorsAlone, Creating
<1>6. UniqueKeys' /\ ChargesExist' /\ RowExplainsStatus'
  BY <1>1 DEF IInv, UniqueKeys, ChargesExist, RowExplainsStatus, Exists
<1>7. Exists(p[w].id) /\ payments[p[w].id].key = arg[w]
  BY <1>1 DEF IInv, RowsKnown, Phases, Holding
<1>8. EntryNamesOwnPayment'
  BY <1>1, <1>7 DEF IInv, EntryNamesOwnPayment, Exists, TypeOK, TablesOK
<1>9. QED
  BY <1>3, <1>4, <1>5, <1>6, <1>8 DEF IInv

\* Charge: the creator alone charges, once, and stops being one.
LEMMA ChargeKeepsIInv ==
  ASSUME IInv, TypeOK', NEW w \in Workers, Charge(w) PROVE IInv'
<1>1. PICK outcome \in Outcomes : Proceed(w, "update", Charged(p[w], outcome))
  BY DEF Charge
<1> DEFINE x == Charged(p[w], outcome)
<1>2. /\ pc[w] = "charge" /\ p[w] \in PaymentRecord /\ p[w].status = "pending"
      /\ Explained(p[w]) /\ UNCHANGED <<payments, idempotency>>
      /\ charges' = [charges EXCEPT ![p[w].id] = @ + 1]
  BY HeldIsPayment DEF Charge, storage, IInv, TypeOK, Phases, StructsExplained, Holding
<1>3. /\ x.id = p[w].id /\ x.key = p[w].key /\ x.status # "pending" /\ Explained(x)
  BY <1>2, ChargedCopy
<1>4. pc' = [pc EXCEPT ![w] = "update"] /\ p' = [p EXCEPT ![w] = x] /\ arg' = arg
  BY <1>1 DEF Proceed
<1> HIDE DEF x
<1>5. \A v \in Workers : /\ pc'[v] = (IF v = w THEN "update" ELSE pc[v])
                         /\ p'[v] = (IF v = w THEN x ELSE p[v])
                         /\ arg'[v] = arg[v]
  BY <1>4 DEF IInv, TypeOK, HandlersOK
<1>6. RowsKnown' /\ StructsExplained'
  BY <1>2, <1>3, <1>5 DEF IInv, RowsKnown, StructsExplained, Exists, Holding
<1>7. Phases'
  BY <1>3, <1>5 DEF IInv, Phases
<1>8. UniqueKeys' /\ RowExplainsStatus' /\ EntryNamesOwnPayment'
  BY <1>2 DEF IInv, UniqueKeys, RowExplainsStatus, EntryNamesOwnPayment, Exists
<1>9. p[w].id \in PaymentIds /\ Exists(p[w].id) /\ charges[p[w].id] = 0
  BY <1>2 DEF IInv, RowsKnown, CreatorsAlone, Creating, Holding, PaymentRecord
<1>10. \A i \in PaymentIds : charges'[i] = IF i = p[w].id THEN 1 ELSE charges[i]
  BY <1>2, <1>9 DEF IInv, TypeOK, EffectsOK
<1>11. ChargesExist'
  BY <1>2, <1>9, <1>10 DEF IInv, ChargesExist, Exists
<1>12. \A v \in Workers : Creating(v)' => v # w /\ Creating(v) /\ p'[v] = p[v]
  BY <1>5 DEF Creating
<1>13. \A v \in Workers : Creating(v) => p[v].id \in PaymentIds
  BY HeldIsPayment DEF Creating, Holding, IInv, TypeOK, PaymentRecord
<1>14. CreatorsAlone'
  BY <1>2, <1>10, <1>12, <1>13 DEF IInv, CreatorsAlone, Creating
<1>15. QED
  BY <1>6, <1>7, <1>8, <1>11, <1>14 DEF IInv

\* Refund, Confirm and Cancel copy a row: they are never creators.
LEMMA CopyKeepsIInv ==
  ASSUME IInv, TypeOK', NEW w \in Workers, Copies(w) PROVE IInv'
<1>1. PICK x \in PaymentRecord :
        /\ x.id = arg[w] /\ x.key = payments[arg[w]].key /\ x.status # "pending"
        /\ Explained(payments[arg[w]]) => Explained(x)
        /\ Moves(w, "update", x)
  BY DEF Copies
<1>2. UNCHANGED <<payments, charges, idempotency>> /\ Exists(arg[w]) /\ arg[w] \in PaymentIds
  BY DEF Copies
<1>3. \A v \in Workers : /\ pc'[v] = (IF v = w THEN "update" ELSE pc[v])
                         /\ p'[v] = (IF v = w THEN x ELSE p[v])
                         /\ arg'[v] = arg[v]
  BY <1>1 DEF IInv, TypeOK, HandlersOK, Moves
<1>4. RowsKnown'
  BY <1>1, <1>2, <1>3 DEF IInv, RowsKnown, Exists
<1>5. StructsExplained'
  BY <1>1, <1>2, <1>3 DEF IInv, StructsExplained, RowExplainsStatus
<1>6. Phases' /\ CreatorsAlone'
  BY <1>1, <1>2, <1>3 DEF IInv, Phases, CreatorsAlone, Creating
<1>7. UniqueKeys' /\ ChargesExist' /\ RowExplainsStatus' /\ EntryNamesOwnPayment'
  BY <1>2 DEF IInv, UniqueKeys, ChargesExist, RowExplainsStatus, EntryNamesOwnPayment, Exists
<1>8. QED
  BY <1>4, <1>5, <1>6, <1>7 DEF IInv

\* The row repo.Update leaves behind.
LEMMA UpdatedRow ==
  ASSUME IInv, NEW w \in Workers, UpdateRow(w)
  PROVE  /\ p[w] \in PaymentRecord /\ p[w].id \in PaymentIds
         /\ Exists(p[w].id) /\ payments'[p[w].id] # None
         /\ payments'[p[w].id].id = payments[p[w].id].id
         /\ payments'[p[w].id].key = payments[p[w].id].key
         /\ payments'[p[w].id].status = p[w].status
         /\ p[w].status # "pending"
         /\ Explained(payments'[p[w].id])
         /\ \A i \in PaymentIds : i # p[w].id => payments'[i] = payments[i]
<1> USE NoneAssumption
<1>1. /\ p[w] \in PaymentRecord /\ p[w].id \in PaymentIds /\ Exists(p[w].id)
      /\ p[w].status # "pending" /\ Explained(p[w])
  BY HeldIsPayment DEF UpdateRow, Holding, IInv, TypeOK, RowsKnown, Phases, StructsExplained,
     PaymentRecord
<1> DEFINE old == payments[p[w].id]
           row == Overwrite(old, p[w])
<1>2. old \in PaymentRecord
  BY <1>1 DEF IInv, TypeOK, TablesOK, Exists
<1>3. row \in PaymentRecord
  BY <1>1, <1>2, OverwrittenRow
<1>4. /\ row.id = old.id /\ row.key = old.key /\ row.status = p[w].status
      /\ row.transaction = p[w].transaction
      /\ row.refundReason = p[w].refundReason /\ row.failureReason = p[w].failureReason
  BY <1>2 DEF Overwrite, PaymentRecord
<1>5. payments' = [payments EXCEPT ![p[w].id] = row]
  BY DEF UpdateRow
<1> HIDE DEF row
<1>6. Explained(row)
  BY <1>1, <1>4 DEF Explained
<1>7. row # None
  BY <1>3
<1>8. \A i \in PaymentIds : payments'[i] = IF i = p[w].id THEN row ELSE payments[i]
  BY <1>1, <1>5 DEF IInv, TypeOK, TablesOK
<1>9. QED
  BY <1>1, <1>4, <1>6, <1>7, <1>8 DEF Exists

\* Update: the row gets the struct's status and reasons, never pending.
LEMMA UpdateKeepsIInv ==
  ASSUME IInv, TypeOK', NEW w \in Workers, UpdateRow(w) PROVE IInv'
<1>1. /\ pc' = [pc EXCEPT ![w] = "log"] /\ p' = [p EXCEPT ![w] = p[w]]
      /\ UNCHANGED <<arg, idempotency, charges>> /\ pc[w] = "update"
  BY DEF UpdateRow, Proceed, effects
<1>2. \A v \in Workers : pc'[v] = (IF v = w THEN "log" ELSE pc[v]) /\ p'[v] = p[v]
  BY <1>1 DEF IInv, TypeOK, HandlersOK
<1>3. \A i \in PaymentIds : payments'[i] # None <=> payments[i] # None
  BY UpdatedRow DEF Exists
<1>4. \A i \in PaymentIds : payments'[i].id = payments[i].id /\ payments'[i].key = payments[i].key
  BY UpdatedRow
<1>5. \A v \in Workers : pc[v] \in Holding => p[v].id \in PaymentIds
  BY HeldIsPayment DEF IInv, TypeOK, PaymentRecord
<1>6. RowsKnown'
  BY <1>1, <1>2, <1>3, <1>4, <1>5 DEF IInv, RowsKnown, Holding, Exists
<1>7. StructsExplained'
  BY <1>1, <1>2 DEF IInv, StructsExplained, Holding
<1>8. Phases' /\ CreatorsAlone'
  BY <1>1, <1>2, UpdatedRow DEF IInv, Phases, CreatorsAlone, Creating
<1>9. UniqueKeys' /\ ChargesExist'
  BY <1>1, <1>3, <1>4 DEF IInv, UniqueKeys, ChargesExist, Exists
<1>10. RowExplainsStatus'
  BY <1>3, UpdatedRow DEF IInv, RowExplainsStatus, Exists
<1>11. EntryNamesOwnPayment'
  BY <1>1, <1>3, <1>4 DEF IInv, EntryNamesOwnPayment, Exists, TypeOK, TablesOK
<1>12. QED
  BY <1>6, <1>7, <1>8, <1>9, <1>10, <1>11 DEF IInv

\* A handler that goes on with its struct disturbs nothing.
LEMMA ContinueKeepsIInv ==
  ASSUME IInv, TypeOK', NEW w \in Workers, Continues(w) PROVE IInv'
<1>1. /\ UNCHANGED <<payments, charges, idempotency>>
      /\ \A v \in Workers : p'[v] = p[v] /\ arg'[v] = arg[v]
      /\ \A v \in Workers : v # w => pc'[v] = pc[v]
      /\ pc[w] \in {"log", "refundRow", "publish"}
      /\ pc'[w] \in {"charge", "refundRow", "publish", "email"}
      /\ pc'[w] = "charge" => p[w].status = "pending"
      /\ pc'[w] = "refundRow" => p[w].status = "refunded"
  BY DEF IInv, TypeOK, HandlersOK, Continues, Moves
<1>2. RowsKnown' /\ StructsExplained'
  BY <1>1 DEF IInv, RowsKnown, StructsExplained, Exists, Holding
<1>3. Phases'
  BY <1>1 DEF IInv, Phases
<1>4. \A v \in Workers : Creating(v)' => Creating(v)
  BY <1>1 DEF IInv, Phases, Creating
<1>5. CreatorsAlone'
  BY <1>1, <1>4 DEF IInv, CreatorsAlone
<1>6. UniqueKeys' /\ ChargesExist' /\ RowExplainsStatus' /\ EntryNamesOwnPayment'
  BY <1>1 DEF IInv, UniqueKeys, ChargesExist, RowExplainsStatus, EntryNamesOwnPayment, Exists
<1>7. QED
  BY <1>2, <1>3, <1>5, <1>6 DEF IInv

LEMMA StepIInv == IInv /\ [Next]_vars => IInv'
<1> SUFFICES ASSUME IInv, [Next]_vars PROVE IInv'
  OBVIOUS
<1>1. TypeOK'
  BY StepTypeOK DEF IInv
<1>2. \/ Quiet
      \/ \E w \in Workers :
           Inserts(w) \/ SaveKey(w) \/ Charge(w) \/ Copies(w) \/ UpdateRow(w) \/ Continues(w)
  BY StepKinds DEF IInv
<1>3. QED
  BY <1>1, <1>2, QuietKeepsIInv, InsertKeepsIInv, SaveKeepsIInv, ChargeKeepsIInv, CopyKeepsIInv,
     UpdateKeepsIInv, ContinueKeepsIInv

LEMMA Invariance == Spec => []IInv
BY InitIInv, StepIInv, PTL DEF Spec

-----------------------------------------------------------------------------
(* The theorems *)

\* The tables, Redis and the handlers hold what they may hold, in every
\* reachable state.
THEOREM TypeCorrect == Spec => []TypeOK
<1>1. IInv => TypeOK
  BY DEF IInv
<1>2. QED
  BY <1>1, Invariance, PTL

\* However many Creates repeat a key, race, fail half-way or find Redis empty,
\* the provider is asked to charge at most once for it.
THEOREM ChargesOncePerKey == Spec => []ChargedOncePerKey
<1>1. IInv => ChargedOncePerKey
  BY DEF IInv, ChargedOncePerKey, UniqueKeys, ChargesExist
<1>2. QED
  BY <1>1, Invariance, PTL

\* A repeated Create that finds its key in Redis is answered with the payment
\* stored under that key.
THEOREM EntriesNameOwnPayments == Spec => []EntryNamesOwnPayment
<1>1. IInv => EntryNamesOwnPayment
  BY DEF IInv
<1>2. QED
  BY <1>1, Invariance, PTL

\* Handlers that overwrite each other's updates never leave a row whose reasons
\* or transaction id contradict its status.
THEOREM RowsExplainStatus == Spec => []RowExplainsStatus
<1>1. IInv => RowExplainsStatus
  BY DEF IInv
<1>2. QED
  BY <1>1, Invariance, PTL

\* A payment stays stored under its key, and no stale copy makes a payment
\* pending again once it has left pending.
THEOREM PendingOnlyOnce == Spec => NeverPendingAgain
<1> DEFINE A == \A i \in PaymentIds : Exists(i) =>
                  /\ Exists(i)'
                  /\ payments'[i].key = payments[i].key
                  /\ payments'[i].status = "pending" => payments[i].status = "pending"
<1>1. IInv /\ [Next]_vars => [A]_payments
  <2> SUFFICES ASSUME IInv, [Next]_vars, payments' # payments PROVE A
    OBVIOUS
  <2>1. \E w \in Workers : Inserts(w) \/ UpdateRow(w)
    <3>1. ASSUME NEW w \in Workers, SaveKey(w) \/ Charge(w) \/ Copies(w) \/ Continues(w)
          PROVE  payments' = payments
      BY <3>1 DEF SaveKey, Charge, Copies, Continues, storage
    <3>2. Quiet => payments' = payments
      BY DEF Quiet
    <3> QED BY <3>1, <3>2, StepKinds DEF IInv
  <2>2. ASSUME NEW w \in Workers, Inserts(w) PROVE A
    <3>1. PICK i \in PaymentIds :
            ~Exists(i) /\ \A j \in PaymentIds : j # i => payments'[j] = payments[j]
      BY <2>2 DEF Inserts, InsertPayment, IInv, TypeOK, TablesOK
    <3> QED BY <3>1 DEF Exists
  <2>3. ASSUME NEW w \in Workers, UpdateRow(w) PROVE A
    BY <2>3, UpdatedRow DEF Exists
  <2> QED BY <2>1, <2>2, <2>3
<1>2. QED
  BY <1>1, Invariance, PTL DEF Spec, NeverPendingAgain

-----------------------------------------------------------------------------
(* Refinement of IdempotentCharge *)

LEMMA InsertBinds ==
  ASSUME IInv, NEW w \in Workers, Inserts(w) PROVE Promise!Next
<1> USE NoneAssumption
<1>1. PICK i \in PaymentIds :
        /\ ~Exists(i)
        /\ payments' = [payments EXCEPT ![i] =
             [id |-> i, key |-> arg[w], status |-> "pending", transaction |-> "none",
              refundReason |-> FALSE, failureReason |-> FALSE]]
  BY DEF Inserts, InsertPayment
<1>2. arg[w] \in Keys /\ ~KeyTaken(arg[w]) /\ UNCHANGED charges
  BY DEF Inserts, InsertPayment, IInv, TypeOK, HandlersOK, effects
<1>3. \A j \in PaymentIds : j # i => payments'[j] = payments[j]
  BY <1>1 DEF IInv, TypeOK, TablesOK
<1>4. payments'[i].key = arg[w] /\ payments'[i] # None
  <2> DEFINE x == [id |-> i, key |-> arg[w], status |-> "pending", transaction |-> "none",
                   refundReason |-> FALSE, failureReason |-> FALSE]
  <2>1. x \in PaymentRecord /\ x.key = arg[w]
    BY <1>2 DEF PaymentRecord, Status, Transaction
  <2>2. payments'[i] = x
    BY <1>1 DEF IInv, TypeOK, TablesOK
  <2> HIDE DEF x
  <2> QED BY <2>1, <2>2
<1>5. BoundPayments[arg[w]] = {} /\ \A k \in Keys : i \notin BoundPayments[k]
  BY <1>1, <1>2 DEF BoundPayments, KeyTaken
<1>6. BoundPayments' = [BoundPayments EXCEPT ![arg[w]] = {i}]
  <2>1. ASSUME NEW k \in Keys
        PROVE  BoundPayments'[k] = [BoundPayments EXCEPT ![arg[w]] = {i}][k]
    <3>1. CASE k = arg[w]
      BY <1>1, <1>2, <1>3, <1>4, <3>1 DEF BoundPayments, KeyTaken, Exists
    <3>2. CASE k # arg[w]
      BY <1>1, <1>2, <1>3, <1>4, <3>2 DEF BoundPayments, Exists
    <3> QED BY <3>1, <3>2
  <2> QED BY <2>1 DEF BoundPayments
<1>7. QED
  BY <1>2, <1>5, <1>6 DEF Promise!Next, Promise!Bind

LEMMA ChargeIsBound ==
  ASSUME IInv, NEW w \in Workers, Charge(w) PROVE Promise!Next
<1>1. /\ p[w] \in PaymentRecord /\ UNCHANGED payments
      /\ charges' = [charges EXCEPT ![p[w].id] = @ + 1]
      /\ Exists(p[w].id) /\ payments[p[w].id].key = p[w].key /\ charges[p[w].id] = 0
  BY HeldIsPayment DEF Charge, storage, IInv, TypeOK, RowsKnown, Phases, CreatorsAlone, Creating,
     Holding
<1>2. p[w].id \in PaymentIds /\ p[w].key \in Keys
  BY <1>1 DEF PaymentRecord
<1>3. p[w].id \in BoundPayments[p[w].key] /\ UNCHANGED BoundPayments
  BY <1>1, <1>2 DEF BoundPayments, Exists
<1>4. charges' = [charges EXCEPT ![p[w].id] = 1]
  BY <1>1
<1>5. QED
  BY <1>1, <1>2, <1>3, <1>4 DEF Promise!Next, Promise!ChargeBound

\* Create implements IdempotentCharge: an insert binds the key, the provider call
\* is the one charge of the bound payment, and nothing else touches either.
THEOREM KeepsPromise == Spec => ChargesIdempotently
<1>1. Init => Promise!Init
  BY NoneAssumption DEF Init, Promise!Init, BoundPayments, Exists
<1>2. IInv /\ [Next]_vars => [Promise!Next]_(Promise!vars)
  <2> SUFFICES ASSUME IInv, [Next]_vars PROVE Promise!Next \/ UNCHANGED Promise!vars
    OBVIOUS
  <2>1. UNCHANGED <<payments, charges>> => UNCHANGED Promise!vars
    BY DEF Promise!vars, BoundPayments, Exists
  <2>2. Quiet => UNCHANGED <<payments, charges>>
    BY DEF Quiet
  <2>3. ASSUME NEW w \in Workers, SaveKey(w) \/ Copies(w) \/ Continues(w)
        PROVE  UNCHANGED <<payments, charges>>
    BY <2>3 DEF SaveKey, Copies, Continues, effects
  <2>4. ASSUME NEW w \in Workers, UpdateRow(w) PROVE UNCHANGED Promise!vars
    <3>1. \A i \in PaymentIds : /\ payments'[i] # None <=> payments[i] # None
                               /\ payments'[i].key = payments[i].key
      BY <2>4, UpdatedRow DEF Exists
    <3>2. UNCHANGED BoundPayments
      BY <3>1 DEF BoundPayments, Exists
    <3> QED BY <2>4, <3>2 DEF UpdateRow, effects, Promise!vars
  <2>5. QED
    BY <2>1, <2>2, <2>3, <2>4, InsertBinds, ChargeIsBound, StepKinds DEF IInv
<1>3. QED
  BY <1>1, <1>2, Invariance, PTL DEF Spec, ChargesIdempotently, Promise!Spec

-----------------------------------------------------------------------------
(***************************************************************************)
(* The order of a handler's effects, counted: emails, published events,    *)
(* refunds rows, logged events and charges.  The invariant adds to each    *)
(* count the handlers that are about to increase it.                       *)
(***************************************************************************)


\* The handlers that are at label l with a struct of payment i in status s.
At(l, i, s) == {w \in Workers : pc[w] = l /\ p[w].id = i /\ p[w].status = s}

Waiting(l, i, s) == Cardinality(At(l, i, s))

PublishedAreLogged == \A i \in PaymentIds, s \in Status :
    published[i][s] + Waiting("publish", i, s) <= logged[i][s]

RefundEventsHaveRows == \A i \in PaymentIds :
    published[i]["refunded"] + Waiting("publish", i, "refunded") <= refunds[i]

RefundRowsAreLogged == \A i \in PaymentIds :
    refunds[i] + Waiting("refundRow", i, "refunded") <= logged[i]["refunded"]

EmailsArePublished == \A i \in PaymentIds, s \in Status :
    emails[i][s] + Waiting("email", i, s) <= published[i][s]

ChargesAreAnnounced == \A i \in PaymentIds :
    charges[i] + Waiting("charge", i, "pending") <= published[i]["pending"]

Counted ==
    /\ PublishedAreLogged
    /\ RefundEventsHaveRows
    /\ RefundRowsAreLogged
    /\ EmailsArePublished
    /\ ChargesAreAnnounced

-----------------------------------------------------------------------------
(* Counting handlers *)

LEMMA AtFinite ==
  ASSUME NEW l, NEW i, NEW s
  PROVE  IsFiniteSet(At(l, i, s)) /\ Waiting(l, i, s) \in Nat
<1>1. At(l, i, s) \in SUBSET Workers
  BY DEF At
<1>2. IsFiniteSet(At(l, i, s))
  BY <1>1, FiniteWorkers, FS_Subset
<1>3. QED
  BY <1>2, FS_CardinalityType DEF Waiting

LEMMA AtFinitePrime ==
  ASSUME NEW l, NEW i, NEW s
  PROVE  IsFiniteSet(At(l, i, s)') /\ Waiting(l, i, s)' \in Nat
<1>1. At(l, i, s)' \in SUBSET Workers
  BY DEF At
<1>2. IsFiniteSet(At(l, i, s)')
  BY <1>1, FiniteWorkers, FS_Subset
<1>3. QED
  BY <1>2, FS_CardinalityType DEF Waiting

LEMMA CardinalityWithout ==
  ASSUME NEW S, IsFiniteSet(S), NEW x
  PROVE  /\ Cardinality(S) \in Nat /\ Cardinality(S \ {x}) \in Nat
         /\ x \in S => Cardinality(S) = Cardinality(S \ {x}) + 1
         /\ x \notin S => Cardinality(S) = Cardinality(S \ {x})
<1>1. IsFiniteSet(S \ {x})
  BY FS_RemoveElement
<1>2. Cardinality(S) \in Nat /\ Cardinality(S \ {x}) \in Nat
  BY <1>1, FS_CardinalityType
<1>3. Cardinality(S \ {x}) = IF x \in S THEN Cardinality(S) - 1 ELSE Cardinality(S)
  BY FS_RemoveElement
<1>4. QED
  BY <1>2, <1>3

\* When only handler w moves, only w leaves or joins a set of handlers.
LEMMA OneMoves ==
  ASSUME NEW w \in Workers, NEW l, NEW i, NEW s,
         \A v \in Workers \ {w} : pc'[v] = pc[v] /\ p'[v] = p[v]
  PROVE  Waiting(l, i, s)' =
           Waiting(l, i, s) - (IF w \in At(l, i, s) THEN 1 ELSE 0)
                            + (IF w \in At(l, i, s)' THEN 1 ELSE 0)
<1> DEFINE A == At(l, i, s)
           B == At(l, i, s)'
<1>1. A \ {w} = B \ {w}
  BY DEF At
<1>2. IsFiniteSet(A) /\ IsFiniteSet(B)
  BY AtFinite, AtFinitePrime
<1> HIDE DEF A, B
<1>3. /\ Cardinality(A) \in Nat /\ Cardinality(A \ {w}) \in Nat
      /\ w \in A => Cardinality(A) = Cardinality(A \ {w}) + 1
      /\ w \notin A => Cardinality(A) = Cardinality(A \ {w})
  BY <1>2, CardinalityWithout
<1>4. /\ Cardinality(B) \in Nat
      /\ w \in B => Cardinality(B) = Cardinality(B \ {w}) + 1
      /\ w \notin B => Cardinality(B) = Cardinality(B \ {w})
  BY <1>2, CardinalityWithout
<1>5. Cardinality(B) = Cardinality(A) - (IF w \in A THEN 1 ELSE 0) + (IF w \in B THEN 1 ELSE 0)
  <2>1. Cardinality(A \ {w}) = Cardinality(B \ {w})
    BY <1>1, Zenon
  <2> QED BY <2>1, <1>3, <1>4
<1>6. Waiting(l, i, s) = Cardinality(A)
  BY DEF A, Waiting
<1>7. Waiting(l, i, s)' = Cardinality(B)
  BY DEF B, Waiting
<1>8. (w \in At(l, i, s) <=> w \in A) /\ (w \in At(l, i, s)' <=> w \in B)
  BY DEF A, B
<1>9. QED
  BY <1>5, <1>6, <1>7, <1>8

\* The handlers that wait at l can only become fewer if none joins them.
LEMMA NoneJoins ==
  ASSUME NEW l, NEW i, NEW s, At(l, i, s)' \subseteq At(l, i, s)
  PROVE  Waiting(l, i, s)' <= Waiting(l, i, s)
BY AtFinite, FS_Subset DEF Waiting

-----------------------------------------------------------------------------
(* Kinds of steps *)

Pending == {"publish", "refundRow", "email", "charge"}

\* Nothing is logged, published, sent or charged and no handler gets ready to.
NoEffect ==
    /\ UNCHANGED <<logged, refunds, published, emails, charges>>
    /\ \A v \in Workers : pc'[v] \in Pending => pc'[v] = pc[v] /\ p'[v] = p[v]

LEMMA EffectKinds ==
  ASSUME TypeOK, [Next]_vars
  PROVE  \/ NoEffect
         \/ \E w \in Workers :
              LogEvent(w) \/ InsertRefund(w) \/ Publish(w) \/ SendEmail(w) \/ Charge(w)
<1> DEFINE Kind(w) ==
      LogEvent(w) \/ InsertRefund(w) \/ Publish(w) \/ SendEmail(w) \/ Charge(w)
<1>a. HandlersOK
  BY DEF TypeOK
<1>1. ASSUME NEW w \in Workers, NEW op \in Operations, NEW x, Call(w, op, x) PROVE NoEffect
  BY <1>a, <1>1 DEF HandlersOK, Call, NoEffect, Pending, Operations, storage, effects
<1>2. ASSUME NEW w \in Workers, NEW r, Return(w, r),
             UNCHANGED <<logged, refunds, published, emails, charges>>
      PROVE  NoEffect
  BY <1>a, <1>2 DEF HandlersOK, Return, NoEffect, Pending
<1>3. ASSUME NEW w \in Workers, NEW l \in {"insert", "save", "log", "update"}, NEW x,
             Proceed(w, l, x), UNCHANGED <<logged, refunds, published, emails, charges>>
      PROVE  NoEffect
  BY <1>a, <1>3 DEF HandlersOK, Proceed, NoEffect, Pending
<1>4. ASSUME NEW w \in Workers, RejectInput(w) \/ FetchExisting(w) \/ StepError(w) PROVE NoEffect
  BY <1>2, <1>4 DEF RejectInput, FetchExisting, StepError, storage, effects
<1>5. ASSUME NEW w \in Workers, LookUpKey(w) PROVE NoEffect
  <2>1. CASE Proceed(w, "insert", None)
    BY <1>3, <1>5, <2>1 DEF LookUpKey, storage, effects
  <2>2. CASE ~Proceed(w, "insert", None)
    BY <1>a, <1>5, <2>2 DEF LookUpKey, HandlersOK, NoEffect, Pending, storage, effects
  <2> QED BY <2>1, <2>2
<1>6. ASSUME NEW w \in Workers, InsertPayment(w) PROVE NoEffect
  BY <1>2, <1>3, <1>6 DEF InsertPayment, effects
<1>7. ASSUME NEW w \in Workers, SaveKey(w) \/ UpdateRow(w) PROVE NoEffect
  BY <1>3, <1>7 DEF SaveKey, UpdateRow, effects
<1>8. ASSUME NEW w \in Workers, ReadForRefund(w) \/ ReadForConfirm(w) \/ ReadForCancel(w)
      PROVE  NoEffect
  BY <1>2, <1>3, <1>8 DEF ReadForRefund, ReadForConfirm, ReadForCancel, storage, effects
<1>9. CASE Crash
  BY <1>9 DEF Crash, NoEffect, Pending, storage, effects
<1>10. ASSUME NEW k \in Keys, ExpireKey(k) PROVE NoEffect
  BY <1>10 DEF ExpireKey, NoEffect, effects, control
<1>11. CASE UNCHANGED vars
  BY <1>11 DEF NoEffect, vars, storage, effects, control
<1>12. QED
  BY <1>1, <1>4, <1>5, <1>6, <1>7, <1>8, <1>9, <1>10, <1>11
     DEF Next, Request, Webhook, WebhookOperation, Step, Operations

\* A step of kind NoEffect keeps the counts.
LEMMA NoEffectKeepsCounted ==
  ASSUME TypeOK, Counted, NoEffect PROVE Counted'
<1>1. ASSUME NEW l \in Pending, NEW i, NEW s PROVE At(l, i, s)' \subseteq At(l, i, s)
  BY <1>1 DEF At, NoEffect
<1>2. ASSUME NEW l \in Pending, NEW i, NEW s
      PROVE  /\ Waiting(l, i, s)' <= Waiting(l, i, s)
             /\ Waiting(l, i, s)' \in Nat /\ Waiting(l, i, s) \in Nat
  BY <1>1, <1>2, NoneJoins, AtFinite, AtFinitePrime
<1>3. \A i \in PaymentIds, s \in Status :
        /\ published[i][s] \in Nat /\ logged[i][s] \in Nat /\ emails[i][s] \in Nat
        /\ refunds[i] \in Nat /\ charges[i] \in Nat
  BY DEF TypeOK, TablesOK, EffectsOK
<1>4. "refunded" \in Status /\ "pending" \in Status
  BY DEF Status
<1>5. PublishedAreLogged'
  BY <1>2, <1>3 DEF Counted, PublishedAreLogged, NoEffect, Pending
<1>6. RefundEventsHaveRows'
  BY <1>2, <1>3, <1>4 DEF Counted, RefundEventsHaveRows, NoEffect, Pending
<1>7. RefundRowsAreLogged'
  BY <1>2, <1>3, <1>4 DEF Counted, RefundRowsAreLogged, NoEffect, Pending
<1>8. EmailsArePublished'
  BY <1>2, <1>3 DEF Counted, EmailsArePublished, NoEffect, Pending
<1>9. ChargesAreAnnounced'
  BY <1>2, <1>3, <1>4 DEF Counted, ChargesAreAnnounced, NoEffect, Pending
<1>10. QED
  BY <1>5, <1>6, <1>7, <1>8, <1>9 DEF Counted

-----------------------------------------------------------------------------
(* The five steps with an effect *)

\* What a step by handler w, now at label m with struct x, does to a count.
LEMMA WaitingAfter ==
  ASSUME TypeOK, NEW w \in Workers, NEW m \in Labels, Proceed(w, m, p[w]),
         NEW l, NEW i, NEW s
  PROVE  /\ Waiting(l, i, s) \in Nat /\ Waiting(l, i, s)' \in Nat
         /\ Waiting(l, i, s)' = Waiting(l, i, s)
              - (IF pc[w] = l /\ p[w].id = i /\ p[w].status = s THEN 1 ELSE 0)
              + (IF m = l /\ p[w].id = i /\ p[w].status = s THEN 1 ELSE 0)
<1>1. \A v \in Workers \ {w} : pc'[v] = pc[v] /\ p'[v] = p[v]
  BY DEF TypeOK, HandlersOK, Proceed
<1>2. pc'[w] = m /\ p'[w] = p[w]
  BY DEF TypeOK, HandlersOK, Proceed
<1>3. Waiting(l, i, s) \in Nat /\ Waiting(l, i, s)' \in Nat
  BY AtFinite, AtFinitePrime
<1>4. w \in At(l, i, s) <=> pc[w] = l /\ p[w].id = i /\ p[w].status = s
  BY DEF At
<1>5. w \in At(l, i, s)' <=> m = l /\ p[w].id = i /\ p[w].status = s
  BY <1>2 DEF At
<1>6. QED
  BY <1>1, <1>3, <1>4, <1>5, OneMoves

\* A handler that returns leaves the set it waited in.
LEMMA WaitingAfterReturn ==
  ASSUME TypeOK, NEW w \in Workers, NEW r, Return(w, r), NEW l \in Pending, NEW i, NEW s
  PROVE  /\ Waiting(l, i, s) \in Nat /\ Waiting(l, i, s)' \in Nat
         /\ Waiting(l, i, s)' = Waiting(l, i, s) -
              (IF pc[w] = l /\ p[w].id = i /\ p[w].status = s THEN 1 ELSE 0)
<1>1. \A v \in Workers \ {w} : pc'[v] = pc[v] /\ p'[v] = p[v]
  BY DEF TypeOK, HandlersOK, Return
<1>2. pc'[w] = "idle"
  BY DEF TypeOK, HandlersOK, Return
<1>3. Waiting(l, i, s) \in Nat /\ Waiting(l, i, s)' \in Nat
  BY AtFinite, AtFinitePrime
<1>4. w \in At(l, i, s) <=> pc[w] = l /\ p[w].id = i /\ p[w].status = s
  BY DEF At
<1>5. w \notin At(l, i, s)'
  BY <1>2 DEF At, Pending
<1>6. QED
  BY <1>1, <1>3, <1>4, <1>5, OneMoves

LEMMA CountsAreNat ==
  ASSUME TypeOK, NEW i \in PaymentIds, NEW s \in Status
  PROVE  /\ published[i][s] \in Nat /\ logged[i][s] \in Nat /\ emails[i][s] \in Nat
         /\ refunds[i] \in Nat /\ charges[i] \in Nat
BY DEF TypeOK, TablesOK, EffectsOK

LEMMA LogKeepsCounted ==
  ASSUME TypeOK, Counted, NEW w \in Workers, LogEvent(w) PROVE Counted'
<1>1. /\ pc[w] = "log" /\ p[w].id \in PaymentIds /\ p[w].status \in Status
      /\ AfterLog(p[w].status) \in Labels /\ Proceed(w, AfterLog(p[w].status), p[w])
      /\ UNCHANGED <<refunds, published, emails, charges>>
  BY HeldIsPayment DEF LogEvent, AfterLog, Labels, effects, Holding, TypeOK, PaymentRecord
<1>2. \A i \in PaymentIds, s \in Status :
        logged'[i][s] = IF i = p[w].id /\ s = p[w].status THEN logged[i][s] + 1 ELSE logged[i][s]
  BY <1>1 DEF LogEvent, TypeOK, TablesOK
<1>3. ASSUME NEW l, NEW i, NEW s
      PROVE  /\ Waiting(l, i, s) \in Nat
             /\ Waiting(l, i, s)' = Waiting(l, i, s)
                  - (IF pc[w] = l /\ p[w].id = i /\ p[w].status = s THEN 1 ELSE 0)
                  + (IF AfterLog(p[w].status) = l /\ p[w].id = i /\ p[w].status = s THEN 1 ELSE 0)
  <2> DEFINE m == AfterLog(p[w].status)
  <2>1. m \in Labels /\ Proceed(w, m, p[w])
    BY <1>1
  <2> HIDE DEF m
  <2>2. /\ Waiting(l, i, s) \in Nat
        /\ Waiting(l, i, s)' = Waiting(l, i, s)
              - (IF pc[w] = l /\ p[w].id = i /\ p[w].status = s THEN 1 ELSE 0)
              + (IF m = l /\ p[w].id = i /\ p[w].status = s THEN 1 ELSE 0)
    BY <2>1, WaitingAfter
  <2> QED BY <2>2 DEF m
<1>4. "refunded" \in Status /\ "pending" \in Status
  BY DEF Status
<1>5. PublishedAreLogged'
  BY <1>1, <1>2, <1>3, CountsAreNat DEF Counted, PublishedAreLogged
<1>6. RefundEventsHaveRows'
  BY <1>1, <1>3, <1>4, CountsAreNat DEF Counted, RefundEventsHaveRows, AfterLog
<1>7. RefundRowsAreLogged'
  BY <1>1, <1>2, <1>3, <1>4, CountsAreNat DEF Counted, RefundRowsAreLogged, AfterLog
<1>8. EmailsArePublished'
  BY <1>1, <1>3, CountsAreNat DEF Counted, EmailsArePublished, AfterLog
<1>9. ChargesAreAnnounced'
  BY <1>1, <1>3, <1>4, CountsAreNat DEF Counted, ChargesAreAnnounced, AfterLog
<1>10. QED
  BY <1>5, <1>6, <1>7, <1>8, <1>9 DEF Counted

LEMMA RefundRowKeepsCounted ==
  ASSUME TypeOK, Phases, Counted, NEW w \in Workers, InsertRefund(w) PROVE Counted'
<1>1. /\ pc[w] = "refundRow" /\ p[w].id \in PaymentIds /\ p[w].status = "refunded"
      /\ "publish" \in Labels /\ Proceed(w, "publish", p[w])
      /\ UNCHANGED <<logged, published, emails, charges>>
  BY HeldIsPayment DEF InsertRefund, Labels, effects, Holding, TypeOK, PaymentRecord, Phases
<1>2. \A i \in PaymentIds : refunds'[i] = IF i = p[w].id THEN refunds[i] + 1 ELSE refunds[i]
  BY <1>1 DEF InsertRefund, TypeOK, TablesOK
<1>3. ASSUME NEW l, NEW i, NEW s
      PROVE  /\ Waiting(l, i, s) \in Nat
             /\ Waiting(l, i, s)' = Waiting(l, i, s)
                  - (IF pc[w] = l /\ p[w].id = i /\ p[w].status = s THEN 1 ELSE 0)
                  + (IF "publish" = l /\ p[w].id = i /\ p[w].status = s THEN 1 ELSE 0)
  BY <1>1, WaitingAfter
<1>4. "refunded" \in Status /\ "pending" \in Status
  BY DEF Status
<1>5. ASSUME NEW i \in PaymentIds
      PROVE  refunds'[i] + Waiting("refundRow", i, "refunded")' <= logged[i]["refunded"]
  <2>1. refunds[i] + Waiting("refundRow", i, "refunded") <= logged[i]["refunded"]
    BY DEF Counted, RefundRowsAreLogged
  <2> QED BY <1>1, <1>2, <1>3, <1>4, <2>1, CountsAreNat
<1>6. ASSUME NEW i \in PaymentIds
      PROVE  published[i]["refunded"] + Waiting("publish", i, "refunded")' <= refunds'[i]
  <2>1. published[i]["refunded"] + Waiting("publish", i, "refunded") <= refunds[i]
    BY DEF Counted, RefundEventsHaveRows
  <2> QED BY <1>1, <1>2, <1>3, <1>4, <2>1, CountsAreNat
<1>7. ASSUME NEW i \in PaymentIds, NEW s \in Status
      PROVE  published[i][s] + Waiting("publish", i, s)' <= logged[i][s]
  <2>1. CASE s = "refunded"
    <3>1. Waiting("refundRow", i, "refunded")' \in Nat /\ Waiting("publish", i, "refunded")' \in Nat
      BY AtFinitePrime
    <3>2. refunds'[i] \in Nat
      BY <1>2, CountsAreNat, <1>4
    <3> QED BY <1>5, <1>6, <2>1, <3>1, <3>2, CountsAreNat
  <2>2. CASE s # "refunded"
    <3>1. published[i][s] + Waiting("publish", i, s) <= logged[i][s]
      BY DEF Counted, PublishedAreLogged
    <3> QED BY <1>1, <1>3, <2>2, <3>1, CountsAreNat
  <2> QED BY <2>1, <2>2
<1>8. PublishedAreLogged' /\ RefundEventsHaveRows' /\ RefundRowsAreLogged'
  BY <1>1, <1>5, <1>6, <1>7 DEF PublishedAreLogged, RefundEventsHaveRows, RefundRowsAreLogged
<1>9. EmailsArePublished'
  BY <1>1, <1>3, CountsAreNat DEF Counted, EmailsArePublished
<1>10. ChargesAreAnnounced'
  BY <1>1, <1>3, <1>4, CountsAreNat DEF Counted, ChargesAreAnnounced
<1>11. QED
  BY <1>8, <1>9, <1>10 DEF Counted

\* Publishing moves the handler on to "charge", to "email" or out.
LEMMA PublishKeepsCounted ==
  ASSUME TypeOK, Counted, NEW w \in Workers, Publish(w) PROVE Counted'
<1>1. /\ pc[w] = "publish" /\ p[w].id \in PaymentIds /\ p[w].status \in Status
      /\ UNCHANGED <<logged, refunds, emails, charges>>
  BY HeldIsPayment DEF Publish, storage, Holding, TypeOK, PaymentRecord
<1>2. \A i \in PaymentIds, s \in Status :
        published'[i][s] =
          IF i = p[w].id /\ s = p[w].status THEN published[i][s] + 1 ELSE published[i][s]
  BY <1>1 DEF Publish, TypeOK, EffectsOK
<1>3. ASSUME NEW l \in Pending, NEW i, NEW s
      PROVE  /\ Waiting(l, i, s) \in Nat /\ Waiting(l, i, s)' \in Nat
             /\ l \in {"publish", "refundRow"} =>
                  Waiting(l, i, s)' = Waiting(l, i, s) -
                    (IF l = "publish" /\ p[w].id = i /\ p[w].status = s THEN 1 ELSE 0)
             /\ l \in {"email", "charge"} =>
                  Waiting(l, i, s)' <= Waiting(l, i, s) +
                    (IF p[w].id = i /\ p[w].status = s THEN 1 ELSE 0)
  <2>1. CASE Return(w, "ok")
    BY <1>1, <1>3, <2>1, WaitingAfterReturn DEF Pending
  <2>2. ASSUME NEW m \in {"charge", "email"}, Proceed(w, m, p[w])
        PROVE  /\ Waiting(l, i, s) \in Nat /\ Waiting(l, i, s)' \in Nat
               /\ Waiting(l, i, s)' = Waiting(l, i, s)
                    - (IF pc[w] = l /\ p[w].id = i /\ p[w].status = s THEN 1 ELSE 0)
                    + (IF m = l /\ p[w].id = i /\ p[w].status = s THEN 1 ELSE 0)
    <3>1. m \in Labels
      BY DEF Labels
    <3> QED BY <2>2, <3>1, WaitingAfter
  <2>3. CASE Proceed(w, "charge", p[w])
    BY <1>1, <1>3, <2>2, <2>3 DEF Pending
  <2>4. CASE Proceed(w, "email", p[w])
    BY <1>1, <1>3, <2>2, <2>4 DEF Pending
  <2> QED BY <2>1, <2>3, <2>4 DEF Publish
<1>4. "refunded" \in Status /\ "pending" \in Status
  BY DEF Status
<1>5. PublishedAreLogged'
  BY <1>1, <1>2, <1>3, CountsAreNat DEF Counted, PublishedAreLogged, Pending
<1>6. RefundEventsHaveRows'
  BY <1>1, <1>2, <1>3, <1>4, CountsAreNat DEF Counted, RefundEventsHaveRows, Pending
<1>7. RefundRowsAreLogged'
  BY <1>1, <1>3, <1>4, CountsAreNat DEF Counted, RefundRowsAreLogged, Pending
<1>8. EmailsArePublished'
  BY <1>1, <1>2, <1>3, CountsAreNat DEF Counted, EmailsArePublished, Pending
<1>9. ChargesAreAnnounced'
  BY <1>1, <1>2, <1>3, <1>4, CountsAreNat DEF Counted, ChargesAreAnnounced, Pending
<1>10. QED
  BY <1>5, <1>6, <1>7, <1>8, <1>9 DEF Counted

LEMMA EmailKeepsCounted ==
  ASSUME TypeOK, Counted, NEW w \in Workers, SendEmail(w) PROVE Counted'
<1>1. /\ pc[w] = "email" /\ p[w].id \in PaymentIds /\ p[w].status \in Status
      /\ UNCHANGED <<logged, refunds, published, charges>>
  BY HeldIsPayment DEF SendEmail, storage, Holding, TypeOK, PaymentRecord
<1>2. \A i \in PaymentIds, s \in Status :
        emails'[i][s] = IF i = p[w].id /\ s = p[w].status THEN emails[i][s] + 1 ELSE emails[i][s]
  BY <1>1 DEF SendEmail, TypeOK, EffectsOK
<1>3. ASSUME NEW l \in Pending, NEW i, NEW s
      PROVE  /\ Waiting(l, i, s) \in Nat
             /\ Waiting(l, i, s)' = Waiting(l, i, s) -
                  (IF pc[w] = l /\ p[w].id = i /\ p[w].status = s THEN 1 ELSE 0)
  BY <1>3, WaitingAfterReturn DEF SendEmail
<1>4. "refunded" \in Status /\ "pending" \in Status
  BY DEF Status
<1>5. PublishedAreLogged'
  BY <1>1, <1>3, CountsAreNat DEF Counted, PublishedAreLogged, Pending
<1>6. RefundEventsHaveRows' /\ RefundRowsAreLogged'
  BY <1>1, <1>3, <1>4, CountsAreNat
     DEF Counted, RefundEventsHaveRows, RefundRowsAreLogged, Pending
<1>7. EmailsArePublished'
  BY <1>1, <1>2, <1>3, CountsAreNat DEF Counted, EmailsArePublished, Pending
<1>8. ChargesAreAnnounced'
  BY <1>1, <1>3, <1>4, CountsAreNat DEF Counted, ChargesAreAnnounced, Pending
<1>9. QED
  BY <1>5, <1>6, <1>7, <1>8 DEF Counted

LEMMA ChargeKeepsCounted ==
  ASSUME TypeOK, Phases, Counted, NEW w \in Workers, Charge(w) PROVE Counted'
<1>1. /\ pc[w] = "charge" /\ p[w].id \in PaymentIds /\ p[w].status = "pending"
      /\ UNCHANGED <<logged, refunds, published, emails>>
  BY HeldIsPayment DEF Charge, storage, Holding, TypeOK, PaymentRecord, Phases
<1>2. \A i \in PaymentIds : charges'[i] = IF i = p[w].id THEN charges[i] + 1 ELSE charges[i]
  BY <1>1 DEF Charge, TypeOK, EffectsOK
<1>3. ASSUME NEW l \in Pending, NEW i, NEW s
      PROVE  /\ Waiting(l, i, s) \in Nat
             /\ Waiting(l, i, s)' = Waiting(l, i, s) -
                  (IF pc[w] = l /\ p[w].id = i /\ p[w].status = s THEN 1 ELSE 0)
  <2>1. \A v \in Workers \ {w} : pc'[v] = pc[v] /\ p'[v] = p[v]
    BY DEF Charge, Proceed, TypeOK, HandlersOK
  <2>2. pc'[w] = "update"
    BY DEF Charge, Proceed, TypeOK, HandlersOK
  <2>3. w \in At(l, i, s) <=> pc[w] = l /\ p[w].id = i /\ p[w].status = s
    BY DEF At
  <2>4. w \notin At(l, i, s)'
    BY <1>3, <2>2 DEF At, Pending
  <2> QED BY <2>1, <2>3, <2>4, OneMoves, AtFinite
<1>4. "refunded" \in Status /\ "pending" \in Status
  BY DEF Status
<1>5. PublishedAreLogged' /\ EmailsArePublished'
  BY <1>1, <1>3, CountsAreNat DEF Counted, PublishedAreLogged, EmailsArePublished, Pending
<1>6. RefundEventsHaveRows' /\ RefundRowsAreLogged'
  BY <1>1, <1>3, <1>4, CountsAreNat
     DEF Counted, RefundEventsHaveRows, RefundRowsAreLogged, Pending
<1>7. ChargesAreAnnounced'
  BY <1>1, <1>2, <1>3, <1>4, CountsAreNat DEF Counted, ChargesAreAnnounced, Pending
<1>8. QED
  BY <1>5, <1>6, <1>7 DEF Counted

-----------------------------------------------------------------------------

LEMMA InitCounted == Init => Counted
<1> SUFFICES ASSUME Init PROVE Counted
  OBVIOUS
<1>1. ASSUME NEW l \in Pending, NEW i, NEW s PROVE Waiting(l, i, s) = 0
  <2>1. At(l, i, s) = {}
    BY <1>1 DEF Init, At, Pending
  <2> QED BY <2>1, FS_EmptySet DEF Waiting
<1>2. QED
  BY <1>1 DEF Init, Counted, PublishedAreLogged, RefundEventsHaveRows, RefundRowsAreLogged,
     EmailsArePublished, ChargesAreAnnounced, Pending, Status

\* Whatever fails and however handlers interleave: no email without its event,
\* no event without its log entry, no refund event without its refunds row and
\* no charge without its payment.created, each counted.
THEOREM EffectsStayInOrder == Spec => []EffectsInOrder
<1>1. IInv /\ Counted /\ [Next]_vars => Counted'
  BY EffectKinds, NoEffectKeepsCounted, LogKeepsCounted, RefundRowKeepsCounted,
     PublishKeepsCounted, EmailKeepsCounted, ChargeKeepsCounted DEF IInv
<1>2. TypeOK /\ Counted => EffectsInOrder
  <2> SUFFICES ASSUME TypeOK, Counted, NEW i \in PaymentIds
               PROVE  /\ \A s \in Status : emails[i][s] <= published[i][s] /\ published[i][s] <= logged[i][s]
                      /\ published[i]["refunded"] <= refunds[i] /\ refunds[i] <= logged[i]["refunded"]
                      /\ charges[i] <= published[i]["pending"]
    BY DEF EffectsInOrder
  <2>1. "refunded" \in Status /\ "pending" \in Status
    BY DEF Status
  <2>2. \A s \in Status : emails[i][s] <= published[i][s] /\ published[i][s] <= logged[i][s]
    BY CountsAreNat, AtFinite DEF Counted, PublishedAreLogged, EmailsArePublished
  <2>3. published[i]["refunded"] <= refunds[i] /\ refunds[i] <= logged[i]["refunded"]
    BY <2>1, CountsAreNat, AtFinite DEF Counted, RefundEventsHaveRows, RefundRowsAreLogged
  <2>4. charges[i] <= published[i]["pending"]
    BY <2>1, CountsAreNat, AtFinite DEF Counted, ChargesAreAnnounced
  <2> QED BY <2>2, <2>3, <2>4
<1>3. IInv => TypeOK
  BY DEF IInv
<1>4. QED
  BY <1>1, <1>2, <1>3, InitCounted, Invariance, PTL DEF Spec

-----------------------------------------------------------------------------
(* Handlers that run one at a time *)

OneHandler == \A v, w \in Workers : pc[v] # "idle" /\ pc[w] # "idle" => v = w

\* The moves a copy and its change make of a status.
Allowed(from, to) ==
    \/ from = "pending" /\ to \in {"succeeded", "failed"}
    \/ from \in {"pending", "succeeded", "failed"} /\ to = "cancelled"
    \/ from = "succeeded" /\ to = "refunded"

\* The row is what the handler read until it updates, and what it wrote from
\* then on; what it is about to publish or record is new.
InStep(w) == pc[w] \in Holding =>
    /\ pc[w] = "update" => Allowed(payments[p[w].id].status, p[w].status)
    /\ pc[w] # "update" => payments[p[w].id].status = p[w].status
    /\ pc[w] \in {"log", "publish"} /\ p[w].status = "succeeded" =>
          published[p[w].id]["succeeded"] = 0
    /\ pc[w] \in {"log", "refundRow"} /\ p[w].status = "refunded" => refunds[p[w].id] = 0

Once ==
    /\ \A i \in PaymentIds : published[i]["succeeded"] # 0 =>
          published[i]["succeeded"] = 1 /\ Exists(i) /\ payments[i].status # "pending"
    /\ \A i \in PaymentIds : refunds[i] # 0 =>
          refunds[i] = 1 /\ Exists(i) /\ payments[i].status = "refunded"

Single == OneHandler /\ Once /\ \A w \in Workers : InStep(w)

Follows == [Lifecycle!Next]_(Lifecycle!vars)

\* Only w moves, and it was running.
Alone(w) ==
    /\ pc[w] # "idle"
    /\ \A v \in Workers \ {w} : pc'[v] = pc[v] /\ p'[v] = p[v]

LEMMA ProceedMoves ==
  ASSUME HandlersOK, NEW w \in Workers, pc[w] # "idle", NEW l, NEW x, Proceed(w, l, x)
  PROVE  Alone(w) /\ pc'[w] = l /\ p'[w] = x /\ arg' = arg
  BY DEF HandlersOK, Proceed, Alone

LEMMA ReturnMoves ==
  ASSUME HandlersOK, NEW w \in Workers, pc[w] # "idle", NEW r, Return(w, r)
  PROVE  Alone(w) /\ pc'[w] = "idle"
  BY DEF HandlersOK, Return, Alone

LEMMA MoverIsSingle ==
  ASSUME Single, NEW w \in Workers, Alone(w), InStep(w)', Once'
  PROVE  Single'
  <1>1. \A v \in Workers \ {w} : pc'[v] = "idle"
    BY DEF Single, OneHandler, Alone
  <1>2. OneHandler'
    BY <1>1 DEF OneHandler
  <1>3. \A v \in Workers \ {w} : InStep(v)'
    BY <1>1 DEF InStep, Holding
  <1>. QED BY <1>2, <1>3 DEF Single

LEMMA StatusStutters ==
  ASSUME UNCHANGED <<payments, refunds>> PROVE Follows
  BY DEF Follows, Lifecycle!vars, StatusOf, Exists

LEMMA RestIsSingle ==
  ASSUME Single, UNCHANGED <<payments, published, refunds>>, OneHandler',
         \A v \in Workers : pc'[v] \in Holding => pc'[v] = pc[v] /\ p'[v] = p[v]
  PROVE  Single' /\ Follows
  <1>1. Once'
    BY DEF Single, Once, Exists
  <1>2. \A v \in Workers : InStep(v)'
    BY DEF Single, InStep
  <1>. QED BY <1>1, <1>2, StatusStutters DEF Single

\* A handler that returns and published nothing that counts
LEMMA ReturnIsSingle ==
  ASSUME IInv, Single, NEW w \in Workers, pc[w] # "idle", NEW r, Return(w, r),
         UNCHANGED <<payments, refunds>>,
         \A i \in PaymentIds : published'[i]["succeeded"] = published[i]["succeeded"]
  PROVE  Single' /\ Follows
  <1>1. Alone(w) /\ pc'[w] = "idle"
    BY ReturnMoves DEF IInv, TypeOK
  <1>2. InStep(w)'
    BY <1>1 DEF InStep, Holding
  <1>3. Once'
    BY DEF Single, Once, Exists
  <1>. QED BY <1>1, <1>2, <1>3, MoverIsSingle, StatusStutters

LEMMA InsertIsSingle ==
  ASSUME IInv, Single, NEW w \in Workers, Inserts(w) PROVE Single' /\ Follows
  <1>. DEFINE new(i) == [id |-> i, key |-> arg[w], status |-> "pending", transaction |-> "none",
                         refundReason |-> FALSE, failureReason |-> FALSE]
  <1>1. PICK i \in PaymentIds :
          /\ ~Exists(i)
          /\ payments' = [payments EXCEPT ![i] = new(i)]
          /\ Proceed(w, "save", new(i))
    BY DEF Inserts, InsertPayment
  <1>2. new(i).id = i /\ new(i).status = "pending" /\ new(i) # None
    <2>1. arg[w] \in Keys
      BY DEF Inserts, InsertPayment, IInv, TypeOK, HandlersOK
    <2>2. new(i) \in PaymentRecord
      BY <2>1 DEF PaymentRecord, Status, Transaction
    <2>. QED BY <2>2, NoneAssumption
  <1>3. UNCHANGED <<refunds, published>> /\ pc[w] = "insert" /\ HandlersOK
    BY DEF Inserts, InsertPayment, effects, IInv, TypeOK
  <1>. DEFINE x == new(i)
  <1>4. Alone(w) /\ pc'[w] = "save" /\ p'[w] = x
    BY <1>1, <1>3, ProceedMoves
  <1>5. /\ payments'[i] = x
        /\ \A j \in PaymentIds \ {i} : payments'[j] = payments[j]
    BY <1>1 DEF IInv, TypeOK, TablesOK
  <1>6. x.id = i /\ x.status = "pending" /\ x # None
    BY <1>2
  <1>. HIDE DEF new, x
  <1>7. InStep(w)'
    BY <1>4, <1>5, <1>6 DEF InStep
  <1>8. Once'
    BY <1>1, <1>3, <1>5 DEF Single, Once, Exists
  <1>9. Lifecycle!Open(i)
    <2>1. StatusOf(i) = "absent" /\ StatusOf(i)' = "pending"
      BY <1>1, <1>5, <1>6 DEF StatusOf, Exists
    <2>2. \A j \in PaymentIds \ {i} : StatusOf(j)' = StatusOf(j)
      BY <1>5 DEF StatusOf, Exists
    <2>. QED BY <1>3, <2>1, <2>2 DEF Lifecycle!Open, Lifecycle!Become
  <1>. QED BY <1>4, <1>7, <1>8, <1>9, MoverIsSingle DEF Follows, Lifecycle!Next

\* Refund, Confirm and Cancel copy the row and give the copy a status its own
\* may become.
LEMMA CopyIsSingle ==
  ASSUME IInv, Single, NEW w \in Workers, pc[w] # "idle", NEW i \in PaymentIds,
         NEW x, Proceed(w, "update", x), x.id = i, Allowed(payments[i].status, x.status),
         UNCHANGED <<payments, published, refunds>>
  PROVE  Single' /\ Follows
  <1>1. Alone(w) /\ pc'[w] = "update" /\ p'[w] = x
    BY ProceedMoves DEF IInv, TypeOK
  <1>2. InStep(w)' /\ Once'
    BY <1>1 DEF InStep, Single, Once, Exists
  <1>. QED BY <1>1, <1>2, MoverIsSingle, StatusStutters

LEMMA ReadIsSingle ==
  ASSUME IInv, Single, NEW w \in Workers,
         ReadForRefund(w) \/ ReadForConfirm(w) \/ ReadForCancel(w)
  PROVE  Single' /\ Follows
  <1>1. /\ pc[w] # "idle" /\ arg[w] \in PaymentIds
        /\ UNCHANGED <<payments, published, refunds>>
    BY DEF ReadForRefund, ReadForConfirm, ReadForCancel, storage, effects, IInv, TypeOK, HandlersOK
  <1>2. CASE \E r : Return(w, r)
    BY <1>1, <1>2, ReturnIsSingle
  <1>. DEFINE row == payments[arg[w]]
  <1>3. StatusOf(arg[w]) # "absent" =>
          row \in PaymentRecord /\ StatusOf(arg[w]) = row.status /\ row.id = arg[w]
    BY <1>1, StatusReadsRow DEF IInv, TypeOK, RowsKnown
  <1>4. CASE StatusOf(arg[w]) \in Refundable /\ ReadForRefund(w)
    <2>. DEFINE x == [row EXCEPT !.status = "refunded", !.refundReason = TRUE]
    <2>1. x.id = arg[w] /\ x.status = "refunded" /\ row.status = "succeeded"
      BY <1>3, <1>4 DEF Refundable, PaymentRecord
    <2>2. Proceed(w, "update", x)
      BY <1>4 DEF ReadForRefund
    <2>3. Allowed(row.status, x.status)
      BY <2>1 DEF Allowed
    <2>. QED BY <1>1, <2>1, <2>2, <2>3, CopyIsSingle
  <1>5. CASE StatusOf(arg[w]) \in Confirmable /\ ReadForConfirm(w)
    <2>. DEFINE x == [row EXCEPT !.status = "succeeded", !.transaction = "webhook"]
    <2>1. x.id = arg[w] /\ x.status = "succeeded" /\ row.status = "pending"
      BY <1>3, <1>5 DEF Confirmable, PaymentRecord
    <2>2. Proceed(w, "update", x)
      BY <1>5 DEF ReadForConfirm, Confirmable
    <2>3. Allowed(row.status, x.status)
      BY <2>1 DEF Allowed
    <2>. QED BY <1>1, <2>1, <2>2, <2>3, CopyIsSingle
  <1>6. CASE StatusOf(arg[w]) \in Cancellable /\ ReadForCancel(w)
    <2>. DEFINE x == [row EXCEPT !.status = "cancelled", !.failureReason = TRUE]
    <2>1. /\ x.id = arg[w] /\ x.status = "cancelled"
          /\ row.status \in {"pending", "succeeded", "failed"}
      BY <1>3, <1>6 DEF Cancellable, PaymentRecord, Status
    <2>2. Proceed(w, "update", x)
      BY <1>6 DEF ReadForCancel
    <2>3. Allowed(row.status, x.status)
      BY <2>1 DEF Allowed
    <2>. QED BY <1>1, <2>1, <2>2, <2>3, CopyIsSingle
  <1>. QED BY <1>2, <1>4, <1>5, <1>6 DEF ReadForRefund, ReadForConfirm, ReadForCancel

LEMMA ChargeIsSingle ==
  ASSUME IInv, Single, NEW w \in Workers, Charge(w) PROVE Single' /\ Follows
  <1>1. PICK outcome \in Outcomes : Proceed(w, "update", Charged(p[w], outcome))
    BY DEF Charge
  <1>2. /\ pc[w] = "charge" /\ p[w] \in PaymentRecord /\ p[w].status = "pending"
        /\ UNCHANGED <<payments, published, refunds>>
    BY HeldIsPayment DEF Charge, IInv, TypeOK, Phases, Holding, storage
  <1>3. payments[p[w].id].status = "pending" /\ p[w].id \in PaymentIds
    BY <1>2 DEF Single, InStep, Holding, PaymentRecord
  <1>4. Charged(p[w], outcome).id = p[w].id /\ Charged(p[w], outcome).status \in {"succeeded", "failed"}
    BY <1>2 DEF Charged, PaymentRecord, Outcomes
  <1>5. Allowed(payments[p[w].id].status, Charged(p[w], outcome).status)
    BY <1>3, <1>4 DEF Allowed
  <1>. QED BY <1>1, <1>2, <1>3, <1>4, <1>5, CopyIsSingle

LEMMA UpdateIsSingle ==
  ASSUME IInv, Single, NEW w \in Workers, UpdateRow(w) PROVE Single' /\ Follows
  <1>0. PICK i \in PaymentIds : i = p[w].id
    BY UpdatedRow
  <1>1. /\ pc[w] = "update" /\ Proceed(w, "log", p[w]) /\ UNCHANGED <<refunds, published>>
        /\ HandlersOK
    BY DEF UpdateRow, effects, IInv, TypeOK
  <1>2. Alone(w) /\ pc'[w] = "log" /\ p'[w] = p[w]
    BY <1>1, ProceedMoves
  <1>3. /\ Exists(i) /\ payments'[i] # None
        /\ payments'[i].status = p[w].status /\ p[w].status # "pending"
        /\ \A j \in PaymentIds : j # i => payments'[j] = payments[j]
    BY <1>0, UpdatedRow
  <1>4. Allowed(payments[i].status, p[w].status)
    BY <1>0, <1>1 DEF Single, InStep, Holding
  <1>5. InStep(w)'
    <2>1. p[w].status = "succeeded" => published[i]["succeeded"] = 0
      BY <1>3, <1>4 DEF Allowed, Single, Once
    <2>2. p[w].status = "refunded" => refunds[i] = 0
      BY <1>3, <1>4 DEF Allowed, Single, Once
    <2>. QED BY <1>0, <1>1, <1>2, <1>3, <2>1, <2>2 DEF InStep
  <1>6. Once'
    BY <1>1, <1>3, <1>4 DEF Single, Once, Exists, Allowed
  <1>7. Lifecycle!Next
    <2>1. StatusOf(i) = payments[i].status /\ StatusOf(i)' = p[w].status
      BY <1>3 DEF StatusOf, Exists
    <2>2. \A j \in PaymentIds \ {i} : StatusOf(j)' = StatusOf(j)
      BY <1>3 DEF StatusOf, Exists
    <2>3. ASSUME NEW from, StatusOf(i) \in from
          PROVE  Lifecycle!Become(i, from, p[w].status)
      BY <1>1, <1>3, <2>1, <2>2, <2>3 DEF Lifecycle!Become
    <2>. QED BY <1>3, <1>4, <2>1, <2>3
             DEF Allowed, Lifecycle!Next, Lifecycle!Succeed, Lifecycle!Fail, Lifecycle!Cancel,
                 Lifecycle!Refund
  <1>. QED BY <1>2, <1>5, <1>6, <1>7, MoverIsSingle DEF Follows

\* A handler that goes on with its struct
LEMMA ContinueIsSingle ==
  ASSUME IInv, Single, NEW w \in Workers, pc[w] \in {"save", "log"},
         NEW l \in {"log", "refundRow", "publish"}, Proceed(w, l, p[w]),
         UNCHANGED <<payments, published, refunds>>,
         pc[w] = "save" => l = "log",
         pc[w] = "log" => l # "log"
  PROVE  Single' /\ Follows
  <1>1. Alone(w) /\ pc'[w] = l /\ p'[w] = p[w]
    BY ProceedMoves DEF IInv, TypeOK
  <1>2. pc[w] = "save" => p[w].status = "pending"
    BY DEF IInv, Phases
  <1>3. InStep(w)' /\ Once'
    BY <1>1, <1>2 DEF InStep, Single, Once, Exists, Holding
  <1>. QED BY <1>1, <1>3, MoverIsSingle, StatusStutters

LEMMA RefundIsSingle ==
  ASSUME IInv, Single, NEW w \in Workers, InsertRefund(w) PROVE Single' /\ Follows
  <1>. DEFINE i == p[w].id
  <1>1. /\ pc[w] = "refundRow" /\ Proceed(w, "publish", p[w]) /\ UNCHANGED <<payments, published>>
        /\ refunds' = [refunds EXCEPT ![i] = @ + 1] /\ HandlersOK
    BY DEF InsertRefund, effects, IInv, TypeOK
  <1>2. Alone(w) /\ pc'[w] = "publish" /\ p'[w] = p[w]
    BY <1>1, ProceedMoves
  <1>3. i \in PaymentIds /\ Exists(i) /\ p[w].status = "refunded"
    BY <1>1, HeldIsPayment DEF IInv, TypeOK, RowsKnown, Phases, Holding, PaymentRecord
  <1>4. payments[i].status = "refunded" /\ refunds[i] = 0
    BY <1>1, <1>3 DEF Single, InStep, Holding
  <1>. HIDE DEF i
  <1>5. refunds' = [refunds EXCEPT ![i] = 1]
    BY <1>1, <1>3, <1>4 DEF IInv, TypeOK, TablesOK
  <1>6. InStep(w)' /\ Once'
    <2>1. Once'
      BY <1>1, <1>3, <1>4, <1>5 DEF Single, Once, Exists, IInv, TypeOK, TablesOK
    <2>2. InStep(w)'
      BY <1>1, <1>2, <1>3, <1>4 DEF InStep, i
    <2>. QED BY <2>1, <2>2
  <1>7. Lifecycle!RecordRefund(i)
    BY <1>1, <1>3, <1>4, <1>5 DEF Lifecycle!RecordRefund, StatusOf, Exists
  <1>. QED BY <1>2, <1>3, <1>6, <1>7, MoverIsSingle DEF Follows, Lifecycle!Next

LEMMA PublishIsSingle ==
  ASSUME IInv, Single, NEW w \in Workers, Publish(w) PROVE Single' /\ Follows
  <1>. DEFINE i == p[w].id
              s == p[w].status
  <1>1. /\ pc[w] = "publish" /\ HandlersOK /\ UNCHANGED <<payments, refunds>>
        /\ published' = [published EXCEPT ![i][s] = @ + 1]
    BY DEF Publish, storage, IInv, TypeOK
  <1>2. i \in PaymentIds /\ s \in Status /\ Exists(i) /\ payments[i].status = s
    BY <1>1, HeldIsPayment DEF IInv, TypeOK, RowsKnown, Holding, PaymentRecord, Single, InStep
  <1>3. published \in [PaymentIds -> [Status -> Nat]] /\ "succeeded" \in Status
    BY DEF IInv, TypeOK, EffectsOK, Status
  <1>4. s = "succeeded" => published[i]["succeeded"] = 0
    BY <1>1 DEF Single, InStep, Holding
  <1>. HIDE DEF i, s
  <1>5. \A j \in PaymentIds :
          \/ published'[j]["succeeded"] = published[j]["succeeded"]
          \/ j = i /\ s = "succeeded" /\ published'[j]["succeeded"] = 1
    BY <1>1, <1>2, <1>3, <1>4
  <1>6. Once'
    BY <1>1, <1>2, <1>5 DEF Single, Once, Exists
  <1>7. CASE s \in EndsAtPublish
    BY <1>1, <1>5, <1>7, ReturnIsSingle DEF Publish, EndsAtPublish, s
  <1>8. ASSUME NEW l \in {"charge", "email"}, Proceed(w, l, p[w]) PROVE Single' /\ Follows
    <2>1. Alone(w) /\ pc'[w] = l /\ p'[w] = p[w]
      BY <1>1, <1>8, ProceedMoves
    <2>2. InStep(w)'
      BY <1>1, <1>2, <2>1 DEF InStep, i, s
    <2>. QED BY <1>1, <1>6, <2>1, <2>2, MoverIsSingle, StatusStutters
  <1>. QED BY <1>7, <1>8 DEF Publish, s

LEMMA SingleStays ==
  ASSUME IInv, Single,
         \/ \E w \in Workers : RejectInput(w) \/ Step(w) \/ StepError(w)
         \/ \E w \in Workers, op \in Operations : \E x :
               Call(w, op, x) /\ \A v \in Workers : pc[v] = "idle"
         \/ Crash
         \/ \E k \in Keys : ExpireKey(k)
         \/ UNCHANGED vars
  PROVE  Single' /\ Follows
  <1>1. HandlersOK /\ "idle" \notin Holding
    BY DEF IInv, TypeOK, Holding
  <1>2. ASSUME NEW w \in Workers, NEW op \in Operations, NEW x, Call(w, op, x),
               \A v \in Workers : pc[v] = "idle"
        PROVE  Single' /\ Follows
    <2>1. /\ UNCHANGED <<payments, published, refunds>>
          /\ \A v \in Workers \ {w} : pc'[v] = "idle"
          /\ pc'[w] = op
      BY <1>1, <1>2 DEF Call, storage, effects, HandlersOK
    <2>2. OneHandler' /\ \A v \in Workers : pc'[v] \notin Holding
      BY <1>1, <2>1 DEF OneHandler, Operations, Holding
    <2>. QED BY <2>1, <2>2, RestIsSingle
  <1>3. ASSUME NEW w \in Workers, RejectInput(w) PROVE Single' /\ Follows
    <2>1. /\ UNCHANGED <<payments, published, refunds>>
          /\ \A v \in Workers : pc'[v] = pc[v] /\ (pc[v] # "idle" => p'[v] = p[v])
      BY <1>1, <1>3 DEF RejectInput, Return, storage, effects, HandlersOK
    <2>2. OneHandler'
      BY <2>1 DEF Single, OneHandler
    <2>. QED BY <1>1, <2>1, <2>2, RestIsSingle
  <1>4. ASSUME NEW w \in Workers, FetchExisting(w) \/ StepError(w) \/ SendEmail(w)
        PROVE  Single' /\ Follows
    BY <1>4, ReturnIsSingle DEF FetchExisting, StepError, SendEmail, storage, effects
  <1>5. ASSUME NEW w \in Workers, LookUpKey(w) PROVE Single' /\ Follows
    <2>1. /\ UNCHANGED <<payments, published, refunds>> /\ pc[w] = "create"
          /\ pc'[w] \in {"insert", "fetch"}
          /\ \A v \in Workers \ {w} : pc'[v] = pc[v] /\ p'[v] = p[v]
      BY <1>1, <1>5 DEF LookUpKey, Proceed, storage, effects, HandlersOK
    <2>2. OneHandler' /\ pc'[w] \notin Holding
      BY <2>1 DEF Single, OneHandler, Holding
    <2>. QED BY <2>1, <2>2, RestIsSingle
  <1>6. ASSUME NEW w \in Workers, InsertPayment(w) PROVE Single' /\ Follows
    BY <1>6, ReturnIsSingle, InsertIsSingle DEF InsertPayment, Inserts, effects
  <1>7. ASSUME NEW w \in Workers, SaveKey(w) \/ LogEvent(w) PROVE Single' /\ Follows
    BY <1>7, ContinueIsSingle DEF SaveKey, LogEvent, AfterLog, effects
  <1>8. CASE Crash
    <2>1. /\ UNCHANGED <<payments, published, refunds>>
          /\ \A v \in Workers : pc'[v] = "idle"
      BY <1>8 DEF Crash, storage, effects
    <2>2. OneHandler'
      BY <2>1 DEF OneHandler
    <2>. QED BY <1>1, <2>1, <2>2, RestIsSingle
  <1>9. CASE UNCHANGED vars \/ \E k \in Keys : ExpireKey(k)
    <2>1. UNCHANGED <<payments, published, refunds, pc, p>>
      BY <1>9 DEF ExpireKey, vars, storage, effects, control
    <2>2. OneHandler'
      BY <2>1 DEF Single, OneHandler
    <2>. QED BY <2>1, <2>2, RestIsSingle
  <1>. QED BY <1>2, <1>3, <1>4, <1>5, <1>6, <1>7, <1>8, <1>9, ReadIsSingle, ChargeIsSingle,
              UpdateIsSingle, RefundIsSingle, PublishIsSingle DEF Step

SingleInv == alone => Single

LEMMA InitSingle == MCInit => SingleInv
  <1>. SUFFICES ASSUME MCInit PROVE Single
    BY DEF SingleInv
  <1>1. /\ \A w \in Workers : pc[w] = "idle"
        /\ \A i \in PaymentIds : published[i]["succeeded"] = 0 /\ refunds[i] = 0
    BY DEF MCInit, Init, Status
  <1>. QED BY <1>1 DEF Single, OneHandler, Once, InStep, Holding

LEMMA MCStepIsStep ==
  ASSUME [MCNext]_mcVars
  PROVE  [Next]_vars /\ UNCHANGED alone
  BY DEF MCNext, MCCall, MCInternal, mcVars, Next

LEMMA MCStepSingle ==
  ASSUME IInv, SingleInv, alone, [MCNext]_mcVars PROVE Single' /\ Follows
  <1>1. ASSUME NEW w \in Workers, MCCall(w)
        PROVE  \E op \in Operations : \E x : Call(w, op, x) /\ \A v \in Workers : pc[v] = "idle"
    BY <1>1 DEF MCCall, Admitted, Request, Webhook, WebhookOperation, Operations
  <1>. QED BY <1>1, SingleStays DEF SingleInv, MCNext, MCInternal, mcVars

LEMMA SingleInvariance == MCSpec => [](IInv /\ SingleInv)
  <1>1. MCInit => IInv /\ SingleInv
    BY InitIInv, InitSingle DEF MCInit
  <1>2. IInv /\ SingleInv /\ [MCNext]_mcVars => IInv' /\ SingleInv'
    <2>. SUFFICES ASSUME IInv, SingleInv, [MCNext]_mcVars PROVE IInv' /\ SingleInv'
      OBVIOUS
    <2>1. IInv' /\ UNCHANGED alone
      BY MCStepIsStep, StepIInv
    <2>. QED BY <2>1, MCStepSingle DEF SingleInv
  <1>. QED BY <1>1, <1>2, PTL DEF MCSpec

\* Handlers that run one at a time publish the success of a payment once,
\* although Confirm, the provider's webhook and Create's own charge may each
\* report it, and any of them may fail or die half-way.
THEOREM SucceedsOnlyOnce == MCSpec => []AloneSucceedsOnce
  <1>1. IInv /\ SingleInv => AloneSucceedsOnce
    <2>. SUFFICES ASSUME IInv, Single, NEW i \in PaymentIds PROVE published[i]["succeeded"] <= 1
      BY DEF SingleInv, AloneSucceedsOnce, SucceedsOnce
    <2>. QED BY DEF Single, Once
  <1>. QED BY <1>1, SingleInvariance, PTL

\* They move a payment only as its life cycle allows and record one refund of
\* it: what each handler read is still true when it writes.
THEOREM LifecycleIsFollowed == MCSpec => AloneFollowsLifecycle
  <1>1. IInv /\ SingleInv /\ [MCNext]_mcVars => [alone => Follows]_mcVars
    BY MCStepSingle
  <1>. QED BY <1>1, SingleInvariance, PTL DEF MCSpec, AloneFollowsLifecycle, Follows

=============================================================================
