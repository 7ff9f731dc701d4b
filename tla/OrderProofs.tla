----------------------------- MODULE OrderProofs -----------------------------
(***************************************************************************)
(* OrderService for all sets of handlers and orders: the history explains  *)
(* the row, an entry comes from a status the order had, a payment event is *)
(* applied at most once, and only committed changes are announced.         *)
(***************************************************************************)
EXTENDS MCOrderService, FiniteSetTheorems, TLAPS

\* What a status change was made from: nothing, or a status the order had.
FromIsSound(j) ==
    IF j.by = "order created"
    THEN j.from = None
    ELSE \E m \in DOMAIN history[j.order] : history[j.order][m].to = j.from

\* What a running handler has read, and what holds of its order.
Fit(h) ==
    /\ pc[h] # "idle" /\ job[h].by \in Subscribers => job[h].by = h
    /\ pc[h] = "read" => job[h].by # "order created"
    /\ pc[h] \in {"update", "commit"} => FromIsSound(job[h])
    /\ pc[h] = "commit" /\ job[h].by = "order created" => orders[job[h].order] = None

IInv == TypeOK /\ LocksAreInUse /\ HistoryExplainsRow /\ FromWasHeld /\ \A h \in Handlers : Fit(h)

-----------------------------------------------------------------------------
(* The handler that moves, and its locks *)

Moves(h) ==
    /\ pc' \in [Handlers -> Labels]
    /\ job' \in [Handlers -> Jobs \cup {None}]
    /\ pc'[h] = "idle" <=> job'[h] = None
    /\ \A g \in Handlers \ {h} : pc'[g] = pc[g] /\ job'[g] = job[g]

LockFollows(h) ==
    /\ lock' \in [OrderIds -> Handlers \cup {None}]
    /\ \A o \in OrderIds : lock'[o] = h <=> pc'[h] = "commit" /\ job'[h].order = o
    /\ \A o \in OrderIds : \A g \in Handlers \ {h} : lock'[o] = g <=> lock[o] = g

OthersTyped ==
    /\ cache' \in [OrderIds -> Status \cup {None}]
    /\ sent' \in [Subscribers -> [OrderIds -> Nat]]
    /\ inbox' \in [Subscribers -> [OrderIds -> Nat]]
    /\ published' \in [OrderIds -> [Status -> Nat]]

\* A running handler has a job.
LEMMA BusyHasJob ==
    ASSUME TypeOK, NEW h \in Handlers, pc[h] # "idle"
    PROVE  job[h] \in Jobs /\ job[h] # None
  BY DEF TypeOK

\* No step but Commit changes a row or a history.
LEMMA QuietIsSound ==
    ASSUME IInv, NEW h \in Handlers, UNCHANGED <<orders, history>>,
           Moves(h), LockFollows(h), OthersTyped, Fit(h)'
    PROVE  IInv'
  <1>1. TypeOK'
    <2>1. \A g \in Handlers : pc'[g] = "idle" <=> job'[g] = None
      BY DEF IInv, TypeOK, Moves
    <2>. QED BY <2>1 DEF IInv, TypeOK, Moves, LockFollows, OthersTyped
  <1>2. LocksAreInUse'
    <2>1. ASSUME NEW g \in Handlers, NEW o \in OrderIds
          PROVE  lock'[o] = g <=> pc'[g] = "commit" /\ job'[g].order = o
      <3>1. CASE g = h
        BY <3>1 DEF LockFollows
      <3>2. CASE g # h
        BY <3>2 DEF LockFollows, Moves, IInv, LocksAreInUse
      <3>. QED BY <3>1, <3>2
    <2>. QED BY <2>1 DEF LocksAreInUse
  <1>3. HistoryExplainsRow' /\ FromWasHeld'
    BY DEF IInv, HistoryExplainsRow, FromWasHeld
  <1>4. ASSUME NEW g \in Handlers PROVE Fit(g)'
    <2>1. CASE g # h
      <3>1. pc'[g] = pc[g] /\ job'[g] = job[g] /\ Fit(g)
        BY <2>1 DEF Moves, IInv
      <3>. QED BY <3>1 DEF Fit, FromIsSound
    <2>. QED BY <2>1
  <1>. QED BY <1>1, <1>2, <1>3, <1>4 DEF IInv

LEMMA StartMoves ==
    ASSUME TypeOK, LocksAreInUse, NEW h \in Handlers, NEW o \in OrderIds,
           NEW label \in Labels, label \notin {"idle", "commit"},
           NEW by \in Causes, NEW to \in Status, Start(h, label, o, by, to), UNCHANGED lock
    PROVE  /\ Moves(h) /\ LockFollows(h)
           /\ pc[h] = "idle" /\ pc'[h] = label
           /\ job'[h] \in Jobs /\ job'[h].order = o /\ job'[h].by = by /\ job'[h].from = None
  <1> DEFINE j == [order |-> o, to |-> to, by |-> by, from |-> None]
  <1>1. j \in Jobs /\ j.order = o /\ j.by = by /\ j.from = None
    BY DEF Jobs
  <1>2. pc[h] = "idle" /\ pc' = [pc EXCEPT ![h] = label] /\ job' = [job EXCEPT ![h] = j]
    BY DEF Start
  <1>3. j # None
    BY <1>1, NoneIsNothing
  <1> HIDE DEF j
  <1>5. pc'[h] = label /\ job'[h] = j
    BY <1>2 DEF TypeOK
  <1>6. Moves(h)
    BY <1>1, <1>2, <1>3, <1>5 DEF Moves, TypeOK
  <1>7. LockFollows(h)
    BY <1>2, <1>5 DEF LockFollows, LocksAreInUse, TypeOK
  <1>. QED BY <1>1, <1>2, <1>5, <1>6, <1>7

LEMMA GotoMoves ==
    ASSUME TypeOK, NEW h \in Handlers, pc[h] # "idle",
           NEW label \in Labels \ {"idle"}, Goto(h, label)
    PROVE  Moves(h) /\ pc'[h] = label /\ job' = job
  BY DEF Goto, Moves, TypeOK

LEMMA FinishMoves ==
    ASSUME TypeOK, NEW h \in Handlers, Finish(h)
    PROVE  Moves(h) /\ LockFollows(h) /\ pc'[h] = "idle"
  <1>1. Moves(h) /\ pc'[h] = "idle"
    BY DEF Finish, Moves, TypeOK, Labels
  <1>2. h # None
    BY NoneIsNothing DEF Handlers
  <1>3. LockFollows(h)
    <2>1. \A o \in OrderIds : lock'[o] = IF lock[o] = h THEN None ELSE lock[o]
      BY DEF Finish
    <2>2. lock' \in [OrderIds -> Handlers \cup {None}]
      BY DEF Finish, TypeOK
    <2>3. \A g \in Handlers : g # None
      BY NoneIsNothing DEF Handlers
    <2>. QED BY <1>1, <2>1, <2>2, <2>3 DEF LockFollows
  <1>. QED BY <1>1, <1>3

\* A handler that was outside its transaction and stays there
LEMMA LockStays ==
    ASSUME IInv, NEW h \in Handlers, UNCHANGED lock, pc[h] # "commit", pc'[h] # "commit"
    PROVE  LockFollows(h)
  BY DEF IInv, TypeOK, LocksAreInUse, LockFollows

-----------------------------------------------------------------------------
(* Steps that leave rows and histories alone *)

LEMMA FinishIsSound ==
    ASSUME IInv, NEW h \in Handlers, Finish(h), UNCHANGED <<orders, history>>, OthersTyped
    PROVE  IInv'
  <1>1. Moves(h) /\ LockFollows(h) /\ pc'[h] = "idle"
    BY FinishMoves DEF IInv
  <1>2. Fit(h)'
    BY <1>1 DEF Fit
  <1>. QED BY <1>1, <1>2, QuietIsSound

LEMMA GotoIsSound ==
    ASSUME IInv, NEW h \in Handlers, pc[h] \in {"committed", "cache"},
           NEW label \in {"cache", "publish"}, Goto(h, label),
           UNCHANGED <<orders, history, lock>>, OthersTyped
    PROVE  IInv'
  <1>1. Moves(h) /\ pc'[h] = label /\ job' = job
    BY GotoMoves DEF IInv, Labels
  <1>2. LockFollows(h)
    BY <1>1, LockStays
  <1>3. Fit(h)'
    BY <1>1 DEF IInv, Fit
  <1>. QED BY <1>1, <1>2, <1>3, QuietIsSound

LEMMA RequestIsSound ==
    ASSUME IInv, NEW w \in Workers, Request(w)
    PROVE  IInv'
  <1>0. w \in Handlers /\ w \notin Subscribers
    BY NoneIsNothing DEF Handlers
  <1>1. PICK o \in OrderIds, to \in Status, by \in {"order created", "manual", "cancel"},
             label \in {"read", "update"} :
           /\ Start(w, label, o, by, to)
           /\ label = "update" <=> by = "order created"
    BY DEF Request, Create, UpdateStatus, Cancel, Status
  <1>2. UNCHANGED <<tables, cache, events>>
    BY DEF Request, Create, UpdateStatus, Cancel
  <1>3. /\ Moves(w) /\ LockFollows(w)
        /\ pc'[w] = label
        /\ job'[w] \in Jobs /\ job'[w].by = by /\ job'[w].from = None
    <2>1. by \in Causes /\ UNCHANGED lock /\ TypeOK /\ LocksAreInUse
      BY <1>2 DEF IInv, Causes, tables
    <2>2. Start(w, label, o, by, to)
      BY <1>1
    <2>3. label \in Labels /\ label \notin {"idle", "commit"}
      BY DEF Labels
    <2>. QED BY <1>0, <2>1, <2>2, <2>3, StartMoves
  <1>4. by \notin Subscribers
    BY DEF Subscribers
  <1>5. Fit(w)'
    BY <1>1, <1>3, <1>4 DEF Fit, FromIsSound
  <1>6. OthersTyped /\ UNCHANGED <<orders, history>>
    BY <1>2 DEF OthersTyped, IInv, TypeOK, tables, events
  <1>. QED BY <1>0, <1>3, <1>5, <1>6, QuietIsSound

LEMMA ConsumeIsSound ==
    ASSUME IInv, NEW s \in Subscribers, Consume(s)
    PROVE  IInv'
  <1>0. s \in Handlers /\ s \in Causes /\ StatusFor[s] \in Status
    BY DEF Handlers, Causes, StatusFor, Status
  <1>1. PICK o \in OrderIds :
           /\ inbox[s][o] > 0
           /\ inbox' = [inbox EXCEPT ![s][o] = @ - 1]
           /\ Start(s, "read", o, s, StatusFor[s])
    BY DEF Consume
  <1>2. UNCHANGED <<tables, cache, sent, published>>
    BY DEF Consume
  <1>3. /\ Moves(s) /\ LockFollows(s)
        /\ pc'[s] = "read" /\ job'[s] \in Jobs /\ job'[s].by = s
    BY <1>0, <1>1, <1>2, StartMoves DEF IInv, tables, Labels
  <1>4. s # "order created"
    BY DEF Subscribers
  <1>5. Fit(s)'
    BY <1>3, <1>4 DEF Fit
  <1>6. OthersTyped /\ UNCHANGED <<orders, history>>
    BY <1>1, <1>2 DEF OthersTyped, IInv, TypeOK, tables
  <1>. QED BY <1>0, <1>3, <1>5, <1>6, QuietIsSound

LEMMA ReadIsSound ==
    ASSUME IInv, NEW h \in Handlers, Read(h)
    PROVE  IInv'
  <1>1. OthersTyped /\ UNCHANGED <<orders, history>>
    BY DEF Read, OthersTyped, IInv, TypeOK, events
  <1>2. CASE Finish(h)
    BY <1>1, <1>2, FinishIsSound
  <1>3. CASE ~ Finish(h)
    <2>1. job[h] \in Jobs /\ job[h] # None /\ pc[h] = "read"
      BY BusyHasJob DEF IInv, Read
    <2>2. /\ orders[job[h].order] # None
          /\ pc' = [pc EXCEPT ![h] = "update"]
          /\ job' = [job EXCEPT ![h].from = orders[job[h].order]]
          /\ UNCHANGED lock
      BY <1>3 DEF Read
    <2>3. job[h].order \in OrderIds /\ orders[job[h].order] \in Status
      BY <2>1, <2>2 DEF IInv, TypeOK, Jobs
    <2>4. /\ job'[h] \in Jobs
          /\ job'[h].from = orders[job[h].order]
          /\ job'[h].by = job[h].by /\ job'[h].order = job[h].order
      BY <2>1, <2>2, <2>3 DEF IInv, TypeOK, Jobs
    <2>5. job'[h] # None
      BY <2>4, NoneIsNothing
    <2>6. Moves(h) /\ pc'[h] = "update"
      BY <2>2, <2>4, <2>5 DEF Moves, IInv, TypeOK, Labels
    <2>7. LockFollows(h)
      BY <2>1, <2>2, <2>6, LockStays
    <2>8. FromIsSound(job[h])'
      <3>1. history[job[h].order] \in Seq(Entries) /\ history[job[h].order] # <<>>
        BY <2>2, <2>3 DEF IInv, TypeOK, HistoryExplainsRow
      <3>2. /\ Len(history[job[h].order]) \in DOMAIN history[job[h].order]
            /\ history[job[h].order][Len(history[job[h].order])].to = orders[job[h].order]
        BY <2>3, <3>1 DEF IInv, HistoryExplainsRow
      <3>3. job'[h].by # "order created"
        BY <2>1, <2>4 DEF IInv, Fit
      <3>. QED BY <1>1, <2>4, <3>2, <3>3 DEF FromIsSound
    <2>9. Fit(h)'
      BY <2>1, <2>4, <2>6, <2>8 DEF Fit, IInv
    <2>. QED BY <1>1, <2>6, <2>7, <2>9, QuietIsSound
  <1>. QED BY <1>2, <1>3

LEMMA UpdateIsSound ==
    ASSUME IInv, NEW h \in Handlers, Update(h)
    PROVE  IInv'
  <1>1. OthersTyped /\ UNCHANGED <<orders, history>>
    BY DEF Update, OthersTyped, IInv, TypeOK, events
  <1>2. CASE Finish(h)
    BY <1>1, <1>2, FinishIsSound
  <1>3. CASE ~ Finish(h)
    <2>1. /\ pc[h] = "update" /\ lock[job[h].order] = None
          /\ job[h].by = "order created" => orders[job[h].order] = None
          /\ lock' = [lock EXCEPT ![job[h].order] = h]
          /\ Goto(h, "commit")
      BY <1>3 DEF Update
    <2>2. job[h] \in Jobs /\ job[h].order \in OrderIds
      BY <2>1, BusyHasJob DEF IInv, Jobs
    <2>3. Moves(h) /\ pc'[h] = "commit" /\ job' = job
      BY <2>1, GotoMoves DEF IInv, Labels
    <2>4. LockFollows(h)
      <3>1. lock' \in [OrderIds -> Handlers \cup {None}]
        BY <2>1 DEF IInv, TypeOK
      <3>2. \A o \in OrderIds : lock'[o] = IF o = job[h].order THEN h ELSE lock[o]
        BY <2>1 DEF IInv, TypeOK
      <3>3. \A o \in OrderIds : lock[o] # h
        BY <2>1 DEF IInv, LocksAreInUse
      <3>4. None \notin Handlers
        BY NoneIsNothing DEF Handlers
      <3>. QED BY <2>1, <2>2, <2>3, <3>1, <3>2, <3>3, <3>4 DEF LockFollows
    <2>5. Fit(h)'
      BY <1>1, <2>1, <2>3 DEF IInv, Fit, FromIsSound
    <2>. QED BY <1>1, <2>3, <2>4, <2>5, QuietIsSound
  <1>. QED BY <1>2, <1>3

LEMMA AfterCommitIsSound ==
    ASSUME IInv, NEW h \in Handlers, ReturnRow(h) \/ CacheStatus(h) \/ Publish(h) \/ Fail(h)
    PROVE  IInv'
  <1>1. CASE ReturnRow(h)
    <2>1. OthersTyped
      BY <1>1 DEF ReturnRow, OthersTyped, IInv, TypeOK, events
    <2>. QED BY <1>1, <2>1, GotoIsSound DEF ReturnRow, tables
  <1>2. CASE CacheStatus(h)
    <2>1. job[h] \in Jobs
      BY <1>2, BusyHasJob DEF IInv, CacheStatus
    <2>2. OthersTyped
      BY <1>2, <2>1 DEF CacheStatus, OthersTyped, IInv, TypeOK, Jobs, events
    <2>. QED BY <1>2, <2>2, GotoIsSound, FinishIsSound DEF CacheStatus
  <1>3. CASE Publish(h)
    <2>1. job[h] \in Jobs
      BY <1>3, BusyHasJob DEF IInv, Publish
    <2>2. OthersTyped
      <3>1. published' \in [OrderIds -> [Status -> Nat]]
        <4>1. PICK o \in OrderIds, x \in Status : o = job[h].order /\ x = job[h].to
          BY <2>1 DEF Jobs
        <4>2. \/ published' = [published EXCEPT ![o][x] = @ + 1]
              \/ UNCHANGED published
          BY <1>3, <4>1 DEF Publish
        <4>3. CASE published' = [published EXCEPT ![o][x] = @ + 1]
          <5>1. published \in [OrderIds -> [Status -> Nat]]
            BY DEF IInv, TypeOK
          <5>2. [published[o] EXCEPT ![x] = @ + 1] \in [Status -> Nat]
            BY <5>1
          <5>. QED BY <4>3, <5>1, <5>2
        <4>. QED BY <4>2, <4>3 DEF IInv, TypeOK
      <3>. QED BY <1>3, <3>1 DEF Publish, OthersTyped, IInv, TypeOK
    <2>. QED BY <1>3, <2>2, FinishIsSound DEF Publish
  <1>4. CASE Fail(h)
    <2>1. OthersTyped
      BY <1>4 DEF Fail, OthersTyped, IInv, TypeOK, events
    <2>. QED BY <1>4, <2>1, FinishIsSound DEF Fail
  <1>. QED BY <1>1, <1>2, <1>3, <1>4

-----------------------------------------------------------------------------
(* Commit *)

LEMMA AppendedIsLast ==
    ASSUME NEW S, NEW seq \in Seq(S), NEW e \in S
    PROVE  /\ Append(seq, e) \in Seq(S)
           /\ Len(Append(seq, e)) = Len(seq) + 1
           /\ DOMAIN seq = 1 .. Len(seq) /\ Len(seq) \in Nat
           /\ \A n \in 1 .. Len(seq) : Append(seq, e)[n] = seq[n]
           /\ Append(seq, e)[Len(seq) + 1] = e
  OBVIOUS

\* What Commit does, in terms of the order it commits.
LEMMA CommitEffect ==
    ASSUME IInv, NEW h \in Handlers, Commit(h)
    PROVE  \E o \in OrderIds, e \in Entries :
              /\ o = job[h].order /\ e = Entry(job[h]) /\ pc[h] = "commit" /\ lock[o] = h
              /\ orders'  = [orders EXCEPT ![o] = e.to]
              /\ history' = [history EXCEPT ![o] = Append(@, e)]
              /\ lock'    = [lock EXCEPT ![o] = None]
              /\ e.from = job[h].from /\ e.to = job[h].to /\ e.by = job[h].by
  <1>1. pc[h] = "commit" /\ job[h] \in Jobs
    BY BusyHasJob DEF Commit, IInv
  <1> DEFINE e == Entry(job[h])
             o == job[h].order
  <1>2. /\ e \in Entries /\ o \in OrderIds
        /\ e.from = job[h].from /\ e.to = job[h].to /\ e.by = job[h].by
    BY <1>1 DEF Jobs, Entry, Entries
  <1>3. lock[o] = h
    BY <1>1, <1>2 DEF IInv, LocksAreInUse
  <1>4. /\ orders'  = [orders EXCEPT ![o] = e.to]
        /\ history' = [history EXCEPT ![o] = Append(@, e)]
        /\ lock'    = [lock EXCEPT ![o] = None]
    BY <1>2 DEF Commit
  <1> HIDE DEF e, o
  <1>5. e = Entry(job[h]) /\ o = job[h].order
    BY DEF e, o
  <1>. QED BY <1>1, <1>2, <1>3, <1>4, <1>5

LEMMA CommitIsSound ==
    ASSUME IInv, NEW h \in Handlers, Commit(h)
    PROVE  IInv'
  <1>1. PICK o \in OrderIds, e \in Entries :
           /\ o = job[h].order /\ pc[h] = "commit" /\ lock[o] = h
           /\ orders'  = [orders EXCEPT ![o] = e.to]
           /\ history' = [history EXCEPT ![o] = Append(@, e)]
           /\ lock'    = [lock EXCEPT ![o] = None]
           /\ e.from = job[h].from /\ e.to = job[h].to /\ e.by = job[h].by
    BY CommitEffect
  <1>2. Moves(h) /\ pc'[h] = "committed" /\ job' = job
    BY <1>1, GotoMoves DEF IInv, Commit, Labels
  <1> DEFINE old == history[o]
             new == history'[o]
  <1>3. /\ old \in Seq(Entries) /\ Len(old) \in Nat
        /\ new \in Seq(Entries) /\ Len(new) = Len(old) + 1
        /\ DOMAIN old = 1 .. Len(old) /\ DOMAIN new = 1 .. Len(old) + 1
        /\ \A n \in 1 .. Len(old) : new[n] = old[n]
        /\ new[Len(old) + 1] = e
    <2>1. old \in Seq(Entries) /\ new = Append(old, e)
      BY <1>1 DEF IInv, TypeOK
    <2>. HIDE DEF old, new
    <2>. QED BY <2>1, AppendedIsLast
  <1>4. /\ orders'[o] = e.to /\ e.to \in Status
        /\ \A p \in OrderIds \ {o} : orders'[p] = orders[p] /\ history'[p] = history[p]
    BY <1>1 DEF IInv, TypeOK, Entries
  <1>5. TypeOK'
    <2>1. orders' \in [OrderIds -> Status \cup {None}] /\ lock' \in [OrderIds -> Handlers \cup {None}]
      BY <1>1, <1>4 DEF IInv, TypeOK
    <2>2. history' \in [OrderIds -> Seq(Entries)]
      BY <1>1, <1>3 DEF IInv, TypeOK
    <2>3. UNCHANGED <<cache, sent, inbox, published>>
      BY DEF Commit, events
    <2>4. \A g \in Handlers : pc'[g] = "idle" <=> job'[g] = None
      BY <1>2 DEF Moves, IInv, TypeOK
    <2>. QED BY <1>2, <2>1, <2>2, <2>3, <2>4 DEF Moves, IInv, TypeOK
  <1>6. LocksAreInUse'
    <2>1. None \notin Handlers
      BY NoneIsNothing DEF Handlers
    <2>2. ASSUME NEW g \in Handlers, NEW p \in OrderIds
          PROVE  lock'[p] = g <=> pc'[g] = "commit" /\ job'[g].order = p
      <3>1. lock'[p] = IF p = o THEN None ELSE lock[p]
        BY <1>1 DEF IInv, TypeOK
      <3>2. lock[p] = g <=> pc[g] = "commit" /\ job[g].order = p
        BY DEF IInv, LocksAreInUse
      <3>. QED BY <1>1, <1>2, <2>1, <3>1, <3>2 DEF Moves
    <2>. QED BY <2>2 DEF LocksAreInUse
  <1>7. HistoryExplainsRow'
    <2>1. ASSUME NEW p \in OrderIds
          PROVE  orders'[p] = IF history'[p] = <<>> THEN None ELSE history'[p][Len(history'[p])].to
      <3>1. CASE p = o
        <4>1. new # <<>>
          BY <1>3
        <4>. QED BY <1>3, <1>4, <3>1, <4>1
      <3>2. CASE p # o
        BY <1>4, <3>2 DEF IInv, HistoryExplainsRow
      <3>. QED BY <3>1, <3>2
    <2>. QED BY <2>1 DEF HistoryExplainsRow
  <1>8. IF Len(old) = 0
        THEN e.from = None /\ e.by = "order created"
        ELSE \E m \in 1 .. Len(old) : old[m].to = e.from
    <2>1. Fit(h) /\ FromIsSound(job[h])
      BY <1>1 DEF IInv, Fit
    <2>2. CASE e.by = "order created"
      <3>1. orders[o] = None /\ e.from = None
        BY <1>1, <2>1, <2>2 DEF Fit, FromIsSound
      <3>2. Len(old) = 0
        <4>1. SUFFICES ASSUME Len(old) # 0 PROVE FALSE
          OBVIOUS
        <4>2. old # <<>> /\ old[Len(old)] \in Entries
          BY <1>3, <4>1
        <4>3. orders[o] = old[Len(old)].to
          BY <4>2 DEF IInv, HistoryExplainsRow
        <4>4. orders[o] \in Status
          BY <4>2, <4>3 DEF Entries
        <4>. QED BY <3>1, <4>4, NoneIsNothing
      <3>. QED BY <2>2, <3>1, <3>2
    <2>3. CASE e.by # "order created"
      <3>1. PICK m \in DOMAIN old : old[m].to = e.from
        BY <1>1, <2>1, <2>3 DEF FromIsSound
      <3>2. m \in 1 .. Len(old) /\ Len(old) # 0
        BY <1>3, <3>1
      <3>. QED BY <3>1, <3>2
    <2>. QED BY <2>2, <2>3
  <1>9. FromWasHeld'
    <2>1. ASSUME NEW p \in OrderIds, NEW n \in DOMAIN history'[p]
          PROVE  IF n = 1
                 THEN history'[p][n].from = None /\ history'[p][n].by = "order created"
                 ELSE \E m \in 1 .. n - 1 : history'[p][m].to = history'[p][n].from
      <3>1. CASE p # o
        <4>1. history'[p] = history[p]
          BY <1>4, <3>1
        <4>2. IF n = 1
              THEN history[p][n].from = None /\ history[p][n].by = "order created"
              ELSE \E m \in 1 .. n - 1 : history[p][m].to = history[p][n].from
          BY <4>1 DEF IInv, FromWasHeld
        <4>. QED BY <4>1, <4>2
      <3>2. CASE p = o /\ n \in 1 .. Len(old)
        <4>1. IF n = 1
              THEN old[n].from = None /\ old[n].by = "order created"
              ELSE \E m \in 1 .. n - 1 : old[m].to = old[n].from
          BY <1>3, <3>2 DEF IInv, FromWasHeld
        <4>2. \A m \in 1 .. n - 1 : m \in 1 .. Len(old)
          BY <1>3, <3>2
        <4>. HIDE DEF old, new
        <4>3. new[n] = old[n] /\ \A m \in 1 .. n - 1 : new[m] = old[m]
          BY <1>3, <3>2, <4>2
        <4>4. IF n = 1
              THEN new[n].from = None /\ new[n].by = "order created"
              ELSE \E m \in 1 .. n - 1 : new[m].to = new[n].from
          BY <4>1, <4>3
        <4>. QED BY <3>2, <4>4 DEF new
      <3>3. CASE p = o /\ n = Len(old) + 1
        <4>. HIDE DEF old, new
        <4>1. new[n] = e /\ (n = 1 <=> Len(old) = 0) /\ n - 1 = Len(old)
          BY <1>3, <3>3
        <4>2. IF n = 1
              THEN new[n].from = None /\ new[n].by = "order created"
              ELSE \E m \in 1 .. n - 1 : new[m].to = new[n].from
          BY <1>3, <1>8, <4>1
        <4>. QED BY <3>3, <4>2 DEF new
      <3>4. p = o => n \in 1 .. Len(old) \/ n = Len(old) + 1
        BY <1>3
      <3>. QED BY <3>1, <3>2, <3>3, <3>4
    <2>. QED BY <2>1 DEF FromWasHeld
  <1>10. ASSUME NEW g \in Handlers PROVE Fit(g)'
    <2>1. CASE g = h
      BY <1>1, <1>2, <2>1 DEF Fit, IInv
    <2>2. CASE g # h
      <3>1. pc'[g] = pc[g] /\ job'[g] = job[g] /\ Fit(g)
        BY <1>2, <2>2 DEF Moves, IInv
      <3>2. CASE pc[g] \in {"update", "commit"}
        <4>1. job[g] \in Jobs /\ job[g].order \in OrderIds
          BY <3>2, BusyHasJob DEF IInv, Jobs
        <4>2. \A m \in DOMAIN history[job[g].order] :
                 /\ m \in DOMAIN history'[job[g].order]
                 /\ history'[job[g].order][m] = history[job[g].order][m]
          BY <1>3, <1>4, <4>1
        <4>3. FromIsSound(job[g])'
          BY <3>1, <3>2, <4>2 DEF Fit, FromIsSound
        <4>4. pc[g] = "commit" => job[g].order # o
          BY <1>1, <2>2, <4>1 DEF IInv, LocksAreInUse
        <4>. QED BY <1>4, <3>1, <3>2, <4>1, <4>3, <4>4 DEF Fit
      <3>3. CASE pc[g] \notin {"update", "commit"}
        BY <3>1, <3>3 DEF Fit
      <3>. QED BY <3>2, <3>3
    <2>. QED BY <2>1, <2>2
  <1>. QED BY <1>5, <1>6, <1>7, <1>9, <1>10 DEF IInv

-----------------------------------------------------------------------------
(* Failures and the outside world *)

LEMMA CrashIsSound ==
    ASSUME IInv, Crash
    PROVE  IInv'
  <1>1. TypeOK'
    BY DEF Crash, IInv, TypeOK, Labels
  <1>2. LocksAreInUse'
    BY NoneIsNothing DEF Crash, LocksAreInUse, Handlers
  <1>3. HistoryExplainsRow' /\ FromWasHeld'
    BY DEF Crash, IInv, HistoryExplainsRow, FromWasHeld
  <1>4. \A g \in Handlers : Fit(g)'
    BY DEF Crash, Fit
  <1>. QED BY <1>1, <1>2, <1>3, <1>4 DEF IInv

LEMMA AloneIsSound ==
    ASSUME IInv, UNCHANGED <<tables, pc, job>>, OthersTyped
    PROVE  IInv'
  <1>1. TypeOK' /\ LocksAreInUse' /\ HistoryExplainsRow' /\ FromWasHeld'
    <2>0. UNCHANGED <<orders, history, lock>>
      BY DEF tables
    <2>1. TypeOK'
      BY <2>0 DEF IInv, TypeOK, OthersTyped
    <2>2. LocksAreInUse'
      BY <2>0 DEF IInv, LocksAreInUse
    <2>3. HistoryExplainsRow' /\ FromWasHeld'
      BY <2>0 DEF IInv, HistoryExplainsRow, FromWasHeld
    <2>. QED BY <2>1, <2>2, <2>3
  <1>2. \A g \in Handlers : Fit(g)'
    BY DEF IInv, Fit, FromIsSound, tables
  <1>. QED BY <1>1, <1>2 DEF IInv

\* The events that come, are lost, and the cached statuses that expire
Outside ==
    \/ \E s \in Subscribers, o \in OrderIds : PaymentEvent(s, o) \/ Lose(s, o)
    \/ \E o \in OrderIds : ExpireStatus(o)

LEMMA OutsideIsSound ==
    ASSUME IInv, Outside
    PROVE  IInv'
  <1>1. UNCHANGED <<tables, pc, job>>
    BY DEF Outside, PaymentEvent, Lose, ExpireStatus
  <1>2. OthersTyped
    <2>1. ASSUME NEW s \in Subscribers, NEW o \in OrderIds, PaymentEvent(s, o) PROVE OthersTyped
      BY <2>1 DEF PaymentEvent, OthersTyped, IInv, TypeOK
    <2>2. ASSUME NEW s \in Subscribers, NEW o \in OrderIds, Lose(s, o) PROVE OthersTyped
      BY <2>2 DEF Lose, OthersTyped, IInv, TypeOK
    <2>3. ASSUME NEW o \in OrderIds, ExpireStatus(o) PROVE OthersTyped
      BY <2>3 DEF ExpireStatus, OthersTyped, IInv, TypeOK, events
    <2>. QED BY <2>1, <2>2, <2>3 DEF Outside
  <1>. QED BY <1>1, <1>2, AloneIsSound

LEMMA InitIsSound == Init => IInv
  <1> SUFFICES ASSUME Init PROVE IInv
    OBVIOUS
  <1>1. TypeOK
    BY DEF Init, TypeOK, Labels
  <1>2. LocksAreInUse
    BY NoneIsNothing DEF Init, LocksAreInUse, Handlers
  <1>3. HistoryExplainsRow /\ FromWasHeld
    BY DEF Init, HistoryExplainsRow, FromWasHeld
  <1>4. \A g \in Handlers : Fit(g)
    BY DEF Init, Fit
  <1>. QED BY <1>1, <1>2, <1>3, <1>4 DEF IInv

\* The ways the service moves.
LEMMA NextSplits ==
    ASSUME [Next]_vars
    PROVE  \/ \E w \in Workers : Request(w)
           \/ \E s \in Subscribers : Consume(s)
           \/ \E h \in Handlers : Commit(h)
           \/ \E h \in Handlers : \/ Read(h) \/ Update(h) \/ ReturnRow(h) \/ CacheStatus(h)
                                  \/ Publish(h) \/ Fail(h)
           \/ Crash \/ Outside \/ UNCHANGED vars
  BY DEF Next, Internal, Step, Outside

LEMMA StepIsSound == IInv /\ [Next]_vars => IInv'
  <1> SUFFICES ASSUME IInv, [Next]_vars PROVE IInv'
    OBVIOUS
  <1>1. CASE \/ \E w \in Workers : Request(w)
             \/ \E s \in Subscribers : Consume(s)
    BY <1>1, RequestIsSound, ConsumeIsSound
  <1>2. CASE \E h \in Handlers : Commit(h)
    BY <1>2, CommitIsSound
  <1>3. CASE \E h \in Handlers : \/ Read(h) \/ Update(h) \/ ReturnRow(h) \/ CacheStatus(h)
                                \/ Publish(h) \/ Fail(h)
    BY <1>3, ReadIsSound, UpdateIsSound, AfterCommitIsSound
  <1>4. CASE Crash \/ Outside
    BY <1>4, CrashIsSound, OutsideIsSound
  <1>5. CASE UNCHANGED vars
    <2>1. UNCHANGED <<tables, pc, job>> /\ OthersTyped
      BY <1>5 DEF vars, events, OthersTyped, IInv, TypeOK
    <2>. QED BY <2>1, AloneIsSound
  <1>. QED BY <1>1, <1>2, <1>3, <1>4, <1>5, NextSplits

\* The invariant the theorems below rest on.
THEOREM OrderIsSound == Spec => []IInv
  BY InitIsSound, StepIsSound, PTL DEF Spec

\* Every variable keeps its type: rows, histories, locks, cached statuses,
\* counts of messages and handlers.
THEOREM TypeCorrect == Spec => []TypeOK
  BY OrderIsSound, PTL DEF IInv

\* Nobody holds a row but the handler whose transaction is open on it.
THEOREM LocksAreHeldByTransactions == Spec => []LocksAreInUse
  BY OrderIsSound, PTL DEF IInv

\* The history of an order always accounts for its row.
THEOREM AuditTrailIsComplete == Spec => []HistoryExplainsRow
  BY OrderIsSound, PTL DEF IInv

\* No entry of a history comes from a status the order never had.
THEOREM AuditTrailIsConnected == Spec => []FromWasHeld
  BY OrderIsSound, PTL DEF IInv

-----------------------------------------------------------------------------
(* Payment events *)

Deciding  == {"read", "update", "commit"}
Reporting == {"committed", "cache", "publish"}

\* Whether the subscription s is about to apply an event to o.
Due(s, o) == IF pc[s] \in Deciding /\ job[s].order = o THEN 1 ELSE 0

\* An event is waiting, being applied, applied, or gone: never two of them.
Deliveries ==
    \A s \in Subscribers, o \in OrderIds :
        Cardinality(EntriesBy(o, s)) + inbox[s][o] + Due(s, o) <= sent[s][o]

LEMMA EntriesAreFinite ==
    ASSUME IInv, NEW o \in OrderIds, NEW by, NEW to
    PROVE  /\ IsFiniteSet(EntriesBy(o, by)) /\ Cardinality(EntriesBy(o, by)) \in Nat
           /\ IsFiniteSet(EntriesTo(o, to)) /\ Cardinality(EntriesTo(o, to)) \in Nat
  <1>1. DOMAIN history[o] = 1 .. Len(history[o]) /\ Len(history[o]) \in Nat
    BY DEF IInv, TypeOK
  <1>2. IsFiniteSet(DOMAIN history[o])
    <2>1. IsFiniteSet(1 .. Len(history[o]))
      BY <1>1, FS_Interval
    <2>. QED BY <1>1, <2>1
  <1>3. EntriesBy(o, by) \subseteq DOMAIN history[o] /\ EntriesTo(o, to) \subseteq DOMAIN history[o]
    BY DEF EntriesBy, EntriesTo
  <1>. QED BY <1>2, <1>3, FS_Subset, FS_CardinalityType

\* The numbers of entries after a commit
LEMMA CommitAddsOne ==
    ASSUME IInv, NEW h \in Handlers, Commit(h), NEW p \in OrderIds, NEW by, NEW to
    PROVE  /\ job[h].order \in OrderIds
           /\ Cardinality(EntriesBy(p, by))' =
                Cardinality(EntriesBy(p, by)) + IF p = job[h].order /\ by = job[h].by THEN 1 ELSE 0
           /\ Cardinality(EntriesTo(p, to))' =
                Cardinality(EntriesTo(p, to)) + IF p = job[h].order /\ to = job[h].to THEN 1 ELSE 0
  <1>1. PICK o \in OrderIds, e \in Entries :
           /\ o = job[h].order
           /\ history' = [history EXCEPT ![o] = Append(@, e)]
           /\ e.to = job[h].to /\ e.by = job[h].by
    BY CommitEffect
  <1>2. /\ IsFiniteSet(EntriesBy(p, by)) /\ Cardinality(EntriesBy(p, by)) \in Nat
        /\ IsFiniteSet(EntriesTo(p, to)) /\ Cardinality(EntriesTo(p, to)) \in Nat
    BY EntriesAreFinite
  <1>3. CASE p # o
    <2>1. history'[p] = history[p]
      BY <1>1, <1>3 DEF IInv, TypeOK
    <2>2. EntriesBy(p, by)' = EntriesBy(p, by) /\ EntriesTo(p, to)' = EntriesTo(p, to)
      BY <2>1 DEF EntriesBy, EntriesTo
    <2>. QED BY <1>1, <1>2, <1>3, <2>2
  <1>4. CASE p = o
    <2> DEFINE n == Len(history[o]) + 1
    <2>1. history[o] \in Seq(Entries) /\ history'[o] = Append(history[o], e)
      BY <1>1 DEF IInv, TypeOK
    <2>2. /\ DOMAIN history[o] = 1 .. Len(history[o]) /\ Len(history[o]) \in Nat
          /\ DOMAIN history'[o] = 1 .. n
          /\ \A k \in 1 .. Len(history[o]) : history'[o][k] = history[o][k]
          /\ history'[o][n] = e
      BY <2>1, AppendedIsLast
    <2>3. n \notin EntriesBy(o, by) /\ n \notin EntriesTo(o, to)
      BY <2>2 DEF EntriesBy, EntriesTo
    <2>4. EntriesBy(o, by)' = IF by = e.by THEN EntriesBy(o, by) \cup {n} ELSE EntriesBy(o, by)
      BY <2>2 DEF EntriesBy
    <2>5. EntriesTo(o, to)' = IF to = e.to THEN EntriesTo(o, to) \cup {n} ELSE EntriesTo(o, to)
      BY <2>2 DEF EntriesTo
    <2> HIDE DEF n
    <2>6. /\ Cardinality(EntriesBy(o, by) \cup {n}) = Cardinality(EntriesBy(o, by)) + 1
          /\ Cardinality(EntriesTo(o, to) \cup {n}) = Cardinality(EntriesTo(o, to)) + 1
      BY <1>2, <1>4, <2>3, FS_AddElement
    <2>. QED BY <1>1, <1>2, <1>4, <2>4, <2>5, <2>6
  <1>. QED BY <1>1, <1>3, <1>4

\* What the steps have in common that neither commit nor take a message: a
\* subscription does not begin to decide and nobody begins to report.
Calm ==
    /\ UNCHANGED <<history, inbox, sent>>
    /\ \A s \in Subscribers : pc'[s] \in Deciding =>
          pc[s] \in Deciding /\ job'[s].order = job[s].order
    /\ \A g \in Handlers : pc'[g] \in Reporting =>
          pc[g] \in Reporting /\ job'[g].order = job[g].order /\ job'[g].to = job[g].to

LEMMA RequestIsCalm ==
    ASSUME IInv, NEW w \in Workers, Request(w)
    PROVE  Calm /\ UNCHANGED published
  <1>1. UNCHANGED <<history, inbox, sent, published>>
    BY DEF Request, Create, UpdateStatus, Cancel, tables, events
  <1>2. w \in Handlers /\ w \notin Subscribers /\ pc \in [Handlers -> Labels]
    BY NoneIsNothing DEF Handlers, IInv, TypeOK
  <1>3. /\ \A g \in Handlers \ {w} : pc'[g] = pc[g] /\ job'[g] = job[g]
        /\ pc'[w] \in {"read", "update"}
    BY <1>2 DEF Request, Create, UpdateStatus, Cancel, Start, IInv, TypeOK
  <1>4. Subscribers \subseteq Handlers
    BY DEF Handlers
  <1>. QED BY <1>1, <1>2, <1>3, <1>4 DEF Calm, Reporting

LEMMA StepIsCalm ==
    ASSUME IInv, NEW h \in Handlers,
           Read(h) \/ Update(h) \/ ReturnRow(h) \/ CacheStatus(h) \/ Publish(h) \/ Fail(h)
    PROVE  Calm
  <1>1. UNCHANGED <<history, inbox, sent>>
    BY DEF Read, Update, ReturnRow, CacheStatus, Publish, Fail, tables, events
  <1>2. /\ \A g \in Handlers \ {h} : pc'[g] = pc[g] /\ job'[g] = job[g]
        /\ \/ pc'[h] = "idle"
           \/ pc[h] \in Deciding /\ pc'[h] \in Deciding /\ job'[h].order = job[h].order
           \/ pc[h] \in Reporting /\ pc'[h] \in Reporting /\ job'[h] = job[h]
    <2>1. CASE Finish(h)
      BY <2>1 DEF Finish, IInv, TypeOK
    <2>2. CASE \E label \in Labels : Goto(h, label) /\ \/ pc[h] = "update" /\ label = "commit"
                                                       \/ pc[h] \in Reporting /\ label \in Reporting
      BY <2>2 DEF Goto, IInv, TypeOK, Deciding
    <2>3. CASE Read(h) /\ ~ Finish(h)
      <3>1. job[h] \in Jobs /\ pc[h] = "read"
        BY <2>3, BusyHasJob DEF IInv, Read
      <3>2. /\ pc' = [pc EXCEPT ![h] = "update"]
            /\ job' = [job EXCEPT ![h].from = orders[job[h].order]]
        BY <2>3 DEF Read
      <3>. QED BY <3>1, <3>2 DEF IInv, TypeOK, Jobs, Deciding
    <2>. QED BY <2>1, <2>2, <2>3 DEF Update, ReturnRow, CacheStatus, Publish, Fail,
                                     Labels, Reporting
  <1>3. Subscribers \subseteq Handlers /\ "idle" \notin Deciding \cup Reporting
        /\ Deciding \cap Reporting = {}
    BY DEF Handlers, Deciding, Reporting
  <1>. QED BY <1>1, <1>2, <1>3 DEF Calm

LEMMA CalmKeepsDeliveries ==
    ASSUME IInv, Deliveries, Calm
    PROVE  Deliveries'
  <1>1. ASSUME NEW s \in Subscribers, NEW o \in OrderIds
        PROVE  (Cardinality(EntriesBy(o, s)) + inbox[s][o] + Due(s, o) <= sent[s][o])'
    <2>1. EntriesBy(o, s)' = EntriesBy(o, s) /\ inbox'[s][o] = inbox[s][o] /\ sent'[s][o] = sent[s][o]
      BY DEF Calm, EntriesBy
    <2>2. Due(s, o)' \in {0, 1} /\ Due(s, o) \in {0, 1} /\ Due(s, o)' <= Due(s, o)
      BY DEF Calm, Due
    <2>3. Cardinality(EntriesBy(o, s)) + inbox[s][o] + Due(s, o) <= sent[s][o]
      BY DEF Deliveries
    <2>4. Cardinality(EntriesBy(o, s)) \in Nat /\ inbox[s][o] \in Nat /\ sent[s][o] \in Nat
      BY EntriesAreFinite DEF IInv, TypeOK
    <2>. QED BY <2>1, <2>2, <2>3, <2>4
  <1>. QED BY <1>1 DEF Deliveries

LEMMA ConsumeKeepsDeliveries ==
    ASSUME IInv, Deliveries, NEW t \in Subscribers, Consume(t)
    PROVE  Deliveries'
  <1>1. PICK p \in OrderIds :
           /\ inbox[t][p] > 0
           /\ inbox' = [inbox EXCEPT ![t][p] = @ - 1]
           /\ Start(t, "read", p, t, StatusFor[t])
    BY DEF Consume
  <1>2. UNCHANGED <<history, sent>> /\ Subscribers \subseteq Handlers
    BY DEF Consume, tables, Handlers
  <1>3. /\ pc[t] = "idle" /\ pc'[t] = "read" /\ job'[t].order = p
        /\ \A g \in Handlers \ {t} : pc'[g] = pc[g] /\ job'[g] = job[g]
    BY <1>1, <1>2 DEF Start, IInv, TypeOK
  <1>4. ASSUME NEW s \in Subscribers, NEW o \in OrderIds
        PROVE  (Cardinality(EntriesBy(o, s)) + inbox[s][o] + Due(s, o) <= sent[s][o])'
    <2>1. EntriesBy(o, s)' = EntriesBy(o, s) /\ sent'[s][o] = sent[s][o]
      BY <1>2 DEF EntriesBy
    <2>2. inbox'[s][o] = IF s = t /\ o = p THEN inbox[s][o] - 1 ELSE inbox[s][o]
      BY <1>1 DEF IInv, TypeOK
    <2>3. Due(s, o)' = IF s = t /\ o = p THEN 1 ELSE Due(s, o)
      BY <1>2, <1>3 DEF Due, Deciding
    <2>4. Due(s, o) = 0 \/ ~ (s = t /\ o = p)
      BY <1>3 DEF Due, Deciding
    <2>5. Due(s, o) \in {0, 1}
      BY DEF Due
    <2>6. Cardinality(EntriesBy(o, s)) + inbox[s][o] + Due(s, o) <= sent[s][o]
      BY DEF Deliveries
    <2>7. Cardinality(EntriesBy(o, s)) \in Nat /\ inbox[s][o] \in Nat /\ sent[s][o] \in Nat
      BY EntriesAreFinite DEF IInv, TypeOK
    <2>. QED BY <2>1, <2>2, <2>3, <2>4, <2>5, <2>6, <2>7
  <1>. QED BY <1>4 DEF Deliveries

LEMMA CommitMoves ==
    ASSUME IInv, NEW h \in Handlers, Commit(h)
    PROVE  /\ UNCHANGED <<inbox, sent, published>>
           /\ pc[h] = "commit" /\ pc'[h] = "committed" /\ job' = job
           /\ \A g \in Handlers \ {h} : pc'[g] = pc[g]
  BY DEF Commit, Goto, IInv, TypeOK, events

LEMMA CommitKeepsDeliveries ==
    ASSUME IInv, Deliveries, NEW h \in Handlers, Commit(h)
    PROVE  Deliveries'
  <1>1. /\ UNCHANGED <<inbox, sent>>
        /\ pc[h] = "commit" /\ pc'[h] = "committed" /\ job' = job
        /\ \A g \in Handlers \ {h} : pc'[g] = pc[g]
    BY CommitMoves
  <1>2. Subscribers \subseteq Handlers
    BY DEF Handlers
  <1>3. job[h].by \in Subscribers => job[h].by = h
    BY <1>1 DEF IInv, Fit
  <1>4. ASSUME NEW s \in Subscribers, NEW o \in OrderIds
        PROVE  (Cardinality(EntriesBy(o, s)) + inbox[s][o] + Due(s, o) <= sent[s][o])'
    <2>1. Cardinality(EntriesBy(o, s))' =
             Cardinality(EntriesBy(o, s)) + IF o = job[h].order /\ s = job[h].by THEN 1 ELSE 0
      BY CommitAddsOne
    <2>2. Due(s, o)' = IF s = h THEN 0 ELSE Due(s, o)
      BY <1>1, <1>2 DEF Due, Deciding
    <2>3. s = job[h].by /\ o = job[h].order => s = h /\ Due(s, o) = 1
      BY <1>1, <1>3 DEF Due, Deciding
    <2>4. Due(s, o) \in {0, 1}
      BY DEF Due
    <2>5. Cardinality(EntriesBy(o, s)) + inbox[s][o] + Due(s, o) <= sent[s][o]
      BY DEF Deliveries
    <2>6. Cardinality(EntriesBy(o, s)) \in Nat /\ inbox[s][o] \in Nat /\ sent[s][o] \in Nat
      BY EntriesAreFinite DEF IInv, TypeOK
    <2>. QED BY <1>1, <2>1, <2>2, <2>3, <2>4, <2>5, <2>6
  <1>. QED BY <1>4 DEF Deliveries

LEMMA RestKeepsDeliveries ==
    ASSUME IInv, Deliveries, Crash \/ Outside \/ UNCHANGED vars
    PROVE  Deliveries'
  <1>1. UNCHANGED history /\ "idle" \notin Deciding /\ Subscribers \subseteq Handlers
    BY DEF Crash, Outside, PaymentEvent, Lose, ExpireStatus, vars, tables, Deciding, Handlers
  <1>2. ASSUME NEW s \in Subscribers, NEW o \in OrderIds
        PROVE  (Cardinality(EntriesBy(o, s)) + inbox[s][o] + Due(s, o) <= sent[s][o])'
    <2>1. EntriesBy(o, s)' = EntriesBy(o, s)
      BY <1>1 DEF EntriesBy
    <2>2. Cardinality(EntriesBy(o, s)) + inbox[s][o] + Due(s, o) <= sent[s][o]
      BY DEF Deliveries
    <2>3. /\ Cardinality(EntriesBy(o, s)) \in Nat /\ inbox[s][o] \in Nat /\ sent[s][o] \in Nat
          /\ inbox \in [Subscribers -> [OrderIds -> Nat]]
          /\ sent \in [Subscribers -> [OrderIds -> Nat]]
      BY EntriesAreFinite DEF IInv, TypeOK
    <2>4. Due(s, o) \in {0, 1}
      BY DEF Due
    <2>5. CASE Crash
      <3>1. Due(s, o)' = 0 /\ inbox'[s][o] = 0 /\ sent' = sent
        BY <1>1, <2>5 DEF Crash, Due
      <3>. QED BY <2>1, <2>2, <2>3, <2>4, <3>1
    <2>6. CASE Outside \/ UNCHANGED vars
      <3>1. Due(s, o)' = Due(s, o)
        BY <2>6 DEF Outside, PaymentEvent, Lose, ExpireStatus, vars, Due
      <3> DEFINE NoneForged == /\ inbox'[s][o] - inbox[s][o] <= sent'[s][o] - sent[s][o]
                               /\ inbox'[s][o] \in Nat /\ sent'[s][o] \in Nat
      <3>2. NoneForged
        <4>1. ASSUME NEW t \in Subscribers, NEW p \in OrderIds, PaymentEvent(t, p)
              PROVE  NoneForged
          BY <2>3, <4>1 DEF PaymentEvent
        <4>2. ASSUME NEW t \in Subscribers, NEW p \in OrderIds, Lose(t, p)
              PROVE  NoneForged
          BY <2>3, <4>2 DEF Lose
        <4>3. CASE \/ \E p \in OrderIds : ExpireStatus(p)
                   \/ UNCHANGED vars
          BY <2>3, <4>3 DEF ExpireStatus, vars, events
        <4>. QED BY <2>6, <4>1, <4>2, <4>3 DEF Outside
      <3>. QED BY <2>1, <2>2, <2>3, <2>4, <3>1, <3>2
    <2>. QED BY <2>5, <2>6
  <1>. QED BY <1>2 DEF Deliveries

LEMMA InitDelivers == Init => Deliveries
  <1> SUFFICES ASSUME Init, NEW s \in Subscribers, NEW o \in OrderIds
               PROVE  Cardinality(EntriesBy(o, s)) + inbox[s][o] + Due(s, o) <= sent[s][o]
    BY DEF Deliveries
  <1>1. EntriesBy(o, s) = {}
    BY DEF Init, EntriesBy
  <1>2. Cardinality(EntriesBy(o, s)) = 0
    BY <1>1, FS_EmptySet
  <1>3. inbox[s][o] = 0 /\ sent[s][o] = 0
    BY DEF Init
  <1>4. Due(s, o) = 0
    BY DEF Init, Due, Deciding, Handlers
  <1>. QED BY <1>2, <1>3, <1>4

LEMMA StepDelivers == IInv /\ Deliveries /\ [Next]_vars => Deliveries'
  <1> SUFFICES ASSUME IInv, Deliveries, [Next]_vars PROVE Deliveries'
    OBVIOUS
  <1>1. CASE \E w \in Workers : Request(w)
    BY <1>1, RequestIsCalm, CalmKeepsDeliveries
  <1>2. CASE \E s \in Subscribers : Consume(s)
    BY <1>2, ConsumeKeepsDeliveries
  <1>3. CASE \E h \in Handlers : Commit(h)
    BY <1>3, CommitKeepsDeliveries
  <1>4. CASE \E h \in Handlers : \/ Read(h) \/ Update(h) \/ ReturnRow(h) \/ CacheStatus(h)
                                \/ Publish(h) \/ Fail(h)
    BY <1>4, StepIsCalm, CalmKeepsDeliveries
  <1>5. CASE Crash \/ Outside \/ UNCHANGED vars
    BY <1>5, RestKeepsDeliveries
  <1>. QED BY <1>1, <1>2, <1>3, <1>4, <1>5, NextSplits

\* A payment event changes its order at most once, whatever is lost, fails,
\* dies or overlaps.
THEOREM EventsApplyOnce == Spec => []AppliedAtMostOnce
  <1>1. IInv /\ Deliveries => AppliedAtMostOnce
    <2> SUFFICES ASSUME IInv, Deliveries, NEW s \in Subscribers, NEW o \in OrderIds
                 PROVE  Cardinality(EntriesBy(o, s)) + inbox[s][o] <= sent[s][o]
      BY DEF AppliedAtMostOnce
    <2>1. Cardinality(EntriesBy(o, s)) + inbox[s][o] + Due(s, o) <= sent[s][o]
      BY DEF Deliveries
    <2>2. Cardinality(EntriesBy(o, s)) \in Nat /\ inbox[s][o] \in Nat /\ sent[s][o] \in Nat
      BY EntriesAreFinite DEF IInv, TypeOK
    <2>3. Due(s, o) \in {0, 1}
      BY DEF Due
    <2>. QED BY <2>1, <2>2, <2>3
  <1>. QED BY <1>1, InitDelivers, StepDelivers, OrderIsSound, PTL DEF Spec

-----------------------------------------------------------------------------
(* Announcements *)

\* The handlers that have committed this status and may still announce it
Reporters(o, x) == {h \in Handlers : pc[h] \in Reporting /\ job[h].order = o /\ job[h].to = x}

\* Each committed entry pays for one announcement, made or still to come.
Announcements ==
    \A o \in OrderIds, x \in Status :
        published[o][x] + Cardinality(Reporters(o, x)) <= Cardinality(EntriesTo(o, x))

LEMMA HandlersAreFinite == IsFiniteSet(Handlers)
  <1>1. Handlers = (Workers \cup {"payment.succeeded"}) \cup {"payment.failed"}
    BY DEF Handlers, Subscribers
  <1>. QED BY <1>1, FiniteWorkers, FS_AddElement

\* A smaller set of reporters is not larger, whether h has left or joined it.
LEMMA ReportersCounted ==
    ASSUME IInv, NEW o \in OrderIds, NEW x \in Status, NEW h
    PROVE  /\ Cardinality(Reporters(o, x)) \in Nat /\ Cardinality(Reporters(o, x))' \in Nat
           /\ published[o][x] \in Nat /\ Cardinality(EntriesTo(o, x)) \in Nat
           /\ Reporters(o, x)' \subseteq Reporters(o, x) =>
                Cardinality(Reporters(o, x))' <= Cardinality(Reporters(o, x))
           /\ h \in Reporters(o, x) /\ Reporters(o, x)' \subseteq Reporters(o, x) \ {h} =>
                Cardinality(Reporters(o, x))' <= Cardinality(Reporters(o, x)) - 1
           /\ Reporters(o, x)' \subseteq Reporters(o, x) \cup {h} =>
                Cardinality(Reporters(o, x))' <= Cardinality(Reporters(o, x)) + 1
  <1>1. IsFiniteSet(Reporters(o, x)) /\ Cardinality(Reporters(o, x)) \in Nat
    <2>1. Reporters(o, x) \subseteq Handlers
      BY DEF Reporters
    <2>. QED BY <2>1, HandlersAreFinite, FS_Subset, FS_CardinalityType
  <1>2. Cardinality(Reporters(o, x)') \in Nat
    <2>1. Reporters(o, x)' \subseteq Handlers
      BY DEF Reporters
    <2>. QED BY <2>1, HandlersAreFinite, FS_Subset, FS_CardinalityType
  <1>3. published[o][x] \in Nat /\ Cardinality(EntriesTo(o, x)) \in Nat
    BY EntriesAreFinite DEF IInv, TypeOK
  <1> DEFINE R == Reporters(o, x)
             S == Reporters(o, x)'
  <1> HIDE DEF R, S
  <1>4. IsFiniteSet(R) /\ Cardinality(R) \in Nat /\ Cardinality(S) \in Nat
    BY <1>1, <1>2 DEF R, S
  <1>5. /\ IsFiniteSet(R \ {h})
        /\ h \in R => Cardinality(R \ {h}) = Cardinality(R) - 1
    BY <1>4, FS_RemoveElement
  <1>6. IsFiniteSet(R \cup {h}) /\ Cardinality(R \cup {h}) <= Cardinality(R) + 1
    <2>1. /\ IsFiniteSet(R \cup {h})
          /\ Cardinality(R \cup {h}) = IF h \in R THEN Cardinality(R) ELSE Cardinality(R) + 1
      BY <1>4, FS_AddElement
    <2>. QED BY <1>4, <2>1
  <1>7. /\ S \subseteq R => Cardinality(S) <= Cardinality(R)
        /\ S \subseteq R \ {h} => Cardinality(S) <= Cardinality(R \ {h})
        /\ S \subseteq R \cup {h} => Cardinality(S) <= Cardinality(R \cup {h})
    BY <1>4, <1>5, <1>6, FS_Subset
  <1>8. Cardinality(R \cup {h}) \in Nat
    BY <1>6, FS_CardinalityType
  <1>9. /\ S \subseteq R => Cardinality(S) <= Cardinality(R)
        /\ h \in R /\ S \subseteq R \ {h} => Cardinality(S) <= Cardinality(R) - 1
        /\ S \subseteq R \cup {h} => Cardinality(S) <= Cardinality(R) + 1
    BY <1>4, <1>5, <1>6, <1>7, <1>8
  <1>. QED BY <1>1, <1>2, <1>3, <1>9 DEF R, S

\* Nobody begins to report and nothing is announced.
Silent ==
    /\ UNCHANGED <<history, published>>
    /\ \A g \in Handlers : pc'[g] \in Reporting =>
          pc[g] \in Reporting /\ job'[g].order = job[g].order /\ job'[g].to = job[g].to

LEMMA SilenceIsSound ==
    ASSUME IInv, Announcements, Silent
    PROVE  Announcements'
  <1>1. ASSUME NEW o \in OrderIds, NEW x \in Status
        PROVE  (published[o][x] + Cardinality(Reporters(o, x)) <= Cardinality(EntriesTo(o, x)))'
    <2>1. Reporters(o, x)' \subseteq Reporters(o, x)
      BY DEF Silent, Reporters
    <2>2. EntriesTo(o, x)' = EntriesTo(o, x) /\ published' = published
      BY DEF Silent, EntriesTo
    <2>3. published[o][x] + Cardinality(Reporters(o, x)) <= Cardinality(EntriesTo(o, x))
      BY DEF Announcements
    <2>4. /\ Cardinality(Reporters(o, x)) \in Nat /\ Cardinality(Reporters(o, x))' \in Nat
          /\ published[o][x] \in Nat /\ Cardinality(EntriesTo(o, x)) \in Nat
          /\ Cardinality(Reporters(o, x))' <= Cardinality(Reporters(o, x))
      BY <2>1, ReportersCounted
    <2>. QED BY <2>2, <2>3, <2>4
  <1>. QED BY <1>1 DEF Announcements

\* The steps that neither commit nor publish
LEMMA MostAreSilent ==
    ASSUME IInv, [Next]_vars, \A h \in Handlers : ~ Commit(h) /\ ~ Publish(h)
    PROVE  Silent
  <1>1. CASE \E w \in Workers : Request(w)
    BY <1>1, RequestIsCalm DEF Calm, Silent
  <1>2. CASE \E s \in Subscribers : Consume(s)
    <2>1. PICK s \in Subscribers, p \in OrderIds : Start(s, "read", p, s, StatusFor[s])
      BY <1>2 DEF Consume
    <2>2. UNCHANGED <<history, published>> /\ Subscribers \subseteq Handlers
      BY <1>2 DEF Consume, tables, Handlers
    <2>3. /\ pc'[s] = "read"
          /\ \A g \in Handlers \ {s} : pc'[g] = pc[g] /\ job'[g] = job[g]
      BY <2>1, <2>2 DEF Start, IInv, TypeOK
    <2>4. "read" \notin Reporting
      BY DEF Reporting
    <2>. QED BY <2>2, <2>3, <2>4 DEF Silent
  <1>3. ASSUME NEW h \in Handlers,
               Read(h) \/ Update(h) \/ ReturnRow(h) \/ CacheStatus(h) \/ Fail(h)
        PROVE  Silent
    <2>1. UNCHANGED published
      BY <1>3 DEF Read, Update, ReturnRow, CacheStatus, Fail, events
    <2>. QED BY <1>3, <2>1, StepIsCalm DEF Calm, Silent
  <1>4. CASE Crash \/ Outside \/ UNCHANGED vars
    <2>1. UNCHANGED <<history, published>>
      BY <1>4 DEF Crash, Outside, PaymentEvent, Lose, ExpireStatus, vars, tables, events
    <2>2. CASE Crash
      BY <2>1, <2>2 DEF Crash, Silent, Reporting
    <2>3. CASE Outside \/ UNCHANGED vars
      <3>1. UNCHANGED <<pc, job>>
        BY <2>3 DEF Outside, PaymentEvent, Lose, ExpireStatus, vars
      <3>. QED BY <2>1, <3>1 DEF Silent
    <2>. QED BY <1>4, <2>2, <2>3
  <1>. QED BY <1>1, <1>2, <1>3, <1>4, NextSplits

LEMMA CommitKeepsAnnouncements ==
    ASSUME IInv, Announcements, NEW h \in Handlers, Commit(h)
    PROVE  Announcements'
  <1>1. /\ UNCHANGED published
        /\ pc[h] = "commit" /\ pc'[h] = "committed" /\ job' = job
        /\ \A g \in Handlers \ {h} : pc'[g] = pc[g]
    BY CommitMoves
  <1>2. ASSUME NEW o \in OrderIds, NEW x \in Status
        PROVE  (published[o][x] + Cardinality(Reporters(o, x)) <= Cardinality(EntriesTo(o, x)))'
    <2> DEFINE mine == o = job[h].order /\ x = job[h].to
    <2>1. Reporters(o, x)' \subseteq IF mine THEN Reporters(o, x) \cup {h} ELSE Reporters(o, x)
      BY <1>1 DEF Reporters
    <2>2. Cardinality(EntriesTo(o, x))' = Cardinality(EntriesTo(o, x)) + IF mine THEN 1 ELSE 0
      BY CommitAddsOne
    <2>3. published[o][x] + Cardinality(Reporters(o, x)) <= Cardinality(EntriesTo(o, x))
      BY DEF Announcements
    <2>4. /\ Cardinality(Reporters(o, x)) \in Nat /\ Cardinality(Reporters(o, x))' \in Nat
          /\ published[o][x] \in Nat /\ Cardinality(EntriesTo(o, x)) \in Nat
          /\ Reporters(o, x)' \subseteq Reporters(o, x) =>
               Cardinality(Reporters(o, x))' <= Cardinality(Reporters(o, x))
          /\ Reporters(o, x)' \subseteq Reporters(o, x) \cup {h} =>
               Cardinality(Reporters(o, x))' <= Cardinality(Reporters(o, x)) + 1
      BY ReportersCounted
    <2> HIDE DEF mine
    <2>. QED BY <1>1, <2>1, <2>2, <2>3, <2>4
  <1>. QED BY <1>2 DEF Announcements

LEMMA PublishKeepsAnnouncements ==
    ASSUME IInv, Announcements, NEW h \in Handlers, Publish(h)
    PROVE  Announcements'
  <1>1. pc[h] = "publish" /\ pc'[h] = "idle" /\ UNCHANGED history
    BY DEF Publish, Finish, IInv, TypeOK
  <1>2. PICK p \in OrderIds, y \in Status : p = job[h].order /\ y = job[h].to
    BY <1>1, BusyHasJob DEF IInv, Jobs
  <1>3. /\ \A g \in Handlers : pc'[g] \in Reporting =>
             pc[g] \in Reporting /\ job'[g].order = job[g].order /\ job'[g].to = job[g].to
        /\ pc'[h] \notin Reporting
    BY <1>1, StepIsCalm DEF Calm, Reporting
  <1>4. /\ \A o \in OrderIds, x \in Status : ~ (o = p /\ x = y) => published'[o][x] = published[o][x]
        /\ published'[p][y] = published[p][y] \/ published'[p][y] = published[p][y] + 1
    <2>1. published \in [OrderIds -> [Status -> Nat]]
      BY DEF IInv, TypeOK
    <2>2. published' = [published EXCEPT ![p][y] = @ + 1] \/ UNCHANGED published
      BY <1>2 DEF Publish
    <2>. QED BY <2>1, <2>2
  <1>5. ASSUME NEW o \in OrderIds, NEW x \in Status
        PROVE  (published[o][x] + Cardinality(Reporters(o, x)) <= Cardinality(EntriesTo(o, x)))'
    <2>1. EntriesTo(o, x)' = EntriesTo(o, x)
      BY <1>1 DEF EntriesTo
    <2>2. Reporters(o, x)' \subseteq Reporters(o, x) \ {h}
      BY <1>3 DEF Reporters
    <2>3. o = p /\ x = y => h \in Reporters(o, x)
      BY <1>1, <1>2 DEF Reporters, Reporting
    <2>4. published[o][x] + Cardinality(Reporters(o, x)) <= Cardinality(EntriesTo(o, x))
      BY DEF Announcements
    <2>5. /\ Cardinality(Reporters(o, x)) \in Nat /\ Cardinality(Reporters(o, x))' \in Nat
          /\ published[o][x] \in Nat /\ Cardinality(EntriesTo(o, x)) \in Nat
          /\ Cardinality(Reporters(o, x))' <= Cardinality(Reporters(o, x))
          /\ h \in Reporters(o, x) => Cardinality(Reporters(o, x))' <= Cardinality(Reporters(o, x)) - 1
      BY <2>2, ReportersCounted
    <2>. QED BY <1>4, <2>1, <2>3, <2>4, <2>5
  <1>. QED BY <1>5 DEF Announcements

LEMMA InitAnnounces == Init => Announcements
  <1> SUFFICES ASSUME Init, NEW o \in OrderIds, NEW x \in Status
               PROVE  published[o][x] + Cardinality(Reporters(o, x)) <= Cardinality(EntriesTo(o, x))
    BY DEF Announcements
  <1>1. EntriesTo(o, x) = {} /\ Reporters(o, x) = {}
    BY DEF Init, EntriesTo, Reporters, Reporting
  <1>2. published[o][x] = 0
    BY DEF Init
  <1>. QED BY <1>1, <1>2, FS_EmptySet

LEMMA StepAnnounces == IInv /\ Announcements /\ [Next]_vars => Announcements'
  <1> SUFFICES ASSUME IInv, Announcements, [Next]_vars PROVE Announcements'
    OBVIOUS
  <1>1. CASE \E h \in Handlers : Commit(h)
    BY <1>1, CommitKeepsAnnouncements
  <1>2. CASE \E h \in Handlers : Publish(h)
    BY <1>2, PublishKeepsAnnouncements
  <1>3. CASE \A h \in Handlers : ~ Commit(h) /\ ~ Publish(h)
    BY <1>3, MostAreSilent, SilenceIsSound
  <1>. QED BY <1>1, <1>2, <1>3

\* order.created, order.cancelled and order.completed are announced at most
\* once per committed change.
THEOREM AnnouncedWereCommitted == Spec => []AnnouncedAreCommitted
  <1>1. IInv /\ Announcements => AnnouncedAreCommitted
    <2> SUFFICES ASSUME IInv, Announcements, NEW o \in OrderIds, NEW x \in Status
                 PROVE  published[o][x] <= Cardinality(EntriesTo(o, x))
      BY DEF AnnouncedAreCommitted
    <2>1. published[o][x] + Cardinality(Reporters(o, x)) <= Cardinality(EntriesTo(o, x))
      BY DEF Announcements
    <2>2. /\ Cardinality(Reporters(o, x)) \in Nat /\ Cardinality(EntriesTo(o, x)) \in Nat
          /\ published[o][x] \in Nat
      BY ReportersCounted
    <2>. QED BY <2>1, <2>2
  <1>. QED BY <1>1, InitAnnounces, StepAnnounces, OrderIsSound, PTL DEF Spec

-----------------------------------------------------------------------------
(* Requests that come one at a time, beside the payment events *)

OneRequest == \A v, w \in Workers : pc[v] # "idle" /\ pc[w] # "idle" => v = w

\* What a subscription writes leaves an order open.
EventsLeaveOpen == \A s \in Subscribers :
    pc[s] # "idle" => job[s].by = s /\ job[s].to \notin Terminal

\* Between the read of a Cancel and its commit, nobody closes the order.
ClosesOnlyOpen == \A w \in Workers :
    pc[w] \in {"update", "commit"} /\ job[w].by = "cancel" => orders[job[w].order] \notin Terminal

AloneInv == IInv /\ OneRequest /\ EventsLeaveOpen /\ ClosesOnlyOpen /\ CancelledOnlyOpen

\* Only h moves, and nothing is committed.
Pauses(h) ==
    /\ UNCHANGED <<orders, history>>
    /\ \A g \in Handlers \ {h} : pc'[g] = pc[g] /\ job'[g] = job[g]

\* Where a step of h takes it, unless it commits: it ends, has read, waits for
\* its row or has it, or reports what it committed.
GoesOn(h) ==
    \/ pc'[h] = "idle"
    \/ /\ pc[h] = "read" /\ pc'[h] = "update"
       /\ job'[h].by = job[h].by /\ job'[h].to = job[h].to /\ job'[h].order = job[h].order
       /\ job[h].by = "cancel" => orders[job[h].order] \notin Terminal
    \/ pc[h] = "update" /\ pc'[h] = "commit" /\ job'[h] = job[h]
    \/ pc[h] \in Reporting /\ pc'[h] \in Reporting /\ job'[h] = job[h]

LEMMA StepGoesOn ==
    ASSUME IInv, NEW h \in Handlers,
           Read(h) \/ Update(h) \/ ReturnRow(h) \/ CacheStatus(h) \/ Publish(h) \/ Fail(h)
    PROVE  Pauses(h) /\ GoesOn(h) /\ pc[h] # "idle"
  <1>1. UNCHANGED <<orders, history>> /\ pc[h] # "idle"
    BY DEF Read, Update, ReturnRow, CacheStatus, Publish, Fail, tables
  <1>2. CASE Finish(h)
    BY <1>1, <1>2 DEF Finish, IInv, TypeOK, Pauses, GoesOn
  <1>3. CASE \E label \in Labels : Goto(h, label) /\ \/ pc[h] = "update" /\ label = "commit"
                                                     \/ pc[h] \in Reporting /\ label \in Reporting
    BY <1>1, <1>3 DEF Goto, IInv, TypeOK, Pauses, GoesOn
  <1>4. CASE Read(h) /\ ~ Finish(h)
    <2>1. job[h] \in Jobs /\ pc[h] = "read"
      BY <1>4, BusyHasJob DEF IInv, Read
    <2>2. /\ pc' = [pc EXCEPT ![h] = "update"]
          /\ job' = [job EXCEPT ![h].from = orders[job[h].order]]
          /\ ~ Refuses(job[h])
      BY <1>4 DEF Read
    <2>3. /\ job'[h].by = job[h].by /\ job'[h].to = job[h].to /\ job'[h].order = job[h].order
      BY <2>1, <2>2 DEF IInv, TypeOK, Jobs
    <2>. QED BY <1>1, <2>1, <2>2, <2>3 DEF IInv, TypeOK, Pauses, GoesOn, Refuses
  <1>. QED BY <1>2, <1>3, <1>4 DEF Update, ReturnRow, CacheStatus, Publish, Fail, Labels, Reporting

\* A handler that pauses, or begins to read or to create
LEMMA PauseKeepsAlone ==
    ASSUME AloneInv, IInv', NEW h \in Handlers, Pauses(h),
           \/ GoesOn(h) /\ pc[h] # "idle"
           \/ pc[h] = "idle" /\ pc'[h] = "read"
           \/ pc[h] = "idle" /\ pc'[h] = "update" /\ job'[h].by # "cancel",
           h \in Workers /\ pc[h] = "idle" => \A w \in Workers : pc[w] = "idle",
           h \in Subscribers /\ pc[h] = "idle" => job'[h].by = h /\ job'[h].to \notin Terminal
    PROVE  AloneInv'
  <1>1. OneRequest'
    BY DEF AloneInv, OneRequest, Pauses, Handlers
  <1>2. EventsLeaveOpen'
    <2>1. ASSUME NEW s \in Subscribers, pc'[s] # "idle"
          PROVE  job'[s].by = s /\ job'[s].to \notin Terminal
      <3>1. CASE s # h
        BY <2>1, <3>1 DEF AloneInv, EventsLeaveOpen, Pauses, Handlers
      <3>2. CASE s = h /\ pc[s] # "idle"
        <4>1. job[s].by = s /\ job[s].to \notin Terminal
          BY <3>2 DEF AloneInv, EventsLeaveOpen
        <4>2. job'[s].by = job[s].by /\ job'[s].to = job[s].to
          BY <2>1, <3>2 DEF GoesOn
        <4>. QED BY <4>1, <4>2
      <3>. QED BY <3>1, <3>2
    <2>. QED BY <2>1 DEF EventsLeaveOpen, Terminal
  <1>3. ClosesOnlyOpen'
    BY DEF AloneInv, ClosesOnlyOpen, Pauses, GoesOn, Handlers, Reporting
  <1>4. CancelledOnlyOpen'
    BY DEF AloneInv, CancelledOnlyOpen, EntriesBy, Pauses
  <1>. QED BY <1>1, <1>2, <1>3, <1>4 DEF AloneInv

LEMMA CommitKeepsAlone ==
    ASSUME AloneInv, IInv', NEW h \in Handlers, Commit(h)
    PROVE  AloneInv'
  <1>1. PICK o \in OrderIds, e \in Entries :
           /\ o = job[h].order /\ pc[h] = "commit"
           /\ orders'  = [orders EXCEPT ![o] = e.to]
           /\ history' = [history EXCEPT ![o] = Append(@, e)]
           /\ e.to = job[h].to /\ e.by = job[h].by
    BY CommitEffect DEF AloneInv
  <1>2. /\ pc'[h] = "committed" /\ job' = job
        /\ \A g \in Handlers \ {h} : pc'[g] = pc[g]
    BY CommitMoves DEF AloneInv
  <1>3. Workers \subseteq Handlers /\ Subscribers \subseteq Handlers
    BY DEF Handlers
  <1>4. OneRequest' /\ EventsLeaveOpen'
    BY <1>1, <1>2, <1>3 DEF AloneInv, OneRequest, EventsLeaveOpen
  <1>5. ClosesOnlyOpen'
    <2>. SUFFICES ASSUME NEW w \in Workers, pc'[w] \in {"update", "commit"}, job'[w].by = "cancel"
         PROVE  orders'[job'[w].order] \notin Terminal
      BY DEF ClosesOnlyOpen
    <2>1. w # h /\ pc[w] \in {"update", "commit"} /\ job'[w] = job[w]
      BY <1>2, <1>3
    <2>2. orders[job[w].order] \notin Terminal
      BY <2>1 DEF AloneInv, ClosesOnlyOpen
    <2>3. h \in Subscribers /\ e.to \notin Terminal
      BY <1>1, <2>1 DEF AloneInv, OneRequest, EventsLeaveOpen, Handlers
    <2>4. job[w].order \in OrderIds
      BY <1>3, <2>1, BusyHasJob DEF AloneInv, IInv, Jobs
    <2>. QED BY <1>1, <2>1, <2>2, <2>3, <2>4 DEF AloneInv, IInv, TypeOK
  <1>6. CancelledOnlyOpen'
    <2>. SUFFICES ASSUME NEW q \in OrderIds, NEW n \in EntriesBy(q, "cancel")', n > 1
         PROVE  history'[q][n - 1].to \notin Terminal
      BY DEF CancelledOnlyOpen
    <2>1. CASE q # o
      <3>1. history'[q] = history[q]
        BY <1>1, <2>1 DEF AloneInv, IInv, TypeOK
      <3>2. n \in EntriesBy(q, "cancel")
        BY <3>1 DEF EntriesBy
      <3>. QED BY <3>1, <3>2 DEF AloneInv, CancelledOnlyOpen
    <2>2. CASE q = o
      <3>. DEFINE old == history[o]
      <3>1. old \in Seq(Entries) /\ history'[o] = Append(old, e)
        BY <1>1 DEF AloneInv, IInv, TypeOK
      <3>2. /\ Len(Append(old, e)) = Len(old) + 1
            /\ DOMAIN old = 1 .. Len(old) /\ Len(old) \in Nat
            /\ \A m \in 1 .. Len(old) : Append(old, e)[m] = old[m]
            /\ Append(old, e)[Len(old) + 1] = e
            /\ Append(old, e) \in Seq(Entries)
        BY <3>1, AppendedIsLast
      <3>. HIDE DEF old
      <3>3. n \in 1 .. Len(old) + 1 /\ Append(old, e)[n].by = "cancel"
        BY <2>2, <3>1, <3>2 DEF EntriesBy
      <3>4. CASE n \in 1 .. Len(old)
        <4>1. n \in EntriesBy(o, "cancel")
          BY <3>2, <3>3, <3>4 DEF EntriesBy, old
        <4>2. old[n - 1].to \notin Terminal
          BY <4>1 DEF AloneInv, CancelledOnlyOpen, old
        <4>. QED BY <2>2, <3>1, <3>2, <3>4, <4>2
      <3>5. CASE n = Len(old) + 1
        <4>1. job[h].by = "cancel" /\ h \in Workers
          BY <1>1, <3>2, <3>3, <3>5 DEF AloneInv, EventsLeaveOpen, Handlers, Subscribers
        <4>2. orders[o] \notin Terminal
          BY <1>1, <4>1 DEF AloneInv, ClosesOnlyOpen
        <4>3. orders[o] = old[Len(old)].to
          BY <3>1, <3>2, <3>5 DEF AloneInv, IInv, HistoryExplainsRow, old
        <4>4. n - 1 = Len(old) /\ Len(old) \in 1 .. Len(old)
          BY <3>2, <3>5
        <4>5. history'[q][n - 1] = old[Len(old)]
          BY <2>2, <3>1, <3>2, <4>4
        <4>. QED BY <4>2, <4>3, <4>5
      <3>. QED BY <3>2, <3>3, <3>4, <3>5
    <2>. QED BY <2>1, <2>2
  <1>. QED BY <1>4, <1>5, <1>6 DEF AloneInv

LEMMA StepKeepsAlone ==
    ASSUME AloneInv,
           \/ \E w \in Workers : Request(w) /\ \A v \in Workers : pc[v] = "idle"
           \/ \E s \in Subscribers, o \in OrderIds : PaymentEvent(s, o)
           \/ Internal
           \/ UNCHANGED vars
    PROVE  AloneInv'
  <1>1. IInv /\ IInv'
    BY StepIsSound DEF AloneInv, Next
  <1>2. ASSUME NEW w \in Workers, Request(w), \A v \in Workers : pc[v] = "idle" PROVE AloneInv'
    <2>1. w \in Handlers /\ w \notin Subscribers /\ \A v \in Workers : pc[v] = "idle"
      BY <1>2, NoneIsNothing DEF Handlers
    <2>2. Pauses(w)
      BY <1>1, <1>2, <2>1 DEF Request, Create, UpdateStatus, Cancel, Start, tables, Pauses, IInv, TypeOK
    <2>3. pc[w] = "idle" /\ (pc'[w] = "read" \/ (pc'[w] = "update" /\ job'[w].by = "order created"))
      <3>1. CASE Create(w)
        <4>1. PICK o \in OrderIds : Start(w, "update", o, "order created", "created")
          BY <3>1 DEF Create
        <4>2. job'[w] = [order |-> o, to |-> "created", by |-> "order created", from |-> None]
          BY <1>1, <2>1, <4>1 DEF Start, IInv, TypeOK
        <4>. QED BY <1>1, <2>1, <4>1, <4>2 DEF Start, IInv, TypeOK
      <3>2. CASE UpdateStatus(w) \/ Cancel(w)
        BY <1>1, <2>1, <3>2 DEF UpdateStatus, Cancel, Start, IInv, TypeOK
      <3>. QED BY <1>2, <3>1, <3>2 DEF Request
    <2>. QED BY <1>1, <2>1, <2>2, <2>3, PauseKeepsAlone
  <1>3. ASSUME NEW s \in Subscribers, Consume(s) PROVE AloneInv'
    <2>1. s \in Handlers /\ s \notin Workers
      BY NoneIsNothing DEF Handlers
    <2>2. PICK o \in OrderIds : Start(s, "read", o, s, StatusFor[s])
      BY <1>3 DEF Consume
    <2>3. StatusFor[s] \notin Terminal
      BY DEF StatusFor, Subscribers, Terminal
    <2>4. pc[s] = "idle" /\ pc'[s] = "read" /\ job'[s].by = s /\ job'[s].to \notin Terminal
      BY <1>1, <2>1, <2>2, <2>3 DEF Start, IInv, TypeOK
    <2>5. Pauses(s)
      BY <1>1, <1>3, <2>1, <2>2 DEF Consume, Start, tables, Pauses, IInv, TypeOK
    <2>. QED BY <1>1, <2>1, <2>4, <2>5, PauseKeepsAlone
  <1>4. ASSUME NEW h \in Handlers, Commit(h) PROVE AloneInv'
    BY <1>1, <1>4, CommitKeepsAlone
  <1>5. ASSUME NEW h \in Handlers,
               Read(h) \/ Update(h) \/ ReturnRow(h) \/ CacheStatus(h) \/ Publish(h) \/ Fail(h)
        PROVE  AloneInv'
    BY <1>1, <1>5, StepGoesOn, PauseKeepsAlone
  <1>6. CASE Crash
    <2>1. Workers \subseteq Handlers /\ Subscribers \subseteq Handlers
      BY DEF Handlers
    <2>. QED BY <1>1, <1>6, <2>1
             DEF Crash, AloneInv, OneRequest, EventsLeaveOpen, ClosesOnlyOpen,
                 CancelledOnlyOpen, EntriesBy
  <1>7. CASE Outside \/ UNCHANGED vars
    <2>1. UNCHANGED <<orders, history, pc, job>>
      BY <1>7 DEF Outside, PaymentEvent, Lose, ExpireStatus, vars, tables
    <2>. QED BY <1>1, <2>1 DEF AloneInv, OneRequest, EventsLeaveOpen, ClosesOnlyOpen,
                               CancelledOnlyOpen, EntriesBy
  <1>. QED BY <1>2, <1>3, <1>4, <1>5, <1>6, <1>7 DEF Internal, Step, Outside

\* Whatever payment events come meanwhile, a Cancel that runs without other
\* requests changes no order that is completed or cancelled when it commits.
THEOREM CancelsOnlyOpen == MCSpec => []AloneCancelsOnlyOpen
  <1>1. MCInit => (alone => AloneInv)
    <2>. SUFFICES ASSUME MCInit PROVE AloneInv
      OBVIOUS
    <2>1. IInv
      BY InitIsSound DEF MCInit
    <2>2. Workers \subseteq Handlers /\ Subscribers \subseteq Handlers
      BY DEF Handlers
    <2>. QED BY <2>1, <2>2
             DEF MCInit, Init, AloneInv, OneRequest, EventsLeaveOpen, ClosesOnlyOpen,
                 CancelledOnlyOpen, EntriesBy
  <1>2. (alone => AloneInv) /\ [MCNext]_mcVars => (alone => AloneInv)'
    <2>. SUFFICES ASSUME AloneInv, alone, [MCNext]_mcVars PROVE AloneInv'
      BY DEF MCNext, MCRequest, MCPaymentEvent, mcVars, bounds
    <2>. QED BY StepKeepsAlone DEF MCNext, MCRequest, MCPaymentEvent, mcVars
  <1>3. (alone => AloneInv) => AloneCancelsOnlyOpen
    BY DEF AloneInv, AloneCancelsOnlyOpen
  <1>. QED BY <1>1, <1>2, <1>3, PTL DEF MCSpec

=============================================================================
