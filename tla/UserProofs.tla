----------------------------- MODULE UserProofs -----------------------------
(***************************************************************************)
(* UserSession for all sets of handlers, accounts, addresses and pairs,    *)
(* all limits and all faults: the state has its shape, an address has one  *)
(* account, and a token that is blacklisted stays refused.                 *)
(***************************************************************************)
EXTENDS MCUserSession, FiniteSetTheorems, TLAPS

\* What a handler's label says of its job.
Fits(label, j) ==
    /\ label = "idle" <=> j = None
    /\ label \in {"lookup", "insert", "find", "limit", "compare", "reset"} => j.email \in Emails
    /\ label \in {"limit", "compare", "reset", "save", "consume"} => j.user \in Users
    /\ label \in {"readrow", "drop", "consume", "forget", "forgetall"} =>
          j.pair \in Pairs /\ pairs[j.pair] # None

Handlers ==
    /\ pc \in [Workers -> Labels]
    /\ job \in [Workers -> Jobs \cup {None}]
    /\ \A w \in Workers : Fits(pc[w], job[w])

Stores ==
    /\ users \in [Users -> Emails \cup {None}]
    /\ stored \subseteq Pairs
    /\ expired \subseteq Pairs
    /\ tries \in [Emails -> Seq(Verdicts)]
    /\ black \in [Pairs -> 0 .. Week]
    /\ pairs \in [Pairs -> PairRecords \cup {None}]
    /\ left \in [Pairs -> 0 .. Week]
    /\ tasks \in [Tasks -> Nat]
    /\ sent \subseteq Tasks
    /\ ended \subseteq Pairs

\* Only a token that was generated is blacklisted, and its entry outlives it.
Revocable ==
    \A p \in Pairs :
        /\ black[p] > 0 \/ tasks[<<"blacklist", p>>] > 0 => pairs[p] # None
        /\ black[p] > 0 => left[p] <= black[p]

IInv == Handlers /\ Stores /\ Revocable /\ OneAccountPerEmail

\* A pair that was generated stays generated.
PairsStay == \A p \in Pairs : pairs[p] # None => pairs'[p] # None

-----------------------------------------------------------------------------
(* The handler that moves *)

LEMMA MoveKeepsHandlers ==
    ASSUME Handlers, PairsStay, NEW w \in Workers,
           NEW label \in Labels, NEW j \in Jobs \cup {None},
           pc' = [pc EXCEPT ![w] = label], job' = [job EXCEPT ![w] = j],
           Fits(label, j)'
    PROVE  Handlers'
  <1>1. pc' \in [Workers -> Labels] /\ job' \in [Workers -> Jobs \cup {None}]
    BY DEF Handlers
  <1>2. ASSUME NEW v \in Workers PROVE Fits(pc[v], job[v])'
    <2>1. CASE v = w
      <3>1. pc'[v] = label /\ job'[v] = j
        BY <2>1 DEF Handlers
      <3>. QED BY <3>1 DEF Fits
    <2>2. CASE v # w
      <3>1. pc'[v] = pc[v] /\ job'[v] = job[v] /\ Fits(pc[v], job[v])
        BY <2>2 DEF Handlers
      <3>. QED BY <3>1 DEF Fits, PairsStay
    <2>. QED BY <2>1, <2>2
  <1>. QED BY <1>1, <1>2 DEF Handlers

LEMMA GotoKeepsHandlers ==
    ASSUME Handlers, PairsStay, NEW w \in Workers, NEW label \in Labels,
           NEW j, j = job[w], Goto(w, label), Fits(label, j)'
    PROVE  Handlers'
  <1>1. job' = [job EXCEPT ![w] = j] /\ j \in Jobs \cup {None}
    BY DEF Goto, Handlers
  <1>. QED BY <1>1, MoveKeepsHandlers DEF Goto

LEMMA FinishKeepsHandlers ==
    ASSUME Handlers, PairsStay, NEW w \in Workers, Finish(w)
    PROVE  Handlers'
  <1>1. Fits("idle", None)'
    BY DEF Fits
  <1>. QED BY <1>1, MoveKeepsHandlers DEF Finish, Labels

LEMMA GotoAsKeepsHandlers ==
    ASSUME Handlers, PairsStay, NEW w \in Workers, NEW label \in {"limit", "save", "consume"},
           NEW u \in Users, GotoAs(w, label, u), job[w] # None,
           label = "limit" => job[w].email \in Emails,
           label = "consume" => job[w].pair \in Pairs /\ pairs[job[w].pair] # None
    PROVE  Handlers'
  <1>1. PICK j : j = [job[w] EXCEPT !.user = u]
    OBVIOUS
  <1>2. j \in Jobs /\ j.user = u /\ j.email = job[w].email /\ j.pair = job[w].pair
    <2>1. job[w] \in Jobs
      BY DEF Handlers
    <2>. QED BY <1>1, <2>1 DEF Jobs
  <1>3. pc' = [pc EXCEPT ![w] = label] /\ job' = [job EXCEPT ![w] = j]
    BY <1>1 DEF GotoAs
  <1>4. j # None
    BY <1>2, NoneIsNothing
  <1>5. Fits(label, j)'
    BY <1>2, <1>4 DEF Fits, PairsStay
  <1>. QED BY <1>2, <1>3, <1>5, MoveKeepsHandlers DEF Labels

LEMMA StartKeepsHandlers ==
    ASSUME Handlers, PairsStay, NEW w \in Workers,
           NEW label \in {"lookup", "find", "readrow", "forget", "forgetall"},
           NEW op \in {"register", "login", "refresh", "logout"},
           NEW e \in Emails \cup {None}, NEW u \in Users \cup {None}, NEW p \in Pairs \cup {None},
           Start(w, label, op, e, u, p),
           label \in {"lookup", "find"} => e \in Emails,
           label \notin {"lookup", "find"} => p \in Pairs /\ pairs[p] # None
    PROVE  Handlers'
  <1> DEFINE j == [op |-> op, email |-> e, user |-> u, pair |-> p]
  <1>1. j \in Jobs /\ j.email = e /\ j.user = u /\ j.pair = p
    BY DEF Jobs
  <1>2. pc' = [pc EXCEPT ![w] = label] /\ job' = [job EXCEPT ![w] = j]
    BY DEF Start
  <1>3. j # None
    BY <1>1, NoneIsNothing
  <1> HIDE DEF j
  <1>4. Fits(label, j)'
    BY <1>1, <1>3 DEF Fits, PairsStay
  <1>. QED BY <1>1, <1>2, <1>4, MoveKeepsHandlers DEF Labels

\* What the labels say of a handler that does not rest.
LEMMA Working ==
    ASSUME Handlers, NEW w \in Workers, pc[w] # "idle"
    PROVE  job[w] \in Jobs /\ job[w] # None /\ Fits(pc[w], job[w])
  BY DEF Handlers, Fits

LEMMA RequestKeepsHandlers ==
    ASSUME IInv, NEW w \in Workers, Request(w)
    PROVE  Handlers'
  <1>1. PairsStay
    BY DEF Request, Register, Login, RefreshToken, Logout, tokens, PairsStay
  <1>2. CASE Register(w)
    BY <1>1, <1>2, StartKeepsHandlers DEF Register, IInv
  <1>3. CASE Login(w)
    BY <1>1, <1>3, StartKeepsHandlers DEF Login, IInv
  <1>4. CASE RefreshToken(w)
    <2>1. PICK p \in Handed : Start(w, "readrow", "refresh", None, None, p)
      BY <1>4 DEF RefreshToken
    <2>2. p \in Pairs /\ pairs[p] # None
      BY DEF Handed
    <2>. QED BY <1>1, <2>1, <2>2, StartKeepsHandlers DEF IInv
  <1>5. CASE Logout(w)
    <2>1. PICK p \in Handed, label \in {"forget", "forgetall"}, givesUser \in BOOLEAN :
              Start(w, label, "logout", None, IF givesUser THEN pairs[p].user ELSE None, p)
      BY <1>5 DEF Logout
    <2>2. p \in Pairs /\ pairs[p] # None
      BY DEF Handed
    <2>3. (IF givesUser THEN pairs[p].user ELSE None) \in Users \cup {None}
      BY <2>2 DEF IInv, Stores, PairRecords
    <2>. QED BY <1>1, <2>1, <2>2, <2>3, StartKeepsHandlers DEF IInv
  <1>. QED BY <1>2, <1>3, <1>4, <1>5 DEF Request

\* A pair is only added.
LEMMA NewPairStays ==
    ASSUME Stores, NEW p \in Pairs, NEW j, NEW handed \in BOOLEAN, NewPair(p, j, handed)
    PROVE  PairsStay
  BY DEF NewPair, PairsStay, Stores

LEMMA StepKeepsHandlers ==
    ASSUME IInv, NEW w \in Workers, Step(w)
    PROVE  Handlers'
  <1> USE DEF IInv
  <1>q. ASSUME UNCHANGED pairs PROVE PairsStay
    BY <1>q DEF PairsStay
  <1>g. ASSUME NEW from \in Labels \ {"idle"}, NEW to \in Labels \ {"idle"}, pc[w] = from,
               UNCHANGED pairs, Goto(w, to), <<from, to>> \in
                  {<<"lookup", "insert">>, <<"limit", "compare">>, <<"compare", "reset">>,
                   <<"reset", "save">>, <<"readrow", "drop">>, <<"consume", "save">>,
                   <<"forget", "forgetall">>}
        PROVE  Handlers'
    <2>1. PICK j : j = job[w]
      OBVIOUS
    <2>2. j # None /\ Fits(from, j)
      BY <1>g, <2>1, Working DEF Labels
    <2>3. Fits(to, j)'
      BY <1>g, <2>2 DEF Fits
    <2>. QED BY <1>g, <1>q, <2>1, <2>3, GotoKeepsHandlers
  <1>1. CASE LookUp(w)
    BY <1>1, <1>q, <1>g, FinishKeepsHandlers DEF LookUp, tokens, Labels
  <1>2. CASE InsertUser(w)
    <2>1. UNCHANGED pairs /\ pc[w] = "insert" /\ job[w] # None
      BY <1>2, Working DEF InsertUser, tokens
    <2>2. Finish(w) \/ \E u \in Users : GotoAs(w, "save", u)
      BY <1>2 DEF InsertUser
    <2>. QED BY <2>1, <2>2, <1>q, FinishKeepsHandlers, GotoAsKeepsHandlers
  <1>3. CASE SavePair(w)
    <2>1. PairsStay /\ Finish(w)
      BY <1>3, NewPairStays DEF SavePair
    <2>. QED BY <2>1, FinishKeepsHandlers
  <1>4. CASE Find(w)
    <2>1. UNCHANGED pairs /\ pc[w] = "find" /\ job[w] # None /\ job[w].email \in Emails
      BY <1>4, Working DEF Find, tokens, Fits
    <2>2. Finish(w) \/ \E u \in Users : GotoAs(w, "limit", u)
      BY <1>4 DEF Find
    <2>. QED BY <2>1, <2>2, <1>q, FinishKeepsHandlers, GotoAsKeepsHandlers
  <1>5. CASE Limit(w)
    <2>1. UNCHANGED pairs /\ pc[w] = "limit"
      BY <1>5 DEF Limit, tokens
    <2>2. Finish(w) \/ Goto(w, "compare")
      BY <1>5 DEF Limit
    <2>. QED BY <2>1, <2>2, <1>q, <1>g, FinishKeepsHandlers DEF Labels
  <1>6. CASE Compare(w)
    BY <1>6, <1>q, <1>g, FinishKeepsHandlers DEF Compare, tokens, Labels
  <1>7. CASE ResetTries(w)
    BY <1>7, <1>g DEF ResetTries, tokens, Labels
  <1>8. CASE ReadRow(w)
    <2>1. /\ UNCHANGED pairs /\ pc[w] = "readrow" /\ job[w] # None
          /\ job[w].pair \in Pairs /\ pairs[job[w].pair] # None
      BY <1>8, Working DEF ReadRow, tokens, Fits
    <2>2. pairs[job[w].pair].user \in Users
      BY <2>1 DEF Stores, PairRecords
    <2>3. \/ Finish(w) \/ Goto(w, "drop")
          \/ GotoAs(w, "consume", pairs[job[w].pair].user)
      BY <1>8 DEF ReadRow
    <2>. QED BY <2>1, <2>2, <2>3, <1>q, <1>g, FinishKeepsHandlers, GotoAsKeepsHandlers DEF Labels
  <1>9. CASE Drop(w)
    BY <1>9, <1>q, FinishKeepsHandlers DEF Drop, tokens
  <1>10. CASE Consume(w)
    BY <1>10, <1>g DEF Consume, tokens, Labels
  <1>11. CASE Forget(w)
    BY <1>11, <1>g DEF Forget, tokens, Labels
  <1>12. CASE ForgetAll(w)
    BY <1>12, <1>q, FinishKeepsHandlers DEF ForgetAll, tokens
  <1>. QED BY <1>1, <1>2, <1>3, <1>4, <1>5, <1>6, <1>7, <1>8, <1>9, <1>10, <1>11, <1>12 DEF Step

LEMMA FailKeepsHandlers ==
    ASSUME IInv, NEW w \in Workers, Fail(w)
    PROVE  Handlers'
  <1>1. PairsStay
    <2>1. UNCHANGED pairs \/ \E p \in Pairs : NewPair(p, job[w], FALSE)
      BY DEF Fail, tokens
    <2>. QED BY <2>1, NewPairStays DEF PairsStay, IInv
  <1>. QED BY <1>1, FinishKeepsHandlers DEF Fail, IInv

\* Nothing else moves a handler but a crash, which puts all of them to rest.
LEMMA CrashKeepsHandlers ==
    ASSUME Crash
    PROVE  Handlers'
  BY DEF Crash, Handlers, Fits, Labels

-----------------------------------------------------------------------------
(* The stores *)

LEMMA MoreTasks ==
    ASSUME tasks \in [Tasks -> Nat], NEW ts
    PROVE  /\ StartTasks(ts) \in [Tasks -> Nat]
           /\ \A t \in Tasks : t \notin ts => StartTasks(ts)[t] = tasks[t]
  BY DEF StartTasks

LEMMA NewPairKeepsStores ==
    ASSUME Stores, NEW p \in Pairs, NEW j \in Jobs, j.user \in Users,
           NEW handed \in BOOLEAN, NewPair(p, j, handed)
    PROVE  /\ pairs' \in [Pairs -> PairRecords \cup {None}]
           /\ left' \in [Pairs -> 0 .. Week]
           /\ stored' \subseteq Pairs
  <1>1. [user |-> j.user, parent |-> j.pair, handed |-> handed] \in PairRecords
    BY DEF Jobs, PairRecords
  <1>2. Week \in 0 .. Week
    BY WeekIsPositive
  <1>. QED BY <1>1, <1>2 DEF NewPair, Stores

LEMMA TriesTyped ==
    ASSUME NEW S, NEW log \in [Emails -> Seq(S)], NEW e
    PROVE  /\ [log EXCEPT ![e] = <<>>] \in [Emails -> Seq(S)]
           /\ \A x \in S : [log EXCEPT ![e] = Append(@, x)] \in [Emails -> Seq(S)]
           /\ log[e] # <<>> => [log EXCEPT ![e] = Tail(@)] \in [Emails -> Seq(S)]
  <1>1. ASSUME NEW s \in Seq(S) PROVE [log EXCEPT ![e] = s] \in [Emails -> Seq(S)]
    OBVIOUS
  <1>2. CASE e \in Emails
    <2>1. log[e] \in Seq(S)
      BY <1>2
    <2>2. <<>> \in Seq(S) /\ \A x \in S : Append(log[e], x) \in Seq(S)
      BY <2>1
    <2>3. log[e] # <<>> => Tail(log[e]) \in Seq(S)
      BY <2>1
    <2>. QED BY <1>1, <2>2, <2>3
  <1>3. CASE e \notin Emails
    BY <1>3
  <1>. QED BY <1>2, <1>3

LEMMA RequestKeepsStores ==
    ASSUME IInv, NEW w \in Workers, Request(w)
    PROVE  Stores'
  <1>1. UNCHANGED <<tables, redis, tokens, sent, ended>>
    BY DEF Request, Register, Login, RefreshToken, Logout
  <1>2. tasks' \in [Tasks -> Nat]
    BY MoreTasks DEF Request, Register, Login, RefreshToken, Logout, IInv, Stores
  <1>. QED BY <1>1, <1>2 DEF IInv, Stores, tables, redis, tokens

LEMMA StepKeepsStores ==
    ASSUME IInv, NEW w \in Workers, Step(w)
    PROVE  Stores'
  <1> USE DEF tables, redis, tokens
  <1>s. Stores
    BY DEF IInv
  <1>h. Handlers
    BY DEF IInv
  <1>1. CASE LookUp(w)
    BY <1>1, <1>s DEF LookUp, Stores
  <1>2. CASE InsertUser(w)
    <2>1. job[w].email \in Emails
      BY <1>2, <1>h, Working DEF InsertUser, Fits
    <2>2. users' \in [Users -> Emails \cup {None}]
      BY <1>2, <1>s, <2>1 DEF InsertUser, Stores
    <2>. QED BY <1>2, <1>s, <2>2 DEF InsertUser, Stores
  <1>3. CASE SavePair(w)
    <2>1. job[w] \in Jobs /\ job[w].user \in Users
      BY <1>3, <1>h, Working DEF SavePair, Fits
    <2>2. /\ pairs' \in [Pairs -> PairRecords \cup {None}]
          /\ left' \in [Pairs -> 0 .. Week] /\ stored' \subseteq Pairs
      BY <1>3, <1>s, <2>1, NewPairKeepsStores DEF SavePair
    <2>3. tasks' \in [Tasks -> Nat]
      BY <1>3, <1>s, MoreTasks DEF SavePair, Stores
    <2>. QED BY <1>3, <1>s, <2>2, <2>3 DEF SavePair, Stores
  <1>4. CASE Find(w)
    BY <1>4, <1>s DEF Find, Stores
  <1>5. CASE Limit(w)
    <2>1. \/ UNCHANGED tries
          \/ tries' = [tries EXCEPT ![job[w].email] = Append(@, "admitted")]
          \/ tries' = [tries EXCEPT ![job[w].email] = Append(@, "refused")]
      BY <1>5 DEF Limit
    <2>2. /\ [tries EXCEPT ![job[w].email] = Append(@, "admitted")] \in [Emails -> Seq(Verdicts)]
          /\ [tries EXCEPT ![job[w].email] = Append(@, "refused")] \in [Emails -> Seq(Verdicts)]
      BY <1>s, TriesTyped DEF Stores, Verdicts
    <2>3. tries' \in [Emails -> Seq(Verdicts)]
      BY <1>s, <2>1, <2>2, Zenon DEF Stores
    <2>. QED BY <1>5, <1>s, <2>3 DEF Limit, Stores
  <1>6. CASE Compare(w)
    BY <1>6, <1>s DEF Compare, Stores
  <1>7. CASE ResetTries(w)
    <2>1. tries' \in [Emails -> Seq(Verdicts)]
      <3>1. [tries EXCEPT ![job[w].email] = <<>>] \in [Emails -> Seq(Verdicts)]
        BY <1>s, TriesTyped, Zenon DEF Stores
      <3>. QED BY <1>7, <1>s, <3>1, Zenon DEF ResetTries, Ignoring, Stores
    <2>. QED BY <1>7, <1>s, <2>1 DEF ResetTries, Stores
  <1>8. CASE ReadRow(w)
    BY <1>8, <1>s DEF ReadRow, Stores
  <1>9. CASE Drop(w)
    BY <1>9, <1>s DEF Drop, Ignoring, Stores
  <1>10. CASE Consume(w)
    BY <1>10, <1>s DEF Consume, Ignoring, Stores
  <1>11. CASE Forget(w)
    BY <1>11, <1>s DEF Forget, Ignoring, Stores
  <1>12. CASE ForgetAll(w)
    BY <1>12, <1>s DEF ForgetAll, Ignoring, Stores, PairsOf
  <1>. QED BY <1>1, <1>2, <1>3, <1>4, <1>5, <1>6, <1>7, <1>8, <1>9, <1>10, <1>11, <1>12 DEF Step

LEMMA FailKeepsStores ==
    ASSUME IInv, NEW w \in Workers, Fail(w)
    PROVE  Stores'
  <1> USE DEF tables, redis, tokens
  <1>s. Stores
    BY DEF IInv
  <1>h. Handlers
    BY DEF IInv
  <1>1. CASE UNCHANGED <<users, stored, tokens>>
    BY <1>1, <1>s DEF Fail, Stores
  <1>2. CASE /\ pc[w] = "insert" /\ UNCHANGED <<stored, tokens>>
             /\ \E u \in Users : users[u] = None /\ users' = [users EXCEPT ![u] = job[w].email]
    <2>1. job[w].email \in Emails
      BY <1>2, <1>h, Working DEF Fits
    <2>2. users' \in [Users -> Emails \cup {None}]
      BY <1>2, <1>s, <2>1 DEF Stores
    <2>. QED BY <1>2, <1>s, <2>2 DEF Fail, Stores
  <1>3. CASE pc[w] = "save" /\ UNCHANGED users /\ \E p \in Pairs : NewPair(p, job[w], FALSE)
    <2>1. job[w] \in Jobs /\ job[w].user \in Users
      BY <1>3, <1>h, Working DEF Fits
    <2>2. /\ pairs' \in [Pairs -> PairRecords \cup {None}]
          /\ left' \in [Pairs -> 0 .. Week] /\ stored' \subseteq Pairs
      BY <1>3, <1>s, <2>1, NewPairKeepsStores
    <2>. QED BY <1>3, <1>s, <2>2 DEF Fail, Stores
  <1>. QED BY <1>1, <1>2, <1>3 DEF Fail

LEMMA OlderIsYounger ==
    ASSUME NEW clock \in [Pairs -> 0 .. Week]
    PROVE  Older(clock) \in [Pairs -> 0 .. Week]
  BY WeekIsPositive DEF Older

LEMMA RestKeepsStores ==
    ASSUME IInv,
           \/ \E t \in Tasks : RunTask(t)
           \/ \E p \in Pairs : ExpireRefreshToken(p)
           \/ \E e \in Emails : ForgetTry(e)
           \/ Crash
           \/ Tick
    PROVE  Stores'
  <1> USE DEF tables, redis, tokens
  <1>s. Stores
    BY DEF IInv
  <1>1. ASSUME NEW t \in Tasks, RunTask(t) PROVE Stores'
    <2>1. tasks' \in [Tasks -> Nat]
      BY <1>1, <1>s DEF RunTask, Stores
    <2>2. black' \in [Pairs -> 0 .. Week]
      <3>1. Block \in 0 .. Week
        BY WeekIsPositive DEF Block
      <3>2. black' = black \/ black' = [black EXCEPT ![t[2]] = Block]
        BY <1>1 DEF RunTask
      <3>. QED BY <1>s, <3>1, <3>2 DEF Stores
    <2>3. sent' \subseteq Tasks
      BY <1>1, <1>s DEF RunTask, Stores
    <2>. QED BY <1>1, <1>s, <2>1, <2>2, <2>3 DEF RunTask, Stores
  <1>2. ASSUME NEW p \in Pairs, ExpireRefreshToken(p) PROVE Stores'
    BY <1>2, <1>s DEF ExpireRefreshToken, Stores
  <1>3. ASSUME NEW e \in Emails, ForgetTry(e) PROVE Stores'
    <2>1. tries' \in [Emails -> Seq(Verdicts)]
      BY <1>3, <1>s, TriesTyped DEF ForgetTry, Stores
    <2>. QED BY <1>3, <1>s, <2>1 DEF ForgetTry, Stores
  <1>4. CASE Crash
    BY <1>4, <1>s DEF Crash, Stores
  <1>5. CASE Tick
    BY <1>5, <1>s, OlderIsYounger DEF Tick, Stores
  <1>. QED BY <1>1, <1>2, <1>3, <1>4, <1>5

-----------------------------------------------------------------------------
(* Revoked tokens *)

LEMMA QuietKeepsRevocable ==
    ASSUME IInv, UNCHANGED <<black, tokens>>,
           \A p \in Pairs : tasks'[<<"blacklist", p>>] = tasks[<<"blacklist", p>>]
    PROVE  Revocable'
  BY DEF IInv, Revocable, tokens

\* A pair that is new has neither an entry nor a goroutine.
LEMMA NewPairKeepsRevocable ==
    ASSUME IInv, NEW p \in Pairs, NEW j, NEW handed, NewPair(p, j, handed), UNCHANGED black,
           \A q \in Pairs : tasks'[<<"blacklist", q>>] = tasks[<<"blacklist", q>>]
    PROVE  Revocable'
  <1>1. black[p] = 0 /\ tasks[<<"blacklist", p>>] = 0
    <2>1. ~(black[p] > 0) /\ ~(tasks[<<"blacklist", p>>] > 0)
      BY DEF NewPair, IInv, Revocable
    <2>2. black[p] \in Nat /\ tasks[<<"blacklist", p>>] \in Nat
      BY DEF IInv, Stores, Tasks
    <2>. QED BY <2>1, <2>2
  <1>2. \A q \in Pairs : q # p => pairs'[q] = pairs[q] /\ left'[q] = left[q]
    BY DEF NewPair, IInv, Stores
  <1>3. ASSUME NEW q \in Pairs
        PROVE  /\ black'[q] > 0 \/ tasks'[<<"blacklist", q>>] > 0 => pairs'[q] # None
               /\ black'[q] > 0 => left'[q] <= black'[q]
    <2>1. CASE q = p
      <3>1. black'[q] = 0 /\ tasks'[<<"blacklist", q>>] = 0
        BY <1>1, <2>1
      <3>. QED BY <3>1
    <2>2. CASE q # p
      BY <1>2, <2>2 DEF IInv, Revocable
    <2>. QED BY <2>1, <2>2
  <1>. QED BY <1>3 DEF Revocable

LEMMA RequestKeepsRevocable ==
    ASSUME IInv, NEW w \in Workers, Request(w)
    PROVE  Revocable'
  <1>1. CASE Register(w) \/ Login(w) \/ RefreshToken(w)
    BY <1>1, QuietKeepsRevocable DEF Register, Login, RefreshToken, redis
  <1>2. CASE Logout(w)
    <2>1. PICK p \in Handed : tasks' = StartTasks({<<"blacklist", p>>})
      BY <1>2 DEF Logout
    <2>2. p \in Pairs /\ pairs[p] # None
      BY DEF Handed
    <2>3. ASSUME NEW q \in Pairs, q # p
          PROVE  tasks'[<<"blacklist", q>>] = tasks[<<"blacklist", q>>]
      BY <2>1, <2>3 DEF StartTasks, Tasks
    <2>4. UNCHANGED <<black, pairs, left>>
      BY <1>2 DEF Logout, redis, tokens
    <2>. QED BY <2>2, <2>3, <2>4 DEF IInv, Revocable
  <1>. QED BY <1>1, <1>2 DEF Request

LEMMA StepKeepsRevocable ==
    ASSUME IInv, NEW w \in Workers, Step(w)
    PROVE  Revocable'
  <1>1. CASE SavePair(w)
    <2>1. UNCHANGED black
      BY <1>1 DEF SavePair, redis
    <2>2. \A q \in Pairs : tasks'[<<"blacklist", q>>] = tasks[<<"blacklist", q>>]
      BY <1>1 DEF SavePair, StartTasks, Tasks
    <2>. QED BY <1>1, <2>1, <2>2, NewPairKeepsRevocable DEF SavePair
  <1>2. CASE ~SavePair(w)
    <2>1. UNCHANGED <<black, tokens, tasks>>
      BY <1>2 DEF Step, LookUp, InsertUser, Find, Limit, Compare, ResetTries, ReadRow, Drop,
                  Consume, Forget, ForgetAll, redis
    <2>. QED BY <2>1, QuietKeepsRevocable
  <1>. QED BY <1>1, <1>2

LEMMA FailKeepsRevocable ==
    ASSUME IInv, NEW w \in Workers, Fail(w)
    PROVE  Revocable'
  <1>1. UNCHANGED <<black, tasks>>
    BY DEF Fail, redis
  <1>2. CASE UNCHANGED tokens
    BY <1>1, <1>2, QuietKeepsRevocable
  <1>3. CASE \E p \in Pairs : NewPair(p, job[w], FALSE)
    BY <1>1, <1>3, NewPairKeepsRevocable
  <1>. QED BY <1>2, <1>3 DEF Fail

LEMMA RunTaskKeepsRevocable ==
    ASSUME IInv, NEW t \in Tasks, RunTask(t)
    PROVE  Revocable'
  <1>1. UNCHANGED <<pairs, left>>
    BY DEF RunTask, tokens
  <1>2. ASSUME NEW u \in Tasks PROVE tasks'[u] > 0 => tasks[u] > 0
    BY DEF RunTask, IInv, Stores
  <1>3. ASSUME NEW p \in Pairs
        PROVE  \/ black'[p] = black[p]
               \/ black'[p] = Week /\ tasks[<<"blacklist", p>>] > 0
    <2>1. CASE UNCHANGED black
      BY <2>1
    <2>2. CASE t[1] = "blacklist" /\ black' = [black EXCEPT ![t[2]] = Week]
      <3>1. t[2] \in Pairs /\ t = <<"blacklist", t[2]>>
        BY <2>2 DEF Tasks
      <3>2. black'[p] = IF p = t[2] THEN Week ELSE black[p]
        BY <2>2 DEF IInv, Stores
      <3>3. tasks[<<"blacklist", t[2]>>] > 0
        BY <3>1 DEF RunTask
      <3>. QED BY <3>2, <3>3
    <2>. QED BY <2>1, <2>2 DEF RunTask, Block
  <1>4. ASSUME NEW p \in Pairs
        PROVE  /\ black'[p] > 0 \/ tasks'[<<"blacklist", p>>] > 0 => pairs'[p] # None
               /\ black'[p] > 0 => left'[p] <= black'[p]
    <2>1. left[p] \in 0 .. Week /\ <<"blacklist", p>> \in Tasks
      BY DEF IInv, Stores, Tasks
    <2>2. tasks'[<<"blacklist", p>>] > 0 => tasks[<<"blacklist", p>>] > 0
      BY <1>2, <2>1
    <2>3. /\ black[p] > 0 \/ tasks[<<"blacklist", p>>] > 0 => pairs[p] # None
          /\ black[p] > 0 => left[p] <= black[p]
      BY DEF IInv, Revocable
    <2>4. UNCHANGED <<pairs[p], left[p]>>
      BY <1>1
    <2>. QED BY <1>3, <2>1, <2>2, <2>3, <2>4, WeekIsPositive
  <1>. QED BY <1>4 DEF Revocable

LEMMA TickKeepsRevocable ==
    ASSUME IInv, Tick
    PROVE  Revocable'
  <1>1. \A p \in Pairs : /\ black[p] \in Nat /\ left[p] \in Nat
                         /\ black'[p] = IF black[p] = 0 THEN 0 ELSE black[p] - 1
                         /\ left'[p] = IF left[p] = 0 THEN 0 ELSE left[p] - 1
    BY DEF Tick, Older, IInv, Stores
  <1>2. UNCHANGED <<pairs, tasks>>
    BY DEF Tick
  <1>3. ASSUME NEW p \in Pairs
        PROVE  /\ black'[p] > 0 \/ tasks'[<<"blacklist", p>>] > 0 => pairs'[p] # None
               /\ black'[p] > 0 => left'[p] <= black'[p]
    <2>1. /\ black[p] > 0 \/ tasks[<<"blacklist", p>>] > 0 => pairs[p] # None
          /\ black[p] > 0 => left[p] <= black[p]
      BY DEF IInv, Revocable
    <2>2. black'[p] > 0 => black[p] > 0
      BY <1>1
    <2>3. black'[p] > 0 => left'[p] <= black'[p]
      BY <1>1, <2>1
    <2>. QED BY <1>2, <2>1, <2>2, <2>3
  <1>. QED BY <1>3 DEF Revocable

-----------------------------------------------------------------------------
(* Accounts *)

LEMMA NewAccount ==
    ASSUME IInv, NEW e, ~EmailTaken(e),
           NEW u \in Users, users' = [users EXCEPT ![u] = e]
    PROVE  OneAccountPerEmail'
  <1>1. \A v \in Users : users'[v] = IF v = u THEN e ELSE users[v]
    BY DEF IInv, Stores
  <1>. QED BY <1>1 DEF IInv, OneAccountPerEmail, EmailTaken, Registered

\* Every step that adds an account has found its address free.
LEMMA AccountsStayDistinct ==
    ASSUME IInv, Next
    PROVE  OneAccountPerEmail'
  <1>1. \/ UNCHANGED users
        \/ \E w \in Workers, u \in Users :
              ~EmailTaken(job[w].email) /\ users' = [users EXCEPT ![u] = job[w].email]
    <2>1. ASSUME NEW w \in Workers, Request(w) PROVE UNCHANGED users
      BY <2>1 DEF Request, Register, Login, RefreshToken, Logout, tables
    <2>2. ASSUME NEW w \in Workers, Step(w)
          PROVE  UNCHANGED users \/ InsertUser(w)
      BY <2>2 DEF Step, LookUp, SavePair, Find, Limit, Compare, ResetTries, ReadRow, Drop,
                  Consume, Forget, ForgetAll, tables
    <2>3. CASE \/ \E t \in Tasks : RunTask(t)
               \/ \E p \in Pairs : ExpireRefreshToken(p)
               \/ \E e \in Emails : ForgetTry(e)
               \/ Crash
               \/ Tick
      BY <2>3 DEF RunTask, ExpireRefreshToken, ForgetTry, Crash, Tick, tables
    <2>4. ASSUME NEW w \in Workers, InsertUser(w)
          PROVE  \/ UNCHANGED users
                 \/ \E u \in Users :
                       ~EmailTaken(job[w].email) /\ users' = [users EXCEPT ![u] = job[w].email]
      BY <2>4 DEF InsertUser
    <2>5. ASSUME NEW w \in Workers, Fail(w)
          PROVE  \/ UNCHANGED users
                 \/ \E u \in Users :
                       ~EmailTaken(job[w].email) /\ users' = [users EXCEPT ![u] = job[w].email]
      BY <2>5 DEF Fail
    <2>. QED BY <2>1, <2>2, <2>3, <2>4, <2>5 DEF Next, Internal
  <1>2. CASE UNCHANGED users
    BY <1>2 DEF IInv, OneAccountPerEmail
  <1>. QED BY <1>1, <1>2, NewAccount

-----------------------------------------------------------------------------
(* The theorems *)

LEMMA InitIsSound ==
    ASSUME Init
    PROVE  IInv
  <1>1. Handlers
    BY DEF Init, Handlers, Fits, Labels
  <1>2. Stores
    <2>1. 0 \in 0 .. Week /\ <<>> \in Seq(Verdicts)
      BY WeekIsPositive
    <2>2. tries \in [Emails -> Seq(Verdicts)]
      BY <2>1, Zenon DEF Init
    <2>. QED BY <2>1, <2>2 DEF Init, Stores
  <1>3. Revocable
    BY DEF Init, Revocable, Tasks
  <1>4. OneAccountPerEmail
    BY DEF Init, OneAccountPerEmail
  <1>. QED BY <1>1, <1>2, <1>3, <1>4 DEF IInv

LEMMA RestKeepsHandlersAndTokens ==
    ASSUME IInv, \/ \E t \in Tasks : RunTask(t)
                 \/ \E p \in Pairs : ExpireRefreshToken(p)
                 \/ \E e \in Emails : ForgetTry(e)
                 \/ Crash
                 \/ Tick
    PROVE  Handlers' /\ Revocable'
  <1>h. ASSUME UNCHANGED <<pc, job, pairs>> PROVE Handlers'
    BY <1>h DEF IInv, Handlers, Fits
  <1>1. ASSUME NEW t \in Tasks, RunTask(t) PROVE Handlers' /\ Revocable'
    BY <1>1, <1>h, RunTaskKeepsRevocable DEF RunTask, tokens
  <1>2. ASSUME NEW p \in Pairs, ExpireRefreshToken(p) PROVE Handlers' /\ Revocable'
    BY <1>2, <1>h, QuietKeepsRevocable DEF ExpireRefreshToken, tokens, redis
  <1>3. ASSUME NEW e \in Emails, ForgetTry(e) PROVE Handlers' /\ Revocable'
    BY <1>3, <1>h, QuietKeepsRevocable DEF ForgetTry, tokens
  <1>4. CASE Crash
    <2>1. UNCHANGED <<black, pairs, left>> /\ \A p \in Pairs : tasks'[<<"blacklist", p>>] = 0
      BY <1>4 DEF Crash, Tasks, redis, tokens
    <2>2. ASSUME NEW p \in Pairs PROVE ~(tasks'[<<"blacklist", p>>] > 0)
      BY <2>1
    <2>3. Revocable'
      BY <2>1, <2>2 DEF IInv, Revocable
    <2>. QED BY <1>4, <2>3, CrashKeepsHandlers
  <1>5. CASE Tick
    BY <1>5, <1>h, TickKeepsRevocable DEF Tick
  <1>. QED BY <1>1, <1>2, <1>3, <1>4, <1>5

LEMMA NextIsSound ==
    ASSUME IInv, [Next]_vars
    PROVE  IInv'
  <1>1. CASE Next
    <2>1. Handlers' /\ Stores' /\ Revocable'
      <3>1. ASSUME NEW w \in Workers, Request(w) PROVE Handlers' /\ Stores' /\ Revocable'
        BY <3>1, RequestKeepsHandlers, RequestKeepsStores, RequestKeepsRevocable
      <3>2. ASSUME NEW w \in Workers, Step(w) PROVE Handlers' /\ Stores' /\ Revocable'
        BY <3>2, StepKeepsHandlers, StepKeepsStores, StepKeepsRevocable
      <3>3. ASSUME NEW w \in Workers, Fail(w) PROVE Handlers' /\ Stores' /\ Revocable'
        BY <3>3, FailKeepsHandlers, FailKeepsStores, FailKeepsRevocable
      <3>. QED BY <1>1, <3>1, <3>2, <3>3, RestKeepsStores, RestKeepsHandlersAndTokens
               DEF Next, Internal
    <2>. QED BY <1>1, <2>1, AccountsStayDistinct DEF IInv
  <1>2. CASE UNCHANGED vars
    <2> USE <1>2 DEF vars, tables, redis, tokens
    <2>1. Handlers'
      BY DEF IInv, Handlers, Fits
    <2>2. Stores'
      BY DEF IInv, Stores
    <2>3. Revocable' /\ OneAccountPerEmail'
      BY DEF IInv, Revocable, OneAccountPerEmail
    <2>. QED BY <2>1, <2>2, <2>3 DEF IInv
  <1>. QED BY <1>1, <1>2

\* The inductive invariant holds in every reachable state.
THEOREM Sound == Spec => []IInv
  BY InitIsSound, NextIsSound, PTL DEF Spec

\* Every state has its declared shape, for any handlers, accounts and pairs.
THEOREM TypeCorrect == Spec => []TypeOK
  <1>1. IInv => TypeOK
    BY DEF IInv, Handlers, Stores, Fits, TypeOK
  <1>. QED BY <1>1, Sound, PTL

\* The unique column alone keeps one account for an address, although Register
\* looks before it inserts and takes a failed look for a free address.
THEOREM AddressesAreUnique == Spec => []OneAccountPerEmail
  <1>1. IInv => OneAccountPerEmail
    BY DEF IInv
  <1>. QED BY <1>1, Sound, PTL

\* An access token that Redis holds as revoked is never accepted again,
\* because its entry is kept as long as a token is valid.
THEOREM RevokedIsFinal == Spec => RevokedStaysRevoked
  <1>1. ASSUME IInv, [Next]_vars, NEW p \in Pairs, black[p] > 0
        PROVE  ~Accepted(p)'
    <2>1. black[p] \in Nat /\ left[p] \in Nat
      BY <1>1, WeekIsPositive DEF IInv, Stores
    <2>1a. left[p] <= black[p]
      BY <1>1 DEF IInv, Revocable
    <2>2. CASE Tick
      <3>1. /\ black'[p] = black[p] - 1
            /\ left'[p] = IF left[p] = 0 THEN 0 ELSE left[p] - 1
        BY <1>1, <2>1, <2>2 DEF Tick, Older
      <3>. QED BY <2>1, <2>1a, <3>1 DEF Accepted
    <2>3. CASE \E t \in Tasks : RunTask(t)
      <3>1. UNCHANGED black \/ \E q : black' = [black EXCEPT ![q] = Week]
        BY <2>3 DEF RunTask, Block
      <3>2. black'[p] = black[p] \/ black'[p] = Week
        BY <1>1, <3>1 DEF IInv, Stores
      <3>. QED BY <1>1, <2>1, <3>2, WeekIsPositive DEF Accepted
    <2>4. CASE ~Tick /\ ~(\E t \in Tasks : RunTask(t))
      <3>1. UNCHANGED black
        <4>1. ASSUME NEW w \in Workers, Request(w) PROVE UNCHANGED black
          BY <4>1 DEF Request, Register, Login, RefreshToken, Logout, redis
        <4>2. ASSUME NEW w \in Workers, Step(w) PROVE UNCHANGED black
          BY <4>2 DEF Step, LookUp, InsertUser, SavePair, Find, Limit, Compare, ResetTries,
                      ReadRow, Drop, Consume, Forget, ForgetAll, redis
        <4>3. ASSUME NEW w \in Workers, Fail(w) PROVE UNCHANGED black
          BY <4>3 DEF Fail, redis
        <4>4. CASE \/ \E q \in Pairs : ExpireRefreshToken(q)
                   \/ \E e \in Emails : ForgetTry(e)
                   \/ Crash
          BY <4>4 DEF ExpireRefreshToken, ForgetTry, Crash, redis
        <4>. QED BY <1>1, <2>4, <4>1, <4>2, <4>3, <4>4 DEF Next, Internal, vars, redis
      <3>. QED BY <1>1, <2>1, <3>1 DEF Accepted
    <2>. QED BY <2>2, <2>3, <2>4
  <1>2. IInv /\ [Next]_vars => \A p \in Pairs : black[p] > 0 => ~Accepted(p)'
    BY <1>1
  <1>. QED BY <1>2, Sound, PTL DEF Spec, RevokedStaysRevoked

-----------------------------------------------------------------------------
(* The limit of logins *)

\* The tries that were admitted are among the first of the log: there are no
\* more of them than places.
AdmittedFirst ==
    \A e \in Emails : \A i \in DOMAIN tries[e] :
        tries[e][i] = "admitted" => i <= MaxAttempts + 1

\* What a log gains and loses.
LEMMA LogParts ==
    ASSUME NEW S, NEW s \in Seq(S), NEW good, NEW limit \in Nat,
           \A i \in DOMAIN s : s[i] = good => i <= limit
    PROVE  /\ \A x \in S :
                 x # good \/ Len(s) < limit =>
                     \A i \in DOMAIN Append(s, x) : Append(s, x)[i] = good => i <= limit
           /\ s # <<>> => \A i \in DOMAIN Tail(s) : Tail(s)[i] = good => i <= limit
  <1>0. DOMAIN s = 1 .. Len(s) /\ Len(s) \in Nat
    OBVIOUS
  <1>1. ASSUME NEW x \in S
        PROVE  /\ DOMAIN Append(s, x) = 1 .. Len(s) + 1
               /\ \A i \in 1 .. Len(s) : Append(s, x)[i] = s[i]
               /\ Append(s, x)[Len(s) + 1] = x
    <2>1. Append(s, x) \in Seq(S) /\ Len(Append(s, x)) = Len(s) + 1
      OBVIOUS
    <2>2. DOMAIN Append(s, x) = 1 .. Len(s) + 1
      BY <2>1
    <2>. QED BY <2>2
  <1>2. ASSUME NEW x \in S, x # good \/ Len(s) < limit,
               NEW i \in DOMAIN Append(s, x), Append(s, x)[i] = good
        PROVE  i <= limit
    BY <1>0, <1>1, <1>2
  <1>3. ASSUME s # <<>>, NEW i \in DOMAIN Tail(s), Tail(s)[i] = good
        PROVE  i <= limit
    <2>1. /\ Tail(s) \in Seq(S) /\ Len(Tail(s)) = Len(s) - 1
      BY <1>3
    <2>2. i \in 1 .. Len(s) - 1 /\ Tail(s)[i] = s[i + 1]
      BY <1>3, <2>1
    <2>. QED BY <1>0, <1>3, <2>2
  <1>. QED BY <1>2, <1>3

\* A log changes by a try that is added, is emptied, or loses its oldest try.
LEMMA LogChanges ==
    ASSUME IInv, [Next]_vars
    PROVE  \/ UNCHANGED tries
           \/ \E w \in Workers, verdict \in Verdicts :
                 /\ verdict = "admitted" => Admits(job[w].email)
                 /\ tries' = [tries EXCEPT ![job[w].email] = Append(@, verdict)]
           \/ \E e : tries' = [tries EXCEPT ![e] = <<>>]
           \/ \E e \in Emails : tries[e] # <<>> /\ tries' = [tries EXCEPT ![e] = Tail(@)]
  <1> USE DEF redis
  <1>1. ASSUME NEW w \in Workers, Request(w) PROVE UNCHANGED tries
    BY <1>1 DEF Request, Register, Login, RefreshToken, Logout
  <1>2. ASSUME NEW w \in Workers, Step(w) PROVE UNCHANGED tries \/ Limit(w) \/ ResetTries(w)
    BY <1>2 DEF Step, LookUp, InsertUser, SavePair, Find, Compare, ReadRow, Drop, Consume,
                Forget, ForgetAll
  <1>3. ASSUME NEW w \in Workers, Fail(w) PROVE UNCHANGED tries
    BY <1>3 DEF Fail
  <1>4. CASE \/ \E t \in Tasks : RunTask(t)
             \/ \E p \in Pairs : ExpireRefreshToken(p)
             \/ Crash
             \/ Tick
    BY <1>4 DEF RunTask, ExpireRefreshToken, Crash, Tick
  <1>5. ASSUME NEW w \in Workers, Limit(w)
        PROVE  \/ UNCHANGED tries
               \/ \E verdict \in Verdicts :
                     /\ verdict = "admitted" => Admits(job[w].email)
                     /\ tries' = [tries EXCEPT ![job[w].email] = Append(@, verdict)]
    BY <1>5 DEF Limit, Verdicts
  <1>6. ASSUME NEW w \in Workers, ResetTries(w)
        PROVE  UNCHANGED tries \/ \E e : tries' = [tries EXCEPT ![e] = <<>>]
    BY <1>6 DEF ResetTries, Ignoring
  <1>7. ASSUME NEW e \in Emails, ForgetTry(e)
        PROVE  tries[e] # <<>> /\ tries' = [tries EXCEPT ![e] = Tail(@)]
    BY <1>7 DEF ForgetTry
  <1>8. CASE UNCHANGED vars
    BY <1>8 DEF vars
  <1>. QED BY <1>1, <1>2, <1>3, <1>4, <1>5, <1>6, <1>7, <1>8 DEF Next, Internal

LEMMA LogStays ==
    ASSUME IInv, AdmittedFirst, [Next]_vars
    PROVE  AdmittedFirst'
  <1> USE MaxAttemptsIsNatural
  <1>0. tries \in [Emails -> Seq(Verdicts)] /\ MaxAttempts + 1 \in Nat
    BY DEF IInv, Stores
  <1> SUFFICES ASSUME NEW e \in Emails
               PROVE  \A i \in DOMAIN tries'[e] : tries'[e][i] = "admitted" => i <= MaxAttempts + 1
    BY DEF AdmittedFirst
  <1>1. /\ tries[e] \in Seq(Verdicts)
        /\ \A i \in DOMAIN tries[e] : tries[e][i] = "admitted" => i <= MaxAttempts + 1
    BY <1>0 DEF AdmittedFirst
  <1>2. \/ tries'[e] = tries[e]
        \/ \E verdict \in Verdicts :
              /\ verdict = "admitted" => Admits(e)
              /\ tries'[e] = Append(tries[e], verdict)
        \/ tries'[e] = <<>>
        \/ tries[e] # <<>> /\ tries'[e] = Tail(tries[e])
    BY <1>0, LogChanges
  <1>3. Admits(e) => Len(tries[e]) < MaxAttempts + 1
    BY <1>1 DEF Admits
  <1>4. ASSUME NEW verdict \in Verdicts, verdict = "admitted" => Admits(e),
               tries'[e] = Append(tries[e], verdict)
        PROVE  \A i \in DOMAIN tries'[e] : tries'[e][i] = "admitted" => i <= MaxAttempts + 1
    BY <1>0, <1>1, <1>3, <1>4, LogParts
  <1>5. CASE tries[e] # <<>> /\ tries'[e] = Tail(tries[e])
    BY <1>0, <1>1, <1>5, LogParts
  <1>. QED BY <1>1, <1>2, <1>4, <1>5

\* However the logins of an address interleave, a window holds at most one try
\* more that was admitted than the limit allows.
THEOREM LimitIsKept == Spec => []TriesBounded
  <1>1. Init => AdmittedFirst
    BY DEF Init, AdmittedFirst
  <1>2. ASSUME IInv, AdmittedFirst PROVE TriesBounded
    <2> SUFFICES ASSUME NEW e \in Emails
                 PROVE  Cardinality({i \in DOMAIN tries[e] : tries[e][i] = "admitted"})
                           <= MaxAttempts + 1
      BY DEF TriesBounded
    <2>1. MaxAttempts + 1 \in Nat
      BY MaxAttemptsIsNatural
    <2>2. DOMAIN tries[e] = 1 .. Len(tries[e]) /\ Len(tries[e]) \in Nat
      BY <1>2 DEF IInv, Stores
    <2>3. {i \in DOMAIN tries[e] : tries[e][i] = "admitted"} \subseteq 1 .. MaxAttempts + 1
      BY <1>2, <2>1, <2>2 DEF AdmittedFirst
    <2>4. IsFiniteSet(1 .. MaxAttempts + 1) /\ Cardinality(1 .. MaxAttempts + 1) = MaxAttempts + 1
      BY <2>1, FS_Interval
    <2>. QED BY <2>3, <2>4, FS_Subset
  <1>3. IInv /\ AdmittedFirst /\ [Next]_vars => AdmittedFirst'
    BY LogStays
  <1>4. IInv /\ AdmittedFirst => TriesBounded
    BY <1>2
  <1>. QED BY <1>1, <1>3, <1>4, Sound, PTL DEF Spec

-----------------------------------------------------------------------------
(* Requests that come one at a time, while nothing fails but the process *)

OneHandler == \A v, w \in Workers : pc[v] # "idle" /\ pc[w] # "idle" => v = w

\* No pair was bought with p.
Unused(p) == \A q \in Pairs : pairs[q] # None => pairs[q].parent # p

\* A pair is bought for the account of its parent, and a token that is a row
\* has bought nothing.
Lineage ==
    /\ \A p \in stored : pairs[p] # None /\ Unused(p)
    /\ \A p \in ended : pairs[p] # None
    /\ \A p \in Pairs : pairs[p] # None /\ pairs[p].parent # None =>
          pairs[pairs[p].parent] # None /\ pairs[pairs[p].parent].user = pairs[p].user

\* Only RefreshToken buys with a pair: its token is a row until it is consumed,
\* and was not ended since.
InStep(w) ==
    /\ pc[w] \in {"lookup", "insert", "find", "limit", "compare", "reset"} => job[w].pair = None
    /\ pc[w] = "consume" => job[w].pair \in stored /\ pairs[job[w].pair].user = job[w].user
    /\ pc[w] = "save" /\ job[w].pair # None =>
          /\ job[w].pair \in Pairs \ (stored \cup ended) /\ Unused(job[w].pair)
          /\ pairs[job[w].pair] # None /\ pairs[job[w].pair].user = job[w].user

Sessions == Lineage /\ RefreshBuysOnce /\ LogoutEndsSessions

AloneInv == OneHandler /\ Sessions /\ \A w \in Workers : InStep(w)

OthersWait(w) == \A v \in Workers \ {w} : pc'[v] = pc[v] /\ job'[v] = job[v]

LEMMA ReliableIsNormal ==
    /\ Reliable!Internal => Internal
    /\ \A w \in Workers :
          /\ Reliable!Step(w) => Step(w)
          /\ Reliable!Step(w) /\ pc[w] = "consume" => stored' = stored \ {job[w].pair}
          /\ Reliable!Step(w) /\ pc[w] = "forgetall" => stored' = stored \ PairsOf(job[w].user)
          /\ ~ Reliable!Fail(w)
    /\ Reliable!Internal => \/ \E w \in Workers : Reliable!Step(w)
                            \/ \E t \in Tasks : RunTask(t)
                            \/ \E p \in Pairs : ExpireRefreshToken(p)
                            \/ \E e \in Emails : ForgetTry(e)
                            \/ Crash
                            \/ Tick
  <1> USE DEF tables, redis, tokens, Reliable!tables, Reliable!redis, Reliable!tokens
  <1>1. ASSUME NEW w \in Workers, Reliable!Step(w) PROVE Step(w)
    <2> USE DEF Finish, Goto, GotoAs, Registered, Ignoring, PairsOf,
                Reliable!Finish, Reliable!Goto, Reliable!GotoAs, Reliable!Registered,
                Reliable!Ignoring, Reliable!PairsOf
    <2>1. Reliable!LookUp(w) => LookUp(w)
      BY DEF Reliable!LookUp, LookUp
    <2>2. Reliable!InsertUser(w) => InsertUser(w)
      BY DEF Reliable!InsertUser, InsertUser, Reliable!EmailTaken, EmailTaken
    <2>3. Reliable!SavePair(w) => SavePair(w)
      BY DEF Reliable!SavePair, SavePair, Reliable!NewPair, NewPair, Reliable!StartTasks, StartTasks,
             Reliable!Tasks, Tasks
    <2>4. Reliable!Find(w) => Find(w)
      BY DEF Reliable!Find, Find
    <2>5. Reliable!Limit(w) => Limit(w)
      BY DEF Reliable!Limit, Limit, Reliable!Admits, Admits
    <2>6. Reliable!Compare(w) => Compare(w)
      BY DEF Reliable!Compare, Compare
    <2>7. Reliable!ResetTries(w) => ResetTries(w)
      BY DEF Reliable!ResetTries, ResetTries
    <2>8. Reliable!ReadRow(w) => ReadRow(w)
      BY DEF Reliable!ReadRow, ReadRow
    <2>9. Reliable!Drop(w) => Drop(w)
      BY DEF Reliable!Drop, Drop
    <2>10. Reliable!Consume(w) => Consume(w)
      BY DEF Reliable!Consume, Consume
    <2>11. Reliable!Forget(w) => Forget(w)
      BY DEF Reliable!Forget, Forget
    <2>12. Reliable!ForgetAll(w) => ForgetAll(w)
      BY DEF Reliable!ForgetAll, ForgetAll, Reliable!Forgets, Forgets
    <2>. QED BY <1>1, <2>1, <2>2, <2>3, <2>4, <2>5, <2>6, <2>7, <2>8, <2>9, <2>10, <2>11, <2>12
             DEF Reliable!Step, Step
  <1>2. ASSUME NEW w \in Workers, Reliable!Step(w), pc[w] = "consume"
        PROVE  stored' = stored \ {job[w].pair}
    BY <1>2 DEF Reliable!Step, Reliable!LookUp, Reliable!InsertUser, Reliable!SavePair, Reliable!Find,
                Reliable!Limit, Reliable!Compare, Reliable!ResetTries, Reliable!ReadRow,
                Reliable!Drop, Reliable!Consume, Reliable!Forget, Reliable!ForgetAll, Reliable!Ignoring
  <1>3. ASSUME NEW w \in Workers, Reliable!Step(w), pc[w] = "forgetall"
        PROVE  stored' = stored \ PairsOf(job[w].user)
    BY <1>3 DEF Reliable!Step, Reliable!LookUp, Reliable!InsertUser, Reliable!SavePair, Reliable!Find,
                Reliable!Limit, Reliable!Compare, Reliable!ResetTries, Reliable!ReadRow,
                Reliable!Drop, Reliable!Consume, Reliable!Forget, Reliable!ForgetAll,
                Reliable!Ignoring, Reliable!Forgets, Reliable!PairsOf, PairsOf
  <1>4. ASSUME NEW w \in Workers PROVE ~ Reliable!Fail(w)
    BY DEF Reliable!Fail
  <1>5. ASSUME NEW t \in Tasks, Reliable!RunTask(t) PROVE RunTask(t)
    BY <1>5 DEF Reliable!RunTask, RunTask, Reliable!FaultOf, FaultOf, Reliable!Block, Block
  <1>6. ASSUME NEW p \in Pairs, Reliable!ExpireRefreshToken(p) PROVE ExpireRefreshToken(p)
    BY <1>6 DEF Reliable!ExpireRefreshToken, ExpireRefreshToken
  <1>7. ASSUME NEW e \in Emails, Reliable!ForgetTry(e) PROVE ForgetTry(e)
    BY <1>7 DEF Reliable!ForgetTry, ForgetTry
  <1>8. Reliable!Crash => Crash
    BY DEF Reliable!Crash, Crash, Reliable!Tasks, Tasks
  <1>9. Reliable!Tick => Tick
    BY DEF Reliable!Tick, Tick, Reliable!Older, Older
  <1>10. Reliable!Internal => \/ \E w \in Workers : Reliable!Step(w)
                              \/ \E t \in Tasks : RunTask(t)
                              \/ \E p \in Pairs : ExpireRefreshToken(p)
                              \/ \E e \in Emails : ForgetTry(e)
                              \/ Crash
                              \/ Tick
    BY <1>4, <1>5, <1>6, <1>7, <1>8, <1>9 DEF Reliable!Internal, Reliable!Tasks, Tasks
  <1>11. Reliable!Internal => Internal
    BY <1>1, <1>10 DEF Internal
  <1>. QED BY <1>1, <1>2, <1>3, <1>4, <1>10, <1>11

\* A running handler moves, alone.
LEMMA MoverIsAlone ==
    ASSUME AloneInv, NEW w \in Workers, pc[w] # "idle", OthersWait(w), Sessions', InStep(w)'
    PROVE  AloneInv'
  <1>1. \A v \in Workers \ {w} : pc'[v] = "idle"
    BY DEF AloneInv, OneHandler, OthersWait
  <1>2. OneHandler' /\ \A v \in Workers : InStep(v)'
    BY <1>1 DEF OneHandler, InStep
  <1>. QED BY <1>2 DEF AloneInv

LEMMA StepMovesOne ==
    ASSUME Handlers, NEW w \in Workers, Step(w)
    PROVE  pc[w] # "idle" /\ OthersWait(w)
  BY DEF Step, LookUp, InsertUser, SavePair, Find, Limit, Compare, ResetTries, ReadRow, Drop,
         Consume, Forget, ForgetAll, Goto, GotoAs, Finish, OthersWait, Handlers

LEMMA RequestStaysInStep ==
    ASSUME IInv, AloneInv, NEW w \in Workers, Request(w), \A v \in Workers : pc[v] = "idle"
    PROVE  AloneInv'
  <1>1. UNCHANGED <<stored, pairs, ended>>
    BY DEF Request, Register, Login, RefreshToken, Logout, tables, tokens
  <1>2. Sessions'
    BY <1>1 DEF AloneInv, Sessions, Lineage, Unused, RefreshBuysOnce, LogoutEndsSessions
  <1>3. PICK label, op, e, u, p :
            /\ Start(w, label, op, e, u, p)
            /\ label \in {"lookup", "find", "readrow", "forget", "forgetall"}
            /\ label \in {"lookup", "find"} => p = None
    <2>1. CASE Register(w)
      <3>1. PICK e \in Emails : Start(w, "lookup", "register", e, None, None)
        BY <2>1 DEF Register
      <3>. QED BY <3>1
    <2>2. CASE Login(w)
      <3>1. PICK e \in Emails : Start(w, "find", "login", e, None, None)
        BY <2>2 DEF Login
      <3>. QED BY <3>1
    <2>3. CASE RefreshToken(w)
      <3>1. PICK p \in Handed : Start(w, "readrow", "refresh", None, None, p)
        BY <2>3 DEF RefreshToken
      <3>. QED BY <3>1
    <2>4. CASE Logout(w)
      <3>1. PICK p \in Handed, label \in {"forget", "forgetall"}, givesUser \in BOOLEAN :
                Start(w, label, "logout", None, IF givesUser THEN pairs[p].user ELSE None, p)
        BY <2>4 DEF Logout
      <3>2. PICK u : u = IF givesUser THEN pairs[p].user ELSE None
        OBVIOUS
      <3>. QED BY <3>1, <3>2
    <2>. QED BY <2>1, <2>2, <2>3, <2>4 DEF Request
  <1>4. /\ pc'[w] = label /\ job'[w] = [op |-> op, email |-> e, user |-> u, pair |-> p]
        /\ \A v \in Workers \ {w} : pc'[v] = "idle"
    BY <1>3 DEF Start, IInv, Handlers
  <1>5. OneHandler' /\ \A v \in Workers : InStep(v)'
    BY <1>3, <1>4 DEF OneHandler, InStep
  <1>. QED BY <1>2, <1>5 DEF AloneInv

\* A handler that leaves the sessions as they are
LEMMA ReaderStaysInStep ==
    ASSUME IInv, AloneInv, NEW w \in Workers,
           \/ LookUp(w) \/ InsertUser(w) \/ Find(w) \/ Limit(w) \/ Compare(w) \/ ResetTries(w)
           \/ ReadRow(w)
    PROVE  Sessions' /\ InStep(w)'
  <1>1. UNCHANGED <<stored, pairs, ended>>
    BY DEF LookUp, InsertUser, Find, Limit, Compare, ResetTries, ReadRow, tables, tokens
  <1>2. Sessions'
    BY <1>1 DEF AloneInv, Sessions, Lineage, Unused, RefreshBuysOnce, LogoutEndsSessions
  <1>3. pc[w] # "idle" /\ w \in DOMAIN pc /\ w \in DOMAIN job /\ job[w] \in Jobs
    BY Working DEF LookUp, InsertUser, Find, Limit, Compare, ResetTries, ReadRow, IInv, Handlers
  <1>4. CASE ~ ReadRow(w)
    <2>1. job[w].pair = None /\ pc'[w] # "consume"
      BY <1>3, <1>4 DEF AloneInv, InStep, LookUp, InsertUser, Find, Limit, Compare, ResetTries,
                        Goto, GotoAs, Finish
    <2>2. pc'[w] = "idle" \/ job'[w].pair = None
      BY <1>3, <1>4, <2>1 DEF LookUp, InsertUser, Find, Limit, Compare, ResetTries,
                        Goto, GotoAs, Finish, Jobs
    <2>3. InStep(w)'
      BY <2>1, <2>2 DEF InStep
    <2>. QED BY <1>2, <2>3
  <1>5. CASE ReadRow(w)
    <2>1. \/ pc'[w] \in {"idle", "drop"}
          \/ /\ pc'[w] = "consume" /\ job[w].pair \in stored
             /\ job'[w] = [job[w] EXCEPT !.user = pairs[job[w].pair].user]
      BY <1>3, <1>5 DEF ReadRow, Goto, GotoAs, Finish
    <2>2. CASE pc'[w] \in {"idle", "drop"}
      BY <1>2, <2>2 DEF InStep
    <2>3. CASE /\ pc'[w] = "consume" /\ job[w].pair \in stored
               /\ job'[w] = [job[w] EXCEPT !.user = pairs[job[w].pair].user]
      <3>1. job'[w].pair = job[w].pair /\ job'[w].user = pairs[job[w].pair].user
        BY <1>3, <2>3 DEF Jobs
      <3>2. InStep(w)'
        BY <1>1, <2>3, <3>1 DEF InStep
      <3>. QED BY <1>2, <3>2
    <2>. QED BY <2>1, <2>2, <2>3
  <1>. QED BY <1>4, <1>5

\* A handler that deletes the row of its token
LEMMA ConsumerStaysInStep ==
    ASSUME IInv, AloneInv, NEW w \in Workers, Drop(w) \/ Consume(w) \/ Forget(w),
           pc[w] = "consume" => stored' = stored \ {job[w].pair}
    PROVE  Sessions' /\ InStep(w)'
  <1>1. UNCHANGED <<pairs, ended>> /\ stored' \subseteq stored
    BY DEF Drop, Consume, Forget, Ignoring, tokens
  <1>2. Sessions'
    BY <1>1 DEF AloneInv, Sessions, Lineage, Unused, RefreshBuysOnce, LogoutEndsSessions
  <1>3. CASE ~ Consume(w)
    <2>1. pc'[w] \in {"idle", "forgetall"}
      BY <1>3 DEF Drop, Forget, Goto, Finish, IInv, Handlers
    <2>. QED BY <1>2, <2>1 DEF InStep
  <1>4. CASE Consume(w)
    <2>1. PICK p : p = job[w].pair
      OBVIOUS
    <2>2. pc[w] = "consume" /\ pc'[w] = "save" /\ job'[w] = job[w]
      BY <1>4 DEF Consume, Goto, IInv, Handlers
    <2>3. p \in stored /\ pairs[p].user = job[w].user /\ p \in Pairs
      BY <2>1, <2>2 DEF AloneInv, InStep, IInv, Stores
    <2>4. pairs[p] # None /\ Unused(p) /\ p \notin ended
      BY <2>3 DEF AloneInv, Sessions, Lineage, LogoutEndsSessions
    <2>5. Unused(p)' /\ p \notin stored' /\ p \notin ended' /\ pairs'[p] = pairs[p]
      BY <1>1, <2>1, <2>2, <2>4 DEF Unused
    <2>6. InStep(w)'
      BY <2>1, <2>2, <2>3, <2>4, <2>5 DEF InStep
    <2>. QED BY <1>2, <2>6
  <1>. QED BY <1>3, <1>4

\* A new pair buys nothing, and its parent has bought nothing else.
LEMMA SaverStaysInStep ==
    ASSUME IInv, AloneInv, NEW w \in Workers, SavePair(w)
    PROVE  Sessions' /\ InStep(w)'
  <1>1. PICK p \in Pairs : NewPair(p, job[w], TRUE)
    BY DEF SavePair
  <1>2. PICK q, u : q = job[w].pair /\ u = job[w].user
    OBVIOUS
  <1>3. pc[w] = "save" /\ pc'[w] = "idle" /\ UNCHANGED ended
    BY DEF SavePair, Finish, IInv, Handlers
  <1>4. /\ pairs[p] = None /\ stored' = stored \cup {p}
        /\ pairs' = [pairs EXCEPT ![p] = [user |-> u, parent |-> q, handed |-> TRUE]]
    BY <1>1, <1>2 DEF NewPair
  <1>5. /\ pairs'[p] = [user |-> u, parent |-> q, handed |-> TRUE]
        /\ \A r \in Pairs \ {p} : pairs'[r] = pairs[r]
    BY <1>4 DEF IInv, Stores
  <1>6. pairs'[p] # None /\ pairs'[p].parent = q /\ pairs'[p].user = u
    <2>1. pairs'[p] \in PairRecords
      <3>1. u \in Users /\ q \in Pairs \cup {None}
        BY <1>2, <1>3, Working DEF IInv, Fits, Jobs
      <3>. QED BY <1>5, <3>1 DEF PairRecords
    <2>2. pairs'[p] # None
      BY <2>1, NoneIsNothing
    <2>3. pairs'[p].parent = q /\ pairs'[p].user = u
      BY <1>5
    <2>. QED BY <2>2, <2>3
  <1>7. \/ q = None
        \/ /\ q \in Pairs \ (stored \cup ended) /\ Unused(q)
           /\ pairs[q] # None /\ pairs[q].user = u
    BY <1>2, <1>3 DEF AloneInv, InStep
  <1>8. Lineage /\ RefreshBuysOnce /\ LogoutEndsSessions
    BY DEF AloneInv, Sessions
  <1>9. \A r \in Pairs : pairs[r] # None => pairs[r].parent \in Pairs \cup {None}
    BY DEF IInv, Stores, PairRecords
  <1>10. q # p /\ p \notin ended /\ p \notin stored /\ stored \subseteq Pairs /\ ended \subseteq Pairs
    BY <1>4, <1>7, <1>8, NoneIsNothing DEF Lineage, IInv, Stores
  <1>11. \A r \in Pairs : pairs[r] # None => pairs[r].parent # p
    BY <1>4, <1>8, <1>9, NoneIsNothing DEF Lineage
  <1>12. Lineage'
    <2>1. ASSUME NEW r \in stored' PROVE pairs'[r] # None /\ Unused(r)'
      <3>1. CASE r = p
        BY <1>5, <1>6, <1>10, <1>11, <3>1 DEF Unused
      <3>2. CASE r # p
        <4>1. r \in stored /\ r # q
          BY <1>4, <1>7, <1>10, <2>1, <3>2, NoneIsNothing
        <4>2. pairs[r] # None /\ Unused(r)
          BY <1>8, <4>1 DEF Lineage
        <4>. QED BY <1>5, <1>6, <1>10, <3>2, <4>1, <4>2 DEF Unused
      <3>. QED BY <3>1, <3>2
    <2>2. \A r \in ended' : pairs'[r] # None
      BY <1>3, <1>5, <1>8, <1>10 DEF Lineage
    <2>3. ASSUME NEW r \in Pairs, pairs'[r] # None, pairs'[r].parent # None
          PROVE  pairs'[pairs'[r].parent] # None /\ pairs'[pairs'[r].parent].user = pairs'[r].user
      <3>1. CASE r = p
        BY <1>5, <1>6, <1>7, <1>10, <2>3, <3>1
      <3>2. CASE r # p
        <4>1. PICK o : o = pairs[r].parent
          OBVIOUS
        <4>2. pairs'[r] = pairs[r] /\ o # None /\ o \in Pairs /\ o # p
          BY <1>5, <1>9, <1>11, <2>3, <3>2, <4>1
        <4>3. pairs[o] # None /\ pairs[o].user = pairs[r].user
          BY <1>8, <2>3, <4>1, <4>2 DEF Lineage
        <4>. QED BY <1>5, <4>1, <4>2, <4>3
      <3>. QED BY <3>1, <3>2
    <2>. QED BY <2>1, <2>2, <2>3 DEF Lineage
  <1>13. RefreshBuysOnce'
    <2> SUFFICES ASSUME NEW r \in Pairs, NEW s \in Pairs, pairs'[r] # None, pairs'[s] # None,
                        pairs'[r].parent = pairs'[s].parent, r # s
                 PROVE  pairs'[r].parent = None
      BY DEF RefreshBuysOnce
    <2>1. CASE r = p \/ s = p
      BY <1>5, <1>6, <1>7, <2>1 DEF Unused
    <2>2. CASE r # p /\ s # p
      BY <1>5, <1>8, <2>2 DEF RefreshBuysOnce
    <2>. QED BY <2>1, <2>2
  <1>14. LogoutEndsSessions'
    <2> SUFFICES ASSUME NEW r \in stored'
                 PROVE  r \notin ended /\ pairs'[r].parent \notin ended
      BY <1>3 DEF LogoutEndsSessions
    <2>1. CASE r = p
      BY <1>6, <1>7, <1>10, <2>1, NoneIsNothing
    <2>2. CASE r # p
      BY <1>4, <1>5, <1>8, <1>10, <2>2 DEF LogoutEndsSessions
    <2>. QED BY <2>1, <2>2
  <1>15. InStep(w)'
    BY <1>3 DEF InStep
  <1>. QED BY <1>12, <1>13, <1>14, <1>15 DEF Sessions

\* Every session of the account goes, and with it all that were bought in turn.
LEMMA EnderStaysInStep ==
    ASSUME IInv, AloneInv, NEW w \in Workers, ForgetAll(w),
           stored' = stored \ PairsOf(job[w].user)
    PROVE  Sessions' /\ InStep(w)'
  <1>1. PICK u : u = job[w].user
    OBVIOUS
  <1>2. /\ UNCHANGED pairs /\ stored' = stored \ PairsOf(u) /\ ended' = ended \cup PairsOf(u)
        /\ pc'[w] = "idle"
    BY <1>1 DEF ForgetAll, Finish, tokens, IInv, Handlers
  <1>3. Lineage /\ RefreshBuysOnce /\ LogoutEndsSessions
    BY DEF AloneInv, Sessions
  <1>4. Lineage'
    BY <1>2, <1>3 DEF Lineage, Unused, PairsOf
  <1>5. RefreshBuysOnce'
    BY <1>2, <1>3 DEF RefreshBuysOnce
  <1>6. LogoutEndsSessions'
    <2> SUFFICES ASSUME NEW p \in stored'
                 PROVE  p \notin ended' /\ pairs[p].parent \notin ended'
      BY <1>2 DEF LogoutEndsSessions
    <2>1. p \in stored /\ p \in Pairs /\ p \notin PairsOf(u) /\ pairs[p] # None
      BY <1>2, <1>3 DEF IInv, Stores, Lineage
    <2>2. pairs[p].user # u
      BY <2>1 DEF PairsOf
    <2>3. pairs[p].parent \notin PairsOf(u)
      BY <1>3, <2>1, <2>2, NoneIsNothing DEF Lineage, PairsOf
    <2>. QED BY <1>2, <1>3, <2>1, <2>3 DEF LogoutEndsSessions
  <1>7. InStep(w)'
    BY <1>2 DEF InStep
  <1>. QED BY <1>4, <1>5, <1>6, <1>7 DEF Sessions

LEMMA RestStaysInStep ==
    ASSUME IInv, AloneInv, \/ \E t \in Tasks : RunTask(t)
                           \/ \E p \in Pairs : ExpireRefreshToken(p)
                           \/ \E e \in Emails : ForgetTry(e)
                           \/ Crash
                           \/ Tick
    PROVE  AloneInv'
  <1>1. UNCHANGED <<stored, pairs, ended>>
    BY DEF RunTask, ExpireRefreshToken, ForgetTry, Crash, Tick, tables, tokens
  <1>2. Sessions'
    BY <1>1 DEF AloneInv, Sessions, Lineage, Unused, RefreshBuysOnce, LogoutEndsSessions
  <1>3. UNCHANGED <<pc, job>> \/ \A w \in Workers : pc'[w] = "idle"
    BY DEF RunTask, ExpireRefreshToken, ForgetTry, Crash, Tick
  <1>4. OneHandler' /\ \A w \in Workers : InStep(w)'
    BY <1>1, <1>3 DEF AloneInv, OneHandler, InStep, Unused
  <1>. QED BY <1>2, <1>4 DEF AloneInv

LEMMA AloneIsSound ==
    MCSpec => [](IInv /\ (alone => AloneInv))
  <1>1. MCInit => IInv /\ (alone => AloneInv)
    <2> SUFFICES ASSUME MCInit PROVE IInv /\ AloneInv
      OBVIOUS
    <2>1. IInv
      BY InitIsSound DEF MCInit
    <2>2. AloneInv
      BY DEF MCInit, Init, AloneInv, OneHandler, Sessions, Lineage, RefreshBuysOnce,
             LogoutEndsSessions, InStep
    <2>. QED BY <2>1, <2>2
  <1>2. IInv /\ (alone => AloneInv) /\ [MCNext]_mcVars => (IInv /\ (alone => AloneInv))'
    <2> SUFFICES ASSUME IInv, alone => AloneInv, [MCNext]_mcVars
                 PROVE  IInv' /\ (alone' => AloneInv')
      OBVIOUS
    <2>1. [Next]_vars
      BY ReliableIsNormal DEF MCNext, mcVars, Next
    <2>2. IInv'
      BY <2>1, NextIsSound
    <2>3. UNCHANGED alone
      BY DEF MCNext, mcVars
    <2>4. ASSUME alone PROVE AloneInv'
      <3>1. CASE UNCHANGED vars
        BY <2>4, <3>1 DEF vars, tables, tokens, AloneInv, OneHandler, Sessions, Lineage, Unused,
                          RefreshBuysOnce, LogoutEndsSessions, InStep
      <3>2. CASE \E w \in Workers : Request(w) /\ \A v \in Workers : pc[v] = "idle"
        BY <2>4, <3>2, RequestStaysInStep
      <3>3. ASSUME NEW w \in Workers, Reliable!Step(w) PROVE AloneInv'
        <4>1. Step(w)
          BY <3>3, ReliableIsNormal
        <4>2. pc[w] # "idle" /\ OthersWait(w)
          BY <4>1, StepMovesOne DEF IInv
        <4>3. Sessions' /\ InStep(w)'
          <5>1. CASE Drop(w) \/ Consume(w) \/ Forget(w)
            BY <2>4, <3>3, <5>1, ReliableIsNormal, ConsumerStaysInStep
          <5>2. CASE SavePair(w)
            BY <2>4, <5>2, SaverStaysInStep
          <5>3. CASE ForgetAll(w)
            <6>1. pc[w] = "forgetall"
              BY <5>3 DEF ForgetAll
            <6>. QED BY <2>4, <3>3, <5>3, <6>1, ReliableIsNormal, EnderStaysInStep
          <5>. QED BY <2>4, <4>1, <5>1, <5>2, <5>3, ReaderStaysInStep DEF Step
        <4>. QED BY <2>4, <4>2, <4>3, MoverIsAlone
      <3>4. CASE \/ \E t \in Tasks : RunTask(t)
                 \/ \E p \in Pairs : ExpireRefreshToken(p)
                 \/ \E e \in Emails : ForgetTry(e)
                 \/ Crash
                 \/ Tick
        BY <2>4, <3>4, RestStaysInStep
      <3>. QED BY <2>4, <3>1, <3>2, <3>3, <3>4, ReliableIsNormal DEF MCNext, mcVars, Admitted
    <2>. QED BY <2>2, <2>3, <2>4
  <1>. QED BY <1>1, <1>2, PTL DEF MCSpec

\* While requests come one at a time, a refresh token buys one pair, also when
\* the process dies between consuming it and saving the pair.
THEOREM TokensBuyOnce == MCSpec => []AloneRefreshBuysOnce
  <1>1. IInv /\ (alone => AloneInv) => AloneRefreshBuysOnce
    BY DEF AloneInv, Sessions, AloneRefreshBuysOnce
  <1>. QED BY <1>1, AloneIsSound, PTL

\* While requests come one at a time, no session that a Logout has ended is
\* refreshed afterwards, and neither is one that was bought with it.
THEOREM LogoutIsFinal == MCSpec => []AloneLogoutEndsSessions
  <1>1. IInv /\ (alone => AloneInv) => AloneLogoutEndsSessions
    BY DEF AloneInv, Sessions, AloneLogoutEndsSessions
  <1>. QED BY <1>1, AloneIsSound, PTL

=============================================================================
