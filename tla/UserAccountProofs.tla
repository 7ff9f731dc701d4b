-------------------------- MODULE UserAccountProofs --------------------------
(***************************************************************************)
(* UserAccount for all sets of handlers, fields, values, passwords and     *)
(* tokens and all faults: the state has its shape, copies of a profile     *)
(* were its row, an old one that stays in the cache was stored late, and a *)
(* password changes by spending a token.                                   *)
(***************************************************************************)
EXTENDS MCUserAccount, TLAPS

\* What a handler's label says of its job.
Fits(label, j) ==
    /\ label = "idle" <=> j = None
    /\ label = "read" => j.value \in Values
    /\ label = "write" => j.copy \in Profiles
    /\ label \in {"savetoken", "check", "setpassword"} => j.token \in Tokens
    /\ label \in {"check", "setpassword", "compare", "savesession"} => j.value \in Passwords
    /\ label \in {"check", "setpassword"} => fate[j.token] # "new"

Handlers ==
    /\ pc \in [Workers -> Labels]
    /\ job \in [Workers -> Jobs \cup {None}]
    /\ \A w \in Workers : Fits(pc[w], job[w])

Row ==
    /\ profile \in Profiles /\ password \in Passwords
    /\ reset \in Tokens \cup {None} /\ sessions \subseteq Passwords
    /\ fate \in [Tokens -> {"new", "sent", "over"}]
    /\ uses \in [Tokens -> Nat]

\* What is on its way to Redis or NATS was the row, like what is there.
Copies ==
    /\ held \subseteq Profiles /\ profile \in held
    /\ cache \in held \cup {None} /\ told \subseteq held
    /\ fills \in [Profiles -> Nat] /\ drops \in Nat /\ news \in [Profiles -> Nat]
    /\ \A x \in Profiles : fills[x] > 0 \/ news[x] > 0 => x \in held

IInv == Handlers /\ Row /\ Copies

\* A token that was sent is not new again.
FateStays == \A t \in Tokens : fate[t] # "new" => fate'[t] # "new"

\* A step that leaves the row alone but for its sessions.
SameFate == fate' = fate

-----------------------------------------------------------------------------
(* The handler that moves *)

LEMMA MoveKeepsHandlers ==
    ASSUME Handlers, FateStays, NEW w \in Workers,
           NEW label \in Labels, NEW j \in Jobs \cup {None},
           pc' = [pc EXCEPT ![w] = label], job' = [job EXCEPT ![w] = j],
           Fits(label, j)'
    PROVE  Handlers'
  <1>1. pc' \in [Workers -> Labels] /\ job' \in [Workers -> Jobs \cup {None}]
    BY DEF Handlers
  <1>2. ASSUME NEW v \in Workers PROVE Fits(pc[v], job[v])'
    <2>1. CASE v = w
      <3>1. pc'[v] = label /\ job'[v] = j
        BY <2>1 DEF Handlers
      <3>. QED BY <3>1 DEF Fits
    <2>2. CASE v # w
      <3>1. pc'[v] = pc[v] /\ job'[v] = job[v] /\ Fits(pc[v], job[v])
        BY <2>2 DEF Handlers
      <3>. QED BY <3>1 DEF Fits, FateStays
    <2>. QED BY <2>1, <2>2
  <1>. QED BY <1>1, <1>2 DEF Handlers

LEMMA GotoKeepsHandlers ==
    ASSUME Handlers, FateStays, NEW w \in Workers, NEW label \in Labels,
           Goto(w, label), Fits(label, job[w])'
    PROVE  Handlers'
  <1> DEFINE j == job[w]
  <1>1. job' = [job EXCEPT ![w] = j] /\ j \in Jobs \cup {None} /\ job'[w] = j
    BY DEF Goto, Handlers
  <1>2. Fits(label, j)'
    BY <1>1 DEF Fits
  <1> HIDE DEF j
  <1>. QED BY <1>1, <1>2, MoveKeepsHandlers DEF Goto

LEMMA FinishKeepsHandlers ==
    ASSUME Handlers, FateStays, NEW w \in Workers, Finish(w)
    PROVE  Handlers'
  <1>1. Fits("idle", None)'
    BY DEF Fits
  <1>. QED BY <1>1, MoveKeepsHandlers DEF Finish, Labels

LEMMA StartKeepsHandlers ==
    ASSUME Handlers, SameFate, NEW w \in Workers, NEW label \in Labels,
           NEW given \in SUBSET Fields, NEW value \in Values \cup Passwords \cup {None},
           NEW token \in Tokens \cup {None},
           Start(w, label, given, value, token),
           label \in {"getcached", "read", "savetoken", "check", "compare", "forget"},
           label = "read" => value \in Values,
           label \in {"check", "compare"} => value \in Passwords,
           label \in {"savetoken", "check"} => token \in Tokens,
           label = "check" => fate[token] # "new"
    PROVE  Handlers'
  <1> DEFINE j == [given |-> given, value |-> value, token |-> token,
                   copy |-> None, known |-> None]
  <1>1. j \in Jobs /\ j.value = value /\ j.token = token
    BY DEF Jobs
  <1>2. pc' = [pc EXCEPT ![w] = label] /\ job' = [job EXCEPT ![w] = j]
    BY DEF Start
  <1>3. j # None
    BY <1>1, NoneIsNothing
  <1> HIDE DEF j
  <1>4. Fits(label, j)'
    BY <1>1, <1>3 DEF Fits, SameFate
  <1>5. FateStays
    BY DEF FateStays, SameFate
  <1>. QED BY <1>1, <1>2, <1>4, <1>5, MoveKeepsHandlers

\* A handler that is not idle has a job.
LEMMA BusyHasJob ==
    ASSUME Handlers, NEW w \in Workers, pc[w] # "idle"
    PROVE  job[w] \in Jobs /\ job[w] # None /\ Fits(pc[w], job[w])
  BY DEF Handlers, Fits

-----------------------------------------------------------------------------
(* Requests *)

LEMMA RequestIsSound ==
    ASSUME IInv, NEW w \in Workers, Request(w)
    PROVE  IInv'
  <1>1. UNCHANGED <<row, cache, tasks, told>>
    BY DEF Request, GetProfile, UpdateProfile, ForgotPassword, ResetPassword, Login, Logout
  <1>2. Row' /\ Copies' /\ SameFate
    BY <1>1 DEF IInv, Row, Copies, SameFate, row, tasks
  <1>3. Handlers'
    <2> USE <1>2 DEF IInv, Labels
    <2>1. CASE GetProfile(w)
      BY <2>1, StartKeepsHandlers DEF GetProfile
    <2>2. CASE UpdateProfile(w)
      BY <2>2, StartKeepsHandlers DEF UpdateProfile
    <2>3. CASE ForgotPassword(w)
      BY <2>3, StartKeepsHandlers DEF ForgotPassword
    <2>4. CASE ResetPassword(w)
      BY <2>4, StartKeepsHandlers DEF ResetPassword
    <2>5. CASE Login(w)
      BY <2>5, StartKeepsHandlers DEF Login
    <2>6. CASE Logout(w)
      BY <2>6, StartKeepsHandlers DEF Logout
    <2>. QED BY <2>1, <2>2, <2>3, <2>4, <2>5, <2>6 DEF Request
  <1>. QED BY <1>2, <1>3 DEF IInv

-----------------------------------------------------------------------------
(* Steps of a handler *)

LEMMA SameRowKeepsRow ==
    ASSUME IInv, UNCHANGED row
    PROVE  Row' /\ SameFate /\ FateStays
  BY DEF IInv, Row, SameFate, FateStays, row

LEMMA SameCopiesKeepCopies ==
    ASSUME IInv, UNCHANGED <<profile, held, cache, tasks, told>>
    PROVE  Copies'
  BY DEF IInv, Copies, tasks

LEMMA LookIsSound ==
    ASSUME IInv, NEW w \in Workers, GetCached(w) \/ Check(w) \/ Compare(w)
    PROVE  IInv'
  <1>1. UNCHANGED <<row, cache, tasks, told>> /\ pc[w] \in {"getcached", "check", "compare"}
    BY DEF GetCached, Check, Compare
  <1>2. Row' /\ SameFate /\ FateStays /\ Copies'
    BY <1>1, SameRowKeepsRow, SameCopiesKeepCopies DEF row
  <1>3. /\ Handlers
        /\ job[w] # None /\ Fits(pc[w], job[w])
    BY <1>1, BusyHasJob DEF IInv
  <1>4. CASE Finish(w)
    BY <1>2, <1>3, <1>4, FinishKeepsHandlers DEF IInv
  <1>5. CASE ~ Finish(w)
    <2>1. PICK label \in {"load", "setpassword", "savesession"} :
             /\ Goto(w, label)
             /\ label = "setpassword" => pc[w] = "check"
             /\ label = "savesession" => pc[w] = "compare"
      BY <1>5 DEF GetCached, Check, Compare
    <2>2. job'[w] = job[w]
      BY <2>1 DEF Goto
    <2>3. Fits(label, job[w])'
      BY <1>2, <1>3, <2>1, <2>2 DEF Fits, SameFate
    <2>4. Handlers'
      BY <1>2, <1>3, <2>1, <2>3, GotoKeepsHandlers DEF Labels
    <2>. QED BY <1>2, <2>4 DEF IInv
  <1>. QED BY <1>4, <1>5

\* A goroutine more for a profile the row has held
LEMMA TaskAdded ==
    ASSUME Copies, UNCHANGED <<cache, told>>, drops' \in Nat, NEW x \in Profiles,
           held \subseteq held', held' \subseteq Profiles, profile' \in held', x \in held',
           fills' = [fills EXCEPT ![x] = @ + 1] \/ UNCHANGED fills,
           news' = [news EXCEPT ![x] = @ + 1] \/ UNCHANGED news
    PROVE  Copies'
  <1>1. /\ fills' \in [Profiles -> Nat] /\ news' \in [Profiles -> Nat]
        /\ \A y \in Profiles : y # x => fills'[y] = fills[y] /\ news'[y] = news[y]
    BY DEF Copies
  <1>2. \A y \in Profiles : fills'[y] > 0 \/ news'[y] > 0 => y \in held'
    BY <1>1 DEF Copies
  <1>. QED BY <1>1, <1>2 DEF Copies

LEMMA LoadIsSound ==
    ASSUME IInv, NEW w \in Workers, Load(w)
    PROVE  IInv'
  <1>1. Row' /\ FateStays
    BY SameRowKeepsRow DEF Load
  <1>2. Copies'
    BY TaskAdded DEF IInv, Copies, Row, Load, Fill, row
  <1>3. Handlers'
    BY <1>1, FinishKeepsHandlers DEF IInv, Load
  <1>. QED BY <1>1, <1>2, <1>3 DEF IInv

LEMMA ReadIsSound ==
    ASSUME IInv, NEW w \in Workers, Read(w)
    PROVE  IInv'
  <1>1. Row' /\ SameFate /\ FateStays /\ Copies'
    BY SameRowKeepsRow, SameCopiesKeepCopies DEF Read, row
  <1>2. job[w] \in Jobs /\ job[w].value \in Values
    BY BusyHasJob DEF IInv, Read, Fits
  <1>3. Changed(profile, job[w]) \in Profiles
    BY <1>2 DEF IInv, Row, Profiles, Changed
  <1> DEFINE next == [job[w] EXCEPT !.copy = Changed(profile, job[w]), !.known = password]
  <1>4. PICK j \in Jobs : j = next /\ j.copy \in Profiles
    <2>1. next \in Jobs /\ next.copy \in Profiles
      BY <1>2, <1>3 DEF Jobs, IInv, Row
    <2>. HIDE DEF next
    <2>. QED BY <2>1
  <1>5. job' = [job EXCEPT ![w] = j]
    <2>1. job' = [job EXCEPT ![w] = [job[w] EXCEPT !.copy = Changed(profile, job[w]),
                                                   !.known = password]]
      BY DEF Read, IInv, Handlers
    <2>. QED BY <1>4, <2>1, Zenon
  <1>6. j # None
    BY <1>4, NoneIsNothing
  <1>7. Fits("write", j)'
    BY <1>4, <1>6 DEF Fits
  <1>8. Handlers'
    BY <1>1, <1>4, <1>5, <1>7, MoveKeepsHandlers DEF Read, IInv, Labels
  <1>. QED BY <1>1, <1>8 DEF IInv

\* WriteRow stores what the handler has read and changed: a profile.
LEMMA WriteRowIsSound ==
    ASSUME IInv, NEW w \in Workers, pc[w] = "write", WriteRow(w)
    PROVE  /\ Row' /\ FateStays
           /\ job[w].copy \in Profiles
           /\ held' = held \cup {job[w].copy} /\ profile' = job[w].copy
  <1>1. job[w].copy \in Profiles
    BY BusyHasJob DEF IInv, Fits
  <1>. QED BY <1>1 DEF WriteRow, IInv, Row, FateStays

LEMMA WriteIsSound ==
    ASSUME IInv, NEW w \in Workers, Write(w)
    PROVE  IInv'
  <1>1. /\ Row' /\ FateStays
        /\ job[w].copy \in Profiles
        /\ held' = held \cup {job[w].copy} /\ profile' = job[w].copy
    BY WriteRowIsSound DEF Write
  <1>2. Copies'
    <2>1. /\ UNCHANGED <<cache, told, fills>> /\ drops' = drops + 1
          /\ news' = [news EXCEPT ![job[w].copy] = @ + 1]
      BY DEF Write, Drop, Publish
    <2>2. drops' \in Nat /\ held' \subseteq Profiles
      BY <1>1, <2>1 DEF IInv, Copies
    <2>. QED BY <1>1, <2>1, <2>2, TaskAdded DEF IInv
  <1>3. Handlers'
    BY <1>1, FinishKeepsHandlers DEF IInv, Write
  <1>. QED BY <1>1, <1>2, <1>3 DEF IInv

LEMMA OverKeepsFate ==
    ASSUME Row, NEW ts
    PROVE  /\ Over(ts) \in [Tokens -> {"new", "sent", "over"}]
           /\ \A t \in Tokens : fate[t] # "new" => Over(ts)[t] # "new"
  BY DEF Over, Row

LEMMA SaveTokenInRowIsSound ==
    ASSUME IInv, NEW w \in Workers, pc[w] = "savetoken", SaveTokenInRow(w)
    PROVE  Row' /\ FateStays
  <1>1. job[w].token \in Tokens
    BY BusyHasJob DEF IInv, Fits
  <1>2. /\ Over(Tokens) \in [Tokens -> {"new", "sent", "over"}]
        /\ \A t \in Tokens : fate[t] # "new" => Over(Tokens)[t] # "new"
    BY OverKeepsFate DEF IInv
  <1>3. fate' = [Over(Tokens) EXCEPT ![job[w].token] = "sent"]
    BY DEF SaveTokenInRow
  <1> HIDE DEF Over
  <1>4. fate' \in [Tokens -> {"new", "sent", "over"}] /\ FateStays
    BY <1>1, <1>2, <1>3 DEF FateStays
  <1>. QED BY <1>1, <1>4 DEF SaveTokenInRow, IInv, Row

LEMMA SaveTokenIsSound ==
    ASSUME IInv, NEW w \in Workers, SaveToken(w)
    PROVE  IInv'
  <1>1. Row' /\ FateStays
    BY SaveTokenInRowIsSound DEF SaveToken
  <1>2. Copies'
    BY SameCopiesKeepCopies DEF SaveToken, SaveTokenInRow
  <1>3. Handlers'
    BY <1>1, FinishKeepsHandlers DEF IInv, SaveToken
  <1>. QED BY <1>1, <1>2, <1>3 DEF IInv

LEMMA SetPasswordInRowIsSound ==
    ASSUME IInv, NEW w \in Workers, pc[w] = "setpassword", SetPasswordInRow(w)
    PROVE  Row' /\ FateStays
  <1>1. job[w].token \in Tokens /\ job[w].value \in Passwords
    BY BusyHasJob DEF IInv, Fits
  <1>. QED BY <1>1 DEF SetPasswordInRow, IInv, Row, FateStays

LEMMA SetPasswordIsSound ==
    ASSUME IInv, NEW w \in Workers, SetPassword(w)
    PROVE  IInv'
  <1>1. Row' /\ FateStays
    BY SetPasswordInRowIsSound DEF SetPassword
  <1>2. Copies'
    BY SameCopiesKeepCopies DEF SetPassword, SetPasswordInRow
  <1>3. job[w] # None /\ job'[w] = job[w]
    BY BusyHasJob DEF IInv, SetPassword, Goto
  <1>4. Fits("clear", job[w])'
    BY <1>3 DEF Fits
  <1>5. Handlers'
    BY <1>1, <1>4, GotoKeepsHandlers DEF IInv, SetPassword, Labels
  <1>. QED BY <1>1, <1>2, <1>5 DEF IInv

LEMMA ClearIsSound ==
    ASSUME IInv, NEW w \in Workers, Clear(w)
    PROVE  IInv'
  <1>1. Row' /\ FateStays
    BY DEF Clear, Ignoring, IInv, Row, FateStays
  <1>2. Copies'
    BY SameCopiesKeepCopies DEF Clear
  <1>3. job[w] # None /\ job'[w] = job[w]
    BY BusyHasJob DEF IInv, Clear, Goto
  <1>4. Fits("forget", job[w])'
    BY <1>3 DEF Fits
  <1>5. Handlers'
    BY <1>1, <1>4, GotoKeepsHandlers DEF IInv, Clear, Labels
  <1>. QED BY <1>1, <1>2, <1>5 DEF IInv

LEMMA ForgetIsSound ==
    ASSUME IInv, NEW w \in Workers, Forget(w)
    PROVE  IInv'
  <1>1. Row' /\ FateStays
    BY DEF Forget, Ignoring, IInv, Row, FateStays
  <1>2. Copies'
    BY DEF Forget, Drop, IInv, Copies
  <1>3. Handlers'
    BY <1>1, FinishKeepsHandlers DEF IInv, Forget
  <1>. QED BY <1>1, <1>2, <1>3 DEF IInv

LEMMA SaveSessionInRowIsSound ==
    ASSUME IInv, NEW w \in Workers, pc[w] = "savesession", SaveSessionInRow(w)
    PROVE  Row' /\ FateStays
  <1>1. job[w].value \in Passwords
    BY BusyHasJob DEF IInv, Fits
  <1>. QED BY <1>1 DEF SaveSessionInRow, IInv, Row, FateStays

LEMMA SaveSessionIsSound ==
    ASSUME IInv, NEW w \in Workers, SaveSession(w)
    PROVE  IInv'
  <1>1. Row' /\ FateStays
    BY SaveSessionInRowIsSound DEF SaveSession
  <1>2. Copies'
    BY SameCopiesKeepCopies DEF SaveSession, SaveSessionInRow
  <1>3. Handlers'
    BY <1>1, FinishKeepsHandlers DEF IInv, SaveSession
  <1>. QED BY <1>1, <1>2, <1>3 DEF IInv

LEMMA FailIsSound ==
    ASSUME IInv, NEW w \in Workers, Fail(w)
    PROVE  IInv'
  <1>1. Row' /\ FateStays /\ Copies'
    <2>1. CASE UNCHANGED row
      BY <2>1, SameRowKeepsRow, SameCopiesKeepCopies DEF Fail, row
    <2>2. CASE pc[w] = "write" /\ WriteRow(w)
      <3>1. /\ Row' /\ FateStays
            /\ job[w].copy \in Profiles
            /\ held' = held \cup {job[w].copy} /\ profile' = job[w].copy
        BY <2>2, WriteRowIsSound
      <3>2. UNCHANGED <<cache, fills, drops, news, told>>
        BY DEF Fail, tasks
      <3>3. Copies'
        BY <3>1, <3>2 DEF IInv, Copies
      <3>. QED BY <3>1, <3>3
    <2>3. CASE pc[w] = "savetoken" /\ SaveTokenInRow(w)
      BY <2>3, SaveTokenInRowIsSound, SameCopiesKeepCopies DEF Fail, SaveTokenInRow
    <2>4. CASE pc[w] = "setpassword" /\ SetPasswordInRow(w)
      BY <2>4, SetPasswordInRowIsSound, SameCopiesKeepCopies DEF Fail, SetPasswordInRow
    <2>5. CASE pc[w] = "savesession" /\ SaveSessionInRow(w)
      BY <2>5, SaveSessionInRowIsSound, SameCopiesKeepCopies DEF Fail, SaveSessionInRow
    <2>. QED BY <2>1, <2>2, <2>3, <2>4, <2>5 DEF Fail
  <1>2. Handlers'
    BY <1>1, FinishKeepsHandlers DEF IInv, Fail
  <1>. QED BY <1>1, <1>2 DEF IInv

-----------------------------------------------------------------------------
(* Goroutines, failures and time *)

\* A step that leaves the handlers where they are.
LEMMA HandlersStay ==
    ASSUME IInv, FateStays, UNCHANGED <<pc, job>>
    PROVE  Handlers'
  <1>1. ASSUME NEW w \in Workers PROVE Fits(pc[w], job[w])'
    BY DEF IInv, Handlers, Fits, FateStays
  <1>. QED BY <1>1 DEF IInv, Handlers

LEMMA GoroutineIsSound ==
    ASSUME IInv, \/ \E x \in Profiles : CacheUser(x) \/ PublishUserUpdated(x)
                 \/ InvalidateUserCache
    PROVE  IInv'
  <1>1. UNCHANGED <<row, pc, job>>
    BY DEF CacheUser, PublishUserUpdated, InvalidateUserCache
  <1>2. Row' /\ Handlers'
    BY <1>1, SameRowKeepsRow, HandlersStay
  <1>3. Copies'
    <2>0. UNCHANGED <<profile, held>>
      BY <1>1 DEF row
    <2>1. CASE InvalidateUserCache
      BY <2>0, <2>1 DEF InvalidateUserCache, Ignoring, IInv, Copies
    <2>2. ASSUME NEW x \in Profiles, CacheUser(x) PROVE Copies'
      <3>1. /\ fills' \in [Profiles -> Nat]
            /\ \A y \in Profiles : fills'[y] > 0 => fills[y] > 0
        BY <2>2 DEF CacheUser, IInv, Copies
      <3>2. x \in held
        BY <2>2 DEF CacheUser, IInv, Copies
      <3>. QED BY <2>0, <2>2, <3>1, <3>2 DEF CacheUser, Ignoring, IInv, Copies
    <2>3. ASSUME NEW x \in Profiles, PublishUserUpdated(x) PROVE Copies'
      <3>1. /\ news' \in [Profiles -> Nat]
            /\ \A y \in Profiles : news'[y] > 0 => news[y] > 0
        BY <2>3 DEF PublishUserUpdated, IInv, Copies
      <3>2. x \in held
        BY <2>3 DEF PublishUserUpdated, IInv, Copies
      <3>. QED BY <2>0, <2>3, <3>1, <3>2 DEF PublishUserUpdated, Ignoring, IInv, Copies
    <2>. QED BY <2>1, <2>2, <2>3
  <1>. QED BY <1>2, <1>3 DEF IInv

LEMMA CrashIsSound ==
    ASSUME IInv, Crash
    PROVE  IInv'
  <1>1. Row' /\ UNCHANGED <<profile, held>>
    BY SameRowKeepsRow DEF Crash, row
  <1>2. Copies'
    BY <1>1 DEF Crash, IInv, Copies
  <1>3. Handlers'
    BY DEF Crash, Handlers, Fits, Labels
  <1>. QED BY <1>1, <1>2, <1>3 DEF IInv

LEMMA ExpiryIsSound ==
    ASSUME IInv, ExpireProfile \/ ExpireToken
    PROVE  IInv'
  <1>1. CASE ExpireProfile
    <2>1. Row' /\ Handlers' /\ UNCHANGED <<profile, held>>
      BY <1>1, SameRowKeepsRow, HandlersStay DEF ExpireProfile, row
    <2>2. Copies'
      BY <1>1, <2>1 DEF ExpireProfile, IInv, Copies, tasks
    <2>. QED BY <2>1, <2>2 DEF IInv
  <1>2. CASE ExpireToken
    <2>1. /\ Over({reset}) \in [Tokens -> {"new", "sent", "over"}]
          /\ \A t \in Tokens : fate[t] # "new" => Over({reset})[t] # "new"
      BY OverKeepsFate DEF IInv
    <2>2. fate' = Over({reset})
      BY <1>2 DEF ExpireToken
    <2> HIDE DEF Over
    <2>3. Row' /\ FateStays
      BY <1>2, <2>1, <2>2 DEF ExpireToken, IInv, Row, FateStays
    <2>4. Copies' /\ Handlers'
      BY <1>2, <2>3, SameCopiesKeepCopies, HandlersStay DEF ExpireToken
    <2>. QED BY <2>3, <2>4 DEF IInv
  <1>. QED BY <1>1, <1>2

-----------------------------------------------------------------------------
(* The theorems *)

LEMMA InitIsSound == Init => IInv
  <1> SUFFICES ASSUME Init PROVE IInv
    OBVIOUS
  <1>1. Handlers
    BY DEF Init, Handlers, Fits, Labels
  <1>2. Row /\ Copies
    BY DEF Init, NoTasks, Row, Copies
  <1>. QED BY <1>1, <1>2 DEF IInv

LEMMA StepIsSound == IInv /\ [Next]_vars => IInv'
  <1> SUFFICES ASSUME IInv, [Next]_vars PROVE IInv'
    OBVIOUS
  <1>1. CASE \E w \in Workers : Request(w)
    BY <1>1, RequestIsSound
  <1>2. ASSUME NEW w \in Workers, Step(w) PROVE IInv'
    BY <1>2, LookIsSound, LoadIsSound, ReadIsSound, WriteIsSound, SaveTokenIsSound,
       SetPasswordIsSound, ClearIsSound, ForgetIsSound, SaveSessionIsSound, FailIsSound
       DEF Step
  <1>3. CASE \/ \E x \in Profiles : CacheUser(x) \/ PublishUserUpdated(x)
             \/ InvalidateUserCache
    BY <1>3, GoroutineIsSound
  <1>4. CASE Crash \/ ExpireProfile \/ ExpireToken
    BY <1>4, CrashIsSound, ExpiryIsSound
  <1>5. CASE UNCHANGED vars
    <2>1. UNCHANGED <<row, cache, tasks, told, pc, job>>
      BY <1>5 DEF vars
    <2>2. Row' /\ Copies' /\ Handlers'
      BY <2>1, SameRowKeepsRow, SameCopiesKeepCopies, HandlersStay DEF row
    <2>. QED BY <2>2 DEF IInv
  <1>. QED BY <1>1, <1>2, <1>3, <1>4, <1>5 DEF Next, Internal

\* The invariant the theorems below follow from.
THEOREM AccountIsSound == Spec => []IInv
  BY InitIsSound, StepIsSound, PTL DEF Spec

\* Every variable keeps its type: a row, its copies, the goroutines under way
\* and the handlers of the user service have the shape the code gives them.
THEOREM TypeCorrect == Spec => []TypeOK
  <1>1. IInv => TypeOK
    <2> SUFFICES ASSUME IInv PROVE TypeOK
      OBVIOUS
    <2>. QED BY DEF IInv, Handlers, Row, Copies, TypeOK
  <1>. QED BY <1>1, AccountIsSound, PTL

\* Whatever Redis holds or user.updated was published with was the row once,
\* however many updates and goroutines overlap and whatever fails.
THEOREM CopiesWereTheRow == Spec => []CopiesWereHeld
  <1>1. IInv => CopiesWereHeld
    BY DEF IInv, Copies, CopiesWereHeld
  <1>. QED BY <1>1, AccountIsSound, PTL

\* A password changes by a reset with a token that was sent, and by nothing else.
THEOREM PasswordsNeedTokens == Spec => PasswordChangesByToken
  <1> DEFINE Spent == \E t \in Tokens : fate[t] # "new" /\ uses'[t] = uses[t] + 1
  <1>1. ASSUME IInv, [Next]_vars, password' # password PROVE Spent
    <2>1. PICK w \in Workers : pc[w] = "setpassword" /\ SetPasswordInRow(w)
      BY <1>1 DEF Next, Internal, Request, Step, GetProfile, UpdateProfile, ForgotPassword,
         ResetPassword, Login, Logout, GetCached, Load, Read, Write, WriteRow, SaveToken,
         SaveTokenInRow, Check, SetPassword, Clear, Forget, Compare, SaveSession,
         SaveSessionInRow, Fail, CacheUser, PublishUserUpdated, InvalidateUserCache,
         Crash, ExpireProfile, ExpireToken, row, vars
    <2>2. job[w].token \in Tokens /\ fate[job[w].token] # "new"
      BY <1>1, <2>1, BusyHasJob DEF IInv, Fits
    <2>3. uses'[job[w].token] = uses[job[w].token] + 1
      BY <1>1, <2>1, <2>2 DEF SetPasswordInRow, IInv, Row
    <2>. QED BY <2>2, <2>3
  <1>2. IInv /\ [Next]_vars => [password' # password => Spent]_vars
    BY <1>1
  <1>. QED BY <1>2, AccountIsSound, PTL DEF Spec, PasswordChangesByToken

-----------------------------------------------------------------------------
(* Requests that come one at a time, while nothing fails *)

OneHandler == \A v, w \in Workers : pc[v] # "idle" /\ pc[w] # "idle" => v = w

\* A handler ends when it starts goroutines, and waits for those before it.
Quiet == \A w \in Workers : pc[w] # "idle" => NoTasks

\* What is out of date in Redis is about to be deleted.
Fresh ==
    /\ cache \in {None, profile} \/ drops > 0
    /\ \A x \in Profiles : fills[x] > 0 => x = profile

Clearing == \E w \in Workers : pc[w] = "clear"

\* The token of the row was not used, but by the handler about to clear it.
Resets ==
    /\ \A t \in Tokens : fate[t] = "new" => uses[t] = 0
    /\ \A t \in Tokens : uses[t] \in {0, 1}
    /\ \A t \in Tokens : reset = t /\ ~ Clearing => uses[t] = 0
    /\ \A t \in Tokens : fate[t] = "sent" /\ uses[t] = 0 => reset = t

\* Sessions of an older password are about to be deleted.
OldSessionsGo ==
    sessions \subseteq {password} \/ \E w \in Workers : pc[w] \in {"clear", "forget"}

\* What a handler has read is still so, but that its token may expire.
InStep(w) ==
    /\ pc[w] = "savetoken" => fate[job[w].token] = "new"
    /\ pc[w] = "setpassword" => uses[job[w].token] = 0 /\ reset \in {job[w].token, None}
    /\ pc[w] = "clear" => \A t \in Tokens : reset = t => uses[t] # 0
    /\ pc[w] = "savesession" => job[w].value = password

AloneInv ==
    /\ OneHandler /\ Quiet /\ Fresh /\ Resets /\ OldSessionsGo
    /\ \A w \in Workers : InStep(w)

\* A step of a handler in which nothing fails.
Clean(w) ==
    \/ GetCached(w) \/ Load(w) \/ Read(w) \/ Write(w)
    \/ SaveToken(w) \/ Check(w) \/ SetPassword(w)
    \/ Clear(w) /\ reset' = None
    \/ Forget(w) /\ sessions' = {}
    \/ Compare(w) \/ SaveSession(w)

\* A goroutine that does what it is for, or time.
CleanRest ==
    \/ \E x \in Profiles : (CacheUser(x) /\ cache' = x) \/ PublishUserUpdated(x)
    \/ InvalidateUserCache /\ cache' = None
    \/ ExpireProfile \/ ExpireToken

LEMMA ReliableIsClean ==
    Reliable!Internal => (\E w \in Workers : Clean(w)) \/ CleanRest
  <1> USE DEF row, tasks, Reliable!row, Reliable!tasks, Finish, Reliable!Finish,
              Goto, Reliable!Goto, Ignoring, Reliable!Ignoring
  <1>1. ASSUME NEW w \in Workers, Reliable!Step(w) PROVE Clean(w)
    <2>1. Reliable!GetCached(w) => GetCached(w)
      BY DEF Reliable!GetCached, GetCached
    <2>2. Reliable!Load(w) => Load(w)
      BY DEF Reliable!Load, Load, Reliable!Fill, Fill
    <2>3. Reliable!Read(w) => Read(w)
      BY DEF Reliable!Read, Read, Reliable!Changed, Changed
    <2>4. Reliable!Write(w) => Write(w)
      BY DEF Reliable!Write, Write, Reliable!WriteRow, WriteRow, Reliable!Drop, Drop,
             Reliable!Publish, Publish
    <2>5. Reliable!SaveToken(w) => SaveToken(w)
      BY DEF Reliable!SaveToken, SaveToken, Reliable!SaveTokenInRow, SaveTokenInRow,
             Reliable!Over, Over
    <2>6. Reliable!Check(w) => Check(w)
      BY DEF Reliable!Check, Check
    <2>7. Reliable!SetPassword(w) => SetPassword(w)
      BY DEF Reliable!SetPassword, SetPassword, Reliable!SetPasswordInRow, SetPasswordInRow
    <2>8. Reliable!Clear(w) => Clear(w) /\ reset' = None
      BY DEF Reliable!Clear, Clear
    <2>9. Reliable!Forget(w) => Forget(w) /\ sessions' = {}
      BY DEF Reliable!Forget, Forget, Reliable!Drop, Drop
    <2>10. Reliable!Compare(w) => Compare(w)
      BY DEF Reliable!Compare, Compare
    <2>11. Reliable!SaveSession(w) => SaveSession(w)
      BY DEF Reliable!SaveSession, SaveSession, Reliable!SaveSessionInRow, SaveSessionInRow
    <2>12. ~ Reliable!Fail(w)
      BY DEF Reliable!Fail
    <2>. QED BY <1>1, <2>1, <2>2, <2>3, <2>4, <2>5, <2>6, <2>7, <2>8, <2>9, <2>10, <2>11, <2>12
             DEF Reliable!Step, Clean
  <1>2. ASSUME NEW x \in Profiles, Reliable!CacheUser(x) PROVE CacheUser(x) /\ cache' = x
    BY <1>2 DEF Reliable!CacheUser, CacheUser
  <1>3. ASSUME NEW x \in Profiles, Reliable!PublishUserUpdated(x) PROVE PublishUserUpdated(x)
    BY <1>3 DEF Reliable!PublishUserUpdated, PublishUserUpdated
  <1>4. Reliable!InvalidateUserCache => InvalidateUserCache /\ cache' = None
    BY DEF Reliable!InvalidateUserCache, InvalidateUserCache
  <1>5. ~ Reliable!Crash
    BY DEF Reliable!Crash
  <1>6. Reliable!ExpireProfile => ExpireProfile
    BY DEF Reliable!ExpireProfile, ExpireProfile
  <1>7. Reliable!ExpireToken => ExpireToken
    BY DEF Reliable!ExpireToken, ExpireToken, Reliable!Over, Over
  <1>. QED BY <1>1, <1>2, <1>3, <1>4, <1>5, <1>6, <1>7
           DEF Reliable!Internal, Reliable!Profiles, Profiles, CleanRest

LEMMA CleanIsNormal ==
    /\ \A w \in Workers : Clean(w) => Step(w)
    /\ CleanRest \/ (\E w \in Workers : Clean(w)) => Internal
  BY DEF Clean, CleanRest, Step, Internal

\* A handler that starts when the others and their goroutines are at rest
LEMMA RequestStaysClean ==
    ASSUME IInv, AloneInv, AtRest, NEW w \in Workers, Request(w)
    PROVE  AloneInv'
  <1>1. UNCHANGED <<row, cache, tasks, told>>
    BY DEF Request, GetProfile, UpdateProfile, ForgotPassword, ResetPassword, Login, Logout
  <1>2. PICK label, given, value, token :
            /\ Start(w, label, given, value, token)
            /\ label \in {"getcached", "read", "savetoken", "check", "compare", "forget"}
            /\ label = "savetoken" => fate[token] = "new"
    <2>1. CASE GetProfile(w)
      BY <2>1 DEF GetProfile
    <2>2. CASE UpdateProfile(w)
      <3>1. PICK given \in SUBSET Fields, v \in Values : Start(w, "read", given, v, None)
        BY <2>2 DEF UpdateProfile
      <3>. QED BY <3>1
    <2>3. CASE ForgotPassword(w)
      <3>1. PICK t \in Tokens : fate[t] = "new" /\ Start(w, "savetoken", {}, None, t)
        BY <2>3 DEF ForgotPassword
      <3>. QED BY <3>1
    <2>4. CASE ResetPassword(w)
      <3>1. PICK t \in Tokens, x \in Passwords : Start(w, "check", {}, x, t)
        BY <2>4 DEF ResetPassword
      <3>. QED BY <3>1
    <2>5. CASE Login(w)
      <3>1. PICK x \in Passwords : Start(w, "compare", {}, x, None)
        BY <2>5 DEF Login
      <3>. QED BY <3>1
    <2>6. CASE Logout(w)
      BY <2>6 DEF Logout
    <2>. QED BY <2>1, <2>2, <2>3, <2>4, <2>5, <2>6 DEF Request
  <1>3. /\ pc'[w] = label /\ job'[w].token = token
        /\ \A v \in Workers \ {w} : pc'[v] = "idle"
    BY <1>2 DEF Start, AtRest, IInv, Handlers
  <1>4. OneHandler' /\ \A v \in Workers : InStep(v)'
    BY <1>1, <1>2, <1>3 DEF OneHandler, InStep, row
  <1>5. Quiet' /\ Fresh'
    BY <1>1 DEF AloneInv, AtRest, Quiet, Fresh, NoTasks, tasks, row
  <1>6. Resets' /\ OldSessionsGo'
    <2>1. ~ Clearing
      BY DEF AtRest, Clearing
    <2>2. sessions \subseteq {password}
      BY DEF AloneInv, AtRest, OldSessionsGo
    <2>3. /\ \A t \in Tokens : fate[t] = "new" => uses[t] = 0
          /\ \A t \in Tokens : uses[t] \in {0, 1}
          /\ \A t \in Tokens : reset = t => uses[t] = 0
          /\ \A t \in Tokens : fate[t] = "sent" /\ uses[t] = 0 => reset = t
      BY <2>1 DEF AloneInv, Resets
    <2>. QED BY <1>1, <2>2, <2>3 DEF Resets, OldSessionsGo, row
  <1>. QED BY <1>4, <1>5, <1>6 DEF AloneInv

OthersWait(w) == \A v \in Workers \ {w} : pc'[v] = pc[v] /\ job'[v] = job[v]

LEMMA CleanMovesOne ==
    ASSUME Handlers, NEW w \in Workers, Clean(w)
    PROVE  /\ pc[w] # "idle" /\ OthersWait(w)
           /\ pc'[w] = "idle" \/ UNCHANGED tasks
  <1> USE DEF Finish, Goto, OthersWait, Handlers
  <1>1. CASE GetCached(w) \/ Load(w) \/ Read(w) \/ Write(w)
    BY <1>1 DEF GetCached, Load, Read, Write
  <1>2. CASE SaveToken(w) \/ Check(w) \/ SetPassword(w) \/ Clear(w)
    BY <1>2 DEF SaveToken, Check, SetPassword, Clear
  <1>3. CASE Forget(w) \/ Compare(w) \/ SaveSession(w)
    BY <1>3 DEF Forget, Compare, SaveSession
  <1>. QED BY <1>1, <1>2, <1>3 DEF Clean

LEMMA MoverIsAlone ==
    ASSUME AloneInv, NEW w \in Workers, pc[w] # "idle", OthersWait(w),
           pc'[w] = "idle" \/ UNCHANGED tasks,
           Fresh', Resets', OldSessionsGo', InStep(w)'
    PROVE  AloneInv'
  <1>1. \A v \in Workers \ {w} : pc'[v] = "idle"
    BY DEF AloneInv, OneHandler, OthersWait
  <1>2. OneHandler' /\ \A v \in Workers : InStep(v)'
    BY <1>1 DEF OneHandler, InStep
  <1>3. Quiet'
    BY <1>1 DEF AloneInv, Quiet, NoTasks, tasks
  <1>. QED BY <1>2, <1>3 DEF AloneInv

\* While only w runs, the cache is fresh and the others are not resetting.
LEMMA OnlyMover ==
    ASSUME IInv, AloneInv, NEW w \in Workers, pc[w] # "idle"
    PROVE  /\ cache \in {None, profile} /\ fills = [x \in Profiles |-> 0]
           /\ drops = 0
           /\ Clearing => pc[w] = "clear"
           /\ sessions \subseteq {password} \/ pc[w] \in {"clear", "forget"}
  <1>1. NoTasks
    BY DEF AloneInv, Quiet
  <1>2. fills = [x \in Profiles |-> 0] /\ drops = 0
    BY <1>1 DEF NoTasks
  <1>3. cache \in {None, profile}
    BY <1>2 DEF AloneInv, Fresh
  <1>. QED BY <1>2, <1>3 DEF AloneInv, OneHandler, Clearing, OldSessionsGo

\* The profile and its copies
LEMMA CleanStaysFresh ==
    ASSUME IInv, AloneInv, NEW w \in Workers, Clean(w)
    PROVE  Fresh'
  <1>1. pc[w] # "idle"
    BY CleanMovesOne DEF IInv
  <1>2. cache \in {None, profile} /\ fills = [x \in Profiles |-> 0] /\ drops = 0
    BY <1>1, OnlyMover
  <1>3. CASE UNCHANGED <<profile, cache, fills, drops>>
    BY <1>3 DEF AloneInv, Fresh
  <1>4. CASE Load(w)
    BY <1>2, <1>4 DEF Load, Fill, row, Fresh, IInv, Row
  <1>5. CASE Write(w)
    BY <1>2, <1>5 DEF Write, Drop, Fresh
  <1>6. CASE Forget(w)
    BY <1>2, <1>6 DEF Forget, Drop, Fresh
  <1>. QED BY <1>3, <1>4, <1>5, <1>6
           DEF Clean, GetCached, Read, SaveToken, SaveTokenInRow, Check, SetPassword,
               SetPasswordInRow, Clear, Compare, SaveSession, SaveSessionInRow, row, tasks

\* Handlers that leave tokens, password and sessions alone
LEMMA ReaderStaysClean ==
    ASSUME IInv, AloneInv, NEW w \in Workers,
           GetCached(w) \/ Load(w) \/ Read(w) \/ Write(w) \/ Check(w) \/ Compare(w)
    PROVE  Resets' /\ OldSessionsGo' /\ InStep(w)'
  <1>1. UNCHANGED <<password, reset, sessions, fate, uses>>
    BY DEF GetCached, Load, Read, Write, WriteRow, Check, Compare, row
  <1>2. /\ pc[w] \notin {"idle", "clear", "forget"} /\ OthersWait(w)
        /\ pc'[w] \notin {"clear", "savetoken"}
    BY DEF GetCached, Load, Read, Write, Check, Compare, Goto, Finish, OthersWait, IInv, Handlers
  <1>3. sessions \subseteq {password} /\ ~ Clearing
    BY <1>2, OnlyMover
  <1>4. /\ \A t \in Tokens : fate[t] = "new" => uses[t] = 0
        /\ \A t \in Tokens : uses[t] \in {0, 1}
        /\ \A t \in Tokens : reset = t => uses[t] = 0
        /\ \A t \in Tokens : fate[t] = "sent" /\ uses[t] = 0 => reset = t
    BY <1>3 DEF AloneInv, Resets
  <1>5. Resets' /\ OldSessionsGo'
    BY <1>1, <1>3, <1>4 DEF Resets, OldSessionsGo
  <1>6. CASE pc'[w] = "setpassword"
    <2>1. Check(w) /\ reset = job[w].token /\ job'[w] = job[w]
      BY <1>6 DEF GetCached, Load, Read, Write, Check, Compare, Goto, Finish, IInv, Handlers
    <2>2. job[w].token \in Tokens
      BY <2>1, BusyHasJob DEF Check, IInv, Fits
    <2>3. InStep(w)'
      BY <1>1, <1>4, <1>6, <2>1, <2>2 DEF InStep
    <2>. QED BY <1>5, <2>3
  <1>7. CASE pc'[w] = "savesession"
    <2>1. job[w].value = password /\ job'[w] = job[w]
      BY <1>7 DEF GetCached, Load, Read, Write, Check, Compare, Goto, Finish, IInv, Handlers
    <2>2. InStep(w)'
      BY <1>1, <1>7, <2>1 DEF InStep
    <2>. QED BY <1>5, <2>2
  <1>8. CASE pc'[w] \notin {"setpassword", "savesession"}
    BY <1>2, <1>5, <1>8 DEF InStep
  <1>. QED BY <1>6, <1>7, <1>8

\* A new token takes the place of the one before.
LEMMA SaveTokenStaysClean ==
    ASSUME IInv, AloneInv, NEW w \in Workers, SaveToken(w)
    PROVE  Resets' /\ OldSessionsGo' /\ InStep(w)'
  <1>1. PICK t : t = job[w].token
    OBVIOUS
  <1>2. /\ pc[w] = "savetoken" /\ pc'[w] = "idle" /\ UNCHANGED <<password, sessions, uses>>
        /\ reset' = t /\ fate' = [Over(Tokens) EXCEPT ![t] = "sent"]
    BY <1>1 DEF SaveToken, SaveTokenInRow, Finish, IInv, Handlers
  <1>3. t \in Tokens /\ fate[t] = "new" /\ uses[t] = 0
    BY <1>1, <1>2, BusyHasJob DEF IInv, Fits, AloneInv, InStep, Resets
  <1>4. /\ fate'[t] = "sent"
        /\ \A u \in Tokens \ {t} : fate'[u] # "sent" /\ (fate'[u] = "new" => fate[u] = "new")
    BY <1>2, <1>3 DEF Over
  <1>5. Resets'
    BY <1>2, <1>3, <1>4 DEF AloneInv, Resets
  <1>6. sessions \subseteq {password}
    BY <1>2, OnlyMover
  <1>. QED BY <1>2, <1>5, <1>6 DEF OldSessionsGo, InStep

\* A token that was not used sets the password.
LEMMA SetPasswordStaysClean ==
    ASSUME IInv, AloneInv, NEW w \in Workers, SetPassword(w)
    PROVE  Resets' /\ OldSessionsGo' /\ InStep(w)'
  <1>1. PICK t : t = job[w].token
    OBVIOUS
  <1>2. /\ pc[w] = "setpassword" /\ pc'[w] = "clear" /\ UNCHANGED <<reset, fate>>
        /\ uses' = [uses EXCEPT ![t] = @ + 1]
    BY <1>1 DEF SetPassword, SetPasswordInRow, Goto, IInv, Handlers
  <1>3. t \in Tokens /\ fate[t] # "new" /\ uses[t] = 0 /\ reset \in {t, None}
    BY <1>1, <1>2, BusyHasJob DEF IInv, Fits, AloneInv, InStep
  <1>4. uses'[t] = 1 /\ \A u \in Tokens \ {t} : uses'[u] = uses[u]
    BY <1>2, <1>3 DEF IInv, Row
  <1>5. Clearing' /\ OldSessionsGo'
    BY <1>2 DEF Clearing, OldSessionsGo
  <1>6. \A u \in Tokens : u # None
    BY NoneIsNothing
  <1>7. Resets'
    BY <1>2, <1>3, <1>4, <1>5, <1>6 DEF AloneInv, Resets
  <1>8. InStep(w)'
    BY <1>2, <1>3, <1>4, <1>6 DEF InStep
  <1>. QED BY <1>5, <1>7, <1>8

LEMMA ClearStaysClean ==
    ASSUME IInv, AloneInv, NEW w \in Workers, Clear(w), reset' = None
    PROVE  Resets' /\ OldSessionsGo' /\ InStep(w)'
  <1>1. pc[w] = "clear" /\ pc'[w] = "forget" /\ UNCHANGED <<fate, uses>>
    BY DEF Clear, Goto, IInv, Handlers
  <1>2. \A t \in Tokens : t # None
    BY NoneIsNothing
  <1>3. Resets'
    BY <1>1, <1>2 DEF AloneInv, Resets, InStep
  <1>. QED BY <1>1, <1>3 DEF OldSessionsGo, InStep

LEMMA SessionsStayClean ==
    ASSUME IInv, AloneInv, NEW w \in Workers,
           SaveSession(w) \/ (Forget(w) /\ sessions' = {})
    PROVE  Resets' /\ OldSessionsGo' /\ InStep(w)'
  <1>1. /\ UNCHANGED <<password, reset, fate, uses>> /\ pc[w] \in {"savesession", "forget"}
        /\ pc'[w] = "idle"
    BY DEF SaveSession, SaveSessionInRow, Forget, Finish, IInv, Handlers
  <1>2. ~ Clearing
    BY <1>1, OnlyMover
  <1>3. Resets'
    BY <1>1, <1>2 DEF AloneInv, Resets
  <1>4. sessions' \subseteq {password}
    <2>1. CASE Forget(w) /\ sessions' = {}
      BY <2>1
    <2>2. CASE SaveSession(w)
      <3>1. sessions' = sessions \cup {job[w].value} /\ pc[w] = "savesession"
        BY <2>2 DEF SaveSession, SaveSessionInRow
      <3>2. job[w].value = password /\ sessions \subseteq {password}
        BY <3>1, OnlyMover DEF AloneInv, InStep
      <3>. QED BY <3>1, <3>2
    <2>. QED BY <2>1, <2>2
  <1>. QED BY <1>1, <1>3, <1>4 DEF OldSessionsGo, InStep

\* Goroutines and time
LEMMA RestStaysClean ==
    ASSUME IInv, AloneInv, CleanRest
    PROVE  AloneInv'
  <1>1. UNCHANGED <<pc, job, profile, password, sessions, uses>>
    BY DEF CleanRest, CacheUser, PublishUserUpdated, InvalidateUserCache, ExpireProfile,
           ExpireToken, row
  <1>2. OneHandler' /\ OldSessionsGo'
    BY <1>1 DEF AloneInv, OneHandler, OldSessionsGo
  <1>3. CASE ~ ExpireToken
    <2>1. UNCHANGED <<reset, fate>>
      BY <1>3 DEF CleanRest, CacheUser, PublishUserUpdated, InvalidateUserCache, ExpireProfile, row
    <2>2. Resets' /\ \A w \in Workers : InStep(w)'
      BY <1>1, <2>1 DEF AloneInv, Resets, Clearing, InStep
    <2>3. Quiet' /\ Fresh'
      <3>1. ASSUME NEW x \in Profiles, CacheUser(x), cache' = x PROVE Quiet' /\ Fresh'
        <4>1. fills[x] > 0 /\ fills' = [fills EXCEPT ![x] = @ - 1] /\ UNCHANGED drops
          BY <3>1 DEF CacheUser
        <4>2. ~ NoTasks /\ x = profile
          BY <4>1 DEF NoTasks, AloneInv, Fresh
        <4>3. \A y \in Profiles : fills'[y] > 0 => fills[y] > 0
          BY <4>1 DEF IInv, Copies
        <4>. QED BY <1>1, <3>1, <4>2, <4>3 DEF AloneInv, Quiet, Fresh
      <3>2. ASSUME NEW x \in Profiles, PublishUserUpdated(x) PROVE Quiet' /\ Fresh'
        <4>1. news[x] > 0 /\ UNCHANGED <<cache, fills, drops>>
          BY <3>2 DEF PublishUserUpdated
        <4>2. ~ NoTasks
          BY <4>1 DEF NoTasks
        <4>. QED BY <1>1, <4>1, <4>2 DEF AloneInv, Quiet, Fresh
      <3>3. CASE InvalidateUserCache /\ cache' = None
        <4>1. drops > 0 /\ UNCHANGED fills
          BY <3>3 DEF InvalidateUserCache
        <4>2. ~ NoTasks
          BY <4>1 DEF NoTasks
        <4>. QED BY <1>1, <3>3, <4>1, <4>2 DEF AloneInv, Quiet, Fresh
      <3>4. CASE ExpireProfile
        BY <1>1, <3>4 DEF ExpireProfile, tasks, AloneInv, Quiet, NoTasks, Fresh
      <3>. QED BY <1>3, <3>1, <3>2, <3>3, <3>4 DEF CleanRest
    <2>. QED BY <1>2, <2>2, <2>3 DEF AloneInv
  <1>4. CASE ExpireToken
    <2>1. reset' = None /\ fate' = Over({reset}) /\ UNCHANGED <<cache, tasks>>
      BY <1>4 DEF ExpireToken
    <2>2. Quiet' /\ Fresh'
      BY <1>1, <2>1 DEF AloneInv, Quiet, NoTasks, Fresh, tasks
    <2>3. \A t \in Tokens : /\ fate'[t] = "new" <=> fate[t] = "new"
                            /\ fate'[t] = "sent" => fate[t] = "sent" /\ t # reset
                            /\ t # None
      BY <2>1, NoneIsNothing DEF Over, IInv, Row
    <2>4. Resets'
      BY <1>1, <2>1, <2>3 DEF AloneInv, Resets
    <2>5. ASSUME NEW w \in Workers PROVE InStep(w)'
      <3>1. pc[w] = "savetoken" => job[w].token \in Tokens
        BY BusyHasJob DEF IInv, Fits
      <3>. QED BY <1>1, <2>1, <2>3, <3>1 DEF AloneInv, InStep
    <2>. QED BY <1>2, <2>2, <2>4, <2>5 DEF AloneInv
  <1>. QED BY <1>3, <1>4

LEMMA AloneIsSound == MCSpec => [](IInv /\ (alone => calm /\ AloneInv))
  <1>1. MCInit => IInv /\ (alone => calm /\ AloneInv)
    <2> SUFFICES ASSUME MCInit PROVE IInv /\ (alone => calm) /\ AloneInv
      OBVIOUS
    <2>1. IInv
      BY InitIsSound DEF MCInit
    <2>2. AloneInv
      BY NoneIsNothing DEF MCInit, Init, NoTasks, AloneInv, OneHandler, Quiet, Fresh, Resets,
                           OldSessionsGo, InStep
    <2>. QED BY <2>1, <2>2 DEF MCInit
  <1>2. IInv /\ (alone => calm /\ AloneInv) /\ [MCNext]_mcVars =>
            (IInv /\ (alone => calm /\ AloneInv))'
    <2> SUFFICES ASSUME IInv, alone => calm /\ AloneInv, [MCNext]_mcVars
                 PROVE  IInv' /\ (alone' => calm' /\ AloneInv')
      OBVIOUS
    <2>1. [Next]_vars
      BY ReliableIsClean, CleanIsNormal DEF MCNext, mcVars, Next
    <2>2. IInv'
      BY <2>1, StepIsSound
    <2>3. UNCHANGED <<alone, calm>>
      BY DEF MCNext, mcVars
    <2>4. ASSUME alone PROVE AloneInv'
      <3>1. CASE UNCHANGED vars
        <4>1. UNCHANGED <<profile, password, reset, sessions, fate, uses, cache, fills, drops,
                          news, pc, job>>
          BY <3>1 DEF vars, row, tasks
        <4>. QED BY <2>4, <4>1 DEF AloneInv, OneHandler, Quiet, NoTasks, Fresh, Resets, Clearing,
                                   OldSessionsGo, InStep
      <3>2. CASE \E w \in Workers : Request(w) /\ AtRest
        BY <2>4, <3>2, RequestStaysClean
      <3>3. ASSUME NEW w \in Workers, Clean(w) PROVE AloneInv'
        <4>1. Resets' /\ OldSessionsGo' /\ InStep(w)'
          BY <2>4, <3>3, ReaderStaysClean, SaveTokenStaysClean, SetPasswordStaysClean,
             ClearStaysClean, SessionsStayClean DEF Clean
        <4>. QED BY <2>4, <3>3, <4>1, CleanMovesOne, CleanStaysFresh, MoverIsAlone DEF IInv
      <3>4. CASE CleanRest
        BY <2>4, <3>4, RestStaysClean
      <3>. QED BY <2>4, <3>1, <3>2, <3>3, <3>4, ReliableIsClean DEF MCNext, mcVars, Admitted
    <2>. QED BY <2>2, <2>3, <2>4
  <1>. QED BY <1>1, <1>2, PTL DEF MCSpec

\* Requests that come one at a time, each after the goroutines of those before
\* it, leave the row or nothing in the cache.
THEOREM CacheStaysFresh == MCSpec => []AloneCacheIsFresh
  <1>1. IInv /\ (alone => calm /\ AloneInv) => AloneCacheIsFresh
    BY DEF AloneInv, Fresh, AloneCacheIsFresh, AtRest, NoTasks, CacheIsFresh
  <1>. QED BY <1>1, AloneIsSound, PTL

\* Requests that come one at a time make a password reset final, also when its
\* token expires while the reset runs.
THEOREM ResetsAreFinal == MCSpec => []AloneResetIsFinal
  <1>1. ASSUME IInv, alone => calm /\ AloneInv PROVE AloneResetIsFinal
    <2> SUFFICES ASSUME AloneInv, AtRest PROVE ResetIsFinal
      BY <1>1 DEF AloneResetIsFinal
    <2>1. ~ Clearing /\ sessions \subseteq {password}
      BY DEF AtRest, Clearing, AloneInv, OldSessionsGo
    <2>2. \A t \in Tokens : uses[t] \in {0, 1} /\ (reset = t => uses[t] = 0)
      BY <2>1 DEF AloneInv, Resets
    <2>3. \A t \in Tokens : uses[t] <= IF reset = t THEN 0 ELSE 1
      BY <2>2
    <2>. QED BY <2>1, <2>3 DEF AloneInv, Resets, ResetIsFinal
  <1>. QED BY <1>1, AloneIsSound, PTL

-----------------------------------------------------------------------------
(* Requests that meet, while nothing fails *)

Excused == cache \in {None, profile} \/ drops > 0 \/ late

\* The cache and the profile stay, and nothing is taken from the goroutines.
LEMMA StandingStaysExcused ==
    ASSUME IInv, Excused, late' = NextLate, UNCHANGED <<profile, cache, drops>>,
           \A x \in Profiles : fills'[x] >= fills[x]
    PROVE  Excused'
  BY DEF Excused, NextLate

LEMMA RequestStaysExcused ==
    ASSUME IInv, Excused, late' = NextLate, NEW w \in Workers, Request(w)
    PROVE  Excused'
  <1>1. UNCHANGED <<row, cache, tasks>>
    BY DEF Request, GetProfile, UpdateProfile, ForgotPassword, ResetPassword, Login, Logout
  <1>2. \A x \in Profiles : fills'[x] >= fills[x]
    BY <1>1 DEF tasks, IInv, Copies
  <1>. QED BY <1>1, <1>2, StandingStaysExcused DEF row, tasks

LEMMA CleanStaysExcused ==
    ASSUME IInv, Excused, late' = NextLate, NEW w \in Workers, Clean(w)
    PROVE  Excused'
  <1>1. CASE Write(w) \/ Forget(w)
    <2>1. drops' > 0
      BY <1>1 DEF Write, Forget, Drop, IInv, Copies
    <2>. QED BY <2>1 DEF Excused
  <1>2. CASE Load(w)
    <2>1. UNCHANGED <<profile, cache, drops>> /\ fills' = [fills EXCEPT ![profile] = @ + 1]
      BY <1>2 DEF Load, Fill, row
    <2>2. \A x \in Profiles : fills'[x] >= fills[x]
      BY <2>1 DEF IInv, Copies
    <2>. QED BY <2>1, <2>2, StandingStaysExcused
  <1>3. CASE UNCHANGED <<profile, cache, drops, fills>>
    <2>1. \A x \in Profiles : fills'[x] >= fills[x]
      BY <1>3 DEF IInv, Copies
    <2>. QED BY <1>3, <2>1, StandingStaysExcused
  <1>. QED BY <1>1, <1>2, <1>3
           DEF Clean, GetCached, Read, SaveToken, SaveTokenInRow, Check, SetPassword,
               SetPasswordInRow, Clear, Compare, SaveSession, SaveSessionInRow, row, tasks

LEMMA RestStaysExcused ==
    ASSUME IInv, Excused, late' = NextLate, CleanRest
    PROVE  Excused'
  <1>1. ASSUME NEW x \in Profiles, CacheUser(x), cache' = x PROVE Excused'
    <2>1. fills' = [fills EXCEPT ![x] = @ - 1] /\ UNCHANGED profile
      BY <1>1 DEF CacheUser, row
    <2>2. fills'[x] < fills[x]
      BY <2>1 DEF IInv, Copies
    <2>. QED BY <1>1, <2>1, <2>2 DEF Excused, NextLate
  <1>2. CASE InvalidateUserCache /\ cache' = None
    BY <1>2 DEF Excused
  <1>3. CASE ExpireProfile
    BY <1>3 DEF ExpireProfile, Excused
  <1>4. ASSUME UNCHANGED <<profile, cache, drops, fills>> PROVE Excused'
    <2>1. \A x \in Profiles : fills'[x] >= fills[x]
      BY <1>4 DEF IInv, Copies
    <2>. QED BY <1>4, <2>1, StandingStaysExcused
  <1>. QED BY <1>1, <1>2, <1>3, <1>4
           DEF CleanRest, PublishUserUpdated, ExpireToken, row, tasks

\* While nothing fails, an old profile is cached because a goroutine stored it
\* after the update, or a goroutine is about to delete it; however many
\* requests meet.
THEOREM OldProfilesAreLate == MCSpec => []OnlyLateProfilesStay
  <1>1. MCInit => IInv /\ Excused
    BY InitIsSound DEF MCInit, Init, Excused
  <1>2. IInv /\ (calm => Excused) /\ [MCNext]_mcVars => (IInv /\ (calm => Excused))'
    <2> SUFFICES ASSUME IInv, calm => Excused, [MCNext]_mcVars
                 PROVE  IInv' /\ (calm' => Excused')
      OBVIOUS
    <2>1. [Next]_vars
      BY ReliableIsClean, CleanIsNormal DEF MCNext, mcVars, Next
    <2>2. IInv'
      BY <2>1, StepIsSound
    <2>3. UNCHANGED calm
      BY DEF MCNext, mcVars
    <2>4. ASSUME calm PROVE Excused'
      <3>1. CASE UNCHANGED mcVars
        BY <2>4, <3>1 DEF mcVars, vars, row, tasks, Excused
      <3>. QED BY <2>4, <3>1, ReliableIsClean, RequestStaysExcused, CleanStaysExcused,
                  RestStaysExcused DEF MCNext
    <2>. QED BY <2>2, <2>3, <2>4
  <1>3. IInv /\ (calm => Excused) => OnlyLateProfilesStay
    BY DEF Excused, OnlyLateProfilesStay, CacheIsFresh
  <1>. QED BY <1>1, <1>2, <1>3, PTL DEF MCSpec

=============================================================================
