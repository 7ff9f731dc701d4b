----------------------------- MODULE UserAccount -----------------------------
(***************************************************************************)
(* The row of one account in the user service and the copies of it:        *)
(* GetProfile, UpdateProfile, ForgotPassword and ResetPassword of          *)
(* user-service/internal/user/service.go, and what Login and Logout do to  *)
(* the same row and cache, run by concurrent requests.                     *)
(*                                                                         *)
(* The profile is read from Redis or PostgreSQL.  Goroutines put it into   *)
(* Redis, delete it there and publish it; they outlive the handler that    *)
(* starts them, come in any order and die with the process.  UserSession   *)
(* models the token pairs; here a session is the password it began with.   *)
(***************************************************************************)
EXTENDS Naturals

CONSTANTS
    Workers,    \* request handlers running at the same time
    Fields,     \* the columns UpdateProfile may change
    Values,     \* what a column may hold
    Passwords,
    Tokens,     \* the reset tokens generateRandomToken may return
    Faults,     \* what may fail: "postgres", "redis", "nats", "process"
    None        \* no cached profile, no token, no job

ASSUME KnownFaults == Faults \subseteq {"postgres", "redis", "nats", "process"}

Profiles == [Fields -> Values]

\* What a handler works on: the fields it was given and their value, or the
\* token and the password it was given, and the row it has read.
Jobs == [given : SUBSET Fields, value : Values \cup Passwords \cup {None},
         token : Tokens \cup {None},
         copy : Profiles \cup {None}, known : Passwords \cup {None}]

ASSUME NoneIsNothing == None \notin Profiles \cup Values \cup Passwords \cup Tokens \cup Jobs

VARIABLES
    profile,  \* the row: first_name, last_name, phone, address
    password, \* the row: the password whose hash it holds
    reset,    \* the row: the reset token it holds, if it has not expired
    sessions, \* refresh_tokens: the passwords its sessions began with
    cache,    \* Redis, user:<id>
    fills,    \* goroutines about to cache a profile, per profile
    drops,    \* goroutines about to delete the cached profile
    news,     \* goroutines about to publish user.updated, per profile
    told,     \* the profiles user.updated was published with
    held,     \* ghost: the profiles the row has held
    fate,     \* ghost: whether a token was sent, and is over since
    uses,     \* ghost: how many passwords a token has set
    pc,       \* what each handler does next
    job       \* what it works on

row   == <<profile, password, reset, sessions, held, fate, uses>>
tasks == <<fills, drops, news>>
vars  == <<row, cache, tasks, told, pc, job>>

Labels == {"idle", "getcached", "load", "read", "write", "savetoken", "check",
           "setpassword", "clear", "forget", "compare", "savesession"}

NoTasks == fills = [x \in Profiles |-> 0] /\ drops = 0 /\ news = [x \in Profiles |-> 0]

Init ==
    /\ profile \in Profiles /\ password \in Passwords
    /\ reset = None /\ sessions = {} /\ cache = None
    /\ NoTasks
    /\ told = {} /\ held = {profile}
    /\ fate = [t \in Tokens |-> "new"]
    /\ uses = [t \in Tokens |-> 0]
    /\ pc   = [w \in Workers |-> "idle"]
    /\ job  = [w \in Workers |-> None]

-----------------------------------------------------------------------------

Start(w, label, given, value, token) ==
    /\ pc[w] = "idle"
    /\ pc'  = [pc EXCEPT ![w] = label]
    /\ job' = [job EXCEPT ![w] = [given |-> given, value |-> value, token |-> token,
                                  copy |-> None, known |-> None]]

Goto(w, label) == pc' = [pc EXCEPT ![w] = label] /\ UNCHANGED job

Finish(w) ==
    /\ pc'  = [pc EXCEPT ![w] = "idle"]
    /\ job' = [job EXCEPT ![w] = None]

\* A call of PostgreSQL, Redis or NATS whose error is ignored.
Ignoring(fault, variable) == fault \in Faults /\ UNCHANGED variable

\* go s.cacheSvc.CacheUser, InvalidateUserCache and publishEvent
Fill(x)    == fills' = [fills EXCEPT ![x] = @ + 1]
Drop       == drops' = drops + 1
Publish(x) == news' = [news EXCEPT ![x] = @ + 1]

-----------------------------------------------------------------------------
(* GetProfile *)

GetProfile(w) ==
    /\ Start(w, "getcached", {}, None, None)
    /\ UNCHANGED <<row, cache, tasks, told>>

\* An error of Redis is a miss.
GetCached(w) ==
    /\ pc[w] = "getcached"
    /\ \/ cache # None /\ Finish(w)
       \/ /\ cache = None \/ "redis" \in Faults
          /\ Goto(w, "load")
    /\ UNCHANGED <<row, cache, tasks, told>>

Load(w) ==
    /\ pc[w] = "load"
    /\ Fill(profile)
    /\ Finish(w)
    /\ UNCHANGED <<row, cache, drops, news, told>>

-----------------------------------------------------------------------------
(* UpdateProfile *)

UpdateProfile(w) ==
    /\ \E given \in SUBSET Fields, v \in Values : Start(w, "read", given, v, None)
    /\ UNCHANGED <<row, cache, tasks, told>>

Changed(x, j) == [f \in Fields |-> IF f \in j.given THEN j.value ELSE x[f]]

\* Mutant: the changed profile is cached before it is written.
ReadAndFill(w) ==
    /\ pc[w] = "read"
    /\ Fill(Changed(profile, job[w]))
    /\ pc'  = [pc EXCEPT ![w] = "write"]
    /\ job' = [job EXCEPT ![w].copy = Changed(profile, job[w]), ![w].known = password]
    /\ UNCHANGED <<row, cache, drops, news, told>>

\* GetByID reads the whole row; the fields the request names are changed in
\* memory.
Read(w) ==
    /\ pc[w] = "read"
    /\ pc'  = [pc EXCEPT ![w] = "write"]
    /\ job' = [job EXCEPT ![w].copy = Changed(profile, job[w]), ![w].known = password]
    /\ UNCHANGED <<row, cache, tasks, told>>

\* Mutant: the UPDATE names the password's column too.
WriteRowWithPassword(w) ==
    /\ profile'  = job[w].copy
    /\ password' = job[w].known
    /\ held'     = held \cup {job[w].copy}
    /\ UNCHANGED <<reset, sessions, fate, uses>>

\* repo.Update writes all four columns, those the request does not name as
\* they were read.
WriteRow(w) ==
    /\ profile' = job[w].copy
    /\ held'    = held \cup {job[w].copy}
    /\ UNCHANGED <<password, reset, sessions, fate, uses>>

\* Mutant: the old profile is not deleted from the cache.
WriteKeepingCache(w) ==
    /\ pc[w] = "write"
    /\ WriteRow(w)
    /\ Publish(job[w].copy)
    /\ Finish(w)
    /\ UNCHANGED <<cache, fills, drops, told>>

\* Mutant: the new profile is cached, the old one is not deleted.
WriteFillingCache(w) ==
    /\ pc[w] = "write"
    /\ WriteRow(w)
    /\ Fill(job[w].copy) /\ Publish(job[w].copy)
    /\ Finish(w)
    /\ UNCHANGED <<cache, drops, told>>

Write(w) ==
    /\ pc[w] = "write"
    /\ WriteRow(w)
    /\ Drop /\ Publish(job[w].copy)
    /\ Finish(w)
    /\ UNCHANGED <<cache, fills, told>>

-----------------------------------------------------------------------------
(* ForgotPassword and ResetPassword *)

ForgotPassword(w) ==
    /\ \E t \in Tokens : fate[t] = "new" /\ Start(w, "savetoken", {}, None, t)
    /\ UNCHANGED <<row, cache, tasks, told>>

\* The tokens that can no longer be used, of those that were sent
Over(ts) == [t \in Tokens |-> IF t \in ts /\ fate[t] = "sent" THEN "over" ELSE fate[t]]

\* SavePasswordResetToken replaces the token the row holds.
SaveTokenInRow(w) ==
    /\ reset' = job[w].token
    /\ fate'  = [Over(Tokens) EXCEPT ![job[w].token] = "sent"]
    /\ UNCHANGED <<profile, password, sessions, held, uses>>

SaveToken(w) ==
    /\ pc[w] = "savetoken"
    /\ SaveTokenInRow(w)
    /\ Finish(w)
    /\ UNCHANGED <<cache, tasks, told>>

ResetPassword(w) ==
    /\ \E t \in Tokens, x \in Passwords :
          fate[t] # "new" /\ Start(w, "check", {}, x, t)
    /\ UNCHANGED <<row, cache, tasks, told>>

\* GetUserByResetToken
Check(w) ==
    /\ pc[w] = "check"
    /\ \/ reset # job[w].token /\ Finish(w)
       \/ reset = job[w].token /\ Goto(w, "setpassword")
    /\ UNCHANGED <<row, cache, tasks, told>>

SetPasswordInRow(w) ==
    /\ password' = job[w].value
    /\ uses'     = [uses EXCEPT ![job[w].token] = @ + 1]
    /\ UNCHANGED <<profile, reset, sessions, held, fate>>

SetPassword(w) ==
    /\ pc[w] = "setpassword"
    /\ SetPasswordInRow(w)
    /\ Goto(w, "clear")
    /\ UNCHANGED <<cache, tasks, told>>

\* Mutant: the token that was used stays.
ClearNothing(w) ==
    /\ pc[w] = "clear"
    /\ Goto(w, "forget")
    /\ UNCHANGED <<row, cache, tasks, told>>

\* ClearPasswordResetToken clears the row's token, whichever it is by now.
Clear(w) ==
    /\ pc[w] = "clear"
    /\ reset' = None \/ Ignoring("postgres", reset)
    /\ Goto(w, "forget")
    /\ UNCHANGED <<profile, password, sessions, held, fate, uses, cache, tasks, told>>

\* DeleteUserRefreshTokens, in Logout too
Forget(w) ==
    /\ pc[w] = "forget"
    /\ sessions' = {} \/ Ignoring("postgres", sessions)
    /\ Drop
    /\ Finish(w)
    /\ UNCHANGED <<profile, password, reset, held, fate, uses, cache, fills, news, told>>

-----------------------------------------------------------------------------
(* Login and Logout, as far as they meet the above *)

Login(w) ==
    /\ \E x \in Passwords : Start(w, "compare", {}, x, None)
    /\ UNCHANGED <<row, cache, tasks, told>>

\* The hash was read by GetByEmail; the session is stored two calls later.
Compare(w) ==
    /\ pc[w] = "compare"
    /\ \/ job[w].value # password /\ Finish(w)
       \/ job[w].value = password /\ Goto(w, "savesession")
    /\ UNCHANGED <<row, cache, tasks, told>>

SaveSessionInRow(w) ==
    /\ sessions' = sessions \cup {job[w].value}
    /\ UNCHANGED <<profile, password, reset, held, fate, uses>>

SaveSession(w) ==
    /\ pc[w] = "savesession"
    /\ SaveSessionInRow(w)
    /\ Finish(w)
    /\ UNCHANGED <<cache, tasks, told>>

Logout(w) ==
    /\ Start(w, "forget", {}, None, None)
    /\ UNCHANGED <<row, cache, tasks, told>>

-----------------------------------------------------------------------------
(* Goroutines, failures and time *)

CacheUser(x) ==
    /\ fills[x] > 0
    /\ fills' = [fills EXCEPT ![x] = @ - 1]
    /\ cache' = x \/ Ignoring("redis", cache)
    /\ UNCHANGED <<row, drops, news, told, pc, job>>

InvalidateUserCache ==
    /\ drops > 0
    /\ drops' = drops - 1
    /\ cache' = None \/ Ignoring("redis", cache)
    /\ UNCHANGED <<row, fills, news, told, pc, job>>

PublishUserUpdated(x) ==
    /\ news[x] > 0
    /\ news' = [news EXCEPT ![x] = @ - 1]
    /\ told' = told \cup {x} \/ Ignoring("nats", told)
    /\ UNCHANGED <<row, cache, fills, drops, pc, job>>

\* PostgreSQL returns an error that ends the handler, before or after the
\* statement was committed.
Fail(w) ==
    /\ "postgres" \in Faults
    /\ \/ pc[w] \in {"load", "read", "write", "savetoken", "check", "setpassword",
                     "compare", "savesession"} /\ UNCHANGED row
       \/ pc[w] = "write" /\ WriteRow(w)
       \/ pc[w] = "savetoken" /\ SaveTokenInRow(w)
       \/ pc[w] = "setpassword" /\ SetPasswordInRow(w)
       \/ pc[w] = "savesession" /\ SaveSessionInRow(w)
    /\ Finish(w)
    /\ UNCHANGED <<cache, tasks, told>>

\* The process dies with its handlers and its goroutines.
Crash ==
    /\ "process" \in Faults
    /\ fills' = [x \in Profiles |-> 0]
    /\ drops' = 0
    /\ news'  = [x \in Profiles |-> 0]
    /\ pc'    = [w \in Workers |-> "idle"]
    /\ job'   = [w \in Workers |-> None]
    /\ UNCHANGED <<row, cache, told>>

\* The five minutes of a cached profile are over.
ExpireProfile ==
    /\ cache # None
    /\ cache' = None
    /\ UNCHANGED <<row, tasks, told, pc, job>>

\* The hour of a reset token is over: no query finds it any more.
ExpireToken ==
    /\ reset # None
    /\ reset' = None
    /\ fate'  = Over({reset})
    /\ UNCHANGED <<profile, password, sessions, held, uses, cache, tasks, told, pc, job>>

Request(w) ==
    \/ GetProfile(w) \/ UpdateProfile(w) \/ ForgotPassword(w) \/ ResetPassword(w)
    \/ Login(w) \/ Logout(w)

Step(w) ==
    \/ GetCached(w) \/ Load(w) \/ Read(w) \/ Write(w)
    \/ SaveToken(w) \/ Check(w) \/ SetPassword(w) \/ Clear(w) \/ Forget(w)
    \/ Compare(w) \/ SaveSession(w) \/ Fail(w)

Internal ==
    \/ \E w \in Workers : Step(w)
    \/ \E x \in Profiles : CacheUser(x) \/ PublishUserUpdated(x)
    \/ InvalidateUserCache
    \/ Crash \/ ExpireProfile \/ ExpireToken

Next == (\E w \in Workers : Request(w)) \/ Internal

Spec == Init /\ [][Next]_vars

-----------------------------------------------------------------------------
(* Properties *)

TypeOK ==
    /\ profile \in Profiles /\ password \in Passwords
    /\ reset \in Tokens \cup {None} /\ sessions \subseteq Passwords
    /\ cache \in Profiles \cup {None}
    /\ fills \in [Profiles -> Nat] /\ drops \in Nat /\ news \in [Profiles -> Nat]
    /\ told \subseteq Profiles /\ held \subseteq Profiles
    /\ fate \in [Tokens -> {"new", "sent", "over"}]
    /\ uses \in [Tokens -> Nat]
    /\ pc \in [Workers -> Labels]
    /\ job \in [Workers -> Jobs \cup {None}]

\* Whatever is cached or published of an account was its row once, in one
\* piece: never a mixture of two updates or an update that was not stored.
CopiesWereHeld == told \cup ({cache} \ {None}) \subseteq held

\* The password changes by spending a reset token that was sent, and in no
\* other way: a profile update, however old the row is that it has read, cannot
\* undo a reset.
PasswordChangesByToken ==
    [][password' # password =>
          \E t \in Tokens : fate[t] # "new" /\ uses'[t] = uses[t] + 1]_vars

\* A reset is final: its token sets one password and is gone, an unused token
\* that was sent last still works, and no session of an older password is left.
ResetIsFinal ==
    /\ \A t \in Tokens : uses[t] <= IF reset = t THEN 0 ELSE 1
    /\ \A t \in Tokens : fate[t] = "sent" /\ uses[t] = 0 => reset = t
    /\ sessions \subseteq {password}

\* The cache holds the row or nothing.
CacheIsFresh == cache \in {None, profile}

=============================================================================
