----------------------------- MODULE UserSession -----------------------------
(***************************************************************************)
(* Accounts and sessions of the user service: Register, Login,             *)
(* RefreshToken, Logout and ValidateToken of                               *)
(* user-service/internal/user/service.go, run by concurrent requests over  *)
(* PostgreSQL, Redis, NATS and SMTP.                                       *)
(*                                                                         *)
(* A session is a pair of tokens.  The refresh token is a row; the access  *)
(* token is signed, is stored nowhere and is valid until its time runs out *)
(* or Redis holds it in the blacklist.  Goroutines outlive the handler     *)
(* that starts them and die with the process.                              *)
(***************************************************************************)
EXTENDS Naturals, Sequences, FiniteSets

CONSTANTS
    Workers,     \* request handlers running at the same time
    Users,       \* the UUIDs accounts may get
    Emails,      \* the addresses people register
    Pairs,       \* the token pairs generateTokenPair may return
    Week,        \* how long an access token is valid, in ticks of the clock
    MaxAttempts, \* the limit of logins of one address in a window: 5
    Faults,      \* what may fail: "postgres", "redis", "nats", "smtp", "process"
    None         \* no account, no token, no job

ASSUME WeekIsPositive == Week \in Nat \ {0}
ASSUME MaxAttemptsIsNatural == MaxAttempts \in Nat
ASSUME KnownFaults == Faults \subseteq {"postgres", "redis", "nats", "smtp", "process"}

\* What is known of a pair: its account, the pair it was bought with, and
\* whether a client was given it.
PairRecords == [user : Users, parent : Pairs \cup {None}, handed : BOOLEAN]

Jobs == [op : {"register", "login", "refresh", "logout"}, email : Emails \cup {None},
         user : Users \cup {None}, pair : Pairs \cup {None}]

\* What a goroutine is there to do.
Tasks == ({"welcome", "user.created"} \X Users) \cup ({"blacklist"} \X Pairs)

\* What the limiter says of a try.
Verdicts == {"admitted", "refused"}

ASSUME NoneIsNothing == None \notin Users \cup Emails \cup Pairs \cup PairRecords \cup Jobs

VARIABLES
    users,    \* table users: the address of each account
    stored,   \* table refresh_tokens: the pairs whose refresh token is a row
    expired,  \* the refresh tokens past their expires_at
    tries,    \* Redis, ratelimit:login:<address>: what became of each try
    black,    \* Redis, blacklist:<token>: for how long it is kept
    pairs,    \* the pairs that were generated
    left,     \* for how long the access token of a pair is valid
    tasks,    \* how many goroutines are about to do each task
    sent,     \* the emails and events that were sent
    ended,    \* ghost: the pairs a Logout has ended
    pc,       \* what each handler does next
    job       \* what it works on

tables == <<users, stored, expired>>
redis  == <<tries, black>>
tokens == <<pairs, left>>
vars   == <<tables, redis, tokens, tasks, sent, ended, pc, job>>

Labels == {"idle", "lookup", "insert", "save", "find", "limit", "compare", "reset",
           "readrow", "drop", "consume", "forget", "forgetall"}

Init ==
    /\ users   = [u \in Users |-> None]
    /\ stored  = {}
    /\ expired = {}
    /\ tries   = [e \in Emails |-> <<>>]
    /\ black   = [p \in Pairs |-> 0]
    /\ pairs   = [p \in Pairs |-> None]
    /\ left    = [p \in Pairs |-> 0]
    /\ tasks   = [t \in Tasks |-> 0]
    /\ sent    = {}
    /\ ended   = {}
    /\ pc      = [w \in Workers |-> "idle"]
    /\ job     = [w \in Workers |-> None]

Registered(e) == \E u \in Users : users[u] = e
Handed == {p \in Pairs : pairs[p] # None /\ pairs[p].handed}
PairsOf(u) == {p \in Pairs : pairs[p] # None /\ pairs[p].user = u}

\* ValidateToken, when Redis answers.
Accepted(p) == black[p] = 0 /\ left[p] > 0

-----------------------------------------------------------------------------

Start(w, label, op, e, u, p) ==
    /\ pc[w] = "idle"
    /\ pc'  = [pc EXCEPT ![w] = label]
    /\ job' = [job EXCEPT ![w] = [op |-> op, email |-> e, user |-> u, pair |-> p]]

Goto(w, label) == pc' = [pc EXCEPT ![w] = label] /\ UNCHANGED job

\* The handler goes on with the account it has found.
GotoAs(w, label, u) ==
    /\ pc'  = [pc EXCEPT ![w] = label]
    /\ job' = [job EXCEPT ![w].user = u]

Finish(w) ==
    /\ pc'  = [pc EXCEPT ![w] = "idle"]
    /\ job' = [job EXCEPT ![w] = None]

\* A call of PostgreSQL or Redis whose error the handler ignores.
Ignoring(fault, variable) == fault \in Faults /\ UNCHANGED variable

Register(w) ==
    \E e \in Emails :
        Start(w, "lookup", "register", e, None, None)
            /\ UNCHANGED <<tables, redis, tokens, tasks, sent, ended>>

Login(w) ==
    \E e \in Emails :
        Start(w, "find", "login", e, None, None)
            /\ UNCHANGED <<tables, redis, tokens, tasks, sent, ended>>

RefreshToken(w) ==
    \E p \in Handed :
        Start(w, "readrow", "refresh", None, None, p)
            /\ UNCHANGED <<tables, redis, tokens, tasks, sent, ended>>

\* go ...: one more goroutine for each of the tasks.
StartTasks(ts) == [t \in Tasks |-> IF t \in ts THEN tasks[t] + 1 ELSE tasks[t]]

\* Mutant: only the refresh token of the request is deleted.
ForgetsOne(j) == {j.pair}

\* What Logout deletes at last: DeleteUserRefreshTokens.
Forgets(j) == PairsOf(j.user)

\* A Logout from a session.  The request may carry the refresh token or not,
\* and the account's id or not: then the access token alone is blacklisted.
Logout(w) ==
    \E p \in Handed, label \in {"forget", "forgetall"}, givesUser \in BOOLEAN :
        /\ Start(w, label, "logout", None, IF givesUser THEN pairs[p].user ELSE None, p)
        /\ tasks' = StartTasks({<<"blacklist", p>>})
        /\ UNCHANGED <<tables, redis, tokens, sent, ended>>

-----------------------------------------------------------------------------
(* Register *)

\* An error of GetByEmail is taken as an address that is free.
LookUp(w) ==
    /\ pc[w] = "lookup"
    /\ \/ Registered(job[w].email) /\ Finish(w)
       \/ /\ ~Registered(job[w].email) \/ "postgres" \in Faults
          /\ Goto(w, "insert")
    /\ UNCHANGED <<tables, redis, tokens, tasks, sent, ended>>

\* email VARCHAR(255) UNIQUE NOT NULL
EmailTaken(e) == Registered(e)

InsertUser(w) ==
    /\ pc[w] = "insert"
    /\ \/ /\ EmailTaken(job[w].email)
          /\ Finish(w)
          /\ UNCHANGED users
       \/ /\ ~EmailTaken(job[w].email)
          /\ \E u \in Users :
                /\ users[u] = None
                /\ users' = [users EXCEPT ![u] = job[w].email]
                /\ GotoAs(w, "save", u)
    /\ UNCHANGED <<stored, expired, redis, tokens, tasks, sent, ended>>

\* A pair is generated for the job's account and its row is inserted.
NewPair(p, j, handed) ==
    /\ pairs[p] = None
    /\ pairs'  = [pairs EXCEPT ![p] = [user |-> j.user, parent |-> j.pair, handed |-> handed]]
    /\ left'   = [left EXCEPT ![p] = Week]
    /\ stored' = stored \cup {p}

\* generateTokenPair; Register then starts its goroutines and answers.
SavePair(w) ==
    /\ pc[w] = "save"
    /\ \E p \in Pairs : NewPair(p, job[w], TRUE)
    /\ tasks' = StartTasks(IF job[w].op = "register"
                           THEN {"welcome", "user.created"} \X {job[w].user} ELSE {})
    /\ Finish(w)
    /\ UNCHANGED <<users, expired, redis, sent, ended>>

-----------------------------------------------------------------------------
(* Login *)

Find(w) ==
    /\ pc[w] = "find"
    /\ \/ ~Registered(job[w].email) /\ Finish(w)
       \/ \E u \in Users : users[u] = job[w].email /\ GotoAs(w, "limit", u)
    /\ UNCHANGED <<tables, redis, tokens, tasks, sent, ended>>

\* Mutant: the limit is one too high.
AdmitsOneMore(e) == Len(tries[e]) <= MaxAttempts + 1

\* The tries are counted before this one is added.
Admits(e) == Len(tries[e]) <= MaxAttempts

\* CheckLoginRateLimit, one transaction of Redis.  After an error, with the
\* try added or not, the login goes on.
Limit(w) ==
    /\ pc[w] = "limit"
    /\ LET e == job[w].email
           Added(verdict) == tries' = [tries EXCEPT ![e] = Append(@, verdict)]
       IN  \/ Admits(e) /\ Added("admitted") /\ Goto(w, "compare")
           \/ ~Admits(e) /\ Added("refused") /\ Finish(w)
           \/ /\ "redis" \in Faults
              /\ Added("refused") \/ UNCHANGED tries
              /\ Goto(w, "compare")
    /\ UNCHANGED <<tables, black, tokens, tasks, sent, ended>>

\* bcrypt: the password is wrong or right.
Compare(w) ==
    /\ pc[w] = "compare"
    /\ Finish(w) \/ Goto(w, "reset")
    /\ UNCHANGED <<tables, redis, tokens, tasks, sent, ended>>

ResetTries(w) ==
    /\ pc[w] = "reset"
    /\ \/ tries' = [tries EXCEPT ![job[w].email] = <<>>]
       \/ Ignoring("redis", tries)
    /\ Goto(w, "save")
    /\ UNCHANGED <<tables, black, tokens, tasks, sent, ended>>

-----------------------------------------------------------------------------
(* RefreshToken and Logout *)

\* GetRefreshToken; GetByID then finds the account, since none is deleted.
ReadRow(w) ==
    /\ pc[w] = "readrow"
    /\ LET p == job[w].pair
       IN  \/ p \notin stored /\ Finish(w)
           \/ p \in stored \cap expired /\ Goto(w, "drop")
           \/ p \in stored \ expired /\ GotoAs(w, "consume", pairs[p].user)
    /\ UNCHANGED <<tables, redis, tokens, tasks, sent, ended>>

\* An expired token is deleted.
Drop(w) ==
    /\ pc[w] = "drop"
    /\ \/ stored' = stored \ {job[w].pair}
       \/ Ignoring("postgres", stored)
    /\ Finish(w)
    /\ UNCHANGED <<users, expired, redis, tokens, tasks, sent, ended>>

\* Mutant: the token that was used stays.
ConsumeNothing(w) ==
    /\ pc[w] = "consume"
    /\ Goto(w, "save")
    /\ UNCHANGED <<tables, redis, tokens, tasks, sent, ended>>

\* The token that was used is deleted, before the new pair is saved.
Consume(w) ==
    /\ pc[w] = "consume"
    /\ \/ stored' = stored \ {job[w].pair}
       \/ Ignoring("postgres", stored)
    /\ Goto(w, "save")
    /\ UNCHANGED <<users, expired, redis, tokens, tasks, sent, ended>>

Forget(w) ==
    /\ pc[w] = "forget"
    /\ \/ stored' = stored \ {job[w].pair}
       \/ Ignoring("postgres", stored)
    /\ Goto(w, "forgetall")
    /\ UNCHANGED <<users, expired, redis, tokens, tasks, sent, ended>>

ForgetAll(w) ==
    /\ pc[w] = "forgetall"
    /\ \/ stored' = stored \ Forgets(job[w])
       \/ Ignoring("postgres", stored)
    /\ ended' = ended \cup PairsOf(job[w].user)
    /\ Finish(w)
    /\ UNCHANGED <<users, expired, redis, tokens, tasks, sent>>

-----------------------------------------------------------------------------
(* Goroutines, failures and time *)

FaultOf == [kind \in {"welcome", "user.created", "blacklist"} |->
               CASE kind = "welcome" -> "smtp" [] kind = "user.created" -> "nats"
                 [] kind = "blacklist" -> "redis"]

\* Mutant: an entry of the blacklist goes before the token it blocks.
ShortBlock == Week - 1

\* BlacklistToken(accessToken, 7 * 24 h): as long as an access token is valid.
Block == Week

\* A goroutine does its task; an error is logged at most.
RunTask(t) ==
    /\ tasks[t] > 0
    /\ tasks' = [tasks EXCEPT ![t] = @ - 1]
    /\ \/ /\ t[1] = "blacklist"
          /\ black' = [black EXCEPT ![t[2]] = Block]
          /\ UNCHANGED sent
       \/ /\ t[1] # "blacklist"
          /\ sent' = sent \cup {t}
          /\ UNCHANGED black
       \/ FaultOf[t[1]] \in Faults /\ UNCHANGED <<black, sent>>
    /\ UNCHANGED <<tables, tries, tokens, ended, pc, job>>

\* PostgreSQL returns an error that ends the handler, before or after the
\* statement was committed.
Fail(w) ==
    /\ "postgres" \in Faults
    /\ pc[w] \in {"insert", "find", "readrow", "save"}
    /\ Finish(w)
    /\ \/ UNCHANGED <<users, stored, tokens>>
       \/ /\ pc[w] = "insert" /\ ~EmailTaken(job[w].email)
          /\ \E u \in Users : users[u] = None /\ users' = [users EXCEPT ![u] = job[w].email]
          /\ UNCHANGED <<stored, tokens>>
       \/ /\ pc[w] = "save"
          /\ \E p \in Pairs : NewPair(p, job[w], FALSE)
          /\ UNCHANGED users
    /\ UNCHANGED <<expired, redis, tasks, sent, ended>>

\* The process dies with its handlers and its goroutines.
Crash ==
    /\ "process" \in Faults
    /\ tasks' = [t \in Tasks |-> 0]
    /\ pc'    = [w \in Workers |-> "idle"]
    /\ job'   = [w \in Workers |-> None]
    /\ UNCHANGED <<tables, redis, tokens, sent, ended>>

Older(clock) == [p \in Pairs |-> IF clock[p] = 0 THEN 0 ELSE clock[p] - 1]

\* Access tokens and the entries of the blacklist get older together.
Tick ==
    /\ \E p \in Pairs : left[p] > 0 \/ black[p] > 0
    /\ left'  = Older(left)
    /\ black' = Older(black)
    /\ UNCHANGED <<tables, tries, pairs, tasks, sent, ended, pc, job>>

\* The 30 days of a refresh token run out.
ExpireRefreshToken(p) ==
    /\ p \in stored \ expired
    /\ expired' = expired \cup {p}
    /\ UNCHANGED <<users, stored, redis, tokens, tasks, sent, ended, pc, job>>

\* The oldest try leaves the window of 15 minutes.
ForgetTry(e) ==
    /\ tries[e] # <<>>
    /\ tries' = [tries EXCEPT ![e] = Tail(@)]
    /\ UNCHANGED <<tables, black, tokens, tasks, sent, ended, pc, job>>

Request(w) == Register(w) \/ Login(w) \/ RefreshToken(w) \/ Logout(w)

Step(w) ==
    \/ LookUp(w) \/ InsertUser(w) \/ SavePair(w)
    \/ Find(w) \/ Limit(w) \/ Compare(w) \/ ResetTries(w)
    \/ ReadRow(w) \/ Drop(w) \/ Consume(w)
    \/ Forget(w) \/ ForgetAll(w)

Internal ==
    \/ \E w \in Workers : Step(w) \/ Fail(w)
    \/ \E t \in Tasks : RunTask(t)
    \/ \E p \in Pairs : ExpireRefreshToken(p)
    \/ \E e \in Emails : ForgetTry(e)
    \/ Crash
    \/ Tick

Next == (\E w \in Workers : Request(w)) \/ Internal

Spec == Init /\ [][Next]_vars

-----------------------------------------------------------------------------
(* Properties *)

\* The shape of the state; a job exists exactly while a handler runs.
TypeOK ==
    /\ users \in [Users -> Emails \cup {None}]
    /\ stored \subseteq Pairs
    /\ expired \subseteq Pairs
    /\ tries \in [Emails -> Seq(Verdicts)]
    /\ black \in [Pairs -> 0 .. Week]
    /\ pairs \in [Pairs -> PairRecords \cup {None}]
    /\ left \in [Pairs -> 0 .. Week]
    /\ tasks \in [Tasks -> Nat]
    /\ sent \subseteq Tasks
    /\ ended \subseteq Pairs
    /\ pc \in [Workers -> Labels]
    /\ job \in [Workers -> Jobs \cup {None}]
    /\ \A w \in Workers : pc[w] = "idle" <=> job[w] = None

\* Two Registers of one address that both find it free, or whose look-up
\* fails, make one account.
OneAccountPerEmail ==
    \A u, v \in Users : users[u] # None /\ users[u] = users[v] => u = v

\* In a window, and since the last right password, the limiter admits one
\* try more than its limit, and never two, however the logins interleave.
TriesBounded ==
    \A e \in Emails :
        Cardinality({i \in DOMAIN tries[e] : tries[e][i] = "admitted"}) <= MaxAttempts + 1

\* A token that is blacklisted is refused as long as it would be valid:
\* its entry does not go first.
RevokedStaysRevoked ==
    [][\A p \in Pairs : black[p] > 0 => ~Accepted(p)']_vars

\* RefreshToken deletes the token it was given: a refresh token buys one
\* pair.
RefreshBuysOnce ==
    \A p, q \in Pairs :
        pairs[p] # None /\ pairs[q] # None /\ pairs[p].parent = pairs[q].parent
            => p = q \/ pairs[p].parent = None

\* Logout ends every session of the account it was given: none is refreshed
\* afterwards, and neither is one bought with it.
LogoutEndsSessions ==
    \A p \in stored : p \notin ended /\ pairs[p].parent \notin ended

=============================================================================
