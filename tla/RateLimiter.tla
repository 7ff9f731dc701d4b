----------------------------- MODULE RateLimiter -----------------------------
(***************************************************************************)
(* The limit on requests of the API gateway: Allow of                      *)
(* api-gateway/internal/gateway/redis_limiter.go, called by redisRateLimit *)
(* of router.go for every request, over one Redis key.                     *)
(*                                                                         *)
(* INCR and TTL are one transaction, EXPIRE is a second call.  Gateways    *)
(* share the key, and a request may be cut off between the two.            *)
(***************************************************************************)
EXTENDS Naturals

CONSTANTS
    Workers, \* requests of one client, method and path at the same time
    Limit,   \* how many of them a window allows
    Faults   \* what may fail: "redis", "gateway"

ASSUME LimitIsPositive == Limit \in Nat \ {0}
ASSUME KnownFaults == Faults \subseteq {"redis", "gateway"}

VARIABLES
    count,    \* the value of the key, 0 when it does not exist
    hasTTL,   \* whether the key expires
    allowed,  \* ghost: how many increments of this key were within the limit
    pc,       \* what each request does next
    within    \* whether its own count was within the limit

vars == <<count, hasTTL, allowed, pc, within>>

Labels == {"idle", "incr", "expire", "decide", "passed", "refused"}

Init ==
    /\ count   = 0
    /\ hasTTL  = FALSE
    /\ allowed = 0
    /\ pc      = [w \in Workers |-> "idle"]
    /\ within  = [w \in Workers |-> FALSE]

Goto(w, label) == pc' = [pc EXCEPT ![w] = label]

Arrive(w) ==
    /\ pc[w] \in {"idle", "passed", "refused"}
    /\ Goto(w, "incr")
    /\ UNCHANGED <<count, hasTTL, allowed, within>>

\* INCR.  Counts above the limit are one: nothing tells them apart.
Incremented == IF count > Limit THEN count ELSE count + 1

\* Mutant: one request too many.
InLimitPlusOne(n) == n <= Limit + 1

InLimit(n) == n <= Limit

\* Mutant: only the first request sets the expiry.
FirstSetsTTL(n) == n = 1

\* The first request sets the expiry, and any that finds none.
SetsTTL(n) == n = 1 \/ ~hasTTL

\* INCR and TTL.
Incr(w) ==
    /\ pc[w] = "incr"
    /\ count' = Incremented
    /\ within' = [within EXCEPT ![w] = InLimit(Incremented)]
    /\ allowed' = IF InLimit(Incremented) THEN allowed + 1 ELSE allowed
    /\ Goto(w, IF SetsTTL(Incremented) THEN "expire" ELSE "decide")
    /\ UNCHANGED hasTTL

\* EXPIRE, which does nothing to a key that is gone.
Expire(w) ==
    /\ pc[w] = "expire"
    /\ hasTTL' = (count > 0)
    /\ Goto(w, "decide")
    /\ UNCHANGED <<count, allowed, within>>

Decide(w) ==
    /\ pc[w] = "decide"
    /\ Goto(w, IF within[w] THEN "passed" ELSE "refused")
    /\ UNCHANGED <<count, hasTTL, allowed, within>>

\* Redis returns an error, its work done or not: the request passes.
RedisError(w) ==
    /\ "redis" \in Faults
    /\ pc[w] \in {"incr", "expire"}
    /\ \/ UNCHANGED <<count, hasTTL>>
       \/ pc[w] = "incr" /\ count' = Incremented /\ UNCHANGED hasTTL
       \/ pc[w] = "expire" /\ hasTTL' = (count > 0) /\ UNCHANGED count
    /\ Goto(w, "passed")
    /\ UNCHANGED <<allowed, within>>

\* The client or the gateway goes away: the rest of the request is not done.
CutOff(w) ==
    /\ "gateway" \in Faults
    /\ pc[w] \in {"incr", "expire", "decide"}
    /\ Goto(w, "idle")
    /\ UNCHANGED <<count, hasTTL, allowed, within>>

\* The window ends.
EndWindow ==
    /\ hasTTL
    /\ count'   = 0
    /\ hasTTL'  = FALSE
    /\ allowed' = 0
    /\ UNCHANGED <<pc, within>>

Step(w) == Incr(w) \/ Expire(w) \/ Decide(w)

Next ==
    \/ \E w \in Workers : Arrive(w) \/ Step(w) \/ RedisError(w) \/ CutOff(w)
    \/ EndWindow

Spec == Init /\ [][Next]_vars

\* The client asks again, its requests are served, and Redis drops a key whose
\* time is over.
Fairness ==
    /\ \A w \in Workers : WF_vars(Arrive(w)) /\ WF_vars(Step(w))
    /\ WF_vars(EndWindow)

FairSpec == Spec /\ Fairness

-----------------------------------------------------------------------------
(* Properties *)

\* The shape of the state; only a key that exists expires.
TypeOK ==
    /\ count \in 0 .. Limit + 1
    /\ hasTTL \in BOOLEAN
    /\ allowed \in Nat
    /\ pc \in [Workers -> Labels]
    /\ within \in [Workers -> BOOLEAN]
    /\ hasTTL => count > 0

\* Between the making of a key and its end, at most Limit requests are within
\* the limit, however they interleave and whatever fails.
AtMostLimit == allowed <= Limit

\* A key that a request left without an expiry does not lock its client out:
\* once requests are not cut off any more, they pass again and again.
ClientIsServed ==
    <>[][\A w \in Workers : ~CutOff(w)]_vars => []<>(\E w \in Workers : pc[w] = "passed")

=============================================================================
