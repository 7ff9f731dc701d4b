-------------------------- MODULE RateLimiterProofs --------------------------
(***************************************************************************)
(* RateLimiter for any number of requests and any limit: a window never    *)
(* has more requests within the limit than the limit says.                 *)
(***************************************************************************)
EXTENDS RateLimiter, TLAPS

\* Each request within the limit has its own increment of the key.
IInv ==
    /\ count \in 0 .. Limit + 1
    /\ allowed \in Nat
    /\ allowed <= count
    /\ AtMostLimit

LEMMA InitIsSound ==
    ASSUME Init
    PROVE  IInv
  BY LimitIsPositive DEF Init, IInv, AtMostLimit

LEMMA NextIsSound ==
    ASSUME IInv, [Next]_vars
    PROVE  IInv'
  <1> USE LimitIsPositive DEF IInv, AtMostLimit
  <1>1. ASSUME NEW w \in Workers, Arrive(w) PROVE IInv'
    BY <1>1 DEF Arrive
  <1>2. ASSUME NEW w \in Workers, Incr(w) PROVE IInv'
    <2>1. CASE count >= Limit
      <3>1. allowed' = allowed /\ count' = Limit + 1
        BY <1>2, <2>1 DEF Incr, Incremented, InLimit
      <3>. QED BY <1>2, <2>1, <3>1 DEF Incr, InLimit
    <2>2. CASE count < Limit
      <3>1. allowed' = allowed + 1 /\ count' = count + 1
        BY <1>2, <2>2 DEF Incr, Incremented, InLimit
      <3>. QED BY <1>2, <2>2, <3>1 DEF Incr, InLimit
    <2>. QED BY <2>1, <2>2
  <1>3. ASSUME NEW w \in Workers, Expire(w) PROVE IInv'
    BY <1>3 DEF Expire
  <1>4. ASSUME NEW w \in Workers, Decide(w) PROVE IInv'
    BY <1>4 DEF Decide
  <1>5. ASSUME NEW w \in Workers, RedisError(w) PROVE IInv'
    BY <1>5 DEF RedisError, Incremented
  <1>6. ASSUME NEW w \in Workers, CutOff(w) PROVE IInv'
    BY <1>6 DEF CutOff
  <1>7. CASE EndWindow
    BY <1>7 DEF EndWindow
  <1>8. CASE UNCHANGED vars
    BY <1>8 DEF vars
  <1>. QED BY <1>1, <1>2, <1>3, <1>4, <1>5, <1>6, <1>7, <1>8 DEF Next, Step

\* The inductive invariant holds in every reachable state.
THEOREM Sound == Spec => []IInv
  BY InitIsSound, NextIsSound, PTL DEF Spec

\* No window has more requests within the limit than the limit says, for any
\* number of concurrent requests, failures of Redis and cut-off requests.
THEOREM WindowIsLimited == Spec => []AtMostLimit
  <1>1. IInv => AtMostLimit
    BY DEF IInv
  <1>. QED BY <1>1, Sound, PTL

\* Every variable keeps its type, and only a key that exists expires.
THEOREM TypeCorrect == Spec => []TypeOK
  <1>1. Init => TypeOK
    <2> SUFFICES ASSUME Init PROVE TypeOK
      OBVIOUS
    <2>1. count \in 0 .. Limit + 1 /\ allowed \in Nat
      BY LimitIsPositive DEF Init
    <2>2. pc \in [Workers -> Labels]
      BY DEF Init, Labels
    <2>3. within \in [Workers -> BOOLEAN] /\ hasTTL = FALSE
      BY DEF Init
    <2>. QED BY <2>1, <2>2, <2>3 DEF TypeOK
  <1>2. TypeOK /\ [Next]_vars => TypeOK'
    <2> SUFFICES ASSUME TypeOK, [Next]_vars PROVE TypeOK'
      OBVIOUS
    <2> USE LimitIsPositive DEF TypeOK, Goto, Labels
    <2>1. ASSUME NEW w \in Workers, Arrive(w) PROVE TypeOK'
      BY <2>1 DEF Arrive
    <2>2. ASSUME NEW w \in Workers, Incr(w) PROVE TypeOK'
      <3>1. Incremented \in 1 .. Limit + 1 /\ InLimit(Incremented) \in BOOLEAN
        BY DEF Incremented, InLimit
      <3>2. count' = Incremented /\ UNCHANGED hasTTL
        BY <2>2 DEF Incr
      <3>3. pc' \in [Workers -> Labels] /\ allowed' \in Nat
        BY <2>2 DEF Incr
      <3>4. within' \in [Workers -> BOOLEAN]
        BY <2>2, <3>1 DEF Incr
      <3>. QED BY <3>1, <3>2, <3>3, <3>4
    <2>3. ASSUME NEW w \in Workers, Expire(w) PROVE TypeOK'
      BY <2>3 DEF Expire
    <2>4. ASSUME NEW w \in Workers, Decide(w) PROVE TypeOK'
      <3>1. pc' \in [Workers -> Labels]
        BY <2>4 DEF Decide
      <3>. QED BY <2>4, <3>1 DEF Decide
    <2>5. ASSUME NEW w \in Workers, RedisError(w) PROVE TypeOK'
      <3>1. Incremented \in 1 .. Limit + 1
        BY DEF Incremented
      <3>2. /\ pc' \in [Workers -> Labels] /\ UNCHANGED <<allowed, within>>
            /\ \/ UNCHANGED <<count, hasTTL>>
               \/ count' = Incremented /\ UNCHANGED hasTTL
               \/ hasTTL' = (count > 0) /\ UNCHANGED count
        BY <2>5 DEF RedisError
      <3>3. CASE UNCHANGED <<count, hasTTL>>
        BY <3>2, <3>3
      <3>4. CASE count' = Incremented /\ UNCHANGED hasTTL
        BY <3>1, <3>2, <3>4
      <3>5. CASE hasTTL' = (count > 0) /\ UNCHANGED count
        BY <3>2, <3>5
      <3>. QED BY <3>2, <3>3, <3>4, <3>5
    <2>6. ASSUME NEW w \in Workers, CutOff(w) PROVE TypeOK'
      BY <2>6 DEF CutOff
    <2>7. CASE EndWindow
      <3>1. count' = 0 /\ hasTTL' = FALSE /\ allowed' = 0 /\ UNCHANGED <<pc, within>>
        BY <2>7 DEF EndWindow
      <3>2. count' \in 0 .. Limit + 1
        BY <3>1
      <3>. QED BY <3>1, <3>2
    <2>8. CASE UNCHANGED vars
      BY <2>8 DEF vars
    <2>. QED BY <2>1, <2>2, <2>3, <2>4, <2>5, <2>6, <2>7, <2>8 DEF Next, Step
  <1>. QED BY <1>1, <1>2, PTL DEF Spec

=============================================================================
