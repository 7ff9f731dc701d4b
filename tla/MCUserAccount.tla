---------------------------- MODULE MCUserAccount ----------------------------
(***************************************************************************)
(* TLC instance of UserAccount, from one row.  A behaviour is calm when    *)
(* nothing fails in it.  It is alone when, besides, a request waits until  *)
(* those before it and their goroutines have ended; then there are at most *)
(* MaxAlone requests, otherwise at most MaxCalls.                          *)
(***************************************************************************)
EXTENDS UserAccount, TLC

CONSTANTS MaxCalls, MaxAlone

VARIABLES
    calls, \* how many requests there were
    alone, \* whether one request runs at a time
    calm,  \* whether nothing fails
    late   \* ghost: whether the last CacheUser was about an old row

mcVars == <<vars, calls, alone, calm, late>>

Reliable == INSTANCE UserAccount WITH Faults <- {}

\* A new account, with the same in every field.
MCInit ==
    /\ Init
    /\ profile \in {CHOOSE x \in Profiles : \A f, g \in Fields : x[f] = x[g]}
    /\ password = CHOOSE x \in Passwords : TRUE
    /\ calls = 0 /\ late = FALSE
    /\ alone \in BOOLEAN /\ calm \in BOOLEAN /\ (alone => calm)

AtRest == NoTasks /\ \A w \in Workers : pc[w] = "idle"

Admitted == IF alone THEN calls < MaxAlone /\ AtRest ELSE calls < MaxCalls

NextLate ==
    \/ late /\ \A x \in Profiles : fills'[x] >= fills[x]
    \/ \E x \in Profiles : fills'[x] < fills[x] /\ x # profile

MCNext ==
    /\ \/ /\ Admitted
          /\ calls' = calls + 1
          /\ \E w \in Workers : Request(w)
       \/ /\ \/ calm /\ Reliable!Internal
             \/ ~calm /\ Internal
          /\ UNCHANGED calls
    /\ late' = NextLate
    /\ UNCHANGED <<alone, calm>>

MCSpec == MCInit /\ [][MCNext]_mcVars

\* A request and its goroutines that are not disturbed by others leave the row
\* or nothing in the cache.
AloneCacheIsFresh == alone /\ AtRest => CacheIsFresh

\* Requests that do not meet make a password reset final.
AloneResetIsFinal == alone /\ AtRest => ResetIsFinal

\* service.go, GetProfile and UpdateProfile: where nothing fails, requests that
\* meet leave an old profile in the cache in one way only.  The goroutine of a
\* GetProfile caches the row it had read after an update has changed the row;
\* any other old profile has a goroutine that is about to delete it.
OnlyLateProfilesStay == calm => CacheIsFresh \/ drops > 0 \/ late
=============================================================================
