---------------------------- MODULE MCReviewRating ----------------------------
(***************************************************************************)
(* TLC instance of ReviewRating: at most MaxCalls requests.  A behaviour   *)
(* is calm when nothing fails in it, and alone when, besides, a request    *)
(* waits until those before it have ended.                                 *)
(***************************************************************************)
EXTENDS ReviewRating, TLC

CONSTANT MaxCalls

VARIABLES
    calls, \* how many requests there were
    alone, \* whether one request runs at a time
    calm,  \* whether nothing fails
    late   \* ghost: the products whose last Fill stored an old rating

mcVars == <<vars, calls, alone, calm, late>>

Reliable == INSTANCE ReviewRating WITH Faults <- {}

MCInit ==
    /\ Init
    /\ calls = 0 /\ late = {}
    /\ alone \in BOOLEAN /\ calm \in BOOLEAN /\ (alone => calm)

\* The answer of w for p is stored, or is not.
Fills(w, p) == pc[w] = "fill" /\ pc'[w] # "fill" /\ job[w].product = p

NextLate(p) ==
    \/ p \in late /\ \A w \in Workers : ~ Fills(w, p)
    \/ \E w \in Workers : Fills(w, p) /\ job[w].found # RatingOf(reviews, p)

\* A review's id is the time it was made at: none gets the id of a review that
\* was deleted while a request still works on that one.
NoIdReturns ==
    \A r \in ReviewIds : reviews[r] = None /\ reviews'[r] # None =>
        \A w \in Workers : pc[w] = "write" => job[w].review # r

MCNext ==
    /\ \/ /\ calls < MaxCalls
          /\ alone => \A w \in Workers : pc[w] = "idle"
          /\ calls' = calls + 1
          /\ \E w \in Workers : Request(w)
       \/ /\ \/ calm /\ Reliable!Internal /\ NoIdReturns
             \/ ~calm /\ Internal
          /\ UNCHANGED calls
    /\ late' = {p \in ProductIds : NextLate(p)}
    /\ UNCHANGED <<alone, calm>>

MCSpec == MCInit /\ [][MCNext]_mcVars

\* demo-workflow.md: "review creation updates rating cache".  Without races and
\* failures, what is cached after a request is the rating.
AloneCacheCatchesUp ==
    alone /\ (\A w \in Workers : pc[w] = "idle") =>
        \A p \in ProductIds : cache[p] \in {None, RatingOf(reviews, p)}

\* service.go, ratingChanged and Rating: where nothing fails, requests that
\* meet leave an old rating in the cache in one way only.  Rating read before a
\* change and stores its answer after it; any other old rating is about to be
\* deleted by the change that made it old.
OnlyLateRatingsStay ==
    calm => \A p \in ProductIds :
        \/ cache[p] \in {None, RatingOf(reviews, p)}
        \/ \E w \in Workers : pc[w] = "invalidate" /\ job[w].product = p
        \/ p \in late
=============================================================================
