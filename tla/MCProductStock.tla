---------------------------- MODULE MCProductStock ----------------------------
(***************************************************************************)
(* TLC instance of ProductStock: at most MaxCalls requests, with the       *)
(* amounts TheAmounts.  In a behaviour that is alone, a request waits      *)
(* until those before it have ended.                                       *)
(***************************************************************************)
EXTENDS ProductStock, TLC

CONSTANT MaxCalls

VARIABLES
    calls, \* how many requests there were
    alone  \* whether one request runs at a time

mcVars == <<vars, calls, alone>>

\* A negative number and zero are what the input checks are for.
TheAmounts == -1 .. 2

MCInit == Init /\ calls = 0 /\ alone \in BOOLEAN

MCNext ==
    \/ /\ calls < MaxCalls
       /\ alone => \A w \in Workers : pc[w] = "idle"
       /\ calls' = calls + 1
       /\ \E w \in Workers : Request(w)
       /\ UNCHANGED alone
    \/ /\ \E w \in Workers : Step(w) \/ Fail(w)
       /\ UNCHANGED <<calls, alone>>

MCSpec == MCInit /\ [][MCNext]_mcVars

Symmetry == Permutations(Workers) \cup Permutations(ProductIds) \cup Permutations(Moments)

\* One request at a time, a reservation and a release move the stock by their
\* quantity, and no stock operation changes the image.
AloneMovesByQuantity ==
    [][alone => [StockMoves]_vars]_mcVars
=============================================================================
