---------------------------- MODULE MCUserSession ----------------------------
(***************************************************************************)
(* TLC instance of UserSession.  A behaviour is either concurrent, with at *)
(* most MaxCalls requests and all Faults; or a request waits until those   *)
(* before it have ended, there are at most MaxAlone, and nothing fails but *)
(* the process.                                                            *)
(***************************************************************************)
EXTENDS UserSession, TLC

CONSTANTS MaxCalls, MaxAlone

VARIABLES
    calls, \* how many requests there were
    alone  \* whether one request runs at a time

mcVars == <<vars, calls, alone>>

Reliable == INSTANCE UserSession WITH Faults <- Faults \cap {"process"}

MCInit == Init /\ calls = 0 /\ alone \in BOOLEAN

Admitted ==
    IF alone THEN calls < MaxAlone /\ \A w \in Workers : pc[w] = "idle"
             ELSE calls < MaxCalls

MCNext ==
    \/ /\ Admitted
       /\ calls' = calls + 1
       /\ \E w \in Workers : Request(w)
       /\ UNCHANGED alone
    \/ /\ \/ alone /\ Reliable!Internal
          \/ ~alone /\ Internal
       /\ UNCHANGED <<calls, alone>>

MCSpec == MCInit /\ [][MCNext]_mcVars

Symmetry == Permutations(Workers) \cup Permutations(Users)
                \cup Permutations(Emails) \cup Permutations(Pairs)

\* One request at a time, a refresh token buys one pair, even when the process
\* dies between the steps.
AloneRefreshBuysOnce == alone => RefreshBuysOnce

\* One request at a time, no session that a Logout has ended is refreshed
\* afterwards, and neither is one that was bought with it.
AloneLogoutEndsSessions == alone => LogoutEndsSessions
=============================================================================
