-------------------------- MODULE MCBeaconResponder --------------------------
(***************************************************************************)
(* Two families of behaviours in one run.  With all nonces in use the      *)
(* agent lives once, its source has one state, and the clock goes far and  *)
(* is stepped back.  With a single nonce the source leaves the table and   *)
(* returns with a new state, and the agent restarts.                       *)
(***************************************************************************)
EXTENDS BeaconResponder, TLC

CONSTANTS
  OnceStates,    \* bound: states of a source while all nonces are in use
  ReturnNow,     \* bound: the largest clock value with a single nonce
  MaxStamp       \* bound: the latest stamp of a request

VARIABLE nonces  \* the nonces in use

\* Nonces and refreshers are interchangeable.
Symmetry == Permutations(Nonces) \cup Permutations(Refreshers)

MCInit == Init /\ nonces \in {Nonces} \cup {{n} : n \in Nonces}

\* The bounds of each family, on the state a step leads to.
Bounded ==
  /\ handling # None => handling.req.nonce \in nonces /\ handling.req.sent <= MaxStamp
  /\ nonces = Nonces => boots = 0 /\ \A s \in Sources : Len(heap[s]) <= OnceStates
  /\ nonces # Nonces =>
       /\ now <= ReturnNow /\ backs = 0
       /\ \A s \in Sources : boots + Len(heap[s]) <= MaxStates

MCNext == Next /\ UNCHANGED nonces /\ Bounded'

MCSpec == MCInit /\ [][MCNext]_<<vars, nonces>>
=============================================================================
