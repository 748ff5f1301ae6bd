------------------------------ MODULE EachIndex ------------------------------
(***************************************************************************)
(* eachIndex (model/parallel.go): fn(i) for every i in 0..n-1, by several  *)
(* workers that claim blocks of indexes from an atomic counter.  A panic   *)
(* in fn is kept for the calling goroutine and ends the claiming.  With    *)
(* few indexes or one processor there is one plain loop instead, in which  *)
(* a panic simply leaves the function.                                     *)
(***************************************************************************)
EXTENDS Naturals, FiniteSets

CONSTANTS
  MaxN,      \* bound: the largest n
  Block,     \* const block
  Threshold, \* 128: the least n worth starting workers for
  Workers,   \* min(GOMAXPROCS, 8) workers ...
  Main,      \* ... the calling goroutine among them
  None

ASSUME WorkersAssumption ==
  /\ MaxN \in Nat /\ Block \in Nat \ {0} /\ Threshold \in Nat
  /\ Main \in Workers
  /\ None \notin Nat

VARIABLES
  n,      \* the argument
  next,   \* next: the first index nobody has claimed
  first,  \* first: the panic kept, named by its index
  pc,     \* where each worker is
  i, hi,  \* its index and the end of its block
  calls,  \* history: calls of fn made for each index
  raised, \* history: indexes whose call panicked
  result  \* how eachIndex ended

vars == <<n, next, first, pc, i, hi, calls, raised, result>>

Indexes == {k \in 0..MaxN : k < n}
Parallel == n >= Threshold /\ Cardinality(Workers) >= 2
Smaller(a, b) == IF a < b THEN a ELSE b

Init ==
  /\ n \in 0..MaxN
  /\ next = (IF Parallel THEN 0 ELSE n) \* the plain loop claims everything
  /\ first = None
  /\ pc = [w \in Workers |-> IF Parallel THEN "claim" ELSE IF w = Main /\ n > 0 THEN "loop" ELSE "done"]
  /\ i = [w \in Workers |-> 0]
  /\ hi = [w \in Workers |-> IF Parallel THEN 0 ELSE n]
  /\ calls = [k \in Indexes |-> 0]
  /\ raised = {} /\ result = "running"

Go(w, from, to) == pc[w] = from /\ pc' = [pc EXCEPT ![w] = to]

-----------------------------------------------------------------------------
\* Mutants of Claim: the block is not cut off at n ...
ClaimUncut(w) ==
  /\ next' = next + Block
  /\ IF next >= n
     THEN /\ Go(w, "claim", "done")
          /\ UNCHANGED <<i, hi>>
     ELSE /\ Go(w, "claim", "loop")
          /\ i' = [i EXCEPT ![w] = next]
          /\ hi' = [hi EXCEPT ![w] = next + Block]
  /\ UNCHANGED <<n, first, calls, raised, result>>

\* ... or the last block is given up.
ClaimShort(w) ==
  /\ next' = next + Block
  /\ IF next + Block >= n
     THEN /\ Go(w, "claim", "done")
          /\ UNCHANGED <<i, hi>>
     ELSE /\ Go(w, "claim", "loop")
          /\ i' = [i EXCEPT ![w] = next]
          /\ hi' = [hi EXCEPT ![w] = Smaller(next + Block, n)]
  /\ UNCHANGED <<n, first, calls, raised, result>>

\* start := int(next.Add(block)) - block
Claim(w) ==
  /\ next' = next + Block
  /\ IF next >= n
     THEN /\ Go(w, "claim", "done")
          /\ UNCHANGED <<i, hi>>
     ELSE /\ Go(w, "claim", "loop")
          /\ i' = [i EXCEPT ![w] = next]
          /\ hi' = [hi EXCEPT ![w] = Smaller(next + Block, n)]
  /\ UNCHANGED <<n, first, calls, raised, result>>

Call(w) ==
  /\ Go(w, "loop", "fn")
  /\ calls' = [calls EXCEPT ![i[w]] = @ + 1]
  /\ UNCHANGED <<n, next, first, i, hi, raised, result>>

\* fn returns: the next index of the block, a new block, or the loop's end.
FnReturns(w) ==
  /\ Go(w, "fn", IF i[w] + 1 < hi[w] THEN "loop" ELSE IF Parallel THEN "claim" ELSE "done")
  /\ i' = [i EXCEPT ![w] = @ + 1]
  /\ UNCHANGED <<n, next, first, hi, calls, raised, result>>

\* fn panics: recovered on a worker; in the plain loop it leaves eachIndex.
FnPanics(w) ==
  /\ Go(w, "fn", IF Parallel THEN "recovered" ELSE "done")
  /\ raised' = raised \cup {i[w]}
  /\ first' = IF Parallel THEN first ELSE i[w]
  /\ UNCHANGED <<n, next, i, hi, calls, result>>

\* Mutant of KeepPanic: the goroutine waits for a panic it has kept itself.
KeepFirstPanic(w) ==
  /\ first = None
  /\ Go(w, "recovered", "stopping")
  /\ first' = i[w]
  /\ UNCHANGED <<n, next, i, hi, calls, raised, result>>

\* first.CompareAndSwap(nil, ...)
KeepPanic(w) ==
  /\ Go(w, "recovered", "stopping")
  /\ first' = IF first = None THEN i[w] ELSE first
  /\ UNCHANGED <<n, next, i, hi, calls, raised, result>>

\* Mutants of StopClaiming: the counter is reset to 0 ...
StartOver(w) ==
  /\ Go(w, "stopping", "done")
  /\ next' = 0
  /\ UNCHANGED <<n, first, i, hi, calls, raised, result>>

\* ... or left alone.
KeepClaiming(w) ==
  /\ Go(w, "stopping", "done")
  /\ UNCHANGED <<n, next, first, i, hi, calls, raised, result>>

\* next.Store(n)
StopClaiming(w) ==
  /\ Go(w, "stopping", "done")
  /\ next' = n
  /\ UNCHANGED <<n, first, i, hi, calls, raised, result>>

\* wg.Wait() is over: the kept panic is raised again, or eachIndex returns.
Finish ==
  /\ result = "running"
  /\ \A w \in Workers : pc[w] = "done"
  /\ result' = IF first = None THEN "returned" ELSE "panicked"
  /\ UNCHANGED <<n, next, first, pc, i, hi, calls, raised>>

Step(w) ==
  \/ Claim(w) \/ Call(w) \/ FnReturns(w) \/ FnPanics(w)
  \/ KeepPanic(w) \/ StopClaiming(w)

Ended == result # "running" /\ UNCHANGED vars

Next == Finish \/ Ended \/ \E w \in Workers : Step(w)

Spec == Init /\ [][Next]_vars

\* Every goroutine keeps running and every call of fn ends.
FairSpec == Spec /\ WF_vars(Finish) /\ \A w \in Workers : WF_vars(Step(w))

-----------------------------------------------------------------------------
\* The type invariant: fn is called with indexes below n only.
TypeOK ==
  /\ n \in 0..MaxN /\ next \in Nat
  /\ first \in Indexes \cup {None}
  /\ pc \in [Workers -> {"claim", "loop", "fn", "recovered", "stopping", "done"}]
  /\ i \in [Workers -> Nat] /\ hi \in [Workers -> 0..n]
  /\ calls \in [Indexes -> Nat]
  /\ raised \subseteq Indexes
  /\ result \in {"running", "returned", "panicked"}

(***************************************************************************)
(* No index is handed out twice, though a panic moves the counter while    *)
(* others add to it.                                                       *)
(***************************************************************************)
CalledOnce == \A k \in Indexes : calls[k] <= 1

(***************************************************************************)
(* eachIndex returns normally only if fn was called for every index and no *)
(* call panicked; otherwise it panics, with the value of a call that did.  *)
(***************************************************************************)
EndsAsLoop ==
  /\ result = "returned" => raised = {} /\ \A k \in Indexes : calls[k] = 1
  /\ result = "panicked" => first \in raised

(***************************************************************************)
(* "The others stop taking indexes": once a worker is done, with the work  *)
(* used up or after a panic, no block is claimed any more.                 *)
(***************************************************************************)
StopsTaking ==
  [][Parallel /\ (\E w \in Workers : pc[w] = "done")
     => \A w \in Workers : ~(pc[w] = "claim" /\ pc'[w] = "loop")]_vars

(***************************************************************************)
(* eachIndex ends, whoever panics and however many do.                     *)
(***************************************************************************)
Terminates == <>(result # "running")
=============================================================================
