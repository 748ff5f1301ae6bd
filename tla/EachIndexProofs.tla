--------------------------- MODULE EachIndexProofs ---------------------------
(***************************************************************************)
(* TLAPS proofs for EachIndex, for any number of indexes and workers and   *)
(* any block size: no index is handed out twice, eachIndex ends the way a  *)
(* plain loop would, and nothing is claimed once a worker has stopped.     *)
(*                                                                         *)
(* The blocks in progress are disjoint and lie below the counter           *)
(* (BlockInv); what lies above it was never called, what lies in a block   *)
(* from the worker's index on was not called either (CallsInv); as long as *)
(* nothing panicked, everything below it is called or in a block           *)
(* (CoverInv).                                                             *)
(***************************************************************************)
EXTENDS EachIndex, TLAPS

Active(w) == pc[w] \in {"loop", "fn"}

BlockInv ==
  /\ \A w \in Workers : Active(w) => i[w] < hi[w] /\ hi[w] <= next
  /\ \A w, v \in Workers : w # v /\ Active(w) /\ Active(v) => hi[w] <= i[v] \/ hi[v] <= i[w]

CallsInv ==
  /\ CalledOnce
  /\ \A k \in Indexes : k >= next => calls[k] = 0
  /\ \A w \in Workers : Active(w) => \A k \in Indexes :
       /\ i[w] < k /\ k < hi[w] => calls[k] = 0
       /\ k = i[w] => calls[k] = IF pc[w] = "fn" THEN 1 ELSE 0

CoverInv ==
  raised = {} => \A k \in Indexes : k < next =>
    calls[k] = 1 \/ \E w \in Workers : Active(w) /\ i[w] <= k /\ k < hi[w]

DoneInv == (~Parallel \/ \E w \in Workers : pc[w] = "done") => next >= n

PanicInv ==
  /\ first # None => first \in raised
  /\ \A w \in Workers : pc[w] = "recovered" => i[w] \in raised
  /\ \A w \in Workers : pc[w] = "stopping" => first # None
  /\ raised # {} => first # None \/ \E w \in Workers : pc[w] = "recovered"

ResultInv ==
  /\ result # "running" => \A w \in Workers : pc[w] = "done"
  /\ EndsAsLoop

IInv == TypeOK /\ BlockInv /\ CallsInv /\ CoverInv /\ DoneInv /\ PanicInv /\ ResultInv

USE DEF vars

-----------------------------------------------------------------------------
\* The index of a worker in its loop is an index.
LEMMA ActiveIndex ==
  ASSUME TypeOK, BlockInv, NEW w \in Workers, Active(w)
  PROVE i[w] \in Indexes /\ i[w] \in Nat /\ hi[w] \in Nat /\ i[w] + 1 <= hi[w]
BY WorkersAssumption DEF TypeOK, BlockInv, Indexes

\* Blocks in progress share no index.
LEMMA OneOwner ==
  ASSUME TypeOK, BlockInv, NEW w \in Workers, NEW v \in Workers, Active(w), Active(v),
         NEW k \in Nat, i[w] <= k, k < hi[w], i[v] <= k, k < hi[v]
  PROVE w = v
BY DEF TypeOK, BlockInv

\* The initial states satisfy the invariant.
LEMMA InitIInv == Init => IInv
<1>1. SUFFICES ASSUME Init PROVE IInv
  OBVIOUS
<1>2. TypeOK
  BY <1>1, WorkersAssumption DEF Init, TypeOK, Indexes
<1>3. BlockInv
  BY <1>1, WorkersAssumption DEF Init, BlockInv, Active
<1>4. CallsInv
  BY <1>1, WorkersAssumption DEF Init, CallsInv, CalledOnce, Active, Indexes
<1>5. CoverInv
  BY <1>1, WorkersAssumption DEF Init, CoverInv, Active, Indexes
<1>6. DoneInv
  BY <1>1, WorkersAssumption DEF Init, DoneInv, Parallel
<1>7. PanicInv /\ ResultInv
  BY <1>1 DEF Init, PanicInv, ResultInv, EndsAsLoop
<1>8. QED
  BY <1>2, <1>3, <1>4, <1>5, <1>6, <1>7 DEF IInv

\* While a worker is still at work, eachIndex has not ended.
LEMMA StillRunning ==
  ASSUME IInv, NEW w \in Workers, pc[w] # "done"
  PROVE result = "running"
BY DEF IInv, ResultInv

\* A claim keeps the invariant: blocks are disjoint and below the counter.
LEMMA ClaimIInv ==
  ASSUME IInv, NEW w \in Workers, Claim(w)
  PROVE IInv'
<1> USE WorkersAssumption
<1>1. pc[w] = "claim" /\ next' = next + Block /\ UNCHANGED <<n, first, calls, raised, result>>
  BY DEF Claim, Go
<1>2. TypeOK /\ BlockInv /\ CallsInv /\ CoverInv /\ DoneInv /\ PanicInv /\ result = "running"
  BY <1>1, StillRunning DEF IInv
<1>3. next \in Nat /\ next' \in Nat /\ n \in Nat /\ Indexes' = Indexes /\ Parallel' = Parallel
  BY <1>1, <1>2 DEF TypeOK, Indexes, Parallel
<1>4. CASE next >= n
  <2>1. pc' = [pc EXCEPT ![w] = "done"] /\ UNCHANGED <<i, hi>>
    BY <1>4 DEF Claim, Go
  <2>2. \A v \in Workers : Active(v)' <=> Active(v)
    BY <1>1, <1>2, <2>1 DEF Active, TypeOK
  <2>3. TypeOK'
    BY <1>1, <1>2, <1>3, <2>1 DEF TypeOK
  <2>4. BlockInv'
    BY <1>1, <1>2, <1>3, <2>1, <2>2 DEF BlockInv, TypeOK
  <2>5. CallsInv'
    BY <1>1, <1>2, <1>3, <2>1, <2>2 DEF CallsInv, CalledOnce, TypeOK, Active, Indexes
  <2>6. CoverInv'
    BY <1>1, <1>2, <1>3, <1>4, <2>1, <2>2 DEF CoverInv, Indexes
  <2>7. DoneInv'
    BY <1>1, <1>3, <1>4 DEF DoneInv
  <2>8. PanicInv'
    BY <1>1, <1>2, <2>1 DEF PanicInv, TypeOK
  <2>9. ResultInv'
    BY <1>1, <1>2 DEF ResultInv, EndsAsLoop
  <2>10. QED
    BY <2>3, <2>4, <2>5, <2>6, <2>7, <2>8, <2>9 DEF IInv
<1>5. CASE next < n
  <2>1. /\ pc' = [pc EXCEPT ![w] = "loop"]
        /\ i' = [i EXCEPT ![w] = next]
        /\ hi' = [hi EXCEPT ![w] = Smaller(next + Block, n)]
    BY <1>3, <1>5 DEF Claim, Go
  <2>2. /\ Smaller(next + Block, n) \in 0..n /\ next < Smaller(next + Block, n)
        /\ Smaller(next + Block, n) <= next + Block
        /\ \A k \in Indexes : k < next + Block => k < Smaller(next + Block, n)
    BY <1>3, <1>5 DEF Smaller, Indexes
  <2>3. TypeOK'
    BY <1>1, <1>2, <1>3, <2>1, <2>2 DEF TypeOK
  <2>4. /\ \A v \in Workers : v # w => (Active(v)' <=> Active(v)) /\ i'[v] = i[v] /\ hi'[v] = hi[v] /\ pc'[v] = pc[v]
        /\ Active(w)' /\ ~Active(w) /\ i'[w] = next /\ hi'[w] = Smaller(next + Block, n) /\ pc'[w] = "loop"
    BY <1>1, <1>2, <2>1 DEF Active, TypeOK
  <2>5. BlockInv'
    BY <1>1, <1>2, <1>3, <2>2, <2>4 DEF BlockInv, TypeOK
  <2>6. CallsInv'
    <3>1. CalledOnce' /\ \A k \in Indexes' : k >= next' => calls'[k] = 0
      BY <1>1, <1>2, <1>3 DEF CallsInv, CalledOnce, Indexes
    <3>2. ASSUME NEW v \in Workers, Active(v)', NEW k \in Indexes'
          PROVE /\ i'[v] < k /\ k < hi'[v] => calls'[k] = 0
                /\ k = i'[v] => calls'[k] = IF pc'[v] = "fn" THEN 1 ELSE 0
      <4>1. CASE v = w
        BY <1>1, <1>2, <1>3, <2>4, <3>2, <4>1 DEF CallsInv, Indexes
      <4>2. CASE v # w
        BY <1>1, <1>2, <1>3, <2>4, <3>2, <4>2 DEF CallsInv
      <4>3. QED
        BY <4>1, <4>2
    <3>3. QED
      BY <3>1, <3>2 DEF CallsInv
  <2>7. CoverInv'
    <3>1. SUFFICES ASSUME raised' = {}, NEW k \in Indexes', k < next'
                   PROVE calls'[k] = 1 \/ \E v \in Workers : Active(v)' /\ i'[v] <= k /\ k < hi'[v]
      BY DEF CoverInv
    <3>2. CASE k < next
      BY <1>1, <1>2, <1>3, <2>4, <3>1, <3>2 DEF CoverInv
    <3>3. CASE ~(k < next)
      BY <1>1, <1>3, <2>2, <2>4, <3>1, <3>3 DEF Indexes
    <3>4. QED
      BY <3>2, <3>3
  <2>8. DoneInv'
    BY <1>2, <1>3, <1>5, <2>1 DEF DoneInv, TypeOK
  <2>9. PanicInv'
    BY <1>1, <1>2, <2>4 DEF PanicInv
  <2>10. ResultInv'
    BY <1>1, <1>2 DEF ResultInv, EndsAsLoop
  <2>11. QED
    BY <2>3, <2>5, <2>6, <2>7, <2>8, <2>9, <2>10 DEF IInv
<1>6. QED
  BY <1>3, <1>4, <1>5

\* What the conjuncts of IInv say that a step of worker w relies on.
LEMMA Unfolded ==
  ASSUME IInv, NEW w \in Workers, pc[w] # "done", UNCHANGED n
  PROVE /\ TypeOK /\ BlockInv /\ CallsInv /\ CoverInv /\ DoneInv /\ PanicInv
        /\ result = "running" /\ next \in Nat /\ n \in Nat
        /\ Indexes' = Indexes /\ (Parallel' <=> Parallel)
BY StillRunning DEF IInv, TypeOK, Indexes, Parallel

\* The next call of a block keeps the invariant.
LEMMA CallIInv ==
  ASSUME IInv, NEW w \in Workers, Call(w)
  PROVE IInv'
<1> USE WorkersAssumption
<1>1. /\ pc[w] = "loop" /\ pc' = [pc EXCEPT ![w] = "fn"]
      /\ calls' = [calls EXCEPT ![i[w]] = @ + 1]
      /\ UNCHANGED <<n, next, first, i, hi, raised, result>>
  BY DEF Call, Go
<1>2. /\ TypeOK /\ BlockInv /\ CallsInv /\ CoverInv /\ DoneInv /\ PanicInv
      /\ result = "running" /\ next \in Nat /\ n \in Nat
      /\ Indexes' = Indexes /\ (Parallel' <=> Parallel)
  BY <1>1, Unfolded
<1>3. /\ \A v \in Workers : (Active(v)' <=> Active(v)) /\ (v # w => pc'[v] = pc[v])
      /\ Active(w) /\ pc'[w] = "fn"
  BY <1>1, <1>2 DEF Active, TypeOK
<1>4. i[w] \in Indexes /\ i[w] \in Nat /\ hi[w] \in Nat /\ i[w] + 1 <= hi[w]
  BY <1>2, <1>3, ActiveIndex
<1>5. calls[i[w]] = 0
  BY <1>1, <1>2, <1>3, <1>4 DEF CallsInv
<1>6. calls'[i[w]] = 1 /\ \A k \in Indexes : k # i[w] => calls'[k] = calls[k]
  BY <1>1, <1>2, <1>4, <1>5 DEF TypeOK
<1>7. TypeOK'
  BY <1>1, <1>2, <1>4, <1>5 DEF TypeOK
<1>8. BlockInv'
  BY <1>1, <1>2, <1>3 DEF BlockInv
<1>9. CallsInv'
  <2>1. CalledOnce'
    BY <1>2, <1>6 DEF CallsInv, CalledOnce
  <2>2. \A k \in Indexes' : k >= next' => calls'[k] = 0
    BY <1>1, <1>2, <1>3, <1>4, <1>6 DEF CallsInv, BlockInv, Indexes
  <2>3. ASSUME NEW v \in Workers, Active(v)', NEW k \in Indexes'
        PROVE /\ i'[v] < k /\ k < hi'[v] => calls'[k] = 0
              /\ k = i'[v] => calls'[k] = IF pc'[v] = "fn" THEN 1 ELSE 0
    <3>1. k \in Indexes /\ k \in Nat /\ Active(v) /\ i' = i /\ hi' = hi
      BY <1>1, <1>2, <1>3, <2>3 DEF Indexes
    <3>2. CASE v = w
      BY <1>2, <1>3, <1>4, <1>6, <3>1, <3>2 DEF CallsInv
    <3>3. CASE v # w
      <4>1. i[v] \in Nat /\ i[v] + 1 <= hi[v] /\ hi[v] \in Nat
        BY <1>2, <3>1, ActiveIndex
      <4>2. i[v] <= k /\ k < hi[v] => k # i[w]
        BY <1>2, <1>3, <1>4, <3>1, <3>3, <4>1, OneOwner
      <4>3. pc'[v] = pc[v]
        BY <1>3, <3>3
      <4>4. (i[v] < k /\ k < hi[v]) \/ k = i[v] => calls'[k] = calls[k]
        BY <1>6, <3>1, <4>1, <4>2
      <4>5. QED
        BY <1>2, <3>1, <4>3, <4>4 DEF CallsInv
    <3>4. QED
      BY <3>2, <3>3
  <2>4. QED
    BY <2>1, <2>2, <2>3 DEF CallsInv
<1>10. CoverInv'
  BY <1>1, <1>2, <1>3, <1>6 DEF CoverInv
<1>11. DoneInv'
  BY <1>1, <1>2 DEF DoneInv, TypeOK
<1>12. PanicInv'
  BY <1>1, <1>2 DEF PanicInv, TypeOK
<1>13. ResultInv'
  BY <1>1, <1>2 DEF ResultInv, EndsAsLoop
<1>14. QED
  BY <1>7, <1>8, <1>9, <1>10, <1>11, <1>12, <1>13 DEF IInv

\* A worker that leaves its block for good keeps BlockInv and CallsInv.
LEMMA LeaveBlock ==
  ASSUME TypeOK, BlockInv, CallsInv, Indexes' = Indexes, NEW w \in Workers,
         ~Active(w)', \A v \in Workers : v # w => pc'[v] = pc[v] /\ i'[v] = i[v],
         UNCHANGED <<hi, next, calls>>
  PROVE BlockInv' /\ CallsInv'
<1>1. \A v \in Workers : Active(v)' => v # w /\ Active(v) /\ pc'[v] = pc[v] /\ i'[v] = i[v]
  BY DEF Active
<1>2. BlockInv'
  BY <1>1 DEF BlockInv
<1>3. CallsInv'
  BY <1>1 DEF CallsInv, CalledOnce
<1>4. QED
  BY <1>2, <1>3

\* A call that returns keeps the invariant.
LEMMA FnReturnsIInv ==
  ASSUME IInv, NEW w \in Workers, FnReturns(w)
  PROVE IInv'
<1> USE WorkersAssumption
<1>1. /\ pc[w] = "fn" /\ i' = [i EXCEPT ![w] = @ + 1]
      /\ UNCHANGED <<n, next, first, hi, calls, raised, result>>
  BY DEF FnReturns, Go
<1>2. /\ TypeOK /\ BlockInv /\ CallsInv /\ CoverInv /\ DoneInv /\ PanicInv
      /\ result = "running" /\ next \in Nat /\ n \in Nat
      /\ Indexes' = Indexes /\ (Parallel' <=> Parallel)
  BY <1>1, Unfolded
<1>3. i[w] \in Indexes /\ i[w] \in Nat /\ hi[w] \in Nat /\ i[w] + 1 <= hi[w] /\ Active(w)
  BY <1>1, <1>2, ActiveIndex DEF Active
<1>4. i'[w] = i[w] + 1 /\ \A v \in Workers : v # w => i'[v] = i[v]
  BY <1>1, <1>2 DEF TypeOK
<1>5. calls[i[w]] = 1
  BY <1>1, <1>2, <1>3 DEF CallsInv
<1>6. DEFINE to == IF i[w] + 1 < hi[w] THEN "loop" ELSE IF Parallel THEN "claim" ELSE "done"
<1>7. pc' = [pc EXCEPT ![w] = to]
  BY DEF FnReturns, Go
<1>8. to \in {"loop", "claim", "done"} /\ (to = "loop" <=> i[w] + 1 < hi[w]) /\ (to = "done" => ~Parallel)
  OBVIOUS
<1> HIDE DEF to
<1>9. pc'[w] = to /\ \A v \in Workers : v # w => pc'[v] = pc[v]
  BY <1>2, <1>7 DEF TypeOK
<1>10. TypeOK'
  <2>1. pc' \in [Workers -> {"claim", "loop", "fn", "recovered", "stopping", "done"}]
    BY <1>2, <1>7, <1>8 DEF TypeOK
  <2>2. i' \in [Workers -> Nat]
    BY <1>1, <1>2, <1>3 DEF TypeOK
  <2>3. QED
    BY <1>1, <1>2, <2>1, <2>2 DEF TypeOK
<1>11. BlockInv' /\ CallsInv'
  <2>1. CASE to # "loop"
    <3>1. ~Active(w)'
      BY <1>8, <1>9, <2>1 DEF Active
    <3>2. QED
      BY <1>1, <1>2, <1>4, <1>9, <3>1, LeaveBlock
  <2>2. CASE to = "loop"
    <3>1. \A v \in Workers : Active(v)' <=> Active(v)
      BY <1>1, <1>9, <2>2 DEF Active
    <3>2. i[w] + 1 < hi[w]
      BY <1>8, <2>2
    <3>3. BlockInv'
      BY <1>1, <1>2, <1>3, <1>4, <3>1, <3>2 DEF BlockInv, TypeOK
    <3>4. ASSUME NEW v \in Workers, Active(v)', NEW k \in Indexes'
          PROVE /\ i'[v] < k /\ k < hi'[v] => calls'[k] = 0
                /\ k = i'[v] => calls'[k] = IF pc'[v] = "fn" THEN 1 ELSE 0
      <4>1. k \in Indexes /\ k \in Nat /\ Active(v) /\ calls' = calls /\ hi' = hi
        BY <1>1, <1>2, <3>1, <3>4 DEF Indexes
      <4>2. CASE v = w
        <5>1. k >= i[w] + 1 /\ k < hi[w] => calls[k] = 0
          BY <1>2, <1>3, <4>1 DEF CallsInv
        <5>2. QED
          BY <1>3, <1>4, <1>9, <2>2, <3>2, <4>1, <4>2, <5>1
      <4>3. CASE v # w
        BY <1>2, <1>4, <1>9, <4>1, <4>3 DEF CallsInv
      <4>4. QED
        BY <4>2, <4>3
    <3>5. CallsInv'
      BY <1>1, <1>2, <3>4 DEF CallsInv, CalledOnce
    <3>6. QED
      BY <3>3, <3>5
  <2>3. QED
    BY <2>1, <2>2
<1>12. CoverInv'
  <2>1. SUFFICES ASSUME raised' = {}, NEW k \in Indexes', k < next'
                 PROVE calls'[k] = 1 \/ \E v \in Workers : Active(v)' /\ i'[v] <= k /\ k < hi'[v]
    BY DEF CoverInv
  <2>2. k \in Indexes /\ k \in Nat /\ raised = {} /\ k < next /\ calls' = calls /\ hi' = hi
    BY <1>1, <1>2, <2>1 DEF Indexes
  <2>3. SUFFICES ASSUME calls[k] # 1
                 PROVE \E v \in Workers : Active(v)' /\ i'[v] <= k /\ k < hi'[v]
    BY <2>2
  <2>4. PICK v \in Workers : Active(v) /\ i[v] <= k /\ k < hi[v]
    BY <1>2, <2>2, <2>3 DEF CoverInv
  <2>5. CASE v = w
    <3>1. k # i[w] /\ i[w] + 1 <= k /\ i[w] + 1 < hi[w]
      BY <1>3, <1>5, <2>2, <2>3, <2>4, <2>5
    <3>2. to = "loop" /\ pc'[w] = "loop"
      BY <1>8, <1>9, <3>1
    <3>3. Active(w)'
      BY <3>2 DEF Active
    <3>4. QED
      BY <1>4, <2>2, <2>4, <2>5, <3>1, <3>3
  <2>6. CASE v # w
    <3>1. Active(v)'
      BY <1>9, <2>4, <2>6 DEF Active
    <3>2. QED
      BY <1>4, <2>2, <2>4, <2>6, <3>1
  <2>7. QED
    BY <2>5, <2>6
<1>13. DoneInv'
  <2>1. SUFFICES ASSUME ~Parallel \/ \E v \in Workers : pc'[v] = "done" PROVE next >= n
    BY <1>1, <1>2 DEF DoneInv
  <2>2. ~Parallel \/ \E v \in Workers : pc[v] = "done"
    BY <1>8, <1>9, <2>1
  <2>3. QED
    BY <1>2, <2>2 DEF DoneInv
<1>14. PanicInv'
  <2>1. \A v \in Workers : pc'[v] = "recovered" <=> v # w /\ pc[v] = "recovered"
    BY <1>1, <1>8, <1>9
  <2>2. \A v \in Workers : pc[v] = "recovered" => pc'[v] = "recovered" /\ i'[v] = i[v]
    BY <1>1, <1>4, <1>9
  <2>3. \A v \in Workers : pc'[v] = "stopping" => pc[v] = "stopping"
    BY <1>1, <1>8, <1>9
  <2>4. QED
    BY <1>1, <1>2, <1>4, <2>1, <2>2, <2>3 DEF PanicInv
<1>15. ResultInv'
  BY <1>1, <1>2 DEF ResultInv, EndsAsLoop
<1>16. QED
  BY <1>10, <1>11, <1>12, <1>13, <1>14, <1>15 DEF IInv

\* A call that panics keeps the invariant.
LEMMA FnPanicsIInv ==
  ASSUME IInv, NEW w \in Workers, FnPanics(w)
  PROVE IInv'
<1> USE WorkersAssumption
<1>1. /\ pc[w] = "fn" /\ raised' = raised \cup {i[w]}
      /\ pc' = [pc EXCEPT ![w] = IF Parallel THEN "recovered" ELSE "done"]
      /\ first' = IF Parallel THEN first ELSE i[w]
      /\ UNCHANGED <<n, next, i, hi, calls, result>>
  BY DEF FnPanics, Go
<1>2. /\ TypeOK /\ BlockInv /\ CallsInv /\ CoverInv /\ DoneInv /\ PanicInv
      /\ result = "running" /\ next \in Nat /\ n \in Nat
      /\ Indexes' = Indexes /\ (Parallel' <=> Parallel)
  BY <1>1, Unfolded
<1>3. i[w] \in Indexes /\ i[w] \in Nat
  BY <1>1, <1>2, ActiveIndex DEF Active
<1>4. /\ pc'[w] = IF Parallel THEN "recovered" ELSE "done"
      /\ \A v \in Workers : v # w => pc'[v] = pc[v]
  BY <1>1, <1>2 DEF TypeOK
<1>5. TypeOK'
  BY <1>1, <1>2, <1>3 DEF TypeOK
<1>6. BlockInv' /\ CallsInv'
  <2>1. ~Active(w)'
    BY <1>4 DEF Active
  <2>2. QED
    BY <1>1, <1>2, <1>4, <2>1, LeaveBlock
<1>7. CoverInv'
  BY <1>1 DEF CoverInv
<1>8. DoneInv'
  <2>1. SUFFICES ASSUME ~Parallel \/ \E v \in Workers : pc'[v] = "done" PROVE next >= n
    BY <1>1, <1>2 DEF DoneInv
  <2>2. ~Parallel \/ \E v \in Workers : pc[v] = "done"
    <3>1. SUFFICES ASSUME Parallel PROVE \E v \in Workers : pc[v] = "done"
      OBVIOUS
    <3>2. PICK v \in Workers : pc'[v] = "done"
      BY <2>1, <3>1
    <3>3. pc'[w] = "recovered"
      BY <1>4, <3>1
    <3>4. QED
      BY <1>4, <3>2, <3>3
  <2>3. QED
    BY <1>2, <2>2 DEF DoneInv
<1>9. PanicInv'
  <2>1. CASE Parallel
    <3>1. first' = first /\ pc'[w] = "recovered" /\ i' = i /\ raised' = raised \cup {i[w]}
      BY <1>1, <1>4, <2>1
    <3>2. \A v \in Workers : pc'[v] = "stopping" => pc[v] = "stopping"
      BY <1>4, <3>1
    <3>3. \A v \in Workers : pc'[v] = "recovered" => v = w \/ pc[v] = "recovered"
      BY <1>4
    <3>4. QED
      BY <1>2, <3>1, <3>2, <3>3 DEF PanicInv
  <2>2. CASE ~Parallel
    <3>1. first' = i[w] /\ first' # None /\ first' \in raised' /\ i' = i /\ raised \subseteq raised'
      BY <1>1, <1>3, <2>2
    <3>2. \A v \in Workers : pc'[v] = "recovered" => pc[v] = "recovered"
      BY <1>4, <2>2
    <3>3. QED
      BY <1>2, <3>1, <3>2 DEF PanicInv
  <2>3. QED
    BY <2>1, <2>2
<1>10. ResultInv'
  BY <1>1, <1>2 DEF ResultInv, EndsAsLoop
<1>11. QED
  BY <1>5, <1>6, <1>7, <1>8, <1>9, <1>10 DEF IInv

\* Keeping the first panic keeps the invariant.
LEMMA KeepPanicIInv ==
  ASSUME IInv, NEW w \in Workers, KeepPanic(w)
  PROVE IInv'
<1> USE WorkersAssumption
<1>1. /\ pc[w] = "recovered" /\ pc' = [pc EXCEPT ![w] = "stopping"]
      /\ first' = IF first = None THEN i[w] ELSE first
      /\ UNCHANGED <<n, next, i, hi, calls, raised, result>>
  BY DEF KeepPanic, Go
<1>2. /\ TypeOK /\ BlockInv /\ CallsInv /\ CoverInv /\ DoneInv /\ PanicInv
      /\ result = "running" /\ next \in Nat /\ n \in Nat
      /\ Indexes' = Indexes /\ (Parallel' <=> Parallel)
  BY <1>1, Unfolded
<1>3. /\ pc'[w] = "stopping"
      /\ \A v \in Workers : v # w => pc'[v] = pc[v]
  BY <1>1, <1>2 DEF TypeOK
<1>4. i[w] \in raised /\ i[w] \in Indexes /\ i[w] # None
  BY <1>1, <1>2 DEF PanicInv, TypeOK, Indexes
<1>5. first' # None /\ first' \in raised
  BY <1>1, <1>2, <1>4 DEF PanicInv
<1>6. TypeOK'
  BY <1>1, <1>2, <1>4 DEF TypeOK
<1>7. BlockInv' /\ CallsInv'
  <2>1. ~Active(w)'
    BY <1>3 DEF Active
  <2>2. QED
    BY <1>1, <1>2, <1>3, <2>1, LeaveBlock
<1>8. CoverInv'
  BY <1>1, <1>4 DEF CoverInv
<1>9. DoneInv'
  BY <1>1, <1>2, <1>3 DEF DoneInv
<1>10. PanicInv'
  <2>1. \A v \in Workers : pc'[v] = "recovered" => pc[v] = "recovered"
    BY <1>1, <1>3
  <2>2. QED
    BY <1>1, <1>2, <1>5, <2>1 DEF PanicInv
<1>11. ResultInv'
  BY <1>1, <1>2 DEF ResultInv, EndsAsLoop
<1>12. QED
  BY <1>6, <1>7, <1>8, <1>9, <1>10, <1>11 DEF IInv

\* Raising the counter to n keeps the invariant.
LEMMA StopClaimingIInv ==
  ASSUME IInv, NEW w \in Workers, StopClaiming(w)
  PROVE IInv'
<1> USE WorkersAssumption
<1>1. /\ pc[w] = "stopping" /\ pc' = [pc EXCEPT ![w] = "done"] /\ next' = n
      /\ UNCHANGED <<n, first, i, hi, calls, raised, result>>
  BY DEF StopClaiming, Go
<1>2. /\ TypeOK /\ BlockInv /\ CallsInv /\ CoverInv /\ DoneInv /\ PanicInv
      /\ result = "running" /\ next \in Nat /\ n \in Nat
      /\ Indexes' = Indexes /\ (Parallel' <=> Parallel)
  BY <1>1, Unfolded
<1>3. /\ pc'[w] = "done"
      /\ \A v \in Workers : v # w => pc'[v] = pc[v]
  BY <1>1, <1>2 DEF TypeOK
<1>4. first # None /\ raised # {}
  BY <1>1, <1>2 DEF PanicInv
<1>5. TypeOK'
  BY <1>1, <1>2 DEF TypeOK
<1>6. \A v \in Workers : Active(v)' <=> Active(v)
  BY <1>1, <1>3 DEF Active
<1>7. BlockInv'
  BY <1>1, <1>2, <1>6 DEF BlockInv, TypeOK
<1>8. CallsInv'
  <2>1. CalledOnce' /\ \A k \in Indexes' : k >= next' => calls'[k] = 0
    BY <1>1, <1>2 DEF CallsInv, CalledOnce, Indexes
  <2>2. \A v \in Workers : Active(v) => pc'[v] = pc[v]
    BY <1>1, <1>3 DEF Active
  <2>3. QED
    BY <1>1, <1>2, <1>6, <2>1, <2>2 DEF CallsInv
<1>9. CoverInv'
  BY <1>1, <1>4 DEF CoverInv
<1>10. DoneInv'
  BY <1>1, <1>2 DEF DoneInv
<1>11. PanicInv'
  <2>1. \A v \in Workers : pc'[v] = "recovered" => pc[v] = "recovered"
    BY <1>1, <1>3
  <2>2. QED
    BY <1>1, <1>2, <1>4, <2>1 DEF PanicInv
<1>12. ResultInv'
  BY <1>1, <1>2 DEF ResultInv, EndsAsLoop
<1>13. QED
  BY <1>5, <1>7, <1>8, <1>9, <1>10, <1>11, <1>12 DEF IInv

\* The end of eachIndex keeps the invariant.
LEMMA FinishIInv ==
  ASSUME IInv, Finish
  PROVE IInv'
<1> USE WorkersAssumption
<1>1. /\ \A w \in Workers : pc[w] = "done"
      /\ result' = IF first = None THEN "returned" ELSE "panicked"
      /\ UNCHANGED <<n, next, first, pc, i, hi, calls, raised>>
  BY DEF Finish
<1>2. TypeOK /\ BlockInv /\ CallsInv /\ CoverInv /\ DoneInv /\ PanicInv
  BY DEF IInv
<1>3. TypeOK' /\ BlockInv' /\ CallsInv' /\ CoverInv' /\ DoneInv' /\ PanicInv'
  <2>1. TypeOK'
    BY <1>1, <1>2 DEF TypeOK, Indexes
  <2>2. BlockInv' /\ CallsInv' /\ CoverInv'
    BY <1>1, <1>2 DEF BlockInv, CallsInv, CoverInv, CalledOnce, Active, Indexes
  <2>3. DoneInv' /\ PanicInv'
    BY <1>1, <1>2 DEF DoneInv, PanicInv, Parallel
  <2>4. QED
    BY <2>1, <2>2, <2>3
<1>4. ASSUME first = None PROVE raised = {} /\ \A k \in Indexes : calls[k] = 1
  <2>1. raised = {}
    BY <1>1, <1>2, <1>4 DEF PanicInv
  <2>2. next >= n
    BY <1>1, <1>2 DEF DoneInv
  <2>3. \A k \in Indexes : k < next
    BY <1>2, <2>2 DEF Indexes, TypeOK
  <2>4. \A w \in Workers : ~Active(w)
    BY <1>1 DEF Active
  <2>5. QED
    BY <1>2, <2>1, <2>3, <2>4 DEF CoverInv
<1>5. first # None => first \in raised
  BY <1>2 DEF PanicInv
<1>6. ResultInv'
  <2>1. CASE first = None
    BY <1>1, <1>4, <2>1 DEF ResultInv, EndsAsLoop, Indexes
  <2>2. CASE first # None
    BY <1>1, <1>5, <2>2 DEF ResultInv, EndsAsLoop
  <2>3. QED
    BY <2>1, <2>2
<1>7. QED
  BY <1>3, <1>6 DEF IInv

\* Every step keeps the invariant.
LEMMA NextIInv == IInv /\ [Next]_vars => IInv'
<1>1. SUFFICES ASSUME IInv, [Next]_vars PROVE IInv'
  OBVIOUS
<1>2. CASE UNCHANGED vars
  BY <1>1, <1>2 DEF IInv, TypeOK, BlockInv, CallsInv, CoverInv, DoneInv, PanicInv, ResultInv,
     CalledOnce, EndsAsLoop, Active, Indexes, Parallel
<1>3. CASE Finish
  BY <1>1, <1>3, FinishIInv
<1>4. ASSUME NEW w \in Workers, Step(w) PROVE IInv'
  BY <1>1, <1>4, ClaimIInv, CallIInv, FnReturnsIInv, FnPanicsIInv, KeepPanicIInv, StopClaimingIInv
     DEF Step
<1>5. QED
  BY <1>1, <1>2, <1>3, <1>4 DEF Next, Ended

\* The invariant holds of every behaviour.
LEMMA Invariant == Spec => []IInv
<1>1. QED
  BY InitIInv, NextIInv, PTL DEF Spec

-----------------------------------------------------------------------------
(***************************************************************************)
(* The variables of eachIndex keep their types: in particular, fn is only  *)
(* called with indexes below n and the kept panic is one of theirs.        *)
(***************************************************************************)
THEOREM TypeCorrect == Spec => []TypeOK
<1>1. IInv => TypeOK
  BY DEF IInv
<1>2. QED
  BY <1>1, Invariant, PTL

(***************************************************************************)
(* The atomic counter hands out no index twice, whatever the number of     *)
(* workers, the block size and the moment a panic moves the counter back.  *)
(***************************************************************************)
THEOREM NoIndexTwice == Spec => []CalledOnce
<1>1. IInv => CalledOnce
  BY DEF IInv, CallsInv
<1>2. QED
  BY <1>1, Invariant, PTL

(***************************************************************************)
(* eachIndex returns only when fn was called for every index and none of   *)
(* the calls panicked, and panics only with the value of a call that did.  *)
(***************************************************************************)
THEOREM EndsLikeALoop == Spec => []EndsAsLoop
<1>1. IInv => EndsAsLoop
  BY DEF IInv, ResultInv
<1>2. QED
  BY <1>1, Invariant, PTL

(***************************************************************************)
(* Once a worker has stopped, with the work used up or after a panic, no   *)
(* worker takes another block.                                             *)
(***************************************************************************)
THEOREM NothingTakenAfterwards == Spec => StopsTaking
<1> DEFINE Taking == Parallel /\ (\E w \in Workers : pc[w] = "done")
                     => \A w \in Workers : ~(pc[w] = "claim" /\ pc'[w] = "loop")
<1>1. ASSUME IInv, [Next]_vars PROVE [Taking]_vars
  <2>1. SUFFICES ASSUME Parallel, \E v \in Workers : pc[v] = "done",
                        NEW w \in Workers, pc[w] = "claim", pc'[w] = "loop"
                 PROVE FALSE
    OBVIOUS
  <2>2. next >= n /\ pc \in [Workers -> {"claim", "loop", "fn", "recovered", "stopping", "done"}]
    BY <1>1, <2>1 DEF IInv, DoneInv, TypeOK
  <2>3. PICK v \in Workers : Step(v)
    BY <1>1, <2>1 DEF Next, Finish, Ended
  <2>4. pc[v] = "claim" /\ pc'[v] = "loop"
    BY <2>1, <2>2, <2>3 DEF Step, Claim, Call, FnReturns, FnPanics, KeepPanic, StopClaiming, Go
  <2>5. Claim(v)
    BY <2>3, <2>4 DEF Step, Call, FnReturns, FnPanics, KeepPanic, StopClaiming, Go
  <2>6. QED
    BY <2>2, <2>4, <2>5 DEF Claim, Go
<1>2. QED
  BY <1>1, Invariant, PTL DEF Spec, StopsTaking
=============================================================================
