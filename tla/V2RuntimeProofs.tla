--------------------------- MODULE V2RuntimeProofs ---------------------------
(***************************************************************************)
(* Proofs about the stdio-json-v2 worker, for every set of invocations,    *)
(* callers and writers and every bound.                                    *)
(***************************************************************************)
EXTENDS V2Runtime, TLAPS

-----------------------------------------------------------------------------
(***************************************************************************)
(* The inductive invariant.                                                *)
(***************************************************************************)
TerminalKinds == {"invoke_result", "stderr_complete", "invoke_ready"}

\* A goroutine inside Call, or inside Write, is counted by its lease's
\* WaitGroup.
ActiveInv ==
  /\ \A c \in Callers : pc[c] \in CallPCs =>
       inv[c] \in leases /\ c \in pending[inv[c]]
  /\ \A w \in Writers : errInv[w] # None =>
       errInv[w] \in leases /\ w \in errPending[errInv[w]]

CurInv ==
  /\ serve \in {"start", "scan"} => cur = None
  /\ serve \notin {"start", "scan", "stopped"} => cur \in leases

\* Every lease but the one whose handler runs is revoked, and every lease
\* whose Expire has come back has no goroutine inside.
LeaseInv ==
  \A i \in leases :
    /\ expired[i] \/ (i = cur /\ serve = "handler")
    /\ pending[i] = {} \/ (i = cur /\ serve \in {"handler", "wait_host"})
    /\ errExpired[i] \/ (i = cur /\ serve \in {"handler", "wait_host"})
    /\ errPending[i] = {} \/ (i = cur /\ serve \in {"handler", "wait_host", "wait_stderr"})

\* A terminal frame on the wire belongs to a lease that is past its drain.
ResultInv ==
  \A k \in 1..Len(wire) : wire[k].kind \in TerminalKinds =>
    /\ wire[k].inv \in leases
    /\ wire[k].inv = cur => serve \notin {"handler", "wait_host", "wait_stderr", "result"}

Holding(c) == pc[c] \in CallPCs \ {"admitted", "leaving"}

ExchangeInv ==
  /\ \A c \in Callers : Holding(c) => exchange = 0
  /\ \A c, d \in Callers : Holding(c) /\ Holding(d) => c = d
  /\ \A c \in Callers : writeMu = c <=> pc[c] = "locked"
  /\ \A c \in Callers : scan[c] # "none" => pc[c] \in {"reading", "abort_reading", "draining"}

IDInv ==
  /\ \A k \in Calls : wire[k].id <= nextID
  /\ \A c \in Callers : pc[c] = "locked" =>
       hid[c] = nextID /\ nextID > 0 /\ \A k \in Calls : wire[k].id < nextID
  /\ CallIDsIncrease

\* A response carries the id of the call it answers.
About(r) == r.re \in Calls /\ r.id = wire[r.re].id

AnswerInv ==
  /\ \A n \in 1..Len(responses) : About(responses[n])
  /\ \A c \in Callers : got[c] # None => About(got[c])
  /\ \A c \in Callers : Holding(c) /\ pc[c] \notin {"holding", "locked"} =>
       at[c] \in Calls /\ wire[at[c]].id = hid[c]
  /\ answered \subseteq Calls
  /\ OwnAnswer

AbandonInv ==
  /\ \A i \in abandoned :
       i = cur /\ expired[i] /\ serve \in {"handler", "wait_host", "wait_stderr", "stopped"}
  /\ abandoned # {} =>
       /\ poisoned \/ \E c \in Callers : pc[c] \in {"abort_unread", "abort_reading"}
       /\ \A c \in Callers : pc[c] # "locked"

SafetyInv == NoLateFrames /\ AbandonedNeverCompletes

IInv ==
  /\ TypeOK /\ ActiveInv /\ CurInv /\ LeaseInv /\ ResultInv
  /\ ExchangeInv /\ IDInv /\ AnswerInv /\ AbandonInv /\ SafetyInv

\* What ServeV2 and the writers own: no step of a caller or the host moves it.
Quiet == UNCHANGED <<serve, cur, diagVars>>

USE DEF clientVars, transportVars, streamVars, callVars, history, keptByServe, diagVars, vars

-----------------------------------------------------------------------------
(***************************************************************************)
(* Facts about the wire and the responses.                                 *)
(***************************************************************************)
LEMMA WireGrows ==
  ASSUME wire \in Seq(Frames), NEW f \in Frames, wire' = Append(wire, f)
  PROVE  /\ wire' \in Seq(Frames)
         /\ Len(wire') = Len(wire) + 1 /\ Len(wire) \in Nat
         /\ \A k \in 1..Len(wire) : wire'[k] = wire[k]
         /\ wire'[Len(wire) + 1] = f
         /\ Calls' = Calls \cup {k \in {Len(wire) + 1} : f.kind = "host_call"}
<1>1. wire' \in Seq(Frames) /\ Len(wire') = Len(wire) + 1 /\ Len(wire) \in Nat
  OBVIOUS
<1>2. \A k \in 1..Len(wire) : wire'[k] = wire[k]
  OBVIOUS
<1>3. wire'[Len(wire) + 1] = f
  OBVIOUS
<1>4. 1..Len(wire') = 1..Len(wire) \cup {Len(wire) + 1}
  BY <1>1
<1> QED
  BY <1>1, <1>2, <1>3, <1>4 DEF Calls

\* Emitting a frame lengthens the stream by one and keeps what it carries.
LEMMA FrameGrows ==
  ASSUME wire \in Seq(Frames), NEW k \in FrameKinds, NEW i \in Invocations \cup {None},
         NEW n \in Nat, wire' = Append(wire, Frame(k, i, n))
  PROVE  /\ wire' \in Seq(Frames)
         /\ Len(wire') = Len(wire) + 1 /\ Len(wire) \in Nat
         /\ \A j \in 1..Len(wire) : wire'[j] = wire[j]
         /\ wire'[Len(wire) + 1].kind = k
         /\ wire'[Len(wire) + 1].inv = i
         /\ wire'[Len(wire) + 1].id = n
         /\ Calls' = IF k = "host_call" THEN Calls \cup {Len(wire) + 1} ELSE Calls
<1>1. /\ Frame(k, i, n) \in Frames
      /\ Frame(k, i, n).kind = k /\ Frame(k, i, n).inv = i /\ Frame(k, i, n).id = n
  BY DEF Frame, Frames
<1> QED
  BY <1>1, WireGrows

\* A host call is a frame of the stream with a numeric id.
LEMMA CallsOnWire ==
  ASSUME wire \in Seq(Frames), NEW k \in Calls
  PROVE  k \in 1..Len(wire) /\ k \in Nat /\ wire[k].id \in Nat /\ wire[k].kind = "host_call"
<1>1. k \in 1..Len(wire) /\ wire[k].kind = "host_call"
  BY DEF Calls
<1>2. wire[k] \in Frames /\ k \in Nat
  BY <1>1
<1> QED
  BY <1>1, <1>2 DEF Frames

\* A frame that is no host call leaves the host calls as they are.
LEMMA LifecycleFrame ==
  ASSUME IInv, NEW k \in FrameKinds \ {"host_call"}, NEW i \in Invocations \cup {None},
         wire' = Append(wire, Frame(k, i, 0))
  PROVE  Calls' = Calls /\ \A j \in Calls : wire'[j] = wire[j]
<1>1. wire \in Seq(Frames) /\ 0 \in Nat /\ k \in FrameKinds
  BY DEF IInv, TypeOK
<1>2. Calls' = Calls
  BY <1>1, FrameGrows
<1>3. \A j \in 1..Len(wire) : wire'[j] = wire[j]
  BY <1>1, FrameGrows
<1> QED
  BY <1>1, <1>2, <1>3, CallsOnWire

\* An answer of the host has its type.
LEMMA ReplyType ==
  ASSUME wire \in Seq(Frames), NEW k \in Calls, NEW ok \in BOOLEAN
  PROVE  Reply(k, ok) \in Responses
<1>1. k \in 1..Len(wire) /\ k \in Nat
  BY CallsOnWire
<1>2. wire[k] \in Frames
  BY <1>1
<1> QED
  BY <1>1, <1>2 DEF Reply, Responses, Frames

\* A goroutine inside Call, or inside Write, belongs to the invocation whose
\* Expire ServeV2 has not got past yet.
LEMMA ActiveIsCurrent ==
  ASSUME IInv, NEW c \in Callers, pc[c] \in CallPCs
  PROVE  inv[c] \in leases /\ inv[c] = cur /\ serve \in {"handler", "wait_host"}
BY DEF IInv, ActiveInv, LeaseInv

\* A diagnostics write in progress belongs to the invocation being handled.
LEMMA WritingIsCurrent ==
  ASSUME IInv, NEW w \in Writers, errInv[w] # None
  PROVE  errInv[w] = cur /\ serve \in {"handler", "wait_host", "wait_stderr"}
BY DEF IInv, ActiveInv, LeaseInv

\* Two host calls with one id are one call.
LEMMA CallIDsInjective ==
  ASSUME IInv, NEW j \in Calls, NEW k \in Calls, wire[j].id = wire[k].id
  PROVE  j = k
<1>1. j \in Nat /\ k \in Nat /\ wire[j].id \in Nat /\ wire[k].id \in Nat
  BY CallsOnWire DEF IInv, TypeOK
<1> QED
  BY <1>1 DEF IInv, IDInv, CallIDsIncrease
-----------------------------------------------------------------------------
(***************************************************************************)
(* Initially, and after every step, part by part.                          *)
(***************************************************************************)
LEMMA InitIInv == Init => IInv
<1> SUFFICES ASSUME Init PROVE IInv
  OBVIOUS
<1>1. TypeOK
  <2>1. poisoned \in BOOLEAN
    BY DEF Init, ClientInit
  <2>2. expired \in [Invocations -> BOOLEAN] /\ done \in [Callers -> BOOLEAN] /\ errExpired \in [Invocations -> BOOLEAN]
    BY DEF Init, ClientInit
  <2> QED
    BY <2>1, <2>2, HostAssumption, RuntimeAssumption DEF Init, ClientInit, TypeOK
<1>2. ActiveInv /\ CurInv /\ LeaseInv
  BY DEF Init, ClientInit, ActiveInv, CurInv, LeaseInv, CallPCs
<1>3. ResultInv /\ SafetyInv
  BY DEF Init, ClientInit, ResultInv, SafetyInv, NoLateFrames, AbandonedNeverCompletes
<1>4. ExchangeInv
  BY HostAssumption DEF Init, ClientInit, ExchangeInv, Holding, CallPCs
<1>5. Calls = {}
  BY DEF Init, ClientInit, Calls
<1>6. IDInv /\ AnswerInv /\ AbandonInv
  BY <1>5 DEF Init, ClientInit, IDInv, CallIDsIncrease, AnswerInv, Holding, CallPCs, OwnAnswer, AbandonInv
<1> QED
  BY <1>1, <1>2, <1>3, <1>4, <1>6 DEF IInv

\* TypeOK: every step keeps every variable in its set.
LEMMA TypeOKStep == ASSUME IInv, [Next]_vars PROVE TypeOK'
<1>1. ASSUME NEW c \in Callers, NEW i \in Invocations, Admit(c, i), Quiet
      PROVE  TypeOK'
  BY <1>1 DEF Admit, Go, IInv, TypeOK, CallPCs, Quiet
<1>2. ASSUME NEW c \in Callers, NEW i \in Invocations, PluginAbort(c, i), Quiet
      PROVE  TypeOK'
  BY <1>2 DEF PluginAbort, Go, IInv, TypeOK, CallPCs, Quiet
<1>3. ASSUME NEW c \in Callers, Cancel(c), Quiet
      PROVE  TypeOK'
  BY <1>3 DEF Cancel, IInv, TypeOK, CallPCs, Quiet
<1>4. ASSUME NEW c \in Callers, TakeExchange(c), Quiet
      PROVE  TypeOK'
  BY <1>4 DEF TakeExchange, Go, IInv, TypeOK, CallPCs, Quiet
<1>5. ASSUME NEW c \in Callers, GiveUpQueued(c), Quiet
      PROVE  TypeOK'
  BY <1>5 DEF GiveUpQueued, Go, IInv, TypeOK, CallPCs, Quiet
<1>6. ASSUME NEW c \in Callers, AllocateID(c), Quiet
      PROVE  TypeOK'
  <2>0. nextID \in 0..MaxID /\ hid \in [Callers -> 0..MaxID] /\ MaxID \in Nat
    BY HostAssumption DEF IInv, TypeOK
  <2>1. nextID' \in 0..MaxID /\ hid' \in [Callers -> 0..MaxID]
    <3>1. CASE UNCHANGED <<nextID, hid>>
      BY <2>0, <3>1
    <3>2. CASE nextID < MaxID /\ nextID' = nextID + 1 /\ UNCHANGED hid
      BY <2>0, <3>2
    <3>3. CASE nextID < MaxID /\ nextID' = nextID + 1 /\ hid' = [hid EXCEPT ![c] = nextID + 1]
      BY <2>0, <3>3
    <3> QED
      BY <1>6, <3>1, <3>2, <3>3, Zenon DEF AllocateID
  <2>2. pc' \in [Callers -> CallPCs \cup {"idle", "abort"}]
    BY <1>6 DEF AllocateID, Release, Go, IInv, TypeOK, CallPCs
  <2>3. exchange' \in {0, 1} /\ writeMu' \in Callers \cup {None}
    BY <1>6 DEF AllocateID, Release, IInv, TypeOK
  <2> QED
    BY <1>6, <2>1, <2>2, <2>3 DEF AllocateID, Quiet, IInv, TypeOK
<1>7. ASSUME NEW c \in Callers, WriteCall(c), Quiet
      PROVE  TypeOK'
  <2>1. wire' = Append(wire, Frame("host_call", inv[c], hid[c]))
    BY <1>7 DEF WriteCall
  <2>2. "host_call" \in FrameKinds /\ inv[c] \in Invocations \cup {None} /\ hid[c] \in Nat /\ wire \in Seq(Frames)
    BY HostAssumption DEF IInv, TypeOK, FrameKinds
  <2>3. wire' \in Seq(Frames) /\ Len(wire) \in Nat
    BY <2>1, <2>2, FrameGrows
  <2> QED
    BY <1>7, <2>3 DEF WriteCall, Go, Quiet, IInv, TypeOK, CallPCs
<1>8. ASSUME NEW c \in Callers, WriteCallFails(c), Quiet
      PROVE  TypeOK'
  <2>1. pc' \in [Callers -> CallPCs \cup {"idle", "abort"}]
    BY <1>8 DEF WriteCallFails, Release, Go, IInv, TypeOK, CallPCs
  <2> QED
    BY <1>8, <2>1 DEF WriteCallFails, Release, Quiet, IInv, TypeOK
<1>9. ASSUME NEW c \in Callers, StartScan(c), Quiet
      PROVE  TypeOK'
  BY <1>9 DEF StartScan, Go, IInv, TypeOK, CallPCs, Quiet
<1>10. ASSUME NEW c \in Callers, ScanFrame(c), Quiet
      PROVE  TypeOK'
  BY <1>10 DEF ScanFrame, IInv, TypeOK, CallPCs, Quiet
<1>11. ASSUME NEW c \in Callers, ScanFails(c), Quiet
      PROVE  TypeOK'
  BY <1>11 DEF ScanFails, IInv, TypeOK, CallPCs, Quiet
<1>12. ASSUME NEW c \in Callers, Finish(c), Quiet
      PROVE  TypeOK'
  <2>1. at[c] \in Nat /\ (Correlated(c) => got[c].re \in Nat)
    BY DEF Correlated, IInv, TypeOK, Responses
  <2>2. delivered' \subseteq Nat \X Nat
    BY <1>12, <2>1 DEF Finish, IInv, TypeOK
  <2> QED
    BY <1>12, <2>2 DEF Finish, Release, Go, Quiet, IInv, TypeOK, CallPCs
<1>13. ASSUME NEW c \in Callers, AbortRevoke(c), Quiet
      PROVE  TypeOK'
  <2>1. inv[c] \in Invocations
    BY <1>13 DEF AbortRevoke, Go, IInv, ActiveInv, TypeOK, CallPCs
  <2>2. pc' \in [Callers -> CallPCs \cup {"idle", "abort"}]
    BY <1>13 DEF AbortRevoke, Go, IInv, TypeOK, CallPCs
  <2> QED
    BY <1>13, <2>1, <2>2 DEF AbortRevoke, Quiet, IInv, TypeOK
<1>14. ASSUME NEW c \in Callers, AbortUnread(c), Quiet
      PROVE  TypeOK'
  BY <1>14 DEF AbortUnread, Release, Go, PoisonAndClose, IInv, TypeOK, CallPCs, Quiet
<1>15. ASSUME NEW c \in Callers, AbortReading(c), Quiet
      PROVE  TypeOK'
  BY <1>15 DEF AbortReading, Go, PoisonAndClose, IInv, TypeOK, CallPCs, Quiet
<1>16. ASSUME NEW c \in Callers, Drain(c), Quiet
      PROVE  TypeOK'
  BY <1>16 DEF Drain, Release, Go, IInv, TypeOK, CallPCs, Quiet
<1>17. ASSUME NEW c \in Callers, Leave(c), Quiet
      PROVE  TypeOK'
  <2>1. /\ pc' \in [Callers -> CallPCs \cup {"idle", "abort"}]
        /\ pending' \in [Invocations -> SUBSET Callers]
    BY <1>17 DEF Leave, Go, IInv, TypeOK
  <2>2. /\ inv' \in [Callers -> Invocations \cup {None}] /\ done' \in [Callers -> BOOLEAN]
        /\ hid' \in [Callers -> 0..MaxID] /\ at' \in [Callers -> Nat]
    BY <1>17, HostAssumption DEF Leave, IInv, TypeOK
  <2> QED
    BY <1>17, <2>1, <2>2 DEF Leave, Quiet, IInv, TypeOK
<1>18. ASSUME NEW c \in Callers, PluginAbortPoison(c), Quiet
      PROVE  TypeOK'
  BY <1>18 DEF PluginAbortPoison, Go, PoisonAndClose, IInv, TypeOK, CallPCs, Quiet
<1>19. ASSUME NEW k \in Calls, NEW ok \in BOOLEAN, HostAnswers(k, ok), Quiet
      PROVE  TypeOK'
  <2>1. Reply(k, ok) \in Responses /\ k \in Nat
    BY ReplyType, CallsOnWire DEF IInv, TypeOK
  <2>2. responses' \in Seq(Responses)
    BY <1>19, <2>1 DEF HostAnswers, IInv, TypeOK
  <2> QED
    BY <1>19, <2>1, <2>2, HostAssumption DEF HostAnswers, Quiet, IInv, TypeOK, CallPCs
<1>20. ASSUME NEW k \in Calls, NEW ok \in BOOLEAN, HostRepeats(k, ok), Quiet
      PROVE  TypeOK'
  <2>1. Reply(k, ok) \in Responses /\ k \in Nat
    BY ReplyType, CallsOnWire DEF IInv, TypeOK
  <2>2. responses' \in Seq(Responses)
    BY <1>20, <2>1 DEF HostRepeats, IInv, TypeOK
  <2> QED
    BY <1>20, <2>1, <2>2, HostAssumption DEF HostRepeats, Quiet, IInv, TypeOK, CallPCs
<1>21. ASSUME HostCloses, Quiet
      PROVE  TypeOK'
  BY <1>21 DEF HostCloses, IInv, TypeOK, CallPCs, Quiet
<1>22. ASSUME EmitRuntimeReady
      PROVE  TypeOK'
  <2>1. wire' = Append(wire, Frame("runtime_ready", None, 0))
    BY <1>22 DEF EmitRuntimeReady, Emit
  <2>2. "runtime_ready" \in FrameKinds /\ None \in Invocations \cup {None} /\ 0 \in Nat /\ wire \in Seq(Frames)
    BY DEF IInv, TypeOK, FrameKinds
  <2>3. wire' \in Seq(Frames)
    BY <2>1, <2>2, FrameGrows
  <2> QED
    BY <1>22, <2>3 DEF EmitRuntimeReady, Serve, IInv, TypeOK, CallPCs
<1>23. ASSUME StopReading
      PROVE  TypeOK'
  BY <1>23 DEF StopReading, Serve, IInv, TypeOK, CallPCs
<1>24. ASSUME HandlerReturns
      PROVE  TypeOK'
  BY <1>24 DEF HandlerReturns, Serve, IInv, TypeOK, CallPCs
<1>25. ASSUME HostDrained
      PROVE  TypeOK'
  BY <1>25 DEF HostDrained, Serve, IInv, TypeOK, CallPCs
<1>26. ASSUME StderrDrained
      PROVE  TypeOK'
  BY <1>26 DEF StderrDrained, IInv, TypeOK, CallPCs
<1>27. ASSUME EmitResult
      PROVE  TypeOK'
  <2>1. wire' = Append(wire, Frame("invoke_result", cur, 0))
    BY <1>27 DEF EmitResult, Emit
  <2>2. "invoke_result" \in FrameKinds /\ cur \in Invocations \cup {None} /\ 0 \in Nat /\ wire \in Seq(Frames)
    BY DEF IInv, TypeOK, FrameKinds
  <2>3. wire' \in Seq(Frames)
    BY <2>1, <2>2, FrameGrows
  <2> QED
    BY <1>27, <2>3 DEF EmitResult, Serve, IInv, TypeOK, CallPCs
<1>28. ASSUME EmitStderrComplete
      PROVE  TypeOK'
  <2>1. wire' = Append(wire, Frame("stderr_complete", cur, 0))
    BY <1>28 DEF EmitStderrComplete, Emit
  <2>2. "stderr_complete" \in FrameKinds /\ cur \in Invocations \cup {None} /\ 0 \in Nat /\ wire \in Seq(Frames)
    BY DEF IInv, TypeOK, FrameKinds
  <2>3. wire' \in Seq(Frames)
    BY <2>1, <2>2, FrameGrows
  <2> QED
    BY <1>28, <2>3 DEF EmitStderrComplete, Serve, IInv, TypeOK, CallPCs
<1>29. ASSUME EmitInvokeReady
      PROVE  TypeOK'
  <2>1. wire' = Append(wire, Frame("invoke_ready", cur, 0))
    BY <1>29 DEF EmitInvokeReady, Emit
  <2>2. "invoke_ready" \in FrameKinds /\ cur \in Invocations \cup {None} /\ 0 \in Nat /\ wire \in Seq(Frames)
    BY DEF IInv, TypeOK, FrameKinds
  <2>3. wire' \in Seq(Frames)
    BY <2>1, <2>2, FrameGrows
  <2> QED
    BY <1>29, <2>3 DEF EmitInvokeReady, Serve, IInv, TypeOK, CallPCs
<1>30. ASSUME EmitFails
      PROVE  TypeOK'
  BY <1>30 DEF EmitFails, IInv, TypeOK
<1>31. ASSUME NEW i \in Invocations, Invoke(i)
      PROVE  TypeOK'
  <2>1. wire' = Append(wire, Frame("invoke", i, 0))
    BY <1>31 DEF Invoke
  <2>2. "invoke" \in FrameKinds /\ i \in Invocations \cup {None} /\ 0 \in Nat /\ wire \in Seq(Frames)
    BY DEF IInv, TypeOK, FrameKinds
  <2>3. wire' \in Seq(Frames)
    BY <2>1, <2>2, FrameGrows
  <2> QED
    BY <1>31, <2>3 DEF Invoke, Serve, IInv, TypeOK, CallPCs
<1>32. ASSUME NEW w \in Writers, NEW i \in Invocations, StderrAdmit(w, i)
      PROVE  TypeOK'
  BY <1>32, RuntimeAssumption DEF StderrAdmit, IInv, TypeOK, CallPCs
<1>33. ASSUME NEW w \in Writers, StderrWrite(w)
      PROVE  TypeOK'
  <2>1. "stderr_chunk" \in FrameKinds /\ errInv[w] \in Invocations \cup {None} /\ 0 \in Nat /\ wire \in Seq(Frames)
    BY DEF IInv, TypeOK, FrameKinds
  <2>2. wire' \in Seq(Frames)
    BY <1>33, <2>1, FrameGrows DEF StderrWrite, Emit
  <2> QED
    BY <1>33, <2>2 DEF StderrWrite, IInv, TypeOK, CallPCs
<1>34. CASE UNCHANGED vars
  BY <1>34 DEF IInv, IInv, TypeOK, CallPCs
<1> QED
  BY <1>1, <1>2, <1>3, <1>4, <1>5, <1>6, <1>7, <1>8, <1>9, <1>10, <1>11, <1>12, <1>13, <1>14, <1>15, <1>16, <1>17, <1>18, <1>19, <1>20, <1>21, <1>22, <1>23, <1>24, <1>25, <1>26, <1>27, <1>28, <1>29, <1>30, <1>31, <1>32, <1>33, <1>34 DEF Next, ServeStep, Caller, CallerStep, CallStep, Host, HostStep, Stopped, Quiet

\* ActiveInv: pending.Add comes before a goroutine is inside, Done after.
LEMMA ActiveInvStep == ASSUME IInv, [Next]_vars PROVE ActiveInv'
<1>1. ASSUME UNCHANGED <<pc, inv, leases, pending, errInv, errPending>>
      PROVE  ActiveInv'
  BY <1>1 DEF IInv, ActiveInv
<1>2. ASSUME NEW c \in Callers, NEW i \in Invocations, Admit(c, i), Quiet
      PROVE  ActiveInv'
  BY <1>2, HostAssumption DEF Admit, Go, IInv, ActiveInv, TypeOK, CallPCs, Quiet
<1>3. ASSUME NEW c \in Callers, NEW i \in Invocations, PluginAbort(c, i), Quiet
      PROVE  ActiveInv'
  BY <1>3, HostAssumption DEF PluginAbort, Go, IInv, ActiveInv, TypeOK, CallPCs, Quiet
<1>4. ASSUME NEW c \in Callers, TakeExchange(c), Quiet
      PROVE  ActiveInv'
  BY <1>4, HostAssumption DEF TakeExchange, Go, IInv, ActiveInv, TypeOK, CallPCs, Quiet
<1>5. ASSUME NEW c \in Callers, GiveUpQueued(c), Quiet
      PROVE  ActiveInv'
  BY <1>5, HostAssumption DEF GiveUpQueued, Go, IInv, ActiveInv, TypeOK, CallPCs, Quiet
<1>6. ASSUME NEW c \in Callers, AllocateID(c), Quiet
      PROVE  ActiveInv'
  BY <1>6, HostAssumption DEF AllocateID, Release, Go, IInv, ActiveInv, TypeOK, CallPCs, Quiet
<1>7. ASSUME NEW c \in Callers, WriteCall(c), Quiet
      PROVE  ActiveInv'
  BY <1>7, HostAssumption DEF WriteCall, Go, IInv, ActiveInv, TypeOK, CallPCs, Quiet
<1>8. ASSUME NEW c \in Callers, WriteCallFails(c), Quiet
      PROVE  ActiveInv'
  BY <1>8, HostAssumption DEF WriteCallFails, Release, Go, IInv, ActiveInv, TypeOK, CallPCs, Quiet
<1>9. ASSUME NEW c \in Callers, StartScan(c), Quiet
      PROVE  ActiveInv'
  BY <1>9, HostAssumption DEF StartScan, Go, IInv, ActiveInv, TypeOK, CallPCs, Quiet
<1>10. ASSUME NEW c \in Callers, Finish(c), Quiet
      PROVE  ActiveInv'
  BY <1>10, HostAssumption DEF Finish, Release, Go, Correlated, IInv, ActiveInv, TypeOK, CallPCs, Quiet
<1>11. ASSUME NEW c \in Callers, AbortRevoke(c), Quiet
      PROVE  ActiveInv'
  BY <1>11, HostAssumption DEF AbortRevoke, Go, IInv, ActiveInv, TypeOK, CallPCs, Quiet
<1>12. ASSUME NEW c \in Callers, AbortUnread(c), Quiet
      PROVE  ActiveInv'
  BY <1>12, HostAssumption DEF AbortUnread, Release, Go, PoisonAndClose, IInv, ActiveInv, TypeOK, CallPCs, Quiet
<1>13. ASSUME NEW c \in Callers, AbortReading(c), Quiet
      PROVE  ActiveInv'
  BY <1>13, HostAssumption DEF AbortReading, Go, PoisonAndClose, IInv, ActiveInv, TypeOK, CallPCs, Quiet
<1>14. ASSUME NEW c \in Callers, Drain(c), Quiet
      PROVE  ActiveInv'
  BY <1>14, HostAssumption DEF Drain, Release, Go, IInv, ActiveInv, TypeOK, CallPCs, Quiet
<1>15. ASSUME NEW c \in Callers, Leave(c), Quiet
      PROVE  ActiveInv'
  BY <1>15, HostAssumption DEF Leave, Go, IInv, ActiveInv, TypeOK, CallPCs, Quiet
<1>16. ASSUME NEW c \in Callers, PluginAbortPoison(c), Quiet
      PROVE  ActiveInv'
  BY <1>16, HostAssumption DEF PluginAbortPoison, Go, PoisonAndClose, IInv, ActiveInv, TypeOK, CallPCs, Quiet
<1>17. ASSUME NEW i \in Invocations, Invoke(i)
      PROVE  ActiveInv'
  BY <1>17, HostAssumption DEF Invoke, Serve, IInv, ActiveInv, TypeOK, CallPCs
<1>18. ASSUME NEW w \in Writers, NEW i \in Invocations, StderrAdmit(w, i)
      PROVE  ActiveInv'
  BY <1>18, HostAssumption DEF StderrAdmit, IInv, ActiveInv, TypeOK, CallPCs
<1>19. ASSUME NEW w \in Writers, StderrWrite(w)
      PROVE  ActiveInv'
  BY <1>19, HostAssumption DEF StderrWrite, Emit, IInv, ActiveInv, TypeOK, CallPCs
<1> QED
  BY <1>1, <1>2, <1>3, <1>4, <1>5, <1>6, <1>7, <1>8, <1>9, <1>10, <1>11, <1>12, <1>13, <1>14, <1>15, <1>16, <1>17, <1>18, <1>19 DEF Next, ServeStep, Caller, CallerStep, CallStep, Host, HostStep, Stopped, Quiet, Cancel, ScanFrame, ScanFails, HostAnswers, HostRepeats, HostCloses, EmitRuntimeReady, StopReading, HandlerReturns, HostDrained, StderrDrained, EmitResult, EmitStderrComplete, EmitInvokeReady, EmitFails, Serve

\* CurInv: ServeV2 has a current invocation between invoke and invoke_ready.
LEMMA CurInvStep == ASSUME IInv, [Next]_vars PROVE CurInv'
<1>1. ASSUME UNCHANGED <<serve, cur, leases>>
      PROVE  CurInv'
  BY <1>1 DEF IInv, CurInv
<1>2. ASSUME EmitRuntimeReady
      PROVE  CurInv'
  BY <1>2, HostAssumption DEF EmitRuntimeReady, Serve, Emit, IInv, CurInv, TypeOK
<1>3. ASSUME StopReading
      PROVE  CurInv'
  BY <1>3, HostAssumption DEF StopReading, Serve, IInv, CurInv, TypeOK
<1>4. ASSUME HandlerReturns
      PROVE  CurInv'
  BY <1>4, HostAssumption DEF HandlerReturns, Serve, IInv, CurInv, TypeOK
<1>5. ASSUME HostDrained
      PROVE  CurInv'
  BY <1>5, HostAssumption DEF HostDrained, Serve, IInv, CurInv, TypeOK
<1>6. ASSUME StderrDrained
      PROVE  CurInv'
  BY <1>6, HostAssumption DEF StderrDrained, IInv, CurInv, TypeOK
<1>7. ASSUME EmitResult
      PROVE  CurInv'
  BY <1>7, HostAssumption DEF EmitResult, Serve, Emit, IInv, CurInv, TypeOK
<1>8. ASSUME EmitStderrComplete
      PROVE  CurInv'
  BY <1>8, HostAssumption DEF EmitStderrComplete, Serve, Emit, IInv, CurInv, TypeOK
<1>9. ASSUME EmitInvokeReady
      PROVE  CurInv'
  BY <1>9, HostAssumption DEF EmitInvokeReady, Serve, Emit, IInv, CurInv, TypeOK
<1>10. ASSUME EmitFails
      PROVE  CurInv'
  BY <1>10, HostAssumption DEF EmitFails, IInv, CurInv, TypeOK
<1>11. ASSUME NEW i \in Invocations, Invoke(i)
      PROVE  CurInv'
  BY <1>11, HostAssumption DEF Invoke, Serve, IInv, CurInv, TypeOK
<1> QED
  BY <1>1, <1>2, <1>3, <1>4, <1>5, <1>6, <1>7, <1>8, <1>9, <1>10, <1>11 DEF Next, ServeStep, Caller, CallerStep, CallStep, Host, HostStep, Stopped, Quiet, Admit, PluginAbort, Cancel, TakeExchange, GiveUpQueued, AllocateID, WriteCall, WriteCallFails, StartScan, ScanFrame, ScanFails, Finish, AbortRevoke, AbortUnread, AbortReading, Drain, Leave, PluginAbortPoison, HostAnswers, HostRepeats, HostCloses, StderrAdmit, StderrWrite, PoisonAndClose

\* LeaseInv: Expire revokes, then waits, before ServeV2 goes on.
LEMMA LeaseInvStep == ASSUME IInv, [Next]_vars PROVE LeaseInv'
<1>1. ASSUME UNCHANGED <<leases, expired, pending, errExpired, errPending, cur, serve>>
      PROVE  LeaseInv'
  BY <1>1 DEF IInv, LeaseInv
<1>2. ASSUME NEW c \in Callers, NEW i \in Invocations, Admit(c, i), Quiet
      PROVE  LeaseInv'
  BY <1>2, HostAssumption DEF Admit, Go, IInv, LeaseInv, CurInv, ActiveInv, TypeOK, CallPCs, Quiet
<1>3. ASSUME NEW c \in Callers, NEW i \in Invocations, PluginAbort(c, i), Quiet
      PROVE  LeaseInv'
  BY <1>3, HostAssumption DEF PluginAbort, Go, IInv, LeaseInv, CurInv, ActiveInv, TypeOK, CallPCs, Quiet
<1>4. ASSUME NEW c \in Callers, AbortRevoke(c), Quiet
      PROVE  LeaseInv'
  BY <1>4, HostAssumption DEF AbortRevoke, Go, IInv, LeaseInv, CurInv, ActiveInv, TypeOK, CallPCs, Quiet
<1>5. ASSUME NEW c \in Callers, Leave(c), Quiet
      PROVE  LeaseInv'
  BY <1>5, HostAssumption DEF Leave, Go, IInv, LeaseInv, CurInv, ActiveInv, TypeOK, CallPCs, Quiet
<1>6. ASSUME EmitRuntimeReady
      PROVE  LeaseInv'
  BY <1>6, HostAssumption DEF EmitRuntimeReady, Serve, Emit, IInv, LeaseInv, CurInv, ActiveInv, TypeOK, CallPCs
<1>7. ASSUME StopReading
      PROVE  LeaseInv'
  BY <1>7, HostAssumption DEF StopReading, Serve, IInv, LeaseInv, CurInv, ActiveInv, TypeOK, CallPCs
<1>8. ASSUME HandlerReturns
      PROVE  LeaseInv'
  BY <1>8, HostAssumption DEF HandlerReturns, Serve, IInv, LeaseInv, CurInv, ActiveInv, TypeOK, CallPCs
<1>9. ASSUME HostDrained
      PROVE  LeaseInv'
  BY <1>9, HostAssumption DEF HostDrained, Serve, IInv, LeaseInv, CurInv, ActiveInv, TypeOK, CallPCs
<1>10. ASSUME StderrDrained
      PROVE  LeaseInv'
  BY <1>10, HostAssumption DEF StderrDrained, IInv, LeaseInv, CurInv, ActiveInv, TypeOK, CallPCs
<1>11. ASSUME EmitResult
      PROVE  LeaseInv'
  BY <1>11, HostAssumption DEF EmitResult, Serve, Emit, IInv, LeaseInv, CurInv, ActiveInv, TypeOK, CallPCs
<1>12. ASSUME EmitStderrComplete
      PROVE  LeaseInv'
  BY <1>12, HostAssumption DEF EmitStderrComplete, Serve, Emit, IInv, LeaseInv, CurInv, ActiveInv, TypeOK, CallPCs
<1>13. ASSUME EmitInvokeReady
      PROVE  LeaseInv'
  BY <1>13, HostAssumption DEF EmitInvokeReady, Serve, Emit, IInv, LeaseInv, CurInv, ActiveInv, TypeOK, CallPCs
<1>14. ASSUME EmitFails
      PROVE  LeaseInv'
  BY <1>14, HostAssumption DEF EmitFails, IInv, LeaseInv, CurInv, ActiveInv, TypeOK, CallPCs
<1>15. ASSUME NEW i \in Invocations, Invoke(i)
      PROVE  LeaseInv'
  BY <1>15, HostAssumption DEF Invoke, Serve, IInv, LeaseInv, CurInv, ActiveInv, TypeOK, CallPCs
<1>16. ASSUME NEW w \in Writers, NEW i \in Invocations, StderrAdmit(w, i)
      PROVE  LeaseInv'
  BY <1>16, HostAssumption DEF StderrAdmit, IInv, LeaseInv, CurInv, ActiveInv, TypeOK, CallPCs
<1>17. ASSUME NEW w \in Writers, StderrWrite(w)
      PROVE  LeaseInv'
  BY <1>17, HostAssumption DEF StderrWrite, Emit, IInv, LeaseInv, CurInv, ActiveInv, TypeOK, CallPCs
<1> QED
  BY <1>1, <1>2, <1>3, <1>4, <1>5, <1>6, <1>7, <1>8, <1>9, <1>10, <1>11, <1>12, <1>13, <1>14, <1>15, <1>16, <1>17 DEF Next, ServeStep, Caller, CallerStep, CallStep, Host, HostStep, Stopped, Quiet, Cancel, TakeExchange, GiveUpQueued, AllocateID, WriteCall, WriteCallFails, StartScan, ScanFrame, ScanFails, Finish, AbortUnread, AbortReading, Drain, PluginAbortPoison, HostAnswers, HostRepeats, HostCloses, PoisonAndClose

\* ResultInv: a terminal frame is emitted only past both drains.
LEMMA ResultInvStep == ASSUME IInv, [Next]_vars PROVE ResultInv'
<1>1. ASSUME UNCHANGED <<wire, leases, cur, serve>>
      PROVE  ResultInv'
  BY <1>1 DEF IInv, ResultInv
<1>2. ASSUME NEW c \in Callers, WriteCall(c), Quiet
      PROVE  ResultInv'
  <2>1. wire' = Append(wire, Frame("host_call", inv[c], hid[c]))
    BY <1>2 DEF WriteCall
  <2>2. "host_call" \in FrameKinds /\ inv[c] \in Invocations \cup {None} /\ hid[c] \in Nat /\ wire \in Seq(Frames)
    BY HostAssumption DEF IInv, TypeOK, FrameKinds
  <2> QED
    BY <1>2, <2>1, <2>2, FrameGrows, HostAssumption DEF WriteCall, Go, Quiet, IInv, ResultInv, TerminalKinds, CurInv, ActiveInv, LeaseInv, TypeOK, CallPCs
<1>3. ASSUME EmitRuntimeReady
      PROVE  ResultInv'
  <2>1. wire' = Append(wire, Frame("runtime_ready", None, 0))
    BY <1>3 DEF EmitRuntimeReady, Emit
  <2>2. "runtime_ready" \in FrameKinds /\ None \in Invocations \cup {None} /\ 0 \in Nat /\ wire \in Seq(Frames)
    BY DEF IInv, TypeOK, FrameKinds
  <2> QED
    BY <1>3, <2>1, <2>2, FrameGrows, HostAssumption DEF EmitRuntimeReady, Serve, Emit, IInv, ResultInv, TerminalKinds, CurInv, ActiveInv, LeaseInv, TypeOK, CallPCs
<1>4. ASSUME StopReading
      PROVE  ResultInv'
  BY <1>4, HostAssumption DEF StopReading, Serve, IInv, ResultInv, TerminalKinds, CurInv, ActiveInv, LeaseInv, TypeOK, CallPCs
<1>5. ASSUME HandlerReturns
      PROVE  ResultInv'
  BY <1>5, HostAssumption DEF HandlerReturns, Serve, IInv, ResultInv, TerminalKinds, CurInv, ActiveInv, LeaseInv, TypeOK, CallPCs
<1>6. ASSUME HostDrained
      PROVE  ResultInv'
  BY <1>6, HostAssumption DEF HostDrained, Serve, IInv, ResultInv, TerminalKinds, CurInv, ActiveInv, LeaseInv, TypeOK, CallPCs
<1>7. ASSUME StderrDrained
      PROVE  ResultInv'
  BY <1>7, HostAssumption DEF StderrDrained, IInv, ResultInv, TerminalKinds, CurInv, ActiveInv, LeaseInv, TypeOK, CallPCs
<1>8. ASSUME EmitResult
      PROVE  ResultInv'
  <2>1. wire' = Append(wire, Frame("invoke_result", cur, 0))
    BY <1>8 DEF EmitResult, Emit
  <2>2. "invoke_result" \in FrameKinds /\ cur \in Invocations \cup {None} /\ 0 \in Nat /\ wire \in Seq(Frames)
    BY DEF IInv, TypeOK, FrameKinds
  <2> QED
    BY <1>8, <2>1, <2>2, FrameGrows, HostAssumption DEF EmitResult, Serve, Emit, IInv, ResultInv, TerminalKinds, CurInv, ActiveInv, LeaseInv, TypeOK, CallPCs
<1>9. ASSUME EmitStderrComplete
      PROVE  ResultInv'
  <2>1. wire' = Append(wire, Frame("stderr_complete", cur, 0))
    BY <1>9 DEF EmitStderrComplete, Emit
  <2>2. "stderr_complete" \in FrameKinds /\ cur \in Invocations \cup {None} /\ 0 \in Nat /\ wire \in Seq(Frames)
    BY DEF IInv, TypeOK, FrameKinds
  <2> QED
    BY <1>9, <2>1, <2>2, FrameGrows, HostAssumption DEF EmitStderrComplete, Serve, Emit, IInv, ResultInv, TerminalKinds, CurInv, ActiveInv, LeaseInv, TypeOK, CallPCs
<1>10. ASSUME EmitInvokeReady
      PROVE  ResultInv'
  <2>1. wire' = Append(wire, Frame("invoke_ready", cur, 0))
    BY <1>10 DEF EmitInvokeReady, Emit
  <2>2. "invoke_ready" \in FrameKinds /\ cur \in Invocations \cup {None} /\ 0 \in Nat /\ wire \in Seq(Frames)
    BY DEF IInv, TypeOK, FrameKinds
  <2> QED
    BY <1>10, <2>1, <2>2, FrameGrows, HostAssumption DEF EmitInvokeReady, Serve, Emit, IInv, ResultInv, TerminalKinds, CurInv, ActiveInv, LeaseInv, TypeOK, CallPCs
<1>11. ASSUME EmitFails
      PROVE  ResultInv'
  BY <1>11, HostAssumption DEF EmitFails, IInv, ResultInv, TerminalKinds, CurInv, ActiveInv, LeaseInv, TypeOK, CallPCs
<1>12. ASSUME NEW i \in Invocations, Invoke(i)
      PROVE  ResultInv'
  <2>1. wire' = Append(wire, Frame("invoke", i, 0))
    BY <1>12 DEF Invoke
  <2>2. "invoke" \in FrameKinds /\ i \in Invocations \cup {None} /\ 0 \in Nat /\ wire \in Seq(Frames)
    BY DEF IInv, TypeOK, FrameKinds
  <2> QED
    BY <1>12, <2>1, <2>2, FrameGrows, HostAssumption DEF Invoke, Serve, IInv, ResultInv, TerminalKinds, CurInv, ActiveInv, LeaseInv, TypeOK, CallPCs
<1>13. ASSUME NEW w \in Writers, StderrWrite(w)
      PROVE  ResultInv'
  <2>1. CASE UNCHANGED wire
    BY <1>13, <2>1, HostAssumption DEF StderrWrite, IInv, ResultInv, TerminalKinds, CurInv, ActiveInv, LeaseInv, TypeOK, CallPCs
  <2>2. CASE wire' = Append(wire, Frame("stderr_chunk", errInv[w], 0))
    <3>1. "stderr_chunk" \in FrameKinds /\ errInv[w] \in Invocations \cup {None} /\ 0 \in Nat /\ wire \in Seq(Frames)
      BY DEF IInv, TypeOK, FrameKinds
    <3> QED
      BY <1>13, <2>2, <3>1, FrameGrows, HostAssumption DEF StderrWrite, IInv, ResultInv, TerminalKinds, CurInv, ActiveInv, LeaseInv, TypeOK, CallPCs
  <2> QED
    BY <1>13, <2>1, <2>2 DEF StderrWrite, Emit
<1> QED
  BY <1>1, <1>2, <1>3, <1>4, <1>5, <1>6, <1>7, <1>8, <1>9, <1>10, <1>11, <1>12, <1>13 DEF Next, ServeStep, Caller, CallerStep, CallStep, Host, HostStep, Stopped, Quiet, Admit, PluginAbort, Cancel, TakeExchange, GiveUpQueued, AllocateID, WriteCallFails, StartScan, ScanFrame, ScanFails, Finish, AbortRevoke, AbortUnread, AbortReading, Drain, Leave, PluginAbortPoison, HostAnswers, HostRepeats, HostCloses, StderrAdmit, PoisonAndClose

\* ExchangeInv: one token, one holder, one reader.
LEMMA ExchangeInvStep == ASSUME IInv, [Next]_vars PROVE ExchangeInv'
<1>1. ASSUME UNCHANGED <<pc, exchange, writeMu, scan>>
      PROVE  ExchangeInv'
  BY <1>1 DEF IInv, ExchangeInv, Holding
<1>2. ASSUME NEW c \in Callers, NEW i \in Invocations, Admit(c, i), Quiet
      PROVE  ExchangeInv'
  BY <1>2, HostAssumption DEF Admit, Go, IInv, ExchangeInv, Holding, TypeOK, CallPCs, Quiet
<1>3. ASSUME NEW c \in Callers, NEW i \in Invocations, PluginAbort(c, i), Quiet
      PROVE  ExchangeInv'
  BY <1>3, HostAssumption DEF PluginAbort, Go, IInv, ExchangeInv, Holding, TypeOK, CallPCs, Quiet
<1>4. ASSUME NEW c \in Callers, TakeExchange(c), Quiet
      PROVE  ExchangeInv'
  BY <1>4, HostAssumption DEF TakeExchange, Go, IInv, ExchangeInv, Holding, TypeOK, CallPCs, Quiet
<1>5. ASSUME NEW c \in Callers, GiveUpQueued(c), Quiet
      PROVE  ExchangeInv'
  BY <1>5, HostAssumption DEF GiveUpQueued, Go, IInv, ExchangeInv, Holding, TypeOK, CallPCs, Quiet
<1>6. ASSUME NEW c \in Callers, AllocateID(c), Quiet
      PROVE  ExchangeInv'
  <2>1. CASE nextID = MaxID
    <3>1. pc[c] = "holding" /\ pc' = [pc EXCEPT ![c] = "leaving"] /\ exchange' = 1 /\ UNCHANGED <<writeMu, nextID, hid, scan>>
      BY <1>6, <2>1, HostAssumption DEF AllocateID, Release, Go
    <3> QED
      BY <3>1 DEF IInv, ExchangeInv, Holding, TypeOK, CallPCs
  <2>2. CASE nextID < MaxID /\ expired[inv[c]]
    <3>1. pc[c] = "holding" /\ pc' = [pc EXCEPT ![c] = "leaving"] /\ exchange' = 1 /\ nextID' = nextID + 1 /\ UNCHANGED <<writeMu, hid, scan>>
      BY <1>6, <2>2, HostAssumption DEF AllocateID, Release, Go
    <3> QED
      BY <3>1 DEF IInv, ExchangeInv, Holding, TypeOK, CallPCs
  <2>3. CASE nextID < MaxID /\ ~expired[inv[c]]
    <3>1. pc[c] = "holding" /\ pc' = [pc EXCEPT ![c] = "locked"] /\ writeMu = None /\ writeMu' = c /\ nextID' = nextID + 1
          /\ hid' = [hid EXCEPT ![c] = nextID + 1] /\ UNCHANGED <<exchange, scan>>
      BY <1>6, <2>3, HostAssumption DEF AllocateID, Go
    <3> QED
      BY <3>1, HostAssumption DEF IInv, ExchangeInv, Holding, TypeOK, CallPCs
  <2> QED
    BY <1>6, <2>1, <2>2, <2>3, HostAssumption DEF AllocateID, IInv, TypeOK
<1>7. ASSUME NEW c \in Callers, WriteCall(c), Quiet
      PROVE  ExchangeInv'
  BY <1>7, HostAssumption DEF WriteCall, Go, IInv, ExchangeInv, Holding, TypeOK, CallPCs, Quiet
<1>8. ASSUME NEW c \in Callers, WriteCallFails(c), Quiet
      PROVE  ExchangeInv'
  BY <1>8, HostAssumption DEF WriteCallFails, Release, Go, IInv, ExchangeInv, Holding, TypeOK, CallPCs, Quiet
<1>9. ASSUME NEW c \in Callers, StartScan(c), Quiet
      PROVE  ExchangeInv'
  BY <1>9, HostAssumption DEF StartScan, Go, IInv, ExchangeInv, Holding, TypeOK, CallPCs, Quiet
<1>10. ASSUME NEW c \in Callers, ScanFrame(c), Quiet
      PROVE  ExchangeInv'
  BY <1>10, HostAssumption DEF ScanFrame, IInv, ExchangeInv, Holding, TypeOK, CallPCs, Quiet
<1>11. ASSUME NEW c \in Callers, ScanFails(c), Quiet
      PROVE  ExchangeInv'
  BY <1>11, HostAssumption DEF ScanFails, IInv, ExchangeInv, Holding, TypeOK, CallPCs, Quiet
<1>12. ASSUME NEW c \in Callers, Finish(c), Quiet
      PROVE  ExchangeInv'
  BY <1>12, HostAssumption DEF Finish, Release, Go, IInv, ExchangeInv, Holding, TypeOK, CallPCs, Quiet
<1>13. ASSUME NEW c \in Callers, AbortRevoke(c), Quiet
      PROVE  ExchangeInv'
  <2>1. CASE Go(c, "sent", "abort_unread")
    BY <1>13, <2>1, HostAssumption DEF AbortRevoke, Go, Quiet, IInv, ExchangeInv, Holding, TypeOK, CallPCs
  <2>2. CASE Go(c, "reading", "abort_reading")
    BY <1>13, <2>2, HostAssumption DEF AbortRevoke, Go, Quiet, IInv, ExchangeInv, Holding, TypeOK, CallPCs
  <2> QED
    BY <1>13, <2>1, <2>2 DEF AbortRevoke
<1>14. ASSUME NEW c \in Callers, AbortUnread(c), Quiet
      PROVE  ExchangeInv'
  BY <1>14, HostAssumption DEF AbortUnread, Release, Go, PoisonAndClose, IInv, ExchangeInv, Holding, TypeOK, CallPCs, Quiet
<1>15. ASSUME NEW c \in Callers, AbortReading(c), Quiet
      PROVE  ExchangeInv'
  BY <1>15, HostAssumption DEF AbortReading, Go, PoisonAndClose, IInv, ExchangeInv, Holding, TypeOK, CallPCs, Quiet
<1>16. ASSUME NEW c \in Callers, Drain(c), Quiet
      PROVE  ExchangeInv'
  BY <1>16, HostAssumption DEF Drain, Release, Go, IInv, ExchangeInv, Holding, TypeOK, CallPCs, Quiet
<1>17. ASSUME NEW c \in Callers, Leave(c), Quiet
      PROVE  ExchangeInv'
  BY <1>17, HostAssumption DEF Leave, Go, IInv, ExchangeInv, Holding, TypeOK, CallPCs, Quiet
<1>18. ASSUME NEW c \in Callers, PluginAbortPoison(c), Quiet
      PROVE  ExchangeInv'
  BY <1>18, HostAssumption DEF PluginAbortPoison, Go, PoisonAndClose, IInv, ExchangeInv, Holding, TypeOK, CallPCs, Quiet
<1> QED
  BY <1>1, <1>2, <1>3, <1>4, <1>5, <1>6, <1>7, <1>8, <1>9, <1>10, <1>11, <1>12, <1>13, <1>14, <1>15, <1>16, <1>17, <1>18 DEF Next, ServeStep, Caller, CallerStep, CallStep, Host, HostStep, Stopped, Quiet, Cancel, HostAnswers, HostRepeats, HostCloses, EmitRuntimeReady, StopReading, HandlerReturns, HostDrained, StderrDrained, EmitResult, EmitStderrComplete, EmitInvokeReady, EmitFails, Invoke, StderrAdmit, StderrWrite, Serve

\* IDInv: ids grow with the wire.
LEMMA IDInvStep == ASSUME IInv, [Next]_vars PROVE IDInv'
<1>1. ASSUME UNCHANGED <<pc, wire, nextID, hid>>
      PROVE  IDInv'
  BY <1>1 DEF IInv, IDInv, CallIDsIncrease, Calls
<1>0. ASSUME UNCHANGED <<pc, nextID, hid>>, Calls' = Calls, \A k \in Calls : wire'[k] = wire[k]
      PROVE  IDInv'
  BY <1>0 DEF IInv, IDInv, CallIDsIncrease
<1>2. ASSUME NEW c \in Callers, NEW i \in Invocations, Admit(c, i), Quiet
      PROVE  IDInv'
  BY <1>2, HostAssumption DEF Admit, Go, IInv, IDInv, CallIDsIncrease, Calls, TypeOK, Quiet
<1>3. ASSUME NEW c \in Callers, NEW i \in Invocations, PluginAbort(c, i), Quiet
      PROVE  IDInv'
  BY <1>3, HostAssumption DEF PluginAbort, Go, IInv, IDInv, CallIDsIncrease, Calls, TypeOK, Quiet
<1>4. ASSUME NEW c \in Callers, TakeExchange(c), Quiet
      PROVE  IDInv'
  BY <1>4, HostAssumption DEF TakeExchange, Go, IInv, IDInv, CallIDsIncrease, Calls, TypeOK, Quiet
<1>5. ASSUME NEW c \in Callers, GiveUpQueued(c), Quiet
      PROVE  IDInv'
  BY <1>5, HostAssumption DEF GiveUpQueued, Go, IInv, IDInv, CallIDsIncrease, Calls, TypeOK, Quiet
<1>6. ASSUME NEW c \in Callers, AllocateID(c), Quiet
      PROVE  IDInv'
  <2>0. /\ \A d \in Callers : pc[d] # "locked"
        /\ UNCHANGED wire /\ Calls' = Calls
        /\ \A k \in Calls : wire[k].id \in Nat
    BY <1>6, HostAssumption, CallsOnWire DEF AllocateID, IInv, TypeOK, ExchangeInv, Calls
  <2>1. CASE nextID = MaxID
    <3>1. pc[c] = "holding" /\ pc' = [pc EXCEPT ![c] = "leaving"] /\ exchange' = 1 /\ UNCHANGED <<writeMu, nextID, hid>>
      BY <1>6, <2>1, HostAssumption DEF AllocateID, Release, Go
    <3> QED
      BY <2>0, <3>1, HostAssumption DEF IInv, IDInv, CallIDsIncrease, TypeOK
  <2>2. CASE nextID < MaxID /\ expired[inv[c]]
    <3>1. pc[c] = "holding" /\ pc' = [pc EXCEPT ![c] = "leaving"] /\ exchange' = 1 /\ nextID' = nextID + 1 /\ UNCHANGED <<writeMu, hid>>
      BY <1>6, <2>2, HostAssumption DEF AllocateID, Release, Go
    <3> QED
      BY <2>0, <3>1, HostAssumption DEF IInv, IDInv, CallIDsIncrease, TypeOK
  <2>3. CASE nextID < MaxID /\ ~expired[inv[c]]
    <3>1. pc[c] = "holding" /\ pc' = [pc EXCEPT ![c] = "locked"] /\ writeMu = None /\ writeMu' = c /\ nextID' = nextID + 1
          /\ hid' = [hid EXCEPT ![c] = nextID + 1] /\ UNCHANGED <<exchange>>
      BY <1>6, <2>3, HostAssumption DEF AllocateID, Go
    <3> QED
      BY <2>0, <3>1, HostAssumption DEF IInv, IDInv, CallIDsIncrease, TypeOK
  <2> QED
    BY <1>6, <2>1, <2>2, <2>3, HostAssumption DEF AllocateID, IInv, TypeOK
<1>7. ASSUME NEW c \in Callers, WriteCall(c), Quiet
      PROVE  IDInv'
  <2>1. /\ wire' = Append(wire, Frame("host_call", inv[c], hid[c])) /\ UNCHANGED <<nextID, hid>>
        /\ pc[c] = "locked" /\ pc' = [pc EXCEPT ![c] = "sent"]
    BY <1>7 DEF WriteCall, Go
  <2>2. "host_call" \in FrameKinds /\ inv[c] \in Invocations \cup {None} /\ hid[c] \in Nat /\ wire \in Seq(Frames)
    BY HostAssumption DEF IInv, TypeOK, FrameKinds
  <2>3. /\ Calls' = Calls \cup {Len(wire) + 1} /\ Len(wire) \in Nat /\ wire'[Len(wire) + 1].id = hid[c]
        /\ \A j \in 1..Len(wire) : wire'[j] = wire[j]
    BY <2>1, <2>2, FrameGrows
  <2>4. \A k \in Calls : k \in 1..Len(wire) /\ wire'[k] = wire[k] /\ wire[k].id \in Nat
    BY <2>2, <2>3, CallsOnWire
  <2>5. hid[c] = nextID /\ nextID \in 1..MaxID /\ \A k \in Calls : wire[k].id < nextID
    BY <2>1, HostAssumption DEF IInv, IDInv, TypeOK
  <2>6. \A d \in Callers : pc'[d] # "locked"
    BY <2>1 DEF IInv, TypeOK, ExchangeInv, Holding, CallPCs
  <2>7. \A k \in Calls' : wire'[k].id <= nextID'
    BY <2>1, <2>3, <2>4, <2>5, HostAssumption
  <2>8. CallIDsIncrease'
    <3>0. \A k \in Calls' : wire'[k].id \in 1..MaxID
      BY <2>3, <2>4, <2>5 DEF IInv, IDInv, CallIDsIncrease
    <3>1. SUFFICES ASSUME NEW j \in Calls', NEW k \in Calls', j < k
                   PROVE  wire'[j].id < wire'[k].id
      BY <3>0 DEF CallIDsIncrease
    <3>2. CASE k \in Calls
      <4>1. j \in Calls
        BY <2>3, <2>4, <3>1, <3>2
      <4> QED
        BY <2>4, <3>1, <3>2, <4>1 DEF IInv, IDInv, CallIDsIncrease
    <3>3. CASE k = Len(wire) + 1
      <4>1. j \in Calls
        BY <2>3, <3>1, <3>3
      <4> QED
        BY <2>3, <2>4, <2>5, <3>3, <4>1
    <3> QED
      BY <2>3, <3>2, <3>3
  <2> QED
    BY <2>6, <2>7, <2>8 DEF IDInv
<1>8. ASSUME NEW c \in Callers, WriteCallFails(c), Quiet
      PROVE  IDInv'
  BY <1>8, HostAssumption DEF WriteCallFails, Release, Go, IInv, IDInv, CallIDsIncrease, Calls, TypeOK, Quiet
<1>9. ASSUME NEW c \in Callers, StartScan(c), Quiet
      PROVE  IDInv'
  BY <1>9, HostAssumption DEF StartScan, Go, IInv, IDInv, CallIDsIncrease, Calls, TypeOK, Quiet
<1>10. ASSUME NEW c \in Callers, Finish(c), Quiet
      PROVE  IDInv'
  BY <1>10, HostAssumption DEF Finish, Release, Go, IInv, IDInv, CallIDsIncrease, Calls, TypeOK, Quiet
<1>11. ASSUME NEW c \in Callers, AbortRevoke(c), Quiet
      PROVE  IDInv'
  BY <1>11, HostAssumption DEF AbortRevoke, Go, IInv, IDInv, CallIDsIncrease, Calls, TypeOK, Quiet
<1>12. ASSUME NEW c \in Callers, AbortUnread(c), Quiet
      PROVE  IDInv'
  BY <1>12, HostAssumption DEF AbortUnread, Release, Go, PoisonAndClose, IInv, IDInv, CallIDsIncrease, Calls, TypeOK, Quiet
<1>13. ASSUME NEW c \in Callers, AbortReading(c), Quiet
      PROVE  IDInv'
  BY <1>13, HostAssumption DEF AbortReading, Go, PoisonAndClose, IInv, IDInv, CallIDsIncrease, Calls, TypeOK, Quiet
<1>14. ASSUME NEW c \in Callers, Drain(c), Quiet
      PROVE  IDInv'
  BY <1>14, HostAssumption DEF Drain, Release, Go, IInv, IDInv, CallIDsIncrease, Calls, TypeOK, Quiet
<1>15. ASSUME NEW c \in Callers, Leave(c), Quiet
      PROVE  IDInv'
  BY <1>15, HostAssumption DEF Leave, Go, IInv, IDInv, CallIDsIncrease, Calls, TypeOK, Quiet
<1>16. ASSUME NEW c \in Callers, PluginAbortPoison(c), Quiet
      PROVE  IDInv'
  BY <1>16, HostAssumption DEF PluginAbortPoison, Go, PoisonAndClose, IInv, IDInv, CallIDsIncrease, Calls, TypeOK, Quiet
<1>17. ASSUME EmitRuntimeReady
      PROVE  IDInv'
  <2>1. wire' = Append(wire, Frame("runtime_ready", None, 0)) 
    BY <1>17 DEF EmitRuntimeReady, Emit
  <2>2. "runtime_ready" \in FrameKinds \ {"host_call"} /\ None \in Invocations \cup {None}
    BY DEF IInv, TypeOK, FrameKinds
  <2> QED
    BY <1>17, <2>1, <2>2, <1>0, LifecycleFrame DEF EmitRuntimeReady
<1>18. ASSUME EmitResult
      PROVE  IDInv'
  <2>1. wire' = Append(wire, Frame("invoke_result", cur, 0)) 
    BY <1>18 DEF EmitResult, Emit
  <2>2. "invoke_result" \in FrameKinds \ {"host_call"} /\ cur \in Invocations \cup {None}
    BY DEF IInv, TypeOK, FrameKinds
  <2> QED
    BY <1>18, <2>1, <2>2, <1>0, LifecycleFrame DEF EmitResult
<1>19. ASSUME EmitStderrComplete
      PROVE  IDInv'
  <2>1. wire' = Append(wire, Frame("stderr_complete", cur, 0)) 
    BY <1>19 DEF EmitStderrComplete, Emit
  <2>2. "stderr_complete" \in FrameKinds \ {"host_call"} /\ cur \in Invocations \cup {None}
    BY DEF IInv, TypeOK, FrameKinds
  <2> QED
    BY <1>19, <2>1, <2>2, <1>0, LifecycleFrame DEF EmitStderrComplete
<1>20. ASSUME EmitInvokeReady
      PROVE  IDInv'
  <2>1. wire' = Append(wire, Frame("invoke_ready", cur, 0)) 
    BY <1>20 DEF EmitInvokeReady, Emit
  <2>2. "invoke_ready" \in FrameKinds \ {"host_call"} /\ cur \in Invocations \cup {None}
    BY DEF IInv, TypeOK, FrameKinds
  <2> QED
    BY <1>20, <2>1, <2>2, <1>0, LifecycleFrame DEF EmitInvokeReady
<1>21. ASSUME NEW i \in Invocations, Invoke(i)
      PROVE  IDInv'
  <2>1. wire' = Append(wire, Frame("invoke", i, 0)) 
    BY <1>21 DEF Invoke
  <2>2. "invoke" \in FrameKinds \ {"host_call"} /\ i \in Invocations \cup {None}
    BY DEF IInv, TypeOK, FrameKinds
  <2> QED
    BY <1>21, <2>1, <2>2, <1>0, LifecycleFrame DEF Invoke
<1>22. ASSUME NEW w \in Writers, StderrWrite(w)
      PROVE  IDInv'
  <2>1. errInv[w] \in Invocations \cup {None} /\ "stderr_chunk" \in FrameKinds \ {"host_call"}
    BY DEF IInv, TypeOK, FrameKinds
  <2>2. CASE UNCHANGED wire
    BY <1>22, <2>2, <1>0 DEF StderrWrite, Calls
  <2>3. CASE wire' = Append(wire, Frame("stderr_chunk", errInv[w], 0))
    BY <1>22, <2>1, <2>3, <1>0, LifecycleFrame DEF StderrWrite
  <2> QED
    BY <1>22, <2>2, <2>3 DEF StderrWrite, Emit
<1> QED
  BY <1>1, <1>2, <1>3, <1>4, <1>5, <1>6, <1>7, <1>8, <1>9, <1>10, <1>11, <1>12, <1>13, <1>14, <1>15, <1>16, <1>17, <1>18, <1>19, <1>20, <1>21, <1>22 DEF Next, ServeStep, Caller, CallerStep, CallStep, Host, HostStep, Stopped, Quiet, Cancel, ScanFrame, ScanFails, HostAnswers, HostRepeats, HostCloses, StopReading, HandlerReturns, HostDrained, StderrDrained, EmitFails, StderrAdmit, Serve

\* AnswerInv: what is read was written about a call on the wire.
LEMMA AnswerInvStep == ASSUME IInv, [Next]_vars PROVE AnswerInv'
<1>1. ASSUME UNCHANGED <<responses, wire, got, pc, at, hid, answered, delivered>>
      PROVE  AnswerInv'
  BY <1>1 DEF IInv, AnswerInv, About, OwnAnswer, Calls, Holding
<1>0. ASSUME UNCHANGED <<responses, got, pc, at, hid, answered, delivered>>, Calls' = Calls,
             \A k \in Calls : wire'[k] = wire[k]
      PROVE  AnswerInv'
  BY <1>0 DEF IInv, AnswerInv, About, OwnAnswer, Holding
<1>2. ASSUME NEW c \in Callers, NEW i \in Invocations, Admit(c, i), Quiet
      PROVE  AnswerInv'
  BY <1>2, HostAssumption DEF Admit, Go, IInv, AnswerInv, About, OwnAnswer, Calls, Holding, CallPCs, TypeOK, Quiet
<1>3. ASSUME NEW c \in Callers, NEW i \in Invocations, PluginAbort(c, i), Quiet
      PROVE  AnswerInv'
  BY <1>3, HostAssumption DEF PluginAbort, Go, IInv, AnswerInv, About, OwnAnswer, Calls, Holding, CallPCs, TypeOK, Quiet
<1>4. ASSUME NEW c \in Callers, TakeExchange(c), Quiet
      PROVE  AnswerInv'
  BY <1>4, HostAssumption DEF TakeExchange, Go, IInv, AnswerInv, About, OwnAnswer, Calls, Holding, CallPCs, TypeOK, Quiet
<1>5. ASSUME NEW c \in Callers, GiveUpQueued(c), Quiet
      PROVE  AnswerInv'
  BY <1>5, HostAssumption DEF GiveUpQueued, Go, IInv, AnswerInv, About, OwnAnswer, Calls, Holding, CallPCs, TypeOK, Quiet
<1>6. ASSUME NEW c \in Callers, AllocateID(c), Quiet
      PROVE  AnswerInv'
  <2>1. CASE nextID = MaxID
    <3>1. pc[c] = "holding" /\ pc' = [pc EXCEPT ![c] = "leaving"] /\ exchange' = 1 /\ UNCHANGED <<writeMu, nextID, hid, responses, wire, got, at, answered, delivered>>
      BY <1>6, <2>1, HostAssumption DEF AllocateID, Release, Go
    <3> QED
      BY <3>1 DEF IInv, AnswerInv, About, OwnAnswer, Calls, Holding, CallPCs, TypeOK
  <2>2. CASE nextID < MaxID /\ expired[inv[c]]
    <3>1. pc[c] = "holding" /\ pc' = [pc EXCEPT ![c] = "leaving"] /\ exchange' = 1 /\ nextID' = nextID + 1 /\ UNCHANGED <<writeMu, hid, responses, wire, got, at, answered, delivered>>
      BY <1>6, <2>2, HostAssumption DEF AllocateID, Release, Go
    <3> QED
      BY <3>1 DEF IInv, AnswerInv, About, OwnAnswer, Calls, Holding, CallPCs, TypeOK
  <2>3. CASE nextID < MaxID /\ ~expired[inv[c]]
    <3>1. pc[c] = "holding" /\ pc' = [pc EXCEPT ![c] = "locked"] /\ writeMu = None /\ writeMu' = c /\ nextID' = nextID + 1
          /\ hid' = [hid EXCEPT ![c] = nextID + 1] /\ UNCHANGED <<exchange, responses, wire, got, at, answered, delivered>>
      BY <1>6, <2>3, HostAssumption DEF AllocateID, Go
    <3> QED
      BY <3>1, HostAssumption DEF IInv, AnswerInv, About, OwnAnswer, Calls, Holding, CallPCs, TypeOK
  <2> QED
    BY <1>6, <2>1, <2>2, <2>3, HostAssumption DEF AllocateID, IInv, TypeOK
<1>7. ASSUME NEW c \in Callers, WriteCall(c), Quiet
      PROVE  AnswerInv'
  <2>1. /\ wire' = Append(wire, Frame("host_call", inv[c], hid[c])) /\ UNCHANGED <<responses, got, hid, answered, delivered>>
        /\ at' = [at EXCEPT ![c] = Len(wire) + 1]
        /\ pc[c] = "locked" /\ pc' = [pc EXCEPT ![c] = "sent"]
    BY <1>7 DEF WriteCall, Go
  <2>2. "host_call" \in FrameKinds /\ inv[c] \in Invocations \cup {None} /\ hid[c] \in Nat /\ wire \in Seq(Frames)
    BY HostAssumption DEF IInv, TypeOK, FrameKinds
  <2>3. /\ Calls' = Calls \cup {Len(wire) + 1} /\ Len(wire) \in Nat /\ wire'[Len(wire) + 1].id = hid[c]
        /\ \A j \in 1..Len(wire) : wire'[j] = wire[j]
    BY <2>1, <2>2, FrameGrows
  <2>4. \A k \in Calls : wire'[k] = wire[k]
    BY <2>2, <2>3, CallsOnWire
  <2>5. \A r : About(r) => About(r)'
    BY <2>3, <2>4 DEF About
  <2> QED
    BY <2>1, <2>3, <2>4, <2>5 DEF IInv, AnswerInv, OwnAnswer, Holding, CallPCs, TypeOK
<1>8. ASSUME NEW c \in Callers, WriteCallFails(c), Quiet
      PROVE  AnswerInv'
  <2>1. /\ pc[c] = "locked" /\ pc' = [pc EXCEPT ![c] = "leaving"]
        /\ UNCHANGED <<responses, wire, got, at, hid, answered, delivered>>
    BY <1>8 DEF WriteCallFails, Release, Go
  <2> QED
    BY <2>1 DEF IInv, AnswerInv, About, OwnAnswer, Calls, Holding, CallPCs, TypeOK
<1>9. ASSUME NEW c \in Callers, StartScan(c), Quiet
      PROVE  AnswerInv'
  BY <1>9, HostAssumption DEF StartScan, Go, IInv, AnswerInv, About, OwnAnswer, Calls, Holding, CallPCs, TypeOK, Quiet
<1>10. ASSUME NEW c \in Callers, ScanFrame(c), Quiet
      PROVE  AnswerInv'
  BY <1>10, HostAssumption DEF ScanFrame, IInv, AnswerInv, About, OwnAnswer, Calls, Holding, CallPCs, TypeOK, Quiet
<1>11. ASSUME NEW c \in Callers, ScanFails(c), Quiet
      PROVE  AnswerInv'
  BY <1>11, HostAssumption DEF ScanFails, IInv, AnswerInv, About, OwnAnswer, Calls, Holding, CallPCs, TypeOK, Quiet
<1>12. ASSUME NEW c \in Callers, Finish(c), Quiet
      PROVE  AnswerInv'
  <2>1. /\ pc[c] = "reading" /\ pc' = [pc EXCEPT ![c] = "leaving"] /\ got' = [got EXCEPT ![c] = None]
        /\ UNCHANGED <<responses, wire, at, hid, answered>>
    BY <1>12 DEF Finish, Release, Go
  <2>2. Calls' = Calls /\ \A r : About(r)' <=> About(r)
    BY <2>1 DEF Calls, About
  <2>3. Correlated(c) => at[c] = got[c].re
    <3>1. at[c] \in Calls /\ wire[at[c]].id = hid[c]
      BY <2>1 DEF IInv, AnswerInv, Holding, CallPCs
    <3>2. Correlated(c) => got[c].re \in Calls /\ wire[got[c].re].id = hid[c]
      BY DEF Correlated, IInv, AnswerInv, About
    <3> QED
      BY <3>1, <3>2, CallIDsInjective
  <2>4. OwnAnswer'
    BY <1>12, <2>3 DEF Finish, OwnAnswer, IInv, AnswerInv
  <2> QED
    BY <2>1, <2>2, <2>4 DEF IInv, AnswerInv, Holding, CallPCs, TypeOK
<1>13. ASSUME NEW c \in Callers, AbortRevoke(c), Quiet
      PROVE  AnswerInv'
  <2>1. CASE Go(c, "sent", "abort_unread")
    BY <1>13, <2>1, HostAssumption DEF AbortRevoke, Go, Quiet, IInv, AnswerInv, About, OwnAnswer, Calls, Holding, CallPCs, TypeOK
  <2>2. CASE Go(c, "reading", "abort_reading")
    BY <1>13, <2>2, HostAssumption DEF AbortRevoke, Go, Quiet, IInv, AnswerInv, About, OwnAnswer, Calls, Holding, CallPCs, TypeOK
  <2> QED
    BY <1>13, <2>1, <2>2 DEF AbortRevoke
<1>14. ASSUME NEW c \in Callers, AbortUnread(c), Quiet
      PROVE  AnswerInv'
  BY <1>14, HostAssumption DEF AbortUnread, Release, Go, PoisonAndClose, IInv, AnswerInv, About, OwnAnswer, Calls, Holding, CallPCs, TypeOK, Quiet
<1>15. ASSUME NEW c \in Callers, AbortReading(c), Quiet
      PROVE  AnswerInv'
  BY <1>15, HostAssumption DEF AbortReading, Go, PoisonAndClose, IInv, AnswerInv, About, OwnAnswer, Calls, Holding, CallPCs, TypeOK, Quiet
<1>16. ASSUME NEW c \in Callers, Drain(c), Quiet
      PROVE  AnswerInv'
  BY <1>16, HostAssumption DEF Drain, Release, Go, IInv, AnswerInv, About, OwnAnswer, Calls, Holding, CallPCs, TypeOK, Quiet
<1>17. ASSUME NEW c \in Callers, Leave(c), Quiet
      PROVE  AnswerInv'
  BY <1>17, HostAssumption DEF Leave, Go, IInv, AnswerInv, About, OwnAnswer, Calls, Holding, CallPCs, TypeOK, Quiet
<1>18. ASSUME NEW c \in Callers, PluginAbortPoison(c), Quiet
      PROVE  AnswerInv'
  BY <1>18, HostAssumption DEF PluginAbortPoison, Go, PoisonAndClose, IInv, AnswerInv, About, OwnAnswer, Calls, Holding, CallPCs, TypeOK, Quiet
<1>19. ASSUME NEW k \in Calls, NEW ok \in BOOLEAN, HostAnswers(k, ok), Quiet
      PROVE  AnswerInv'
  <2>1. /\ responses' = Append(responses, Reply(k, ok)) /\ UNCHANGED <<wire, got, pc, at, hid, delivered>>
        /\ answered' \subseteq Calls
        /\ responses \in Seq(Responses) /\ wire \in Seq(Frames)
    BY <1>19 DEF HostAnswers, IInv, AnswerInv, TypeOK
  <2>2. Reply(k, ok) \in Responses /\ About(Reply(k, ok))
    BY <2>1, ReplyType DEF About, Reply
  <2>3. \A n \in 1..Len(responses') : About(responses'[n])
    <3>1. Len(responses') = Len(responses) + 1 /\ Len(responses) \in Nat
      BY <2>1, <2>2
    <3>2. \A n \in 1..Len(responses) : responses'[n] = responses[n]
      BY <2>1, <2>2
    <3>3. responses'[Len(responses) + 1] = Reply(k, ok)
      BY <2>1, <2>2
    <3> QED
      BY <2>2, <3>1, <3>2, <3>3 DEF IInv, AnswerInv
  <2>4. Calls' = Calls /\ \A r : About(r)' <=> About(r)
    BY <2>1 DEF Calls, About
  <2> QED
    BY <2>1, <2>3, <2>4 DEF IInv, AnswerInv, OwnAnswer, Holding
<1>20. ASSUME NEW k \in Calls, NEW ok \in BOOLEAN, HostRepeats(k, ok), Quiet
      PROVE  AnswerInv'
  <2>1. /\ responses' = Append(responses, Reply(k, ok)) /\ UNCHANGED <<wire, got, pc, at, hid, delivered>>
        /\ answered' \subseteq Calls
        /\ responses \in Seq(Responses) /\ wire \in Seq(Frames)
    BY <1>20 DEF HostRepeats, IInv, AnswerInv, TypeOK
  <2>2. Reply(k, ok) \in Responses /\ About(Reply(k, ok))
    BY <2>1, ReplyType DEF About, Reply
  <2>3. \A n \in 1..Len(responses') : About(responses'[n])
    <3>1. Len(responses') = Len(responses) + 1 /\ Len(responses) \in Nat
      BY <2>1, <2>2
    <3>2. \A n \in 1..Len(responses) : responses'[n] = responses[n]
      BY <2>1, <2>2
    <3>3. responses'[Len(responses) + 1] = Reply(k, ok)
      BY <2>1, <2>2
    <3> QED
      BY <2>2, <3>1, <3>2, <3>3 DEF IInv, AnswerInv
  <2>4. Calls' = Calls /\ \A r : About(r)' <=> About(r)
    BY <2>1 DEF Calls, About
  <2> QED
    BY <2>1, <2>3, <2>4 DEF IInv, AnswerInv, OwnAnswer, Holding
<1>21. ASSUME EmitRuntimeReady
      PROVE  AnswerInv'
  <2>1. wire' = Append(wire, Frame("runtime_ready", None, 0)) 
    BY <1>21 DEF EmitRuntimeReady, Emit
  <2>2. "runtime_ready" \in FrameKinds \ {"host_call"} /\ None \in Invocations \cup {None}
    BY DEF IInv, TypeOK, FrameKinds
  <2> QED
    BY <1>21, <2>1, <2>2, <1>0, LifecycleFrame DEF EmitRuntimeReady
<1>22. ASSUME EmitResult
      PROVE  AnswerInv'
  <2>1. wire' = Append(wire, Frame("invoke_result", cur, 0)) 
    BY <1>22 DEF EmitResult, Emit
  <2>2. "invoke_result" \in FrameKinds \ {"host_call"} /\ cur \in Invocations \cup {None}
    BY DEF IInv, TypeOK, FrameKinds
  <2> QED
    BY <1>22, <2>1, <2>2, <1>0, LifecycleFrame DEF EmitResult
<1>23. ASSUME EmitStderrComplete
      PROVE  AnswerInv'
  <2>1. wire' = Append(wire, Frame("stderr_complete", cur, 0)) 
    BY <1>23 DEF EmitStderrComplete, Emit
  <2>2. "stderr_complete" \in FrameKinds \ {"host_call"} /\ cur \in Invocations \cup {None}
    BY DEF IInv, TypeOK, FrameKinds
  <2> QED
    BY <1>23, <2>1, <2>2, <1>0, LifecycleFrame DEF EmitStderrComplete
<1>24. ASSUME EmitInvokeReady
      PROVE  AnswerInv'
  <2>1. wire' = Append(wire, Frame("invoke_ready", cur, 0)) 
    BY <1>24 DEF EmitInvokeReady, Emit
  <2>2. "invoke_ready" \in FrameKinds \ {"host_call"} /\ cur \in Invocations \cup {None}
    BY DEF IInv, TypeOK, FrameKinds
  <2> QED
    BY <1>24, <2>1, <2>2, <1>0, LifecycleFrame DEF EmitInvokeReady
<1>25. ASSUME NEW i \in Invocations, Invoke(i)
      PROVE  AnswerInv'
  <2>1. wire' = Append(wire, Frame("invoke", i, 0)) 
    BY <1>25 DEF Invoke
  <2>2. "invoke" \in FrameKinds \ {"host_call"} /\ i \in Invocations \cup {None}
    BY DEF IInv, TypeOK, FrameKinds
  <2> QED
    BY <1>25, <2>1, <2>2, <1>0, LifecycleFrame DEF Invoke
<1>26. ASSUME NEW w \in Writers, StderrWrite(w)
      PROVE  AnswerInv'
  <2>1. errInv[w] \in Invocations \cup {None} /\ "stderr_chunk" \in FrameKinds \ {"host_call"}
    BY DEF IInv, TypeOK, FrameKinds
  <2>2. CASE UNCHANGED wire
    BY <1>26, <2>2, <1>0 DEF StderrWrite, Calls
  <2>3. CASE wire' = Append(wire, Frame("stderr_chunk", errInv[w], 0))
    BY <1>26, <2>1, <2>3, <1>0, LifecycleFrame DEF StderrWrite
  <2> QED
    BY <1>26, <2>2, <2>3 DEF StderrWrite, Emit
<1> QED
  BY <1>1, <1>2, <1>3, <1>4, <1>5, <1>6, <1>7, <1>8, <1>9, <1>10, <1>11, <1>12, <1>13, <1>14, <1>15, <1>16, <1>17, <1>18, <1>19, <1>20, <1>21, <1>22, <1>23, <1>24, <1>25, <1>26 DEF Next, ServeStep, Caller, CallerStep, CallStep, Host, HostStep, Stopped, Quiet, Cancel, HostCloses, StopReading, HandlerReturns, HostDrained, StderrDrained, EmitFails, StderrAdmit, Serve

\* AbandonInv: an abandoned call freezes the transport.
LEMMA AbandonInvStep == ASSUME IInv, [Next]_vars PROVE AbandonInv'
<1>1. ASSUME UNCHANGED <<abandoned, cur, expired, serve, poisoned, pc>>
      PROVE  AbandonInv'
  BY <1>1 DEF IInv, AbandonInv
<1>2. ASSUME NEW c \in Callers, NEW i \in Invocations, Admit(c, i), Quiet
      PROVE  AbandonInv'
  BY <1>2, HostAssumption DEF Admit, Go, IInv, AbandonInv, TypeOK, Quiet
<1>3. ASSUME NEW c \in Callers, NEW i \in Invocations, PluginAbort(c, i), Quiet
      PROVE  AbandonInv'
  BY <1>3, HostAssumption DEF PluginAbort, Go, IInv, AbandonInv, TypeOK, Quiet
<1>4. ASSUME NEW c \in Callers, TakeExchange(c), Quiet
      PROVE  AbandonInv'
  BY <1>4, HostAssumption DEF TakeExchange, Go, IInv, AbandonInv, TypeOK, Quiet
<1>5. ASSUME NEW c \in Callers, GiveUpQueued(c), Quiet
      PROVE  AbandonInv'
  BY <1>5, HostAssumption DEF GiveUpQueued, Go, IInv, AbandonInv, TypeOK, Quiet
<1>6. ASSUME NEW c \in Callers, AllocateID(c), Quiet
      PROVE  AbandonInv'
  BY <1>6, HostAssumption DEF AllocateID, Release, Go, IInv, AbandonInv, ActiveInv, LeaseInv, TypeOK, CallPCs, Quiet
<1>7. ASSUME NEW c \in Callers, WriteCall(c), Quiet
      PROVE  AbandonInv'
  BY <1>7, HostAssumption DEF WriteCall, Go, IInv, AbandonInv, TypeOK, Quiet
<1>8. ASSUME NEW c \in Callers, WriteCallFails(c), Quiet
      PROVE  AbandonInv'
  BY <1>8, HostAssumption DEF WriteCallFails, Release, Go, IInv, AbandonInv, TypeOK, Quiet
<1>9. ASSUME NEW c \in Callers, StartScan(c), Quiet
      PROVE  AbandonInv'
  BY <1>9, HostAssumption DEF StartScan, Go, IInv, AbandonInv, TypeOK, Quiet
<1>10. ASSUME NEW c \in Callers, Finish(c), Quiet
      PROVE  AbandonInv'
  BY <1>10, HostAssumption DEF Finish, Release, Go, IInv, AbandonInv, TypeOK, Quiet
<1>11. ASSUME NEW c \in Callers, AbortRevoke(c), Quiet
      PROVE  AbandonInv'
  <2>1. pc[c] \in {"sent", "reading"} /\ inv[c] \in leases /\ pending[inv[c]] # {}
    BY <1>11 DEF AbortRevoke, Go, IInv, ActiveInv, CallPCs
  <2>2. inv[c] = cur /\ serve \in {"handler", "wait_host"} /\ inv[c] \in Invocations
    BY <2>1 DEF IInv, LeaseInv, TypeOK
  <2>3. /\ abandoned' = abandoned \cup {inv[c]} /\ expired' = [expired EXCEPT ![inv[c]] = TRUE]
        /\ pc'[c] \in {"abort_unread", "abort_reading"} /\ UNCHANGED <<cur, serve, poisoned>>
    BY <1>11 DEF AbortRevoke, Go, IInv, TypeOK, Quiet
  <2>4. \A d \in Callers : pc'[d] # "locked"
    <3>1. \A d \in Callers : pc[d] # "locked"
      BY <2>1 DEF IInv, ExchangeInv, Holding, CallPCs
    <3> QED
      BY <1>11, <3>1 DEF AbortRevoke, Go, IInv, TypeOK
  <2>5. \A i \in abandoned' : i = cur' /\ expired'[i] /\ serve' \in {"handler", "wait_host", "wait_stderr", "stopped"}
    BY <2>2, <2>3 DEF IInv, AbandonInv, TypeOK
  <2> QED
    BY <2>3, <2>4, <2>5 DEF AbandonInv
<1>12. ASSUME NEW c \in Callers, AbortUnread(c), Quiet
      PROVE  AbandonInv'
  BY <1>12, HostAssumption DEF AbortUnread, Release, Go, PoisonAndClose, IInv, AbandonInv, TypeOK, Quiet
<1>13. ASSUME NEW c \in Callers, AbortReading(c), Quiet
      PROVE  AbandonInv'
  BY <1>13, HostAssumption DEF AbortReading, Go, PoisonAndClose, IInv, AbandonInv, TypeOK, Quiet
<1>14. ASSUME NEW c \in Callers, Drain(c), Quiet
      PROVE  AbandonInv'
  BY <1>14, HostAssumption DEF Drain, Release, Go, IInv, AbandonInv, TypeOK, Quiet
<1>15. ASSUME NEW c \in Callers, Leave(c), Quiet
      PROVE  AbandonInv'
  BY <1>15, HostAssumption DEF Leave, Go, IInv, AbandonInv, TypeOK, Quiet
<1>16. ASSUME NEW c \in Callers, PluginAbortPoison(c), Quiet
      PROVE  AbandonInv'
  BY <1>16, HostAssumption DEF PluginAbortPoison, Go, PoisonAndClose, IInv, AbandonInv, TypeOK, Quiet
<1>17. ASSUME EmitRuntimeReady
      PROVE  AbandonInv'
  BY <1>17, HostAssumption DEF EmitRuntimeReady, Serve, Emit, IInv, AbandonInv, TypeOK
<1>18. ASSUME StopReading
      PROVE  AbandonInv'
  BY <1>18, HostAssumption DEF StopReading, Serve, IInv, AbandonInv, TypeOK
<1>19. ASSUME HandlerReturns
      PROVE  AbandonInv'
  BY <1>19, HostAssumption DEF HandlerReturns, Serve, IInv, AbandonInv, TypeOK
<1>20. ASSUME HostDrained
      PROVE  AbandonInv'
  BY <1>20, HostAssumption DEF HostDrained, Serve, IInv, AbandonInv, TypeOK
<1>21. ASSUME StderrDrained
      PROVE  AbandonInv'
  BY <1>21, HostAssumption DEF StderrDrained, IInv, AbandonInv, ActiveInv, LeaseInv, TypeOK, CallPCs
<1>22. ASSUME EmitResult
      PROVE  AbandonInv'
  BY <1>22, HostAssumption DEF EmitResult, Serve, Emit, IInv, AbandonInv, TypeOK
<1>23. ASSUME EmitStderrComplete
      PROVE  AbandonInv'
  BY <1>23, HostAssumption DEF EmitStderrComplete, Serve, Emit, IInv, AbandonInv, TypeOK
<1>24. ASSUME EmitInvokeReady
      PROVE  AbandonInv'
  BY <1>24, HostAssumption DEF EmitInvokeReady, Serve, Emit, IInv, AbandonInv, TypeOK
<1>25. ASSUME EmitFails
      PROVE  AbandonInv'
  BY <1>25, HostAssumption DEF EmitFails, IInv, AbandonInv, TypeOK
<1>26. ASSUME NEW i \in Invocations, Invoke(i)
      PROVE  AbandonInv'
  BY <1>26, HostAssumption DEF Invoke, Serve, IInv, AbandonInv, TypeOK
<1> QED
  BY <1>1, <1>2, <1>3, <1>4, <1>5, <1>6, <1>7, <1>8, <1>9, <1>10, <1>11, <1>12, <1>13, <1>14, <1>15, <1>16, <1>17, <1>18, <1>19, <1>20, <1>21, <1>22, <1>23, <1>24, <1>25, <1>26 DEF Next, ServeStep, Caller, CallerStep, CallStep, Host, HostStep, Stopped, Quiet, Cancel, ScanFrame, ScanFails, HostAnswers, HostRepeats, HostCloses, StderrAdmit, StderrWrite

\* SafetyInv: a frame that may no longer appear does not.
LEMMA AppendSafe ==
  ASSUME IInv, NEW k \in FrameKinds, NEW i \in Invocations \cup {None}, NEW n \in Nat,
         wire' = Append(wire, Frame(k, i, n)), UNCHANGED abandoned,
         k \in {"host_call", "stderr_chunk"} =>
           \A j \in 1..Len(wire) : wire[j].kind = "invoke_result" => wire[j].inv # i,
         k \in TerminalKinds => i \notin abandoned
  PROVE  SafetyInv'
<1>1. /\ Len(wire') = Len(wire) + 1 /\ Len(wire) \in Nat
      /\ \A j \in 1..Len(wire) : wire'[j] = wire[j]
      /\ wire'[Len(wire) + 1].kind = k /\ wire'[Len(wire) + 1].inv = i
  BY FrameGrows DEF IInv, TypeOK
<1>2. NoLateFrames'
  BY <1>1 DEF IInv, SafetyInv, NoLateFrames
<1>3. AbandonedNeverCompletes'
  BY <1>1 DEF IInv, SafetyInv, AbandonedNeverCompletes, TerminalKinds
<1> QED
  BY <1>2, <1>3 DEF SafetyInv

\* Every step keeps the safety invariants.
LEMMA SafetyInvStep == ASSUME IInv, [Next]_vars PROVE SafetyInv'
<1>1. ASSUME UNCHANGED <<wire, abandoned>>
      PROVE  SafetyInv'
  BY <1>1 DEF IInv, SafetyInv, NoLateFrames, AbandonedNeverCompletes
<1>2. \A j \in 1..Len(wire) : wire[j].kind = "invoke_result" /\ wire[j].inv = cur =>
        serve \notin {"handler", "wait_host", "wait_stderr"}
  BY DEF IInv, ResultInv, TerminalKinds
<1>3. cur \in Invocations \cup {None} /\ 0 \in Nat
  BY DEF IInv, TypeOK
<1>4. ASSUME NEW c \in Callers, WriteCall(c), Quiet
      PROVE  SafetyInv'
  <2>1. wire' = Append(wire, Frame("host_call", inv[c], hid[c])) /\ pc[c] = "locked" /\ UNCHANGED abandoned
    BY <1>4 DEF WriteCall, Go
  <2>2. inv[c] = cur /\ serve \in {"handler", "wait_host"}
    BY <2>1, ActiveIsCurrent DEF CallPCs
  <2>3. "host_call" \in FrameKinds \ TerminalKinds /\ hid[c] \in Nat
    BY HostAssumption DEF IInv, TypeOK, FrameKinds, TerminalKinds
  <2> QED
    BY <1>2, <1>3, <2>1, <2>2, <2>3, AppendSafe
<1>5. ASSUME NEW c \in Callers, AbortRevoke(c), Quiet
      PROVE  SafetyInv'
  <2>1. abandoned' = abandoned \cup {inv[c]} /\ UNCHANGED wire /\ pc[c] \in CallPCs
    BY <1>5 DEF AbortRevoke, Go, CallPCs
  <2>2. inv[c] = cur /\ serve \in {"handler", "wait_host"}
    BY <2>1, ActiveIsCurrent
  <2> QED
    BY <2>1, <2>2 DEF IInv, SafetyInv, NoLateFrames, AbandonedNeverCompletes, ResultInv, TerminalKinds
<1>6. ASSUME EmitRuntimeReady
      PROVE  SafetyInv'
  <2>1. wire' = Append(wire, Frame("runtime_ready", None, 0)) /\ UNCHANGED abandoned
    BY <1>6 DEF EmitRuntimeReady, Emit
  <2>2. "runtime_ready" \in FrameKinds \ (TerminalKinds \cup {"host_call", "stderr_chunk"})
    BY DEF FrameKinds, TerminalKinds
  <2> QED
    BY <1>3, <2>1, <2>2, AppendSafe
<1>7. ASSUME NEW i \in Invocations, Invoke(i)
      PROVE  SafetyInv'
  <2>1. wire' = Append(wire, Frame("invoke", i, 0)) /\ UNCHANGED abandoned
    BY <1>7 DEF Invoke
  <2>2. "invoke" \in FrameKinds \ (TerminalKinds \cup {"host_call", "stderr_chunk"})
    BY DEF FrameKinds, TerminalKinds
  <2> QED
    BY <1>3, <2>1, <2>2, AppendSafe
<1>8. ASSUME EmitResult \/ EmitStderrComplete \/ EmitInvokeReady
      PROVE  SafetyInv'
  <2>1. PICK k \in TerminalKinds : wire' = Append(wire, Frame(k, cur, 0))
    BY <1>8 DEF EmitResult, EmitStderrComplete, EmitInvokeReady, Emit, TerminalKinds
  <2>2. k \in FrameKinds \ {"host_call", "stderr_chunk"}
    BY DEF FrameKinds, TerminalKinds
  <2>3. UNCHANGED abandoned /\ cur \notin abandoned
    BY <1>8 DEF EmitResult, EmitStderrComplete, EmitInvokeReady, Serve, IInv, AbandonInv
  <2> QED
    BY <1>3, <2>1, <2>2, <2>3, AppendSafe
<1>9. ASSUME NEW w \in Writers, StderrWrite(w)
      PROVE  SafetyInv'
  <2>1. UNCHANGED abandoned
    BY <1>9 DEF StderrWrite
  <2>2. CASE UNCHANGED wire
    BY <1>1, <2>1, <2>2
  <2>3. CASE wire' = Append(wire, Frame("stderr_chunk", errInv[w], 0))
    <3>1. errInv[w] = cur /\ serve \in {"handler", "wait_host", "wait_stderr"}
      BY <1>9, WritingIsCurrent DEF StderrWrite
    <3>2. "stderr_chunk" \in FrameKinds \ TerminalKinds
      BY DEF FrameKinds, TerminalKinds
    <3> QED
      BY <1>2, <1>3, <2>1, <2>3, <3>1, <3>2, AppendSafe
  <2> QED
    BY <1>9, <2>2, <2>3 DEF StderrWrite, Emit
<1> QED
  BY <1>1, <1>4, <1>5, <1>6, <1>7, <1>8, <1>9
  DEF Next, ServeStep, Caller, CallerStep, CallStep, Host, HostStep, Stopped, Quiet, Admit, PluginAbort,
      Cancel, TakeExchange, GiveUpQueued, AllocateID, WriteCallFails, StartScan, ScanFrame, ScanFails,
      Finish, AbortUnread, AbortReading, Drain, Leave, PluginAbortPoison, HostAnswers, HostRepeats,
      HostCloses, StopReading, HandlerReturns, HostDrained, StderrDrained, EmitFails, StderrAdmit

\* The conjunction is inductive.
LEMMA IInvStep == ASSUME IInv, [Next]_vars PROVE IInv'
BY TypeOKStep, ActiveInvStep, CurInvStep, LeaseInvStep, ResultInvStep, ExchangeInvStep,
   IDInvStep, AnswerInvStep, AbandonInvStep, SafetyInvStep DEF IInv

\* The invariant holds of every behaviour.
LEMMA Inductive == Spec => []IInv
BY InitIInv, IInvStep, PTL DEF Spec

-----------------------------------------------------------------------------
(***************************************************************************)
(* Every variable stays in its set, in every behaviour of the worker.      *)
(***************************************************************************)
THEOREM TypeCorrect == Spec => []TypeOK
<1>1. IInv => TypeOK
  BY DEF IInv
<1> QED
  BY <1>1, Inductive, PTL

(***************************************************************************)
(* No host_call or stderr_chunk of an invocation follows its               *)
(* invoke_result, for any number of goroutines and invocations.            *)
(***************************************************************************)
THEOREM LateFramesImpossible == Spec => []NoLateFrames
<1>1. IInv => NoLateFrames
  BY DEF IInv, SafetyInv
<1> QED
  BY <1>1, Inductive, PTL

(***************************************************************************)
(* At most one goroutine is inside the shared scanner's Scan.              *)
(***************************************************************************)
THEOREM ReaderIsExclusive == Spec => []SingleReader
<1>1. IInv => SingleReader
  BY DEF IInv, ExchangeInv, SingleReader, Holding, CallPCs
<1> QED
  BY <1>1, Inductive, PTL

(***************************************************************************)
(* A successful Call returns the host's answer to that very call.          *)
(***************************************************************************)
THEOREM AnswersAreOwn == Spec => []OwnAnswer
<1>1. IInv => OwnAnswer
  BY DEF IInv, AnswerInv
<1> QED
  BY <1>1, Inductive, PTL

(***************************************************************************)
(* No call id is used twice on one transport, up to the largest one, which *)
(* is not wrapped around (hostTransport.nextID).                           *)
(***************************************************************************)
THEOREM CallIDsNeverReused == Spec => []CallIDsIncrease
<1>1. IInv => CallIDsIncrease
  BY DEF IInv, IDInv
<1> QED
  BY <1>1, Inductive, PTL

(***************************************************************************)
(* A cancelled call that was already written gets its invocation no        *)
(* terminal frame.                                                         *)
(***************************************************************************)
THEOREM AbandonedInvocations == Spec => []AbandonedNeverCompletes
<1>1. IInv => AbandonedNeverCompletes
  BY DEF IInv, SafetyInv
<1> QED
  BY <1>1, Inductive, PTL
(***************************************************************************)
(* Once a written call has been given up, no step writes a host_call.      *)
(***************************************************************************)
THEOREM AbandonedIsLastCall == Spec => NoCallAfterAbandoned
<1> DEFINE A == abandoned # {} /\ wire' # wire => wire'[Len(wire')].kind # "host_call"
<1>1. ASSUME IInv, Next
      PROVE  A
  <2>1. ASSUME NEW k \in FrameKinds \ {"host_call"}, NEW i \in Invocations \cup {None},
               wire' = Append(wire, Frame(k, i, 0))
        PROVE  A
    <3>1. wire \in Seq(Frames) /\ 0 \in Nat /\ k \in FrameKinds
      BY <1>1 DEF IInv, TypeOK
    <3>2. Len(wire') = Len(wire) + 1 /\ wire'[Len(wire) + 1].kind = k
      BY <2>1, <3>1, FrameGrows
    <3> QED
      BY <3>2
  <2>2. cur \in Invocations \cup {None} /\ \A w \in Writers : errInv[w] \in Invocations \cup {None}
    BY <1>1 DEF IInv, TypeOK
  <2>3. CASE EmitRuntimeReady \/ EmitResult \/ EmitStderrComplete \/ EmitInvokeReady
    <3>1. PICK k \in FrameKinds \ {"host_call"}, i \in Invocations \cup {None} : wire' = Append(wire, Frame(k, i, 0))
      BY <2>2, <2>3 DEF EmitRuntimeReady, EmitResult, EmitStderrComplete, EmitInvokeReady, Emit, FrameKinds
    <3> QED
      BY <2>1, <3>1
  <2>4. ASSUME NEW i \in Invocations, Invoke(i)
        PROVE  A
    BY <2>1, <2>4 DEF Invoke, FrameKinds
  <2>5. ASSUME NEW w \in Writers, StderrWrite(w)
        PROVE  A
    BY <2>1, <2>2, <2>5 DEF StderrWrite, Emit, FrameKinds
  <2>6. ASSUME NEW c \in Callers, WriteCall(c)
        PROVE  A
    BY <1>1, <2>6 DEF WriteCall, Go, IInv, AbandonInv
  <2>7. ASSUME UNCHANGED wire
        PROVE  A
    BY <2>7
  <2> QED
    BY <1>1, <2>3, <2>4, <2>5, <2>6, <2>7
    DEF Next, ServeStep, Caller, CallerStep, CallStep, Host, HostStep, Stopped, Admit, PluginAbort,
        Cancel, TakeExchange, GiveUpQueued, AllocateID, WriteCallFails, StartScan, ScanFrame, ScanFails,
        Finish, AbortRevoke, AbortUnread, AbortReading, Drain, Leave, PluginAbortPoison, HostAnswers,
        HostRepeats, HostCloses, StopReading, HandlerReturns, HostDrained, StderrDrained, EmitFails, StderrAdmit
<1>2. IInv /\ [Next]_vars => [A]_vars
  BY <1>1
<1> QED
  BY <1>2, Inductive, PTL DEF Spec, NoCallAfterAbandoned

-----------------------------------------------------------------------------
(***************************************************************************)
(* Refinement of V2Stream.                                                 *)
(***************************************************************************)
LEMMA StreamGrows ==
  ASSUME IInv, NEW k \in FrameKinds, NEW i \in Invocations \cup {None}, NEW n \in Nat,
         wire' = Append(wire, Frame(k, i, n))
  PROVE  StreamLast' = <<StreamLast[1] + 1, k, i>>
<1>1. /\ wire \in Seq(Frames) /\ wire' \in Seq(Frames)
      /\ Len(wire') = Len(wire) + 1 /\ Len(wire) \in Nat
      /\ wire'[Len(wire) + 1].kind = k /\ wire'[Len(wire) + 1].inv = i
  BY FrameGrows DEF IInv, TypeOK
<1>2. wire' # <<>> /\ (wire = <<>> => Len(wire) = 0)
  BY <1>1
<1>3. StreamLast[1] = Len(wire)
  BY <1>1, <1>2 DEF StreamLast
<1> QED
  BY <1>1, <1>2, <1>3 DEF StreamLast

(***************************************************************************)
(* The worker's stream implements the lifecycle the host validates: every  *)
(* step of the worker is a step of V2Stream or leaves it unchanged.        *)
(***************************************************************************)
THEOREM StreamRefinement == Spec => StreamImplemented
<1>1. Init => Stream!Init
  BY DEF Init, ClientInit, Stream!Init, StreamState, StreamLast
<1>2. ASSUME IInv, [Next]_vars
      PROVE  [Stream!Next]_(Stream!vars)
  <2> USE DEF Stream!vars
  <2>1. ASSUME UNCHANGED <<serve, cur, wire>>
        PROVE  [Stream!Next]_(Stream!vars)
    BY <2>1 DEF StreamState, StreamLast
  <2>2. ASSUME NEW k \in Stream!Kinds, NEW i \in Invocations, NEW n \in Nat,
               wire' = Append(wire, Frame(k, i, n)),
               Stream!Accept(k, i) \/ Stream!HostCall(k, i)
        PROVE  [Stream!Next]_(Stream!vars)
    <3>1. StreamLast' = <<StreamLast[1] + 1, k, i>>
      BY <1>2, <2>2, StreamGrows DEF Stream!Kinds, FrameKinds
    <3> QED
      BY <2>2, <3>1 DEF Stream!Next, Stream!Frame
  <2>3. ASSUME UNCHANGED <<wire, cur>>, serve' = "stopped"
        PROVE  [Stream!Next]_(Stream!vars)
    BY <2>3 DEF Stream!Next, Stream!Stop, StreamState, StreamLast
  <2>4. ASSUME NEW c \in Callers, WriteCall(c), Quiet
        PROVE  [Stream!Next]_(Stream!vars)
    <3>1. wire' = Append(wire, Frame("host_call", inv[c], hid[c])) /\ pc[c] \in CallPCs
      BY <2>4 DEF WriteCall, Go, CallPCs
    <3>2. inv[c] = cur /\ serve \in {"handler", "wait_host"} /\ cur \in Invocations /\ hid[c] \in Nat
      BY <1>2, <3>1, ActiveIsCurrent, HostAssumption DEF IInv, TypeOK
    <3>3. Stream!HostCall("host_call", inv[c])
      BY <2>4, <3>2 DEF Stream!HostCall, StreamState, Quiet
    <3> QED
      BY <2>2, <3>1, <3>2, <3>3 DEF Stream!Kinds
  <2>5. ASSUME NEW w \in Writers, StderrWrite(w)
        PROVE  [Stream!Next]_(Stream!vars)
    <3>1. errInv[w] = cur /\ serve \in {"handler", "wait_host", "wait_stderr"}
      BY <1>2, <2>5, WritingIsCurrent DEF StderrWrite
    <3>2. errInv[w] \in Invocations /\ 0 \in Nat
      BY <1>2, <2>5 DEF StderrWrite, IInv, TypeOK
    <3>3. UNCHANGED <<serve, cur>>
      BY <2>5 DEF StderrWrite
    <3>4. CASE wire' = Append(wire, Frame("stderr_chunk", errInv[w], 0))
      <4>1. Stream!Accept("stderr_chunk", errInv[w])
        BY <3>1, <3>3 DEF Stream!Accept, StreamState
      <4> QED
        BY <2>2, <3>2, <3>4, <4>1 DEF Stream!Kinds
    <3>5. CASE UNCHANGED wire
      BY <2>1, <3>3, <3>5
    <3> QED
      BY <2>5, <3>4, <3>5 DEF StderrWrite, Emit
  <2>6. CASE EmitRuntimeReady
    <3>1. StreamLast' = <<StreamLast[1] + 1, "runtime_ready", None>>
      BY <1>2, <2>6, StreamGrows DEF EmitRuntimeReady, Emit, FrameKinds
    <3> QED
      BY <2>6, <3>1 DEF EmitRuntimeReady, Serve, Stream!Next, Stream!RuntimeReady, StreamState
  <2>7. ASSUME NEW i \in Invocations, Invoke(i)
        PROVE  [Stream!Next]_(Stream!vars)
    <3>1. Stream!Accept("invoke", i)
      BY <2>7 DEF Invoke, Serve, Stream!Accept, StreamState
    <3> QED
      BY <2>2, <2>7, <3>1 DEF Invoke, Stream!Kinds
  <2>8. CASE EmitResult
    <3>1. cur \in Invocations
      BY <1>2, <2>8 DEF EmitResult, Serve, IInv, CurInv, TypeOK
    <3>2. Stream!Accept("invoke_result", cur)
      BY <2>8 DEF EmitResult, Serve, Stream!Accept, StreamState
    <3> QED
      BY <2>2, <2>8, <3>1, <3>2 DEF EmitResult, Emit, Stream!Kinds
  <2>9. CASE EmitStderrComplete
    <3>1. cur \in Invocations
      BY <1>2, <2>9 DEF EmitStderrComplete, Serve, IInv, CurInv, TypeOK
    <3>2. Stream!Accept("stderr_complete", cur)
      BY <2>9 DEF EmitStderrComplete, Serve, Stream!Accept, StreamState
    <3> QED
      BY <2>2, <2>9, <3>1, <3>2 DEF EmitStderrComplete, Emit, Stream!Kinds
  <2>10. CASE EmitInvokeReady
    <3>1. cur \in Invocations
      BY <1>2, <2>10 DEF EmitInvokeReady, Serve, IInv, CurInv, TypeOK
    <3>2. Stream!Accept("invoke_ready", cur)
      BY <2>10 DEF EmitInvokeReady, Serve, Stream!Accept, StreamState
    <3> QED
      BY <2>2, <2>10, <3>1, <3>2 DEF EmitInvokeReady, Emit, Stream!Kinds
  <2>11. CASE HandlerReturns \/ HostDrained
    BY <2>11 DEF HandlerReturns, HostDrained, Serve, StreamState, StreamLast
  <2>12. CASE StderrDrained
    <3>1. CASE serve' = "result"
      BY <2>12, <3>1 DEF StderrDrained, StreamState, StreamLast
    <3> QED
      BY <2>3, <2>12, <3>1 DEF StderrDrained
  <2>13. CASE StopReading \/ EmitFails
    BY <2>3, <2>13 DEF StopReading, EmitFails, Serve
  <2> QED
    BY <1>2, <2>1, <2>4, <2>5, <2>6, <2>7, <2>8, <2>9, <2>10, <2>11, <2>12, <2>13
    DEF Next, ServeStep, Caller, CallerStep, CallStep, Host, HostStep, Stopped, Quiet, Admit, PluginAbort,
        Cancel, TakeExchange, GiveUpQueued, AllocateID, WriteCallFails, StartScan, ScanFrame, ScanFails,
        Finish, AbortRevoke, AbortUnread, AbortReading, Drain, Leave, PluginAbortPoison, HostAnswers,
        HostRepeats, HostCloses, StderrAdmit
<1> QED
  BY <1>1, <1>2, Inductive, PTL DEF Spec, StreamImplemented, Stream!Spec
=============================================================================
