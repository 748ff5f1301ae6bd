------------------------------ MODULE V2Runtime ------------------------------
(***************************************************************************)
(* Runtime.ServeV2 (plugin/runtime.go): one pooled worker that reads       *)
(* invoke frames, runs a handler for each, revokes what the handler was    *)
(* lent, and emits the terminal frames, while goroutines the handlers left *)
(* behind go on making host calls (HostClient) and writing diagnostics     *)
(* (invocationStderr).                                                     *)
(*                                                                         *)
(* ServeV2 feeds its own V2Session with the three terminal kinds before it *)
(* emits any of them, so that session is "ready" whenever the next invoke  *)
(* is read and its Accept calls have no failing branch here; what crosses  *)
(* the pipe is what V2Stream describes.                                    *)
(***************************************************************************)
EXTENDS HostClient

CONSTANTS
  Writers,        \* goroutines that write to InvocationStderr
  MaxInvocations, \* 256 in the code: invoke frames one worker accepts
  MaxChunks       \* bound: stderr_chunk frames in a behaviour

ASSUME RuntimeAssumption ==
  /\ None \notin Writers
  /\ MaxInvocations \in Nat
  /\ MaxChunks \in Nat

VARIABLES
  serve,      \* where ServeV2 is
  cur,        \* frame.InvocationID of the loop iteration
  errExpired, \* invocationStderr.expired of each invocation
  errPending, \* invocationStderr.pending: the writers the WaitGroup counts
  errInv,     \* the stream each writer writes to, None outside Write
  chunks      \* stderr_chunk writes admitted so far

diagVars == <<errExpired, errPending, errInv, chunks>>
vars == <<clientVars, serve, cur, diagVars>>

Init ==
  /\ ClientInit
  /\ serve = "start" /\ cur = None
  /\ errExpired = [i \in Invocations |-> FALSE]
  /\ errPending = [i \in Invocations |-> {}]
  /\ errInv = [w \in Writers |-> None]
  /\ chunks = 0

-----------------------------------------------------------------------------
(***************************************************************************)
(* emitV2: a frame is written in one piece while nobody holds writeMu.     *)
(***************************************************************************)
Emit(kind, i) ==
  /\ writeMu = None
  /\ wire' = Append(wire, Frame(kind, i, 0))

Serve(from, to) == serve = from /\ serve' = to

\* All of the client's state but the frames on the wire and the leases.
keptByServe == <<pending, transportVars, streamVars, pc, callVars, history>>

EmitRuntimeReady ==
  /\ Serve("start", "scan")
  /\ Emit("runtime_ready", None)
  /\ UNCHANGED <<leases, expired, keptByServe, cur, diagVars>>

\* Mutant of Invoke: every invocation gets a transport of its own.
InvokeNewTransport(i) ==
  /\ Serve("scan", "handler")
  /\ i \notin leases /\ Cardinality(leases) < MaxInvocations
  /\ leases' = leases \cup {i}
  /\ cur' = i
  /\ wire' = Append(wire, Frame("invoke", i, 0))
  /\ nextID' = 0
  /\ UNCHANGED <<expired, pending, exchange, writeMu, poisoned, streamVars, pc, callVars, history, diagVars>>

\* A valid invoke frame with a fresh id, below the invocation limit; the
\* invocation gets its own client and diagnostics stream.
Invoke(i) ==
  /\ Serve("scan", "handler")
  /\ i \notin leases /\ Cardinality(leases) < MaxInvocations
  /\ leases' = leases \cup {i}
  /\ cur' = i
  /\ wire' = Append(wire, Frame("invoke", i, 0))
  /\ UNCHANGED <<expired, keptByServe, diagVars>>

\* End of input, a cancelled context, an invalid frame, a repeated id or one
\* invocation too many: ServeV2 returns.
StopReading ==
  /\ Serve("scan", "stopped")
  /\ UNCHANGED <<clientVars, cur, diagVars>>

\* The handler returns and invHost.Expire() revokes the lease ...
HandlerReturns ==
  /\ Serve("handler", "wait_host")
  /\ expired' = [expired EXCEPT ![cur] = TRUE]
  /\ UNCHANGED <<leases, wire, keptByServe, cur, diagVars>>

\* Mutant of HostDrained: Expire does not wait.
HostNotDrained ==
  /\ Serve("wait_host", "wait_stderr")
  /\ errExpired' = [errExpired EXCEPT ![cur] = TRUE]
  /\ UNCHANGED <<clientVars, cur, errPending, errInv, chunks>>

\* ... waits for the admitted calls; then diagnostics.Expire() revokes ...
HostDrained ==
  /\ Serve("wait_host", "wait_stderr")
  /\ pending[cur] = {}
  /\ errExpired' = [errExpired EXCEPT ![cur] = TRUE]
  /\ UNCHANGED <<clientVars, cur, errPending, errInv, chunks>>

\* Mutants of StderrDrained: the result is emitted on a poisoned transport ...
StderrDrainedPoisoned ==
  /\ Serve("wait_stderr", "result")
  /\ errPending[cur] = {}
  /\ UNCHANGED <<clientVars, cur, diagVars>>

\* ... or before the admitted writes are over.
StderrNotDrained ==
  /\ serve = "wait_stderr"
  /\ \/ poisoned /\ serve' = "stopped"
     \/ ~poisoned /\ serve' = "result"
  /\ UNCHANGED <<clientVars, cur, diagVars>>

\* ... and waits for the admitted writes; a poisoned transport ends ServeV2.
StderrDrained ==
  /\ serve = "wait_stderr"
  /\ errPending[cur] = {}
  /\ \/ poisoned /\ serve' = "stopped"
     \/ ~poisoned /\ serve' = "result"
  /\ UNCHANGED <<clientVars, cur, diagVars>>

EmitResult ==
  /\ Serve("result", "complete")
  /\ Emit("invoke_result", cur)
  /\ UNCHANGED <<leases, expired, keptByServe, cur, diagVars>>

EmitStderrComplete ==
  /\ Serve("complete", "ready")
  /\ Emit("stderr_complete", cur)
  /\ UNCHANGED <<leases, expired, keptByServe, cur, diagVars>>

EmitInvokeReady ==
  /\ Serve("ready", "scan")
  /\ Emit("invoke_ready", cur)
  /\ cur' = None
  /\ UNCHANGED <<leases, expired, keptByServe, diagVars>>

\* The response cannot be encoded or the write fails: ServeV2 returns.
EmitFails ==
  /\ serve \in {"start", "result", "complete", "ready"} /\ writeMu = None
  /\ serve' = "stopped"
  /\ UNCHANGED <<clientVars, cur, diagVars>>

ServeStep ==
  \/ EmitRuntimeReady \/ StopReading \/ HostDrained \/ StderrDrained
  \/ EmitResult \/ EmitStderrComplete \/ EmitInvokeReady \/ EmitFails

-----------------------------------------------------------------------------
(***************************************************************************)
(* invocationStderr.Write.                                                 *)
(***************************************************************************)
StderrAdmit(w, i) ==
  /\ errInv[w] = None
  /\ i \in leases /\ ~errExpired[i] /\ chunks < MaxChunks
  /\ errInv' = [errInv EXCEPT ![w] = i]
  /\ errPending' = [errPending EXCEPT ![i] = @ \cup {w}]
  /\ chunks' = chunks + 1
  /\ UNCHANGED <<clientVars, serve, cur, errExpired>>

\* The chunk is emitted, or its write fails; then pending.Done().
StderrWrite(w) ==
  /\ errInv[w] # None
  /\ Emit("stderr_chunk", errInv[w]) \/ (writeMu = None /\ UNCHANGED wire)
  /\ errPending' = [errPending EXCEPT ![errInv[w]] = @ \ {w}]
  /\ errInv' = [errInv EXCEPT ![w] = None]
  /\ UNCHANGED <<leases, expired, keptByServe, serve, cur, errExpired, chunks>>

-----------------------------------------------------------------------------
Caller(c) == CallerStep(c) /\ UNCHANGED <<serve, cur, diagVars>>
Host == HostStep /\ UNCHANGED <<serve, cur, diagVars>>

\* A worker that has stopped and whose goroutines have all returned.
Stopped ==
  /\ serve = "stopped"
  /\ \A c \in Callers : pc[c] = "idle"
  /\ \A w \in Writers : errInv[w] = None
  /\ UNCHANGED vars

Next ==
  \/ ServeStep
  \/ HandlerReturns
  \/ \E i \in Invocations : Invoke(i)
  \/ \E w \in Writers : StderrWrite(w) \/ \E i \in Invocations : StderrAdmit(w, i)
  \/ \E c \in Callers : Caller(c)
  \/ Host
  \/ Stopped

Spec == Init /\ [][Next]_vars

\* Goroutines that can run do run; handlers, contexts and the host need not.
FairSpec ==
  /\ Spec
  /\ WF_vars(ServeStep)
  /\ \A w \in Writers : WF_vars(StderrWrite(w))
  /\ \A c \in Callers : WF_vars(CallStep(c) /\ UNCHANGED <<serve, cur, diagVars>>)

\* What a host does that answers every call it was sent.
HostIsFair ==
  WF_vars((\E k \in Calls, ok \in BOOLEAN : HostAnswers(k, ok)) /\ UNCHANGED <<serve, cur, diagVars>>)

-----------------------------------------------------------------------------
CallPCs == {"admitted", "holding", "locked", "sent", "reading", "abort_unread",
            "abort_reading", "draining", "leaving"}

\* The type invariant of the worker; the call ids stay within their bound.
TypeOK ==
  /\ leases \subseteq Invocations
  /\ expired \in [Invocations -> BOOLEAN]
  /\ pending \in [Invocations -> SUBSET Callers]
  /\ exchange \in {0, 1}
  /\ writeMu \in Callers \cup {None}
  /\ nextID \in 0..MaxID
  /\ poisoned \in BOOLEAN
  /\ wire \in Seq(Frames)
  /\ responses \in Seq(Responses)
  /\ rx \in {"open", "eof", "closed"}
  /\ answered \subseteq Nat
  /\ strays \in 0..MaxStray
  /\ pc \in [Callers -> CallPCs \cup {"idle", "abort"}]
  /\ inv \in [Callers -> Invocations \cup {None}]
  /\ done \in [Callers -> BOOLEAN]
  /\ hid \in [Callers -> 0..MaxID]
  /\ at \in [Callers -> Nat]
  /\ scan \in [Callers -> {"none", "running", "sent"}]
  /\ got \in [Callers -> Responses \cup {None}]
  /\ delivered \subseteq Nat \X Nat
  /\ abandoned \subseteq Invocations
  /\ serve \in {"start", "scan", "handler", "wait_host", "wait_stderr",
               "result", "complete", "ready", "stopped"}
  /\ cur \in Invocations \cup {None}
  /\ errExpired \in [Invocations -> BOOLEAN]
  /\ errPending \in [Invocations -> SUBSET Writers]
  /\ errInv \in [Writers -> Invocations \cup {None}]
  /\ chunks \in 0..MaxChunks

(***************************************************************************)
(* After an invocation's invoke_result, the pipe carries no host_call and  *)
(* no stderr_chunk of that invocation, whatever its goroutines still do:   *)
(* Expire waits out every admitted call and write before the result is     *)
(* emitted (NewInvocationHostClient: "late plugin calls cannot reach the   *)
(* host").                                                                 *)
(***************************************************************************)
NoLateFrames ==
  \A j, k \in 1..Len(wire) :
    /\ j < k
    /\ wire[j].kind = "invoke_result"
    /\ wire[k].kind \in {"host_call", "stderr_chunk"}
    => wire[k].inv # wire[j].inv

(***************************************************************************)
(* Call ids are never reused on one transport, across invocations too, and *)
(* do not wrap around when they are exhausted, so an answer names one call *)
(* (hostTransport.nextID).                                                 *)
(***************************************************************************)
CallIDsIncrease ==
  \A j, k \in Calls : wire[j].id \in 1..MaxID /\ (j < k => wire[j].id < wire[k].id)

(***************************************************************************)
(* A Call that succeeds returns the host's answer to that very call, even  *)
(* when repeated answers of earlier calls are left in the stream.          *)
(***************************************************************************)
OwnAnswer == \A d \in delivered : d[1] = d[2]

(***************************************************************************)
(* bufio.Scanner is not safe for concurrent use: at most one goroutine is  *)
(* ever inside responses.Scan, a cancelled call's goroutine included.      *)
(***************************************************************************)
SingleReader ==
  \A c, d \in Callers : scan[c] = "running" /\ scan[d] = "running" => c = d

(***************************************************************************)
(* When a Call was cancelled after its host_call was written, the stream   *)
(* is out of step: the invocation gets no terminal frame (ServeV2 ends     *)
(* with "v2 transport aborted").                                           *)
(***************************************************************************)
AbandonedNeverCompletes ==
  \A k \in 1..Len(wire) :
    wire[k].kind \in {"invoke_result", "stderr_complete", "invoke_ready"}
    => wire[k].inv \notin abandoned

(***************************************************************************)
(* ... and no host_call of any invocation is written once such a call has  *)
(* been given up: a caller admitted earlier and queued for the exchange is *)
(* refused before it writes (the expired check under writeMu).             *)
(***************************************************************************)
NoCallAfterAbandoned ==
  [][abandoned # {} /\ wire' # wire => wire'[Len(wire')].kind # "host_call"]_vars

(***************************************************************************)
(* A cancelled Call always returns, even if the host never answers: Abort  *)
(* closes the response stream and so unblocks the Scan it waits for.       *)
(***************************************************************************)
CancelUnblocks == \A c \in Callers : done[c] ~> pc[c] = "idle"

(***************************************************************************)
(* With a host that answers its calls, Expire comes back: once the handler *)
(* has returned, ServeV2 reaches invoke_ready or stops.                    *)
(***************************************************************************)
InvocationEnds == HostIsFair => (serve = "wait_host" ~> serve \in {"scan", "stopped"})

(***************************************************************************)
(* The frames that cross the pipe implement V2Stream: a host that runs     *)
(* V2Session.Accept over them refuses none, every host_call falls inside   *)
(* its own invocation, and nothing follows once ServeV2 has returned.      *)
(***************************************************************************)
StreamState ==
  CASE serve = "start" -> "starting"
    [] serve = "scan" -> "ready"
    [] serve \in {"handler", "wait_host", "wait_stderr", "result"} -> "invoked"
    [] serve = "complete" -> "result"
    [] serve = "ready" -> "stderr_complete"
    [] serve = "stopped" -> "stopped"

StreamLast ==
  IF wire = <<>> THEN <<0, "none", None>>
  ELSE <<Len(wire), wire[Len(wire)].kind, wire[Len(wire)].inv>>

Stream == INSTANCE V2Stream WITH state <- StreamState, invocation <- cur, last <- StreamLast

StreamImplemented == Stream!Spec
=============================================================================
