------------------------------ MODULE V2Stream ------------------------------
(***************************************************************************)
(* What a stdio-json-v2 worker promises the host about its frame stream:   *)
(* runtime_ready comes first; the lifecycle automaton V2Session.Accept     *)
(* (plugin/runtime.go), fed with every lifecycle frame in the order it     *)
(* crosses the pipe, refuses none of them; and a host_call frame appears   *)
(* only while its own invocation is being handled.  Concurrency, leases,   *)
(* locks and failures are absent: V2Runtime is shown to implement this.    *)
(***************************************************************************)
EXTENDS Naturals

CONSTANTS Invocations, \* invocation ids the host may use
          None         \* the empty invocation id

VARIABLES state,       \* V2Session.state; "starting" before there is a session,
                       \* "stopped" after ServeV2 has returned
          invocation,  \* V2Session.invocation
          last         \* <<number of frames so far, kind, invocation>> of the
                       \* latest frame: it makes every frame a visible step

vars == <<state, invocation, last>>

Kinds == {"invoke", "stderr_chunk", "invoke_result", "stderr_complete",
          "invoke_ready", "host_call"}

Init ==
  /\ state = "starting"
  /\ invocation = None
  /\ last = <<0, "none", None>>

\* NewV2Session: the session exists once the worker has announced itself.
RuntimeReady ==
  /\ state = "starting"
  /\ state' = "ready" /\ UNCHANGED invocation
  /\ last' = <<last[1] + 1, "runtime_ready", None>>

(***************************************************************************)
(* V2Session.Accept where it returns nil; a frame it refuses has no step.  *)
(***************************************************************************)
Accept(kind, inv) ==
  \/ /\ state = "ready" /\ kind = "invoke"
     /\ state' = "invoked" /\ invocation' = inv
  \/ /\ state = "invoked" /\ kind = "stderr_chunk" /\ inv = invocation
     /\ UNCHANGED <<state, invocation>>
  \/ /\ state = "invoked" /\ kind = "invoke_result" /\ inv = invocation
     /\ state' = "result" /\ UNCHANGED invocation
  \/ /\ state = "result" /\ kind = "stderr_complete" /\ inv = invocation
     /\ state' = "stderr_complete" /\ UNCHANGED invocation
  \/ /\ state = "stderr_complete" /\ kind = "invoke_ready" /\ inv = invocation
     /\ state' = "ready" /\ invocation' = None

\* A host_call is no lifecycle frame: it leaves the session where it is.
HostCall(kind, inv) ==
  /\ kind = "host_call"
  /\ state = "invoked" /\ inv = invocation
  /\ UNCHANGED <<state, invocation>>

Frame ==
  \E kind \in Kinds, inv \in Invocations :
    /\ Accept(kind, inv) \/ HostCall(kind, inv)
    /\ last' = <<last[1] + 1, kind, inv>>

\* ServeV2 returns: the stream may end anywhere, and then nothing follows.
Stop ==
  /\ state' = "stopped"
  /\ UNCHANGED <<invocation, last>>

Next == RuntimeReady \/ Frame \/ Stop

Spec == Init /\ [][Next]_vars
=============================================================================
