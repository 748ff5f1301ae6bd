----------------------------- MODULE HostClient -----------------------------
(***************************************************************************)
(* The plugin side of a host call (plugin/host.go).  Every invocation has  *)
(* a HostClient, a lease over the one hostTransport the worker shares: an  *)
(* output stream behind writeMu, a response stream read by one exchange at *)
(* a time, and a call id counter.  Goroutines of the plugin's handlers     *)
(* (Callers) run Call with the client of any invocation that exists,       *)
(* including one whose handler has returned long ago.                      *)
(*                                                                         *)
(* A Call that is refused before admission (ErrHostUnavailable, a context  *)
(* that is done, ErrHostClientExpired) changes nothing and is no step.     *)
(***************************************************************************)
EXTENDS Naturals, Sequences, FiniteSets

CONSTANTS
  Invocations, \* invocation ids, one HostClient lease each
  Callers,     \* goroutines that make host calls
  None,        \* no invocation, no lock holder, no response
  MaxID,       \* the largest call id: ^uint64(0) in the code
  MaxStray     \* bound: duplicate responses the host sends

ASSUME HostAssumption ==
  /\ None \notin Invocations \cup Callers
  /\ MaxID \in Nat
  /\ MaxStray \in Nat

VARIABLES
  leases,      \* invocations whose client exists
  expired,     \* HostClient.expired
  pending,     \* HostClient.pending: the callers the WaitGroup counts
  exchange,    \* tokens in hostTransport.exchange
  writeMu,     \* holder of hostTransport.writeMu
  nextID,      \* hostTransport.nextID
  poisoned,    \* hostTransport.poisoned
  wire,        \* every frame that crossed the worker's stdio, in order
  responses,   \* response frames the host wrote and nobody scanned yet
  rx,          \* response stream: "open", "eof" (host side), "closed" (Abort)
  answered,    \* positions in wire the host has answered
  strays,      \* duplicates sent so far
  pc,          \* where each caller is in Call or Abort
  inv,         \* the client each caller uses
  done,        \* the caller's context is cancelled
  hid,         \* the caller's call id
  at,          \* position in wire of the caller's host_call frame
  scan,        \* the Scan goroutine the caller started
  got,         \* the frame that goroutine sent on results
  delivered,   \* history: <<call position, answered position>> of each success
  abandoned    \* history: invocations with a call cancelled after its frame
               \* was written

transportVars == <<exchange, writeMu, nextID, poisoned>>
streamVars == <<responses, rx, answered, strays>>
callVars == <<inv, done, hid, at, scan, got>>
history == <<delivered, abandoned>>
clientVars == <<leases, expired, pending, transportVars, wire, streamVars,
                pc, callVars, history>>

FrameKinds == {"runtime_ready", "invoke", "host_call", "stderr_chunk",
               "invoke_result", "stderr_complete", "invoke_ready"}
Frames == [kind : FrameKinds, inv : Invocations \cup {None}, id : Nat]
Responses == [id : Nat, inv : Invocations \cup {None}, re : Nat, ok : BOOLEAN]

Frame(k, i, n) == [kind |-> k, inv |-> i, id |-> n]

ClientInit ==
  /\ leases = {}
  /\ expired = [i \in Invocations |-> FALSE]
  /\ pending = [i \in Invocations |-> {}]
  /\ exchange = 1 /\ writeMu = None /\ nextID = 0 /\ poisoned = FALSE
  /\ wire = <<>>
  /\ responses = <<>> /\ rx = "open" /\ answered = {} /\ strays = 0
  /\ pc = [c \in Callers |-> "idle"]
  /\ inv = [c \in Callers |-> None]
  /\ done = [c \in Callers |-> FALSE]
  /\ hid = [c \in Callers |-> 0]
  /\ at = [c \in Callers |-> 0]
  /\ scan = [c \in Callers |-> "none"]
  /\ got = [c \in Callers |-> None]
  /\ delivered = {} /\ abandoned = {}

Go(c, from, to) == pc[c] = from /\ pc' = [pc EXCEPT ![c] = to]

-----------------------------------------------------------------------------
(***************************************************************************)
(* Call, one action per stretch no other goroutine can observe.            *)
(***************************************************************************)

\* Admission under leaseMu: neither revoked nor poisoned, then pending.Add(1).
Admit(c, i) ==
  /\ i \in leases /\ ~expired[i] /\ ~poisoned
  /\ Go(c, "idle", "admitted")
  /\ inv' = [inv EXCEPT ![c] = i]
  /\ pending' = [pending EXCEPT ![i] = @ \cup {c}]
  /\ UNCHANGED <<leases, expired, transportVars, wire, streamVars, done, hid, at, scan, got, history>>

\* The caller's context is cancelled, or its deadline passes, during the call.
Cancel(c) ==
  /\ pc[c] \notin {"idle", "leaving", "abort"} /\ ~done[c]
  /\ done' = [done EXCEPT ![c] = TRUE]
  /\ UNCHANGED <<leases, expired, pending, transportVars, wire, streamVars, pc, inv, hid, at, scan, got, history>>

\* Mutant of TakeExchange: the token stays in the channel.
TakeExchangeShared(c) ==
  /\ exchange = 1
  /\ Go(c, "admitted", "holding")
  /\ UNCHANGED <<leases, expired, pending, transportVars, wire, streamVars, callVars, history>>

\* select: the exchange token ...
TakeExchange(c) ==
  /\ exchange = 1
  /\ Go(c, "admitted", "holding")
  /\ exchange' = 0
  /\ UNCHANGED <<leases, expired, pending, writeMu, nextID, poisoned, wire, streamVars, callVars, history>>

\* ... or ctx.Done(): nothing was written, so the transport stays usable.
GiveUpQueued(c) ==
  /\ done[c]
  /\ Go(c, "admitted", "leaving")
  /\ UNCHANGED <<leases, expired, pending, transportVars, wire, streamVars, callVars, history>>

\* Deferred return of the token; the deferred pending.Done() is Leave.
Release(c, from) ==
  /\ Go(c, from, "leaving")
  /\ exchange' = 1

\* Mutant of AllocateID: the second look at expired is forgotten.
AllocateIDUnchecked(c) ==
  /\ writeMu = None /\ nextID < MaxID
  /\ Go(c, "holding", "locked")
  /\ nextID' = nextID + 1
  /\ hid' = [hid EXCEPT ![c] = nextID + 1]
  /\ writeMu' = c
  /\ UNCHANGED <<leases, expired, pending, exchange, poisoned, wire, streamVars, inv, done, at, scan, got, history>>

\* writeMu is taken and an id allocated, unless ids are exhausted; a lease
\* revoked since admission is refused here, its id consumed.
AllocateID(c) ==
  /\ pc[c] = "holding" /\ writeMu = None
  /\ \/ /\ nextID = MaxID
        /\ Release(c, "holding")
        /\ UNCHANGED <<writeMu, nextID, hid>>
     \/ /\ nextID < MaxID /\ expired[inv[c]]
        /\ nextID' = nextID + 1
        /\ Release(c, "holding")
        /\ UNCHANGED <<writeMu, hid>>
     \/ /\ nextID < MaxID /\ ~expired[inv[c]]
        /\ nextID' = nextID + 1
        /\ hid' = [hid EXCEPT ![c] = nextID + 1]
        /\ writeMu' = c
        /\ Go(c, "holding", "locked")
        /\ UNCHANGED exchange
  /\ UNCHANGED <<leases, expired, pending, poisoned, wire, streamVars, inv, done, at, scan, got, history>>

\* The frame is encoded to the output and writeMu released.
WriteCall(c) ==
  /\ writeMu = c
  /\ Go(c, "locked", "sent")
  /\ wire' = Append(wire, Frame("host_call", inv[c], hid[c]))
  /\ at' = [at EXCEPT ![c] = Len(wire) + 1]
  /\ writeMu' = None
  /\ UNCHANGED <<leases, expired, pending, exchange, nextID, poisoned, streamVars, inv, done, hid, scan, got, history>>

\* Mutant of WriteCallFails: the error path forgets the exchange token.
WriteCallFailsHolding(c) ==
  /\ writeMu = c
  /\ Go(c, "locked", "leaving")
  /\ writeMu' = None
  /\ UNCHANGED <<leases, expired, pending, exchange, nextID, poisoned, wire, streamVars, callVars, history>>

\* Empty method, nil or unencodable params, or a failing write: no frame.
WriteCallFails(c) ==
  /\ writeMu = c
  /\ Release(c, "locked")
  /\ writeMu' = None
  /\ UNCHANGED <<leases, expired, pending, nextID, poisoned, wire, streamVars, callVars, history>>

\* ctx.Err() is nil after the write: the goroutine that Scans is started.
StartScan(c) ==
  /\ ~done[c]
  /\ Go(c, "sent", "reading")
  /\ scan' = [scan EXCEPT ![c] = "running"]
  /\ UNCHANGED <<leases, expired, pending, transportVars, wire, streamVars, inv, done, hid, at, got, history>>

\* The goroutine's Scan returns the next frame of the shared response stream.
ScanFrame(c) ==
  /\ scan[c] = "running" /\ responses # <<>>
  /\ scan' = [scan EXCEPT ![c] = "sent"]
  /\ got' = [got EXCEPT ![c] = Head(responses)]
  /\ responses' = Tail(responses)
  /\ UNCHANGED <<leases, expired, pending, transportVars, wire, rx, answered, strays, pc, inv, done, hid, at, history>>

\* Scan returns false: the stream is closed, or at its end.
ScanFails(c) ==
  /\ scan[c] = "running"
  /\ rx = "closed" \/ (rx = "eof" /\ responses = <<>>)
  /\ scan' = [scan EXCEPT ![c] = "sent"]
  /\ got' = [got EXCEPT ![c] = None]
  /\ UNCHANGED <<leases, expired, pending, transportVars, wire, streamVars, pc, inv, done, hid, at, history>>

\* Mutant of Correlated: the id is not compared.
CorrelatedByInvocation(c) ==
  /\ got[c] # None
  /\ got[c].ok
  /\ got[c].inv = inv[c]

\* The response decodes, is OK and carries the caller's id and invocation.
Correlated(c) ==
  /\ got[c] # None
  /\ got[c].ok
  /\ got[c].id = hid[c]
  /\ got[c].inv = inv[c]

\* select: a result arrives; the call succeeds or returns an error.
Finish(c) ==
  /\ scan[c] = "sent"
  /\ Release(c, "reading")
  /\ scan' = [scan EXCEPT ![c] = "none"]
  /\ got' = [got EXCEPT ![c] = None]
  /\ delivered' = IF Correlated(c) THEN delivered \cup {<<at[c], got[c].re>>} ELSE delivered
  /\ UNCHANGED <<leases, expired, pending, writeMu, nextID, poisoned, wire, streamVars, inv, done, hid, at, abandoned>>

\* ctx is done after the write, or in the select while a Scan is running:
\* Abort revokes the lease first ...
AbortRevoke(c) ==
  /\ done[c]
  /\ \/ Go(c, "sent", "abort_unread") \/ Go(c, "reading", "abort_reading")
  /\ expired' = [expired EXCEPT ![inv[c]] = TRUE]
  /\ abandoned' = abandoned \cup {inv[c]}
  /\ UNCHANGED <<leases, pending, transportVars, wire, streamVars, callVars, delivered>>

\* Mutant of PoisonAndClose: the response stream is left open.
PoisonOnly ==
  /\ poisoned' = TRUE
  /\ UNCHANGED rx

\* ... then poisons the transport and closes the response stream.
PoisonAndClose ==
  /\ poisoned' = TRUE
  /\ rx' = "closed"

\* Abort of a call that never started its Scan: the call returns.
AbortUnread(c) ==
  /\ Release(c, "abort_unread")
  /\ PoisonAndClose
  /\ UNCHANGED <<leases, expired, pending, writeMu, nextID, wire, responses, answered, strays, callVars, history>>

\* Abort of a call that waits: it stays until its own Scan has come back.
AbortReading(c) ==
  /\ Go(c, "abort_reading", "draining")
  /\ PoisonAndClose
  /\ UNCHANGED <<leases, expired, pending, exchange, writeMu, nextID, wire, responses, answered, strays, callVars, history>>

\* <-results in the cancelled branch.
Drain(c) ==
  /\ scan[c] = "sent"
  /\ Release(c, "draining")
  /\ scan' = [scan EXCEPT ![c] = "none"]
  /\ got' = [got EXCEPT ![c] = None]
  /\ UNCHANGED <<leases, expired, pending, writeMu, nextID, poisoned, wire, streamVars, inv, done, hid, at, history>>

\* pending.Done(), and Call has returned: its locals are gone.
Leave(c) ==
  /\ Go(c, "leaving", "idle")
  /\ pending' = [pending EXCEPT ![inv[c]] = @ \ {c}]
  /\ inv' = [inv EXCEPT ![c] = None]
  /\ done' = [done EXCEPT ![c] = FALSE]
  /\ hid' = [hid EXCEPT ![c] = 0]
  /\ at' = [at EXCEPT ![c] = 0]
  /\ UNCHANGED <<leases, expired, transportVars, wire, streamVars, scan, got, history>>

-----------------------------------------------------------------------------
(***************************************************************************)
(* Abort called by the plugin itself, outside any Call.                    *)
(***************************************************************************)
PluginAbort(c, i) ==
  /\ i \in leases
  /\ Go(c, "idle", "abort")
  /\ expired' = [expired EXCEPT ![i] = TRUE]
  /\ UNCHANGED <<leases, pending, transportVars, wire, streamVars, callVars, history>>

PluginAbortPoison(c) ==
  /\ Go(c, "abort", "idle")
  /\ PoisonAndClose
  /\ UNCHANGED <<leases, expired, pending, exchange, writeMu, nextID, wire, responses, answered, strays, callVars, history>>

-----------------------------------------------------------------------------
(***************************************************************************)
(* The host, seen through its response pipe.                               *)
(***************************************************************************)
Calls == {k \in 1..Len(wire) : wire[k].kind = "host_call"}

Reply(k, ok) == [id |-> wire[k].id, inv |-> wire[k].inv, re |-> k, ok |-> ok]

\* One answer per call, a result or an error, in any order.
HostAnswers(k, ok) ==
  /\ rx = "open" /\ k \in Calls \ answered
  /\ responses' = Append(responses, Reply(k, ok))
  /\ answered' = answered \cup {k}
  /\ UNCHANGED <<leases, expired, pending, transportVars, wire, rx, strays, pc, callVars, history>>

\* The host repeats an answer: a retry after a lost acknowledgement.
HostRepeats(k, ok) ==
  /\ rx = "open" /\ k \in answered /\ strays < MaxStray
  /\ responses' = Append(responses, Reply(k, ok))
  /\ strays' = strays + 1
  /\ UNCHANGED <<leases, expired, pending, transportVars, wire, rx, answered, pc, callVars, history>>

\* The host closes its end, or its next frame can never be scanned.
HostCloses ==
  /\ rx = "open"
  /\ rx' = "eof"
  /\ UNCHANGED <<leases, expired, pending, transportVars, wire, responses, answered, strays, pc, callVars, history>>

-----------------------------------------------------------------------------
\* Steps a goroutine takes by itself once it is in Call or Abort.
CallStep(c) ==
  \/ TakeExchange(c) \/ GiveUpQueued(c) \/ AllocateID(c)
  \/ WriteCall(c) \/ WriteCallFails(c) \/ StartScan(c)
  \/ ScanFrame(c) \/ ScanFails(c) \/ Finish(c)
  \/ AbortRevoke(c) \/ AbortUnread(c) \/ AbortReading(c) \/ Drain(c)
  \/ Leave(c) \/ PluginAbortPoison(c)

CallerStep(c) ==
  \/ \E i \in Invocations : Admit(c, i) \/ PluginAbort(c, i)
  \/ Cancel(c)
  \/ CallStep(c)

HostStep ==
  \/ \E k \in Calls, ok \in BOOLEAN : HostAnswers(k, ok) \/ HostRepeats(k, ok)
  \/ HostCloses

=============================================================================
