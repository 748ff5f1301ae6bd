--------------------------- MODULE BeaconResponder ---------------------------
(***************************************************************************)
(* The decision core of the measurement beacon (beacon/responder.go).      *)
(* Handle is called by the one receive loop; SetTable by any goroutine,    *)
(* while Handle runs.  Handle loads the table pointer once and then works  *)
(* on the source state that table points to, so a refresh may land in      *)
(* between; a source state is an object in the heap, because an old table  *)
(* and a new one share it.  The agent may restart: NewResponder, an empty  *)
(* table and fresh states.                                                 *)
(*                                                                         *)
(* A nonce cache is the expiry time of each nonce (0: never held).         *)
(* NonceCache models the hash table behind it and shows that an insert is  *)
(* refused exactly when CacheSize live nonces are held.                    *)
(***************************************************************************)
EXTENDS Integers, Sequences, FiniteSets

CONSTANTS
  Sources, Epochs, Nonces,
  Refreshers, \* goroutines that call SetTable
  None,
  Window,     \* FreshnessWindow
  Interval,   \* NamedReplyInterval
  Cost,       \* costNs: what an answered request costs
  Credit,     \* creditNs: the largest allowance
  CacheSize,  \* NonceCacheSize
  MaxEpochs,  \* MaxEpochsPerSource
  MaxNow,     \* bound: the largest clock value
  MaxStates,  \* bound: states allocated for a source
  MaxBacks,   \* bound: times the clock is stepped back
  MaxBoots    \* bound: restarts

ASSUME ResponderAssumption ==
  /\ {Window, Cost, Credit, CacheSize, MaxEpochs, MaxNow, MaxStates, MaxBacks, MaxBoots} \subseteq Nat
  /\ Interval \in Nat \ {0}
  /\ None \notin Refreshers

VARIABLES
  now,      \* the agent's wall clock
  backs,    \* times it was stepped back
  boots,    \* times the agent restarted
  start,    \* Responder.startNs
  table,    \* Responder.table: source -> epochs (TRUE: retired) and state
  setMu,    \* holder of Responder.setMu
  built,    \* the table each refresher is about to store
  heap,     \* the states allocated for each source; st is an index into them
  lastAuth, \* Responder.lastAuth
  handling, \* the datagram inside Handle, past the table lookup
  tenure,   \* history: stays of each source in the table, so far
  wanted,   \* history: the entries of the latest SetTable
  late,     \* history: answers since then that it does not allow
  taken,    \* history: requests answered or refused for rate
  mover,    \* history: the request that moved lastAuth last
  named     \* history: the latest two non-ok replies to each source

environment == <<now, backs, boots>>
setVars == <<table, setMu, built, tenure, wanted>>
handleVars == <<lastAuth, handling, late, taken, mover, named>>
vars == <<environment, start, setVars, heap, handleVars>>

\* A source's table entry: its epochs, each retired or not.
EpochSets == {E \in SUBSET Epochs : E # {} /\ Cardinality(E) <= MaxEpochs}
Keyrings == UNION {[E -> BOOLEAN] : E \in EpochSets}

\* What SetTable accepts; for anything else it returns ErrTable, unchanged.
Entries == UNION {[S -> Keyrings] : S \in SUBSET Sources}

\* An authenticated request.  Frames of the wrong length, malformed ones and
\* bad tags are dropped before anything is read or written: no step.
Requests == [source : Sources, epoch : Epochs, nonce : Nonces, sent : 1..(MaxNow + Window)]

FreshState == [nonces |-> [n \in Nonces |-> 0], credit |-> Credit, last |-> 0, lastNamed |-> 0]

Empty == [s \in {} |-> None]

\* NewResponder at the time the agent starts.
Init ==
  /\ now = 1 /\ backs = 0 /\ boots = 0
  /\ start = 1
  /\ table = Empty /\ setMu = None /\ built = [r \in Refreshers |-> Empty]
  /\ heap = [s \in Sources |-> <<>>]
  /\ lastAuth = 0 /\ handling = None
  /\ tenure = [s \in Sources |-> 0] /\ wanted = Empty
  /\ late = 0 /\ taken = {} /\ mover = None /\ named = [s \in Sources |-> <<>>]

-----------------------------------------------------------------------------
\* Mutant of BuildTable: every refresh starts the sources afresh.
BuildTableAfresh(r, entries) ==
  /\ setMu = None
  /\ setMu' = r
  /\ heap' = [s \in Sources |-> IF s \in DOMAIN entries THEN Append(heap[s], FreshState) ELSE heap[s]]
  /\ built' = [built EXCEPT ![r] =
       [s \in DOMAIN entries |-> [epochs |-> entries[s], st |-> Len(heap[s]) + 1]]]
  /\ UNCHANGED <<environment, start, table, tenure, wanted, handleVars>>

-----------------------------------------------------------------------------
(***************************************************************************)
(* SetTable, under setMu: the new table is built from the old one ...      *)
(***************************************************************************)
BuildTable(r, entries) ==
  /\ setMu = None
  /\ \A s \in DOMAIN entries \ DOMAIN table : Len(heap[s]) < MaxStates
  /\ setMu' = r
  /\ heap' = [s \in Sources |->
       IF s \in DOMAIN entries \ DOMAIN table THEN Append(heap[s], FreshState) ELSE heap[s]]
  /\ built' = [built EXCEPT ![r] =
       [s \in DOMAIN entries |->
         [epochs |-> entries[s],
          st |-> IF s \in DOMAIN table THEN table[s].st ELSE Len(heap[s]) + 1]]]
  /\ UNCHANGED <<environment, start, table, tenure, wanted, handleVars>>

\* Mutant of StoreTable: sources missing from the new table are kept.
StoreTableMerged(r) ==
  /\ setMu = r
  /\ table' = [s \in DOMAIN table \cup DOMAIN built[r] |->
       IF s \in DOMAIN built[r] THEN built[r][s] ELSE table[s]]
  /\ setMu' = None
  /\ built' = [built EXCEPT ![r] = Empty]
  /\ tenure' = [s \in Sources |->
       IF s \in DOMAIN built[r] /\ s \notin DOMAIN wanted THEN tenure[s] + 1 ELSE tenure[s]]
  /\ wanted' = [s \in DOMAIN built[r] |-> built[r][s].epochs]
  /\ late' = 0
  /\ UNCHANGED <<environment, start, heap, lastAuth, handling, taken, mover, named>>

\* ... and its pointer stored.
StoreTable(r) ==
  /\ setMu = r
  /\ table' = built[r]
  /\ setMu' = None
  /\ built' = [built EXCEPT ![r] = Empty]
  /\ tenure' = [s \in Sources |->
       IF s \in DOMAIN built[r] /\ s \notin DOMAIN wanted THEN tenure[s] + 1 ELSE tenure[s]]
  /\ wanted' = [s \in DOMAIN built[r] |-> built[r][s].epochs]
  /\ late' = 0
  /\ UNCHANGED <<environment, start, heap, lastAuth, handling, taken, mover, named>>

-----------------------------------------------------------------------------
(***************************************************************************)
(* Handle: the table is loaded and searched.  An unknown source or epoch   *)
(* is dropped, changing nothing: no step.                                  *)
(***************************************************************************)
Load(req) ==
  /\ handling = None
  /\ req.source \in DOMAIN table
  /\ req.epoch \in DOMAIN table[req.source].epochs
  /\ handling' = [req |-> req, at |-> now,
                  st |-> table[req.source].st,
                  retired |-> table[req.source].epochs[req.epoch],
                  stay |-> [source |-> req.source, tenure |-> tenure[req.source], backs |-> backs]]
  /\ UNCHANGED <<environment, start, setVars, heap, lastAuth, late, taken, mover, named>>

State == heap[handling.req.source][handling.st]

\* The heap once the state of the request's source is sx.
WithState(sx) == [heap EXCEPT ![handling.req.source][handling.st] = sx]

\* A fresh request that is new moves lastAuth.
MoveLastAuth ==
  /\ lastAuth' = handling.at
  /\ mover' = [req |-> handling.req, stay |-> handling.stay]

\* It is answered, or refused for rate.
Take(ok) ==
  taken' = taken \cup {[req |-> handling.req, at |-> handling.at, ok |-> ok,
                        stay |-> handling.stay, st |-> handling.st, boot |-> boots]}

LastTwo(q) == IF Len(q) > 2 THEN Tail(q) ELSE q

\* Mutant of Muted: the interval is one short.
MutedShort(sx) ==
  /\ sx.lastNamed # 0
  /\ handling.at - sx.lastNamed < Interval - 1
  /\ handling.at >= sx.lastNamed

\* named: at most one non-ok reply per interval; the state is sx so far.
Muted(sx) ==
  /\ sx.lastNamed # 0
  /\ handling.at - sx.lastNamed < Interval
  /\ handling.at >= sx.lastNamed

Named(sx) ==
  IF Muted(sx)
  THEN /\ heap' = WithState(sx)
       /\ UNCHANGED named
  ELSE /\ heap' = WithState([sx EXCEPT !.lastNamed = handling.at])
       /\ named' = [named EXCEPT ![handling.req.source] =
            LastTwo(Append(@, [stay |-> handling.stay, at |-> handling.at]))]

Stale ==
  \/ handling.req.sent < start
  \/ handling.at - handling.req.sent > Window
  \/ handling.req.sent - handling.at > Window

\* NonceCache.Seen and the live nonces it counts.
Seen == State.nonces[handling.req.nonce] > handling.at
Live == {n \in Nonces : State.nonces[n] > handling.at}

\* Mutant of Inserted: the nonce expires while its request is still fresh.
InsertedShort(compact) ==
  [n \in Nonces |->
    IF n = handling.req.nonce THEN handling.req.sent + Window
    ELSE IF compact /\ n \notin Live THEN 0
    ELSE State.nonces[n]]

\* NonceCache.Insert with room: expired nonces may be compacted away.
Inserted(compact) ==
  [n \in Nonces |->
    IF n = handling.req.nonce THEN handling.req.sent + Window + 1
    ELSE IF compact /\ n \notin Live THEN 0
    ELSE State.nonces[n]]

\* st.allow: the allowance once refilled.
Refilled ==
  IF State.last # 0 /\ handling.at > State.last
  THEN LET c == State.credit + (handling.at - State.last) IN IF c < Credit THEN c ELSE Credit
  ELSE State.credit

Handled == handling # None /\ handling' = None

\* A retired epoch draws StatusUnknownEpoch ...
HandleRetired ==
  /\ Handled /\ handling.retired
  /\ Named(State)
  /\ UNCHANGED <<environment, start, setVars, lastAuth, late, taken, mover>>

\* ... a timestamp out of the window StatusStale ...
HandleStale ==
  /\ Handled /\ ~handling.retired /\ Stale
  /\ Named(State)
  /\ UNCHANGED <<environment, start, setVars, lastAuth, late, taken, mover>>

Fresh == Handled /\ ~handling.retired /\ ~Stale

\* ... a nonce that is held nothing at all.
HandleReplay ==
  /\ Fresh /\ Seen
  /\ UNCHANGED <<environment, start, setVars, heap, lastAuth, late, taken, mover, named>>

\* The request is new.  The cache has no room: StatusRateLimited ...
HandleFull ==
  /\ Fresh /\ ~Seen /\ Cardinality(Live) >= CacheSize
  /\ MoveLastAuth
  /\ Named(State)
  /\ UNCHANGED <<environment, start, setVars, late, taken>>

Hold == Fresh /\ ~Seen /\ Cardinality(Live) < CacheSize /\ MoveLastAuth

\* ... or the nonce is held, and the source is over its rate ...
HandleOverRate ==
  /\ Hold /\ Refilled < Cost
  /\ \E compact \in BOOLEAN :
       Named([State EXCEPT !.nonces = Inserted(compact), !.credit = Refilled, !.last = handling.at])
  /\ Take(FALSE)
  /\ UNCHANGED <<environment, start, setVars, late>>

\* ... or within it: StatusOK.
HandleOK ==
  /\ Hold /\ Refilled >= Cost
  /\ \E compact \in BOOLEAN :
       heap' = WithState([State EXCEPT !.nonces = Inserted(compact), !.credit = Refilled - Cost, !.last = handling.at])
  /\ Take(TRUE)
  /\ late' = IF /\ handling.req.source \in DOMAIN wanted
                /\ handling.req.epoch \in DOMAIN wanted[handling.req.source]
                /\ ~wanted[handling.req.source][handling.req.epoch]
             THEN late ELSE late + 1
  /\ UNCHANGED <<environment, start, setVars, named>>

Handle ==
  \/ HandleRetired \/ HandleStale \/ HandleReplay
  \/ HandleFull \/ HandleOverRate \/ HandleOK

-----------------------------------------------------------------------------
(***************************************************************************)
(* The environment: the clock advances, or is stepped back; the agent      *)
(* restarts, losing the table and every state.                             *)
(***************************************************************************)
Tick ==
  /\ now < MaxNow
  /\ now' = now + 1
  /\ UNCHANGED <<backs, boots, start, setVars, heap, handleVars>>

StepBack ==
  /\ backs < MaxBacks
  /\ now' \in 1..(now - 1)
  /\ backs' = backs + 1
  /\ UNCHANGED <<boots, start, setVars, heap, handleVars>>

Restart ==
  /\ boots < MaxBoots
  /\ boots' = boots + 1
  /\ start' = now
  /\ table' = Empty /\ setMu' = None /\ built' = [r \in Refreshers |-> Empty]
  /\ heap' = [s \in Sources |-> <<>>]
  /\ lastAuth' = 0 /\ handling' = None
  /\ wanted' = Empty /\ late' = 0 /\ mover' = None
  /\ UNCHANGED <<now, backs, tenure, taken, named>>

Next ==
  \/ \E r \in Refreshers : StoreTable(r) \/ \E entries \in Entries : BuildTable(r, entries)
  \/ \E req \in Requests : Load(req)
  \/ Handle
  \/ Tick \/ StepBack \/ Restart

Spec == Init /\ [][Next]_vars

-----------------------------------------------------------------------------
States == [nonces : [Nonces -> Nat], credit : 0..Credit, last : Nat, lastNamed : Nat]
Stays == [source : Sources, tenure : Nat, backs : Nat]
Handlings == [req : Requests, at : Nat, st : Nat \ {0}, retired : BOOLEAN, stay : Stays]
NamedReplies == [stay : Stays, at : Nat]
Takings == [req : Requests, at : Nat, ok : BOOLEAN, stay : Stays, st : Nat \ {0}, boot : Nat]
TableEntries == [epochs : Keyrings, st : Nat \ {0}]
IsTable(t) ==
  /\ t = [s \in DOMAIN t |-> t[s]] /\ DOMAIN t \subseteq Sources
  /\ \A s \in DOMAIN t : t[s] \in TableEntries

\* The type invariant of the responder and its histories.
TypeOK ==
  /\ now \in Nat \ {0} /\ backs \in 0..MaxBacks /\ boots \in 0..MaxBoots
  /\ start \in Nat \ {0}
  /\ IsTable(table)
  /\ setMu \in Refreshers \cup {None}
  /\ built = [r \in Refreshers |-> built[r]]
  /\ \A r \in Refreshers : IsTable(built[r])
  /\ heap \in [Sources -> Seq(States)]
  /\ lastAuth \in Nat
  /\ handling \in Handlings \cup {None}
  /\ tenure \in [Sources -> Nat]
  /\ wanted \in Entries
  /\ late \in Nat
  /\ taken \subseteq Takings
  /\ mover \in [req : Requests, stay : Stays] \cup {None}
  /\ named \in [Sources -> Seq(NamedReplies)]

(***************************************************************************)
(* A request that was answered, or refused for rate, is not answered       *)
(* again and does not move "last authenticated" again while its source     *)
(* stays in the table and the clock is not stepped back, whatever          *)
(* refreshes run beside Handle: no refresh reopens a replay window         *)
(* (SetTable), no live nonce is evicted, and a nonce outlives its          *)
(* request's freshness (Handle).                                           *)
(***************************************************************************)
TakenOnce ==
  [][HandleFull \/ HandleOverRate \/ HandleOK =>
      \A t \in taken : t.stay = handling.stay => t.req # handling.req]_vars

(***************************************************************************)
(* In any span of one stay in the table a source gets no more answers than *)
(* its burst and the refill of that span pay for, however often the table  *)
(* is refreshed in it (allow, SourceRatePerSecond).                        *)
(***************************************************************************)
RateBound ==
  \A t, u \in taken :
    LET answers == {x \in taken : /\ x.ok /\ x.stay = t.stay
                                  /\ t.at <= x.at /\ x.at <= u.at}
    IN t.at <= u.at => Cost * Cardinality(answers) <= Credit + (u.at - t.at)

(***************************************************************************)
(* Non-ok replies to one source are at least NamedReplyInterval apart in   *)
(* one stay, across refreshes too (named).                                 *)
(***************************************************************************)
NamedSpacing ==
  \A s \in Sources :
    Len(named[s]) = 2 /\ named[s][1].stay = named[s][2].stay
    => named[s][2].at - named[s][1].at >= Interval

(***************************************************************************)
(* A source missing from a new table, or an epoch retired by it, is        *)
(* dropped at once: after SetTable has returned, only the one request that *)
(* was already past the table lookup can still be answered.                *)
(***************************************************************************)
DroppedAtOnce == late <= 1

(***************************************************************************)
(* NewResponder: "a request captured before a restart cannot be replayed   *)
(* into the fresh nonce caches".                                           *)
(***************************************************************************)
NoReplayAcrossRestart ==
  [][HandleOK =>
      \A t \in taken : t.ok /\ t.boot < boots /\ t.at < start => t.req # handling.req]_vars

(***************************************************************************)
(* LastAuthenticated: "a captured request replayed later cannot keep it    *)
(* fresh": a request does not move it twice running.                       *)
(***************************************************************************)
ReplayNeverMovesLastAuth ==
  [][(HandleFull \/ HandleOverRate \/ HandleOK) /\ lastAuth' > lastAuth =>
      mover # [req |-> handling.req, stay |-> handling.stay]]_vars

(***************************************************************************)
(* Verdict.Authenticated: the tag verified, "which is what 'last           *)
(* authenticated request seen' counts".                                    *)
(***************************************************************************)
AuthenticatedMovesLastAuth ==
  [][Handle => lastAuth' = handling.at]_vars
=============================================================================
