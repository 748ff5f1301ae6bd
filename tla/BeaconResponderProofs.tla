------------------------ MODULE BeaconResponderProofs ------------------------
(***************************************************************************)
(* TLAPS proofs for BeaconResponder: type correctness, that a request is   *)
(* taken once (TakenOnce), and the three safety invariants of its replies, *)
(* for any sources, epochs, nonces, window, rate and cache size, and any   *)
(* number of refreshes, restarts and clock steps.                          *)
(*                                                                         *)
(* TakenOnce needs three facts at once: all requests of one stay of a      *)
(* source in the table meet one and the same state (StayInv), which rests  *)
(* on setMu (TableInv); and that state holds the nonce of every request it *)
(* took until the request is stale (CacheInv), in spite of compactions and *)
(* of the time that passes between Handle's clock reading and its lookup.  *)
(*                                                                         *)
(* The other three invariants of the responder follow in the second half:  *)
(* RateBound and NamedSpacing from what the state of a stay remembers of   *)
(* it (NamedInv, RateInv), DroppedAtOnce from what the latest table says   *)
(* of the one request inside Handle (LateInv).                             *)
(***************************************************************************)
EXTENDS BeaconResponder, FiniteSetTheorems, TLAPS

TableInv ==
  /\ DOMAIN wanted = DOMAIN table
  /\ \A s \in DOMAIN table : table[s].st = Len(heap[s])
  /\ setMu # None => \A s \in DOMAIN built[setMu] : built[setMu][s].st = Len(heap[s])

\* A request that was taken, and the stay it belongs to.
TakenStay(t) ==
  /\ t.stay.source = t.req.source
  /\ t.stay.tenure <= tenure[t.req.source]
  /\ t.stay.backs <= backs
  /\ t.boot <= boots
  /\ t.req.source \in DOMAIN table /\ t.stay.tenure = tenure[t.req.source]
     => t.boot = boots /\ t.st = table[t.req.source].st

\* The request inside Handle.
HandlingStay ==
  /\ handling.stay.source = handling.req.source
  /\ handling.st <= Len(heap[handling.req.source])
  /\ handling.stay.tenure <= tenure[handling.req.source]
  /\ handling.stay.backs <= backs
  /\ handling.stay.backs = backs => handling.at <= now
  /\ handling.req.source \in DOMAIN table /\ handling.stay.tenure = tenure[handling.req.source]
     => handling.st = table[handling.req.source].st

\* How the two are related.
SameStay(t) ==
  /\ t.stay.backs <= handling.stay.backs
  /\ t.stay = handling.stay => t.boot = boots /\ t.st = handling.st

StayInv ==
  /\ \A t \in taken : TakenStay(t)
  /\ handling # None => HandlingStay /\ \A t \in taken : SameStay(t)

Holds(t) == heap[t.req.source][t.st].nonces[t.req.nonce] > t.req.sent + Window

CacheInv ==
  /\ \A t \in taken : t.boot = boots =>
       /\ t.st <= Len(heap[t.req.source])
       /\ t.stay.backs = backs => Holds(t) \/ now > t.req.sent + Window
  /\ handling # None => \A t \in taken : t.stay = handling.stay =>
       Holds(t) \/ handling.at > t.req.sent + Window

IInv == TypeOK /\ TableInv /\ StayInv /\ CacheInv

USE DEF environment, setVars, handleVars, vars

-----------------------------------------------------------------------------
\* A fresh state is a state.
LEMMA FreshStateType == FreshState \in States
BY ResponderAssumption DEF FreshState, States

\* The empty table is a table and a set of entries.
LEMMA EmptyType == IsTable(Empty) /\ Empty \in Entries /\ DOMAIN Empty = {}
BY DEF Empty, IsTable, Entries

\* The state a Handle works on, and what allow and Insert make of it.
LEMMA StateType ==
  ASSUME TypeOK, handling # None, HandlingStay
  PROVE /\ handling \in Handlings
        /\ State \in States
        /\ handling.st \in 1..Len(heap[handling.req.source])
<1>1. handling \in Handlings
  BY DEF TypeOK
<1>2. handling.st \in Nat \ {0} /\ handling.req \in Requests
  BY <1>1 DEF Handlings
<1>3. handling.req.source \in Sources
  BY <1>2 DEF Requests
<1>4. heap[handling.req.source] \in Seq(States)
  BY <1>3 DEF TypeOK
<1>5. handling.st \in 1..Len(heap[handling.req.source])
  BY <1>2, <1>4 DEF HandlingStay
<1>6. QED
  BY <1>1, <1>4, <1>5 DEF State

\* What Handle computes for the source has its type.
LEMMA InsertedType ==
  ASSUME TypeOK, handling # None, HandlingStay, NEW compact \in BOOLEAN
  PROVE /\ Inserted(compact) \in [Nonces -> Nat]
        /\ Refilled \in 0..Credit
<1>1. State \in States /\ handling \in Handlings
  BY StateType
<1>2. handling.req.sent \in Nat /\ handling.at \in Nat
  BY <1>1, ResponderAssumption DEF Handlings, Requests
<1>3. State.nonces \in [Nonces -> Nat] /\ State.credit \in 0..Credit /\ State.last \in Nat
  BY <1>1 DEF States
<1>4. Inserted(compact) \in [Nonces -> Nat]
  BY <1>2, <1>3, ResponderAssumption DEF Inserted
<1>5. Refilled \in 0..Credit
  BY <1>2, <1>3, ResponderAssumption DEF Refilled
<1>6. QED
  BY <1>4, <1>5

\* Storing a state keeps the heap's shape and changes that state only.
LEMMA WithStateShape ==
  ASSUME TypeOK, handling # None, HandlingStay, NEW sx \in States, heap' = WithState(sx)
  PROVE /\ heap' \in [Sources -> Seq(States)]
        /\ \A s \in Sources : Len(heap'[s]) = Len(heap[s])
        /\ \A s \in Sources : \A k \in 1..Len(heap[s]) :
             heap'[s][k] = IF s = handling.req.source /\ k = handling.st THEN sx ELSE heap[s][k]
<1>1. handling.req.source \in Sources
  BY StateType DEF Handlings, Requests
<1>2. handling.st \in 1..Len(heap[handling.req.source])
  BY StateType
<1>3. heap \in [Sources -> Seq(States)]
  BY DEF TypeOK
<1>4. heap' = [heap EXCEPT ![handling.req.source] = [heap[handling.req.source] EXCEPT ![handling.st] = sx]]
  BY DEF WithState
<1>5. [heap[handling.req.source] EXCEPT ![handling.st] = sx] \in Seq(States)
  BY <1>1, <1>2, <1>3
<1>6. QED
  BY <1>1, <1>2, <1>3, <1>4, <1>5

\* The latest two of a sequence are a sequence of the same values.
LEMMA LastTwoType ==
  ASSUME NEW S, NEW q \in Seq(S)
  PROVE LastTwo(q) \in Seq(S)
<1>1. CASE Len(q) > 2
  <2>1. q # <<>>
    BY <1>1
  <2>2. Tail(q) \in Seq(S)
    BY <2>1
  <2>3. QED
    BY <1>1, <2>2 DEF LastTwo
<1>2. CASE ~(Len(q) > 2)
  BY <1>2 DEF LastTwo
<1>3. QED
  BY <1>1, <1>2

\* What Named stores is a state with the nonces of sx.
LEMMA NamedState ==
  ASSUME TypeOK, handling # None, HandlingStay, NEW sx \in States, Named(sx)
  PROVE /\ \E sy \in States : heap' = WithState(sy) /\ sy.nonces = sx.nonces
        /\ named' \in [Sources -> Seq(NamedReplies)]
<1>1. handling \in Handlings
  BY StateType
<1>2. handling.at \in Nat /\ handling.stay \in Stays /\ handling.req.source \in Sources
  BY <1>1 DEF Handlings, Requests
<1>3. named \in [Sources -> Seq(NamedReplies)]
  BY DEF TypeOK
<1>4. CASE Muted(sx)
  BY <1>3, <1>4 DEF Named
<1>5. CASE ~Muted(sx)
  <2>1. [sx EXCEPT !.lastNamed = handling.at] \in States
    BY <1>2 DEF States
  <2>2. [sx EXCEPT !.lastNamed = handling.at].nonces = sx.nonces
    BY DEF States
  <2>3. heap' = WithState([sx EXCEPT !.lastNamed = handling.at])
    BY <1>5 DEF Named
  <2>4. LastTwo(Append(named[handling.req.source], [stay |-> handling.stay, at |-> handling.at]))
           \in Seq(NamedReplies)
    <3>0. [stay |-> handling.stay, at |-> handling.at] \in NamedReplies
      BY <1>2 DEF NamedReplies
    <3>1. Append(named[handling.req.source], [stay |-> handling.stay, at |-> handling.at])
            \in Seq(NamedReplies)
      BY <1>2, <1>3, <3>0
    <3>2. QED
      BY <3>1, LastTwoType
  <2>5. named' = [named EXCEPT ![handling.req.source] =
           LastTwo(Append(named[handling.req.source], [stay |-> handling.stay, at |-> handling.at]))]
    BY <1>5 DEF Named
  <2>6. named' \in [Sources -> Seq(NamedReplies)]
    BY <1>2, <1>3, <2>4, <2>5
  <2>7. QED
    BY <2>1, <2>2, <2>3, <2>6
<1>6. QED
  BY <1>4, <1>5

-----------------------------------------------------------------------------
\* Type correctness, action by action.
LEMMA InitType == Init => TypeOK
<1>1. Init => IsTable(table) /\ wanted \in Entries /\ \A r \in Refreshers : IsTable(built[r])
  BY EmptyType DEF Init
<1>2. QED
  BY <1>1, ResponderAssumption DEF Init, TypeOK

\* BuildTable keeps the type invariant.
LEMMA BuildType ==
  ASSUME TypeOK, NEW r \in Refreshers, NEW entries \in Entries, BuildTable(r, entries)
  PROVE TypeOK'
<1>1. DOMAIN entries \subseteq Sources /\ \A s \in DOMAIN entries : entries[s] \in Keyrings
  BY DEF Entries
<1>2. heap' \in [Sources -> Seq(States)]
  BY FreshStateType DEF TypeOK, BuildTable
<1>3. \A s \in Sources : Len(heap[s]) + 1 \in Nat \ {0}
  BY DEF TypeOK
<1>4. IsTable([s \in DOMAIN entries |->
         [epochs |-> entries[s],
          st |-> IF s \in DOMAIN table THEN table[s].st ELSE Len(heap[s]) + 1]])
  BY <1>1, <1>3 DEF TypeOK, IsTable, TableEntries
<1>5. built' = [q \in Refreshers |-> built'[q]] /\ \A q \in Refreshers : IsTable(built'[q])
  BY <1>4 DEF TypeOK, BuildTable
<1>6. QED
  BY <1>2, <1>5 DEF TypeOK, BuildTable

\* StoreTable keeps the type invariant.
LEMMA StoreType ==
  ASSUME TypeOK, NEW r \in Refreshers, StoreTable(r)
  PROVE TypeOK'
<1>1. IsTable(built[r]) /\ IsTable(table')
  BY DEF TypeOK, StoreTable
<1>2. wanted' \in Entries
  <2>1. DOMAIN built[r] \subseteq Sources /\ \A s \in DOMAIN built[r] : built[r][s].epochs \in Keyrings
    BY <1>1 DEF IsTable, TableEntries
  <2>2. wanted' \in [DOMAIN built[r] -> Keyrings]
    BY <2>1 DEF StoreTable
  <2>3. QED
    BY <2>1, <2>2 DEF Entries
<1>3. built' = [q \in Refreshers |-> built'[q]] /\ \A q \in Refreshers : IsTable(built'[q])
  BY EmptyType DEF TypeOK, StoreTable
<1>4. tenure' \in [Sources -> Nat]
  BY DEF TypeOK, StoreTable
<1>5. QED
  BY <1>1, <1>2, <1>3, <1>4 DEF TypeOK, StoreTable

\* Load keeps the type invariant.
LEMMA LoadType ==
  ASSUME TypeOK, NEW req \in Requests, Load(req)
  PROVE TypeOK' /\ handling' \in Handlings
<1>1. table[req.source] \in TableEntries /\ req.source \in Sources
  BY DEF TypeOK, IsTable, Load
<1>2. table[req.source].epochs[req.epoch] \in BOOLEAN /\ table[req.source].st \in Nat \ {0}
  BY <1>1 DEF TableEntries, Keyrings, Load
<1>3. [source |-> req.source, tenure |-> tenure[req.source], backs |-> backs] \in Stays
  BY <1>1, ResponderAssumption DEF TypeOK, Stays
<1>4. handling' \in Handlings
  BY <1>2, <1>3 DEF TypeOK, Handlings, Load
<1>5. QED
  BY <1>4 DEF TypeOK, Load

\* Every outcome of Handle keeps the type invariant.
LEMMA HandleType ==
  ASSUME TypeOK, handling # None => HandlingStay, Handle
  PROVE TypeOK'
<1>1. handling # None /\ HandlingStay
  BY DEF Handle, HandleRetired, HandleStale, HandleReplay, HandleFull, HandleOverRate, HandleOK, Hold, Fresh, Handled
<1>2. State \in States /\ handling \in Handlings
  BY <1>1, StateType
<1>3. handling.at \in Nat /\ handling.req \in Requests /\ handling.stay \in Stays /\ handling.st \in Nat \ {0}
  BY <1>2 DEF Handlings
<1>4. [req |-> handling.req, stay |-> handling.stay] \in [req : Requests, stay : Stays]
  BY <1>3
<1>5. \A ok \in BOOLEAN :
        [req |-> handling.req, at |-> handling.at, ok |-> ok, stay |-> handling.stay,
         st |-> handling.st, boot |-> boots] \in Takings
  BY <1>3, ResponderAssumption DEF TypeOK, Takings
<1>6. CASE HandleRetired
  <2>1. heap' \in [Sources -> Seq(States)] /\ named' \in [Sources -> Seq(NamedReplies)]
    BY <1>1, <1>2, <1>6, NamedState, WithStateShape DEF HandleRetired
  <2>2. QED
    BY <1>6, <2>1 DEF TypeOK, HandleRetired, Handled
<1>7. CASE HandleStale
  <2>1. heap' \in [Sources -> Seq(States)] /\ named' \in [Sources -> Seq(NamedReplies)]
    BY <1>1, <1>2, <1>7, NamedState, WithStateShape DEF HandleStale
  <2>2. QED
    BY <1>7, <2>1 DEF TypeOK, HandleStale, Handled
<1>8. CASE HandleReplay
  BY <1>8 DEF TypeOK, HandleReplay, Fresh, Handled
<1>9. CASE HandleFull
  <2>1. heap' \in [Sources -> Seq(States)] /\ named' \in [Sources -> Seq(NamedReplies)]
    BY <1>1, <1>2, <1>9, NamedState, WithStateShape DEF HandleFull
  <2>2. QED
    BY <1>3, <1>4, <1>9, <2>1 DEF TypeOK, HandleFull, Fresh, Handled, MoveLastAuth
<1>10. CASE HandleOverRate
  <2>1. PICK compact \in BOOLEAN :
          Named([State EXCEPT !.nonces = Inserted(compact), !.credit = Refilled, !.last = handling.at])
    BY <1>10 DEF HandleOverRate
  <2>2. Inserted(compact) \in [Nonces -> Nat] /\ Refilled \in 0..Credit
    BY <1>1, InsertedType
  <2>3. [State EXCEPT !.nonces = Inserted(compact), !.credit = Refilled, !.last = handling.at] \in States
    BY <1>2, <1>3, <2>2 DEF States
  <2>4. heap' \in [Sources -> Seq(States)] /\ named' \in [Sources -> Seq(NamedReplies)]
    BY <1>1, <2>1, <2>3, NamedState, WithStateShape
  <2>5. taken' \subseteq Takings
    BY <1>5, <1>10 DEF HandleOverRate, Take, TypeOK
  <2>6. QED
    BY <1>3, <1>4, <1>10, <2>4, <2>5 DEF TypeOK, HandleOverRate, Hold, Fresh, Handled, MoveLastAuth
<1>11. CASE HandleOK
  <2>1. PICK compact \in BOOLEAN :
          heap' = WithState([State EXCEPT !.nonces = Inserted(compact), !.credit = Refilled - Cost, !.last = handling.at])
    BY <1>11 DEF HandleOK
  <2>2. Inserted(compact) \in [Nonces -> Nat] /\ Refilled - Cost \in 0..Credit
    BY <1>1, <1>11, InsertedType, ResponderAssumption DEF HandleOK
  <2>3. [State EXCEPT !.nonces = Inserted(compact), !.credit = Refilled - Cost, !.last = handling.at] \in States
    BY <1>2, <1>3, <2>2 DEF States
  <2>4. heap' \in [Sources -> Seq(States)]
    BY <1>1, <2>1, <2>3, WithStateShape
  <2>5. taken' \subseteq Takings
    BY <1>5, <1>11 DEF HandleOK, Take, TypeOK
  <2>6. late' \in Nat
    BY <1>11 DEF HandleOK, TypeOK
  <2>7. QED
    BY <1>3, <1>4, <1>11, <2>4, <2>5, <2>6 DEF TypeOK, HandleOK, Hold, Fresh, Handled, MoveLastAuth
<1>12. QED
  BY <1>6, <1>7, <1>8, <1>9, <1>10, <1>11 DEF Handle

\* The clock and the restart keep the type invariant.
LEMMA EnvironmentType ==
  ASSUME TypeOK, Tick \/ StepBack \/ Restart
  PROVE TypeOK'
<1>1. CASE Tick
  BY <1>1 DEF TypeOK, Tick
<1>2. CASE StepBack
  <2>1. now' \in Nat \ {0}
    BY <1>2 DEF TypeOK, StepBack
  <2>2. backs' \in 0..MaxBacks
    <3>1. backs \in 0..MaxBacks /\ MaxBacks \in Nat
      BY ResponderAssumption DEF TypeOK
    <3>2. backs < MaxBacks /\ backs' = backs + 1
      BY <1>2 DEF StepBack
    <3>3. QED
      BY <3>1, <3>2
  <2>3. QED
    BY <1>2, <2>1, <2>2 DEF TypeOK, StepBack
<1>3. CASE Restart
  <2>1. IsTable(table') /\ wanted' \in Entries /\ \A r \in Refreshers : IsTable(built'[r])
    BY <1>3, EmptyType DEF Restart
  <2>2. boots' \in 0..MaxBoots
    BY <1>3, ResponderAssumption DEF TypeOK, Restart
  <2>3. heap' \in [Sources -> Seq(States)]
    BY <1>3 DEF Restart
  <2>4. built' = [r \in Refreshers |-> built'[r]]
    BY <1>3 DEF Restart
  <2>5. start' \in Nat \ {0} /\ now' \in Nat \ {0}
    BY <1>3 DEF TypeOK, Restart
  <2>6. UNCHANGED <<backs, tenure, taken, named>> /\ lastAuth' = 0 /\ late' = 0
        /\ setMu' = None /\ handling' = None /\ mover' = None
    BY <1>3 DEF Restart
  <2>7. QED
    BY <2>1, <2>2, <2>3, <2>4, <2>5, <2>6 DEF TypeOK
<1>4. QED
  BY <1>1, <1>2, <1>3

-----------------------------------------------------------------------------
(***************************************************************************)
(* What Handle's steps do to the heap and the history: one state is        *)
(* stored, whose cache lost expired nonces at most; a request that is      *)
(* taken is held.                                                          *)
(***************************************************************************)
KeepsHeap ==
  /\ \A s \in Sources : Len(heap'[s]) = Len(heap[s])
  /\ \A s \in Sources : \A k \in 1..Len(heap[s]) : \A n \in Nonces :
       \/ heap'[s][k].nonces[n] = heap[s][k].nonces[n]
       \/ /\ s = handling.req.source /\ k = handling.st
          /\ heap[s][k].nonces[n] <= handling.at

TakesHeld ==
  \/ taken' = taken
  \/ /\ \E ok \in BOOLEAN : Take(ok)
     /\ heap'[handling.req.source][handling.st].nonces[handling.req.nonce]
          = handling.req.sent + Window + 1

\* Every step of Handle is of this form.
LEMMA HandleHeap ==
  ASSUME IInv, Handle
  PROVE /\ handling # None /\ handling' = None
        /\ UNCHANGED <<environment, start, setVars>>
        /\ KeepsHeap /\ TakesHeld
<1>1. handling # None /\ handling' = None /\ UNCHANGED <<environment, start, setVars>>
  BY DEF Handle, HandleRetired, HandleStale, HandleReplay, HandleFull, HandleOverRate, HandleOK, Hold, Fresh, Handled
<1> DEFINE src == handling.req.source
<1>2. TypeOK /\ HandlingStay
  BY <1>1 DEF IInv, StayInv
<1>3. State \in States /\ handling \in Handlings /\ handling.st \in 1..Len(heap[src])
  BY <1>1, <1>2, StateType
<1>4. src \in Sources /\ handling.req.nonce \in Nonces /\ handling.req.sent \in Nat /\ handling.at \in Nat
  BY <1>3, ResponderAssumption DEF Handlings, Requests
<1>5. ASSUME NEW sy \in States, heap' = WithState(sy),
             \A n \in Nonces : sy.nonces[n] = State.nonces[n] \/ State.nonces[n] <= handling.at
      PROVE KeepsHeap /\ heap'[src][handling.st] = sy
  <2>1. /\ \A s \in Sources : Len(heap'[s]) = Len(heap[s])
        /\ \A s \in Sources : \A k \in 1..Len(heap[s]) :
             heap'[s][k] = IF s = handling.req.source /\ k = handling.st THEN sy ELSE heap[s][k]
    BY <1>1, <1>2, <1>5, WithStateShape
  <2>2. State = heap[handling.req.source][handling.st]
    BY DEF State
  <2>3. heap'[src][handling.st] = sy
    BY <1>3, <1>4, <2>1
  <2>4. QED
    BY <1>5, <2>1, <2>2, <2>3 DEF KeepsHeap
<1>6. CASE HandleRetired \/ HandleStale \/ HandleFull
  <2>1. Named(State) /\ taken' = taken
    BY <1>6 DEF HandleRetired, HandleStale, HandleFull
  <2>2. PICK sy \in States : heap' = WithState(sy) /\ sy.nonces = State.nonces
    BY <1>1, <1>2, <1>3, <2>1, NamedState
  <2>3. KeepsHeap
    BY <1>5, <2>2
  <2>4. QED
    BY <1>1, <2>1, <2>3 DEF TakesHeld
<1>7. CASE HandleReplay
  BY <1>1, <1>7 DEF HandleReplay, KeepsHeap, TakesHeld
<1>8. ASSUME NEW compact \in BOOLEAN, NEW sy \in States, heap' = WithState(sy),
             sy.nonces = Inserted(compact), Hold, \E ok \in BOOLEAN : Take(ok)
      PROVE KeepsHeap /\ TakesHeld
  <2>1. ~(State.nonces[handling.req.nonce] > handling.at)
    BY <1>8 DEF Hold, Seen
  <2>2. State.nonces \in [Nonces -> Nat]
    BY <1>3 DEF States
  <2>3. \A n \in Nonces : sy.nonces[n] = State.nonces[n] \/ State.nonces[n] <= handling.at
    BY <1>4, <1>8, <2>1, <2>2 DEF Inserted, Live
  <2>4. sy.nonces[handling.req.nonce] = handling.req.sent + Window + 1
    BY <1>4, <1>8 DEF Inserted
  <2>5. QED
    BY <1>5, <1>8, <2>3, <2>4 DEF TakesHeld
<1>9. CASE HandleOverRate
  <2> DEFINE sx(compact) == [State EXCEPT !.nonces = Inserted(compact), !.credit = Refilled, !.last = handling.at]
  <2>1. PICK compact \in BOOLEAN : Named(sx(compact))
    BY <1>9 DEF HandleOverRate
  <2>2. Inserted(compact) \in [Nonces -> Nat] /\ Refilled \in 0..Credit
    BY <1>1, <1>2, InsertedType
  <2>3. sx(compact) \in States /\ sx(compact).nonces = Inserted(compact)
    BY <1>3, <1>4, <2>2 DEF States
  <2> HIDE DEF sx
  <2>4. PICK sy \in States : heap' = WithState(sy) /\ sy.nonces = sx(compact).nonces
    BY <1>1, <1>2, <2>1, <2>3, NamedState
  <2>5. Hold /\ \E ok \in BOOLEAN : Take(ok)
    BY <1>9 DEF HandleOverRate
  <2>6. QED
    BY <1>1, <1>8, <2>3, <2>4, <2>5
<1>10. CASE HandleOK
  <2> DEFINE sx(compact) == [State EXCEPT !.nonces = Inserted(compact), !.credit = Refilled - Cost, !.last = handling.at]
  <2>1. PICK compact \in BOOLEAN : heap' = WithState(sx(compact))
    BY <1>10 DEF HandleOK
  <2>2. Inserted(compact) \in [Nonces -> Nat] /\ Refilled - Cost \in 0..Credit
    BY <1>1, <1>2, <1>10, InsertedType, ResponderAssumption DEF HandleOK
  <2>3. sx(compact) \in States /\ sx(compact).nonces = Inserted(compact)
    BY <1>3, <1>4, <2>2 DEF States
  <2> HIDE DEF sx
  <2>4. Hold /\ \E ok \in BOOLEAN : Take(ok)
    BY <1>10 DEF HandleOK
  <2>5. QED
    BY <1>1, <1>8, <2>1, <2>3, <2>4
<1>11. QED
  BY <1>1, <1>6, <1>7, <1>9, <1>10 DEF Handle

-----------------------------------------------------------------------------
\* TableInv: only SetTable, Restart and the shape of the heap matter to it.
LEMMA TableStep ==
  ASSUME IInv, Next
  PROVE TableInv'
<1>1. TypeOK /\ TableInv
  BY DEF IInv
<1>2. ASSUME NEW r \in Refreshers, NEW entries \in Entries, BuildTable(r, entries)
      PROVE TableInv'
  <2>1. DOMAIN table \subseteq Sources /\ DOMAIN entries \subseteq Sources /\ heap \in [Sources -> Seq(States)]
    BY <1>1 DEF TypeOK, IsTable, Entries
  <2>2. /\ \A s \in DOMAIN table : heap'[s] = heap[s]
        /\ \A s \in DOMAIN entries \ DOMAIN table : Len(heap'[s]) = Len(heap[s]) + 1
    BY <1>2, <2>1 DEF BuildTable
  <2>3. DOMAIN wanted' = DOMAIN table' /\ \A s \in DOMAIN table' : table'[s].st = Len(heap'[s])
    BY <1>1, <1>2, <2>2 DEF TableInv, BuildTable
  <2>4. setMu' = r /\ built'[r] = [s \in DOMAIN entries |->
          [epochs |-> entries[s],
           st |-> IF s \in DOMAIN table THEN table[s].st ELSE Len(heap[s]) + 1]]
    BY <1>1, <1>2 DEF BuildTable, TypeOK
  <2>5. \A s \in DOMAIN built'[setMu'] : built'[setMu'][s].st = Len(heap'[s])
    BY <1>1, <2>2, <2>4 DEF TableInv
  <2>6. QED
    BY <2>3, <2>5 DEF TableInv
<1>3. ASSUME NEW r \in Refreshers, StoreTable(r)
      PROVE TableInv'
  <2>1. setMu = r /\ setMu # None
    BY <1>3, ResponderAssumption DEF StoreTable
  <2>2. QED
    BY <1>1, <1>3, <2>1 DEF TableInv, StoreTable
<1>4. CASE Handle
  <2>1. UNCHANGED setVars /\ \A s \in Sources : Len(heap'[s]) = Len(heap[s])
    BY <1>4, HandleHeap DEF KeepsHeap
  <2>2. DOMAIN table \subseteq Sources /\ (setMu # None => DOMAIN built[setMu] \subseteq Sources)
    BY <1>1 DEF TypeOK, IsTable
  <2>3. QED
    BY <1>1, <2>1, <2>2 DEF TableInv
<1>5. CASE Restart
  BY <1>5, EmptyType DEF TableInv, Restart
<1>6. CASE Tick \/ StepBack \/ \E req \in Requests : Load(req)
  BY <1>1, <1>6 DEF TableInv, Tick, StepBack, Load
<1>7. QED
  BY <1>2, <1>3, <1>4, <1>5, <1>6 DEF Next

-----------------------------------------------------------------------------
\* The types of the histories and of the numbers the invariants compare.
LEMMA TakenType ==
  ASSUME TypeOK, NEW t \in taken
  PROVE /\ t.req \in Requests /\ t.req.source \in Sources /\ t.req.nonce \in Nonces
        /\ t.req.sent \in Nat /\ t.at \in Nat
        /\ t.stay \in Stays /\ t.stay.tenure \in Nat /\ t.stay.backs \in Nat
        /\ t.st \in Nat \ {0} /\ t.boot \in Nat
<1>1. t \in Takings
  BY DEF TypeOK
<1>2. t.req \in Requests /\ t.stay \in Stays /\ t.st \in Nat \ {0} /\ t.boot \in Nat /\ t.at \in Nat
  BY <1>1 DEF Takings
<1>3. QED
  BY <1>2, ResponderAssumption DEF Requests, Stays

\* The parts of a request being handled have their types.
LEMMA HandlingType ==
  ASSUME TypeOK, handling # None
  PROVE /\ handling.req \in Requests /\ handling.req.source \in Sources
        /\ handling.req.nonce \in Nonces /\ handling.req.sent \in Nat /\ handling.at \in Nat
        /\ handling.stay \in Stays /\ handling.stay.tenure \in Nat /\ handling.stay.backs \in Nat
        /\ handling.st \in Nat \ {0}
<1>1. handling \in Handlings
  BY DEF TypeOK
<1>2. handling.req \in Requests /\ handling.stay \in Stays /\ handling.st \in Nat \ {0} /\ handling.at \in Nat
  BY <1>1 DEF Handlings
<1>3. QED
  BY <1>2, ResponderAssumption DEF Requests, Stays

\* Counters and lengths are natural numbers.
LEMMA CounterType ==
  ASSUME TypeOK
  PROVE /\ now \in Nat /\ backs \in Nat /\ boots \in Nat
        /\ \A s \in Sources : tenure[s] \in Nat
        /\ \A s \in Sources : Len(heap[s]) \in Nat
BY ResponderAssumption DEF TypeOK

\* StayInv, action by action.
LEMMA StayStep ==
  ASSUME IInv, Next
  PROVE StayInv'
<1>1. TypeOK /\ TableInv /\ StayInv
  BY DEF IInv
<1>2. CASE Tick
  <2>1. now' = now + 1 /\ UNCHANGED <<backs, boots, tenure, table, heap, handling, taken>>
    BY <1>2 DEF Tick
  <2>2. \A t \in taken : TakenStay(t)'
    BY <1>1, <2>1 DEF StayInv, TakenStay
  <2>3. ASSUME handling # None PROVE HandlingStay' /\ \A t \in taken : SameStay(t)'
    BY <1>1, <2>1, <2>3, CounterType, HandlingType DEF StayInv, HandlingStay, SameStay
  <2>4. QED
    BY <2>1, <2>2, <2>3 DEF StayInv
<1>3. CASE StepBack
  <2>1. backs' = backs + 1 /\ UNCHANGED <<boots, tenure, table, heap, handling, taken>>
    BY <1>3 DEF StepBack
  <2>2. ASSUME NEW t \in taken PROVE TakenStay(t)'
    BY <1>1, <2>1, CounterType, TakenType DEF StayInv, TakenStay
  <2>3. ASSUME handling # None PROVE HandlingStay' /\ \A t \in taken : SameStay(t)'
    BY <1>1, <2>1, <2>3, CounterType, HandlingType DEF StayInv, HandlingStay, SameStay
  <2>4. QED
    BY <2>1, <2>2, <2>3 DEF StayInv
<1>4. CASE Restart
  <2>1. /\ boots' = boots + 1 /\ UNCHANGED <<backs, tenure, taken>>
        /\ handling' = None /\ DOMAIN table' = {}
    BY <1>4, EmptyType DEF Restart
  <2>2. ASSUME NEW t \in taken PROVE TakenStay(t)'
    BY <1>1, <2>1, CounterType, TakenType DEF StayInv, TakenStay
  <2>3. QED
    BY <2>1, <2>2 DEF StayInv
<1>5. ASSUME NEW r \in Refreshers, NEW entries \in Entries, BuildTable(r, entries)
      PROVE StayInv'
  <2>1. UNCHANGED <<now, backs, boots, tenure, table, handling, taken>>
    BY <1>5 DEF BuildTable
  <2>2. \A s \in Sources : Len(heap[s]) <= Len(heap'[s])
    BY <1>1, <1>5 DEF BuildTable, TypeOK
  <2>3. \A t \in taken : TakenStay(t)'
    BY <1>1, <2>1 DEF StayInv, TakenStay
  <2>4. ASSUME handling # None PROVE HandlingStay'
    <3>1. Len(heap[handling.req.source]) <= Len(heap'[handling.req.source])
          /\ Len(heap[handling.req.source]) \in Nat /\ Len(heap'[handling.req.source]) \in Nat
      <4>1. handling.req.source \in Sources
        BY <1>1, <2>4, HandlingType
      <4>2. TypeOK'
        BY <1>1, <1>5, BuildType
      <4>3. heap' \in [Sources -> Seq(States)] /\ heap \in [Sources -> Seq(States)]
        BY <1>1, <4>2 DEF TypeOK
      <4>4. QED
        BY <2>2, <4>1, <4>3
    <3>2. handling.st <= Len(heap'[handling.req.source])
      BY <1>1, <2>4, <3>1, HandlingType DEF StayInv, HandlingStay
    <3>3. QED
      BY <1>1, <2>1, <2>4, <3>2 DEF StayInv, HandlingStay
  <2>5. ASSUME handling # None PROVE \A t \in taken : SameStay(t)'
    BY <1>1, <2>1, <2>5 DEF StayInv, SameStay
  <2>6. QED
    BY <2>1, <2>3, <2>4, <2>5 DEF StayInv
<1>6. ASSUME NEW r \in Refreshers, StoreTable(r)
      PROVE StayInv'
  <2>1. UNCHANGED <<now, backs, boots, heap, handling, taken>> /\ table' = built[r] /\ setMu = r
    BY <1>6 DEF StoreTable
  <2>2. ASSUME NEW s \in Sources
        PROVE /\ tenure'[s] \in {tenure[s], tenure[s] + 1}
              /\ s \in DOMAIN table' /\ tenure'[s] = tenure[s]
                 => s \in DOMAIN table /\ table'[s].st = table[s].st
    <3>1. tenure'[s] = IF s \in DOMAIN built[r] /\ s \notin DOMAIN table THEN tenure[s] + 1 ELSE tenure[s]
      BY <1>1, <1>6 DEF StoreTable, TableInv
    <3>2. r # None
      BY ResponderAssumption
    <3>3. s \in DOMAIN table /\ s \in DOMAIN built[r] => table[s].st = built[r][s].st
      BY <1>1, <2>1, <3>2 DEF TableInv
    <3>4. tenure[s] \in Nat
      BY <1>1, CounterType
    <3>5. QED
      BY <2>1, <3>1, <3>3, <3>4
  <2>3. ASSUME NEW t \in taken PROVE TakenStay(t)'
    <3>1. TakenStay(t) /\ t.req.source \in Sources /\ t.stay.tenure \in Nat /\ tenure[t.req.source] \in Nat
      BY <1>1, TakenType, CounterType DEF StayInv
    <3>2. QED
      BY <2>1, <2>2, <3>1 DEF TakenStay
  <2>4. ASSUME handling # None PROVE HandlingStay'
    <3>1. /\ HandlingStay /\ handling.req.source \in Sources
          /\ handling.stay.tenure \in Nat /\ tenure[handling.req.source] \in Nat
      BY <1>1, <2>4, HandlingType, CounterType DEF StayInv
    <3>2. QED
      BY <2>1, <2>2, <3>1 DEF HandlingStay
  <2>5. ASSUME handling # None PROVE \A t \in taken : SameStay(t)'
    BY <1>1, <2>1, <2>5 DEF StayInv, SameStay
  <2>6. QED
    BY <2>1, <2>3, <2>4, <2>5 DEF StayInv
<1>7. ASSUME NEW req \in Requests, Load(req)
      PROVE StayInv'
  <2>1. UNCHANGED <<now, backs, boots, table, tenure, heap, taken>>
    BY <1>7 DEF Load
  <2>2. /\ handling'.req = req /\ handling'.at = now /\ handling'.st = table[req.source].st
        /\ handling'.stay = [source |-> req.source, tenure |-> tenure[req.source], backs |-> backs]
        /\ req.source \in DOMAIN table
    BY <1>7 DEF Load
  <2>3. req.source \in Sources /\ table[req.source].st = Len(heap[req.source])
    BY <1>1, <2>2 DEF TableInv, Requests
  <2>4. \A t \in taken : TakenStay(t)'
    BY <1>1, <2>1 DEF StayInv, TakenStay
  <2>5. HandlingStay'
    BY <1>1, <2>1, <2>2, <2>3, CounterType DEF HandlingStay
  <2>6. \A t \in taken : SameStay(t)'
    BY <1>1, <2>1, <2>2 DEF StayInv, TakenStay, SameStay
  <2>7. QED
    BY <2>1, <2>4, <2>5, <2>6 DEF StayInv
<1>8. CASE Handle
  <2>1. handling # None /\ handling' = None /\ UNCHANGED <<now, backs, boots, table, tenure>> /\ TakesHeld
    BY <1>8, HandleHeap
  <2>2. HandlingStay
    BY <1>1, <2>1 DEF StayInv
  <2>3. ASSUME NEW t \in taken PROVE TakenStay(t)'
    BY <1>1, <2>1 DEF StayInv, TakenStay
  <2>4. ASSUME NEW ok \in BOOLEAN, Take(ok), NEW t \in taken' \ taken PROVE TakenStay(t)'
    <3>1. t.req = handling.req /\ t.stay = handling.stay /\ t.st = handling.st /\ t.boot = boots
      BY <2>4 DEF Take
    <3>2. QED
      BY <1>1, <2>1, <2>2, <3>1, CounterType DEF HandlingStay, TakenStay
  <2>5. QED
    BY <2>1, <2>3, <2>4 DEF StayInv, TakesHeld
<1>9. QED
  BY <1>2, <1>3, <1>4, <1>5, <1>6, <1>7, <1>8 DEF Next

-----------------------------------------------------------------------------
\* CacheInv, action by action.
LEMMA CacheStep ==
  ASSUME IInv, Next
  PROVE CacheInv'
<1>1. TypeOK /\ StayInv /\ CacheInv
  BY DEF IInv
<1>2. CASE Tick
  <2>1. now' = now + 1 /\ UNCHANGED <<backs, boots, heap, handling, taken>>
    BY <1>2 DEF Tick
  <2>2. ASSUME NEW t \in taken
        PROVE now > t.req.sent + Window => now' > t.req.sent + Window
    BY <1>1, <2>1, CounterType, TakenType, ResponderAssumption
  <2>3. QED
    BY <1>1, <2>1, <2>2 DEF CacheInv, Holds
<1>3. CASE StepBack
  <2>1. backs' = backs + 1 /\ UNCHANGED <<boots, heap, handling, taken>>
    BY <1>3 DEF StepBack
  <2>2. ASSUME NEW t \in taken PROVE t.stay.backs # backs'
    BY <1>1, <2>1, CounterType, TakenType DEF StayInv, TakenStay
  <2>3. QED
    BY <1>1, <2>1, <2>2 DEF CacheInv, Holds
<1>4. CASE Restart
  <2>1. boots' = boots + 1 /\ handling' = None /\ taken' = taken
    BY <1>4 DEF Restart
  <2>2. ASSUME NEW t \in taken PROVE t.boot # boots'
    BY <1>1, <2>1, CounterType, TakenType DEF StayInv, TakenStay
  <2>3. QED
    BY <2>1, <2>2 DEF CacheInv
<1>5. ASSUME NEW r \in Refreshers, NEW entries \in Entries, BuildTable(r, entries)
      PROVE CacheInv'
  <2>1. UNCHANGED <<now, backs, boots, handling, taken>>
    BY <1>5 DEF BuildTable
  <2>2. ASSUME NEW t \in taken, t.boot = boots
        PROVE t.st <= Len(heap'[t.req.source]) /\ Holds(t)' = Holds(t)
    <3>1. t.st \in 1..Len(heap[t.req.source]) /\ t.req.source \in Sources
      BY <1>1, <2>2, CounterType, TakenType DEF CacheInv
    <3>2. heap[t.req.source] \in Seq(States)
      BY <1>1, <3>1 DEF TypeOK
    <3>3. heap'[t.req.source] \in {heap[t.req.source], Append(heap[t.req.source], FreshState)}
      BY <1>5, <3>1 DEF BuildTable
    <3>4. t.st <= Len(heap'[t.req.source]) /\ heap'[t.req.source][t.st] = heap[t.req.source][t.st]
      BY <3>1, <3>2, <3>3
    <3>5. QED
      BY <3>4 DEF Holds
  <2>3. ASSUME handling # None, NEW t \in taken, t.stay = handling.stay
        PROVE Holds(t)' \/ handling.at > t.req.sent + Window
    BY <1>1, <2>2, <2>3 DEF CacheInv, StayInv, SameStay
  <2>4. QED
    BY <1>1, <2>1, <2>2, <2>3 DEF CacheInv
<1>6. ASSUME NEW r \in Refreshers, StoreTable(r)
      PROVE CacheInv'
  BY <1>1, <1>6 DEF CacheInv, Holds, StoreTable
<1>7. ASSUME NEW req \in Requests, Load(req)
      PROVE CacheInv'
  <2>1. UNCHANGED <<now, backs, boots, heap, taken>>
    BY <1>7 DEF Load
  <2>2. /\ handling'.at = now /\ req.source \in DOMAIN table
        /\ handling'.stay = [source |-> req.source, tenure |-> tenure[req.source], backs |-> backs]
    BY <1>7 DEF Load
  <2>3. ASSUME NEW t \in taken, t.stay = handling'.stay
        PROVE Holds(t) \/ handling'.at > t.req.sent + Window
    <3>1. TakenStay(t) /\ t.stay.source = req.source /\ t.stay.tenure = tenure[req.source] /\ t.stay.backs = backs
      BY <1>1, <2>2, <2>3 DEF StayInv
    <3>2. t.boot = boots
      BY <2>2, <3>1 DEF TakenStay
    <3>3. QED
      BY <1>1, <2>2, <3>1, <3>2 DEF CacheInv
  <2>4. QED
    BY <1>1, <2>1, <2>3 DEF CacheInv, Holds
<1>8. CASE Handle
  <2>1. /\ handling # None /\ handling' = None /\ UNCHANGED <<now, backs, boots>>
        /\ KeepsHeap /\ TakesHeld
    BY <1>8, HandleHeap
  <2>2. HandlingStay /\ \A t \in taken : SameStay(t)
    BY <1>1, <2>1 DEF StayInv
  <2>3. ASSUME NEW t \in taken, t.boot = boots
        PROVE /\ t.st <= Len(heap'[t.req.source])
              /\ t.stay.backs = backs => Holds(t)' \/ now > t.req.sent + Window
    <3>1. t.req.source \in Sources /\ t.req.nonce \in Nonces /\ t.req.sent + Window \in Nat
          /\ t.stay.backs \in Nat /\ t.st \in Nat \ {0}
      BY <1>1, TakenType, ResponderAssumption
    <3>2. t.st \in 1..Len(heap[t.req.source])
      BY <1>1, <2>3, <3>1, CounterType DEF CacheInv
    <3>3. t.st <= Len(heap'[t.req.source])
      BY <2>1, <3>1, <3>2 DEF KeepsHeap
    <3>4. ASSUME t.stay.backs = backs, Holds(t), ~Holds(t)'
          PROVE now > t.req.sent + Window
      <4>1. heap[t.req.source][t.st].nonces[t.req.nonce] <= handling.at
        <5>1. \/ heap'[t.req.source][t.st].nonces[t.req.nonce] = heap[t.req.source][t.st].nonces[t.req.nonce]
              \/ heap[t.req.source][t.st].nonces[t.req.nonce] <= handling.at
          <6>1. t.req.source \in Sources /\ t.req.nonce \in Nonces
            BY <3>1
          <6>2. \A s \in Sources : \A k \in 1..Len(heap[s]) : \A n \in Nonces :
                  \/ heap'[s][k].nonces[n] = heap[s][k].nonces[n]
                  \/ heap[s][k].nonces[n] <= handling.at
            BY <2>1 DEF KeepsHeap
          <6>3. QED
            BY <3>2, <6>1, <6>2, Zenon
        <5>2. heap'[t.req.source][t.st].nonces[t.req.nonce] # heap[t.req.source][t.st].nonces[t.req.nonce]
          BY <3>4 DEF Holds
        <5>3. QED
          BY <5>1, <5>2
      <4>2. heap[t.req.source][t.st].nonces[t.req.nonce] \in Nat
        <5>1. heap[t.req.source] \in Seq(States)
          BY <1>1, <3>1 DEF TypeOK
        <5>2. heap[t.req.source][t.st] \in States
          BY <3>2, <5>1
        <5>3. QED
          BY <3>1, <5>2 DEF States
      <4>3. handling.at \in Nat /\ handling.stay.backs \in Nat /\ now \in Nat /\ backs \in Nat
        BY <1>1, <2>1, HandlingType, CounterType
      <4>4. handling.stay.backs = backs
        BY <2>2, <3>4, <4>3 DEF HandlingStay, SameStay
      <4>5. handling.at <= now
        BY <2>2, <4>4 DEF HandlingStay
      <4>6. QED
        BY <3>1, <3>4, <4>1, <4>2, <4>3, <4>5 DEF Holds
    <3>5. QED
      BY <1>1, <2>3, <3>3, <3>4 DEF CacheInv
  <2>4. ASSUME NEW ok \in BOOLEAN, Take(ok), NEW t \in taken' \ taken, TakesHeld, taken' # taken
        PROVE t.st <= Len(heap'[t.req.source]) /\ Holds(t)'
    <3>1. t.req = handling.req /\ t.st = handling.st
      BY <2>4 DEF Take
    <3>2. /\ handling.req.source \in Sources /\ handling.req.nonce \in Nonces
          /\ handling.req.sent + Window \in Nat
      BY <1>1, <2>1, HandlingType, ResponderAssumption
    <3>3. t.st <= Len(heap'[t.req.source])
      BY <2>1, <2>2, <3>1, <3>2 DEF HandlingStay, KeepsHeap
    <3>4. heap'[t.req.source][t.st].nonces[t.req.nonce] = t.req.sent + Window + 1
      BY <2>4, <3>1 DEF TakesHeld
    <3>5. QED
      BY <3>1, <3>2, <3>3, <3>4 DEF Holds
  <2>5. ASSUME NEW t \in taken', t.boot = boots
        PROVE /\ t.st <= Len(heap'[t.req.source])
              /\ t.stay.backs = backs => Holds(t)' \/ now > t.req.sent + Window
    BY <2>1, <2>3, <2>4, <2>5 DEF TakesHeld
  <2>6. QED
    BY <2>1, <2>5 DEF CacheInv
<1>9. QED
  BY <1>2, <1>3, <1>4, <1>5, <1>6, <1>7, <1>8 DEF Next

-----------------------------------------------------------------------------
\* The initial state satisfies the invariant.
LEMMA InitIInv == Init => IInv
<1>1. SUFFICES ASSUME Init PROVE TypeOK /\ TableInv /\ StayInv /\ CacheInv
  BY DEF IInv
<1>2. TypeOK
  BY <1>1, InitType
<1>3. TableInv
  BY <1>1, EmptyType DEF Init, TableInv
<1>4. taken = {} /\ handling = None
  BY <1>1 DEF Init
<1>5. QED
  BY <1>2, <1>3, <1>4 DEF StayInv, CacheInv

\* A stuttering step preserves the invariant.
LEMMA StutterIInv ==
  ASSUME IInv, UNCHANGED vars
  PROVE IInv'
<1>1. TypeOK'
  BY DEF IInv, TypeOK, IsTable
<1>2. TableInv'
  BY DEF IInv, TableInv
<1>3. StayInv'
  BY DEF IInv, StayInv, TakenStay, HandlingStay, SameStay
<1>4. CacheInv'
  BY DEF IInv, CacheInv, Holds
<1>5. QED
  BY <1>1, <1>2, <1>3, <1>4 DEF IInv

\* Every step keeps the invariant.
LEMMA NextIInv ==
  ASSUME IInv, [Next]_vars
  PROVE IInv'
<1>1. CASE UNCHANGED vars
  BY <1>1, StutterIInv
<1>2. CASE Next
  <2>1. TypeOK /\ (handling # None => HandlingStay)
    BY DEF IInv, StayInv
  <2>2. TypeOK'
    BY <1>2, <2>1, BuildType, StoreType, LoadType, HandleType, EnvironmentType DEF Next
  <2>3. QED
    BY <1>2, <2>2, TableStep, StayStep, CacheStep DEF IInv
<1>3. QED
  BY <1>1, <1>2

\* The inductive invariant holds throughout.
LEMMA Invariant == Spec => []IInv
BY InitIInv, NextIInv, PTL DEF Spec

\* Every variable keeps its type, in particular the allowance of allow stays
\* within 0..creditNs.
THEOREM TypeCorrect == Spec => []TypeOK
<1>1. IInv => TypeOK
  BY DEF IInv
<1>2. QED
  BY <1>1, Invariant, PTL

(***************************************************************************)
(* A request that Handle answered or refused for rate is neither answered  *)
(* again nor counted as authenticated again in the same stay of its source *)
(* in the table, while the clock is not stepped back.                      *)
(***************************************************************************)
THEOREM RequestsTakenOnce == Spec => TakenOnce
<1>1. ASSUME IInv, HandleFull \/ HandleOverRate \/ HandleOK, NEW t \in taken,
             t.stay = handling.stay, t.req = handling.req
      PROVE FALSE
  <2>1. handling # None /\ ~Stale /\ ~Seen
    BY <1>1 DEF HandleFull, HandleOverRate, HandleOK, Hold, Fresh, Handled
  <2>2. t.st = handling.st
    BY <1>1, <2>1 DEF IInv, StayInv, SameStay
  <2>3. Holds(t) \/ handling.at > t.req.sent + Window
    BY <1>1, <2>1 DEF IInv, CacheInv
  <2>4. handling.req.sent \in Nat /\ handling.at \in Nat /\ Window \in Nat
    BY <1>1, <2>1, HandlingType, ResponderAssumption DEF IInv
  <2>5. ~(handling.at - handling.req.sent > Window)
    BY <2>1 DEF Stale
  <2>6. State.nonces[handling.req.nonce] > handling.req.sent + Window
    BY <1>1, <2>2, <2>3, <2>4, <2>5 DEF Holds, State
  <2>7. State.nonces[handling.req.nonce] \in Nat
    <3>1. TypeOK /\ HandlingStay
      BY <1>1, <2>1 DEF IInv, StayInv
    <3>2. State \in States /\ handling.req.nonce \in Nonces
      BY <2>1, <3>1, StateType, HandlingType
    <3>3. QED
      BY <3>2 DEF States
  <2>8. QED
    BY <2>1, <2>4, <2>5, <2>6, <2>7 DEF Seen
<1>2. IInv /\ [Next]_vars =>
        [HandleFull \/ HandleOverRate \/ HandleOK =>
           \A t \in taken : t.stay = handling.stay => t.req # handling.req]_vars
  BY <1>1
<1>3. QED
  BY <1>2, Invariant, PTL DEF TakenOnce, Spec

-----------------------------------------------------------------------------
(***************************************************************************)
(* The stay a source of the table is in.  Two of its requests meet the     *)
(* same state, so what that state remembers of the stay (lastNamed, the    *)
(* allowance and when it was refilled) is what the history says of it.     *)
(***************************************************************************)
CurrentStay(s) == [source |-> s, tenure |-> tenure[s], backs |-> backs]

\* No stay of the history is later than the one being handled.
NotAfterHandling(c) ==
  c.source = handling.stay.source =>
    c.tenure <= handling.stay.tenure /\ c.backs <= handling.stay.backs

Latest(s) == named[s][Len(named[s])]

\* What a state remembers of the latest non-ok reply to s, if it was in stay c.
Remembers(s, c, sx, upto) ==
  Latest(s).stay = c => sx.lastNamed = Latest(s).at /\ Latest(s).at <= upto

NamedSoFar(s) ==
  /\ Latest(s).stay.source = s
  /\ Latest(s).stay.tenure <= tenure[s] /\ Latest(s).stay.backs <= backs
  /\ Latest(s).at # 0
  /\ s \in DOMAIN table => Remembers(s, CurrentStay(s), heap[s][table[s].st], now)
  /\ handling # None /\ handling.req.source = s => Remembers(s, handling.stay, State, handling.at)

NamedInv ==
  /\ handling # None => handling.at # 0
  /\ \A s \in Sources : Len(named[s]) <= 2 /\ (named[s] # <<>> => NamedSoFar(s))
  /\ NamedSpacing

\* The answers of a stay since time a, and those up to time b.
Since(c, a) == {x \in taken : x.ok /\ x.stay = c /\ a <= x.at}
Between(c, a, b) == {x \in taken : x.ok /\ x.stay = c /\ a <= x.at /\ x.at <= b}

\* The allowance left in a state and the answers of stay c are paid for.
Paid(c, sx, upto) ==
  /\ \A x \in taken : x.stay = c => x.at <= sx.last /\ sx.last <= upto
  /\ \A a \in Nat : Since(c, a) # {} =>
       sx.credit + Cost * Cardinality(Since(c, a)) <= Credit + (sx.last - a)

RateInv ==
  /\ IsFiniteSet(taken)
  /\ \A t \in taken : t.at # 0
  /\ \A c \in Stays : \A a, b \in Nat :
       a <= b => Cost * Cardinality(Between(c, a, b)) <= Credit + (b - a)
  /\ \A s \in DOMAIN table : Paid(CurrentStay(s), heap[s][table[s].st], now)
  /\ handling # None =>
       /\ Paid(handling.stay, State, handling.at)
       /\ \A t \in taken : NotAfterHandling(t.stay)

\* The answers that the latest table does not allow.
LateInv ==
  /\ \A s \in DOMAIN table : table[s].epochs = wanted[s]
  /\ DroppedAtOnce
  /\ late = 1 /\ handling # None =>
       /\ handling.req.source \in DOMAIN wanted
       /\ handling.req.epoch \in DOMAIN wanted[handling.req.source]
       /\ wanted[handling.req.source][handling.req.epoch] = handling.retired

\* What each stay keeps while no request is handled.
CellKept(s) ==
  /\ s \in DOMAIN table
  /\ CurrentStay(s)' = CurrentStay(s)
  /\ heap'[s][table'[s].st] = heap[s][table[s].st]
  /\ now <= now'

StayBegins(s) == tenure'[s] > tenure[s] \/ backs' > backs

HandlingKept ==
  /\ handling # None /\ handling' = handling
  /\ State' = State

HandlingBegins ==
  /\ handling'.req.source \in DOMAIN table
  /\ handling'.stay = CurrentStay(handling'.req.source)
  /\ handling'.at = now
  /\ State' = heap[handling'.req.source][table[handling'.req.source].st]
  /\ UNCHANGED <<tenure, backs>>

OtherStep ==
  /\ UNCHANGED <<taken, named>>
  /\ \A s \in Sources : tenure[s] <= tenure'[s]
  /\ backs <= backs'
  /\ \A s \in DOMAIN table' : CellKept(s) \/ StayBegins(s)
  /\ handling' # None => HandlingKept \/ HandlingBegins

\* A table's state is allocated.
LEMMA TableState ==
  ASSUME IInv, NEW s \in DOMAIN table
  PROVE /\ s \in Sources
        /\ table[s].st \in 1..Len(heap[s])
        /\ heap[s] \in Seq(States)
        /\ heap[s][table[s].st] \in States
<1>1. s \in Sources /\ table[s].st \in Nat \ {0}
  BY DEF IInv, TypeOK, IsTable, TableEntries
<1>2. heap[s] \in Seq(States)
  BY <1>1 DEF IInv, TypeOK
<1>3. table[s].st = Len(heap[s])
  BY DEF IInv, TableInv
<1>4. table[s].st \in 1..Len(heap[s])
  BY <1>1, <1>2, <1>3
<1>5. QED
  BY <1>1, <1>2, <1>4

\* Every step but Handle's is of this form.
LEMMA OtherSteps ==
  ASSUME IInv, Next
  PROVE Handle \/ OtherStep
<1>1. TypeOK /\ TableInv /\ StayInv
  BY DEF IInv
<1>2. CASE Tick
  <2>1. now' = now + 1 /\ UNCHANGED <<backs, tenure, table, heap, handling, taken, named>>
    BY <1>2 DEF Tick
  <2>2. \A s \in DOMAIN table' : CellKept(s)
    BY <1>1, <2>1, CounterType DEF CellKept, CurrentStay
  <2>3. QED
    BY <1>1, <2>1, <2>2, CounterType DEF OtherStep, HandlingKept, State
<1>3. CASE StepBack
  <2>1. backs' = backs + 1 /\ UNCHANGED <<tenure, table, heap, handling, taken, named>>
    BY <1>3 DEF StepBack
  <2>2. \A s \in DOMAIN table' : StayBegins(s)
    BY <1>1, <2>1, CounterType DEF StayBegins
  <2>3. QED
    BY <1>1, <2>1, <2>2, CounterType DEF OtherStep, HandlingKept, State
<1>4. CASE Restart
  <2>1. UNCHANGED <<backs, tenure, taken, named>> /\ handling' = None /\ DOMAIN table' = {}
    BY <1>4, EmptyType DEF Restart
  <2>2. QED
    BY <1>1, <2>1, CounterType DEF OtherStep
<1>5. ASSUME NEW r \in Refreshers, NEW entries \in Entries, BuildTable(r, entries)
      PROVE OtherStep
  <2>1. UNCHANGED <<now, backs, tenure, table, handling, taken, named>>
    BY <1>5 DEF BuildTable
  <2>2. ASSUME NEW s \in Sources, NEW k \in 1..Len(heap[s])
        PROVE heap'[s][k] = heap[s][k]
    <3>1. heap[s] \in Seq(States)
      BY <1>1 DEF TypeOK
    <3>2. heap'[s] \in {heap[s], Append(heap[s], FreshState)}
      BY <1>5 DEF BuildTable
    <3>3. QED
      BY <3>1, <3>2
  <2>3. ASSUME NEW s \in DOMAIN table' PROVE CellKept(s)
    <3>1. s \in Sources /\ table[s].st \in 1..Len(heap[s])
      BY <2>1, <2>3, TableState
    <3>2. QED
      BY <1>1, <2>1, <2>2, <2>3, <3>1, CounterType DEF CellKept, CurrentStay
  <2>4. ASSUME handling' # None PROVE HandlingKept
    <3>1. handling # None /\ HandlingStay
      BY <1>1, <2>1, <2>4 DEF StayInv
    <3>2. handling.req.source \in Sources /\ handling.st \in 1..Len(heap[handling.req.source])
      BY <1>1, <3>1, StateType, HandlingType
    <3>3. QED
      BY <2>1, <2>2, <3>1, <3>2 DEF HandlingKept, State
  <2>5. QED
    BY <1>1, <2>1, <2>3, <2>4, CounterType DEF OtherStep
<1>6. ASSUME NEW r \in Refreshers, StoreTable(r)
      PROVE OtherStep
  <2>1. UNCHANGED <<now, backs, heap, handling, taken, named>> /\ table' = built[r] /\ setMu = r
    BY <1>6 DEF StoreTable
  <2>2. \A s \in Sources :
          tenure'[s] = IF s \in DOMAIN built[r] /\ s \notin DOMAIN table THEN tenure[s] + 1 ELSE tenure[s]
    BY <1>1, <1>6 DEF StoreTable, TableInv
  <2>3. ASSUME NEW s \in DOMAIN table' PROVE CellKept(s) \/ StayBegins(s)
    <3>1. s \in Sources
      BY <1>1, <2>1, <2>3 DEF TypeOK, IsTable
    <3>2. tenure[s] \in Nat
      BY <1>1, <3>1, CounterType
    <3>3. CASE s \notin DOMAIN table
      BY <2>1, <2>2, <2>3, <3>1, <3>2, <3>3 DEF StayBegins
    <3>4. CASE s \in DOMAIN table
      <4>1. tenure'[s] = tenure[s]
        BY <2>2, <3>1, <3>4
      <4>2. table'[s].st = table[s].st
        <5>1. r # None
          BY ResponderAssumption
        <5>2. QED
          BY <1>1, <2>1, <2>3, <3>4, <5>1 DEF TableInv
      <4>3. QED
        BY <1>1, <2>1, <3>4, <4>1, <4>2, CounterType DEF CellKept, CurrentStay
    <3>5. QED
      BY <3>3, <3>4
  <2>4. QED
    BY <1>1, <2>1, <2>2, <2>3, CounterType DEF OtherStep, HandlingKept, State
<1>7. ASSUME NEW req \in Requests, Load(req)
      PROVE OtherStep
  <2>1. UNCHANGED <<now, backs, table, tenure, heap, taken, named>>
    BY <1>7 DEF Load
  <2>2. /\ handling'.req = req /\ handling'.at = now /\ handling'.st = table[req.source].st
        /\ handling'.stay = [source |-> req.source, tenure |-> tenure[req.source], backs |-> backs]
        /\ req.source \in DOMAIN table
    BY <1>7 DEF Load
  <2>3. HandlingBegins
    BY <2>1, <2>2 DEF HandlingBegins, CurrentStay, State
  <2>4. \A s \in DOMAIN table' : CellKept(s)
    BY <1>1, <2>1, CounterType DEF CellKept, CurrentStay
  <2>5. QED
    BY <1>1, <2>1, <2>3, <2>4, CounterType DEF OtherStep
<1>8. QED
  BY <1>2, <1>3, <1>4, <1>5, <1>6, <1>7 DEF Next

-----------------------------------------------------------------------------
(***************************************************************************)
(* What Handle's steps write to the state: named the time of a non-ok      *)
(* reply, allow what is left of the allowance.                             *)
(***************************************************************************)
NewState == heap'[handling.req.source][handling.st]

NamedWrites ==
  \/ named' = named /\ NewState.lastNamed = State.lastNamed
  \/ /\ ~Muted(State)
     /\ NewState.lastNamed = handling.at
     /\ named' = [named EXCEPT ![handling.req.source] =
          LastTwo(Append(@, [stay |-> handling.stay, at |-> handling.at]))]

AllowWrites ==
  \/ taken' = taken /\ NewState.credit = State.credit /\ NewState.last = State.last
  \/ /\ NewState.last = handling.at
     /\ \/ Take(FALSE) /\ NewState.credit = Refilled
        \/ Take(TRUE) /\ NewState.credit = Refilled - Cost

OtherCellsKept ==
  \A s \in Sources : \A k \in 1..Len(heap[s]) :
    s # handling.req.source \/ k # handling.st => heap'[s][k] = heap[s][k]

\* What named stores beside the time of its reply is sx.
LEMMA NamedStores ==
  ASSUME TypeOK, handling # None, HandlingStay, NEW sx \in States, Named(sx),
         sx.lastNamed = State.lastNamed
  PROVE /\ NamedWrites /\ OtherCellsKept
        /\ NewState.credit = sx.credit /\ NewState.last = sx.last
<1>1. /\ handling.st \in 1..Len(heap[handling.req.source]) /\ handling \in Handlings
      /\ handling.req.source \in Sources /\ handling.at \in Nat
  BY StateType, HandlingType
<1>2. ASSUME NEW sy \in States, heap' = WithState(sy)
      PROVE OtherCellsKept /\ NewState = sy
  <2>1. \A s \in Sources : \A k \in 1..Len(heap[s]) :
          heap'[s][k] = IF s = handling.req.source /\ k = handling.st THEN sy ELSE heap[s][k]
    BY <1>2, WithStateShape
  <2>2. QED
    BY <1>1, <2>1 DEF OtherCellsKept, NewState
<1>3. Muted(sx) <=> Muted(State)
  BY DEF Muted
<1>4. CASE Muted(sx)
  <2>1. heap' = WithState(sx) /\ named' = named
    BY <1>4 DEF Named
  <2>2. QED
    BY <1>2, <2>1 DEF NamedWrites
<1>5. CASE ~Muted(sx)
  <2> DEFINE sy == [sx EXCEPT !.lastNamed = handling.at]
  <2>1. sy \in States /\ sy.credit = sx.credit /\ sy.last = sx.last /\ sy.lastNamed = handling.at
    BY <1>1 DEF States
  <2>2. /\ heap' = WithState(sy)
        /\ named' = [named EXCEPT ![handling.req.source] =
             LastTwo(Append(@, [stay |-> handling.stay, at |-> handling.at]))]
    BY <1>5 DEF Named
  <2> HIDE DEF sy
  <2>3. OtherCellsKept /\ NewState = sy
    BY <1>2, <2>1, <2>2
  <2>4. QED
    BY <1>3, <1>5, <2>1, <2>2, <2>3 DEF NamedWrites
<1>6. QED
  BY <1>4, <1>5

\* Every step of Handle writes this.
LEMMA HandleWrites ==
  ASSUME IInv, Handle
  PROVE /\ handling # None /\ handling' = None
        /\ UNCHANGED <<environment, start, setVars>>
        /\ NamedWrites /\ AllowWrites /\ OtherCellsKept
<1>1. handling # None /\ handling' = None /\ UNCHANGED <<environment, start, setVars>>
  BY HandleHeap
<1>2. TypeOK /\ HandlingStay
  BY <1>1 DEF IInv, StayInv
<1>3. /\ State \in States /\ handling.st \in 1..Len(heap[handling.req.source])
      /\ handling.req.source \in Sources /\ handling.at \in Nat
  BY <1>1, <1>2, StateType, HandlingType
<1>4. CASE HandleRetired \/ HandleStale \/ HandleFull
  <2>1. Named(State) /\ taken' = taken
    BY <1>4 DEF HandleRetired, HandleStale, HandleFull
  <2>2. /\ NamedWrites /\ OtherCellsKept
        /\ NewState.credit = State.credit /\ NewState.last = State.last
    BY <1>1, <1>2, <1>3, <2>1, NamedStores
  <2>3. QED
    BY <1>1, <2>1, <2>2 DEF AllowWrites
<1>5. CASE HandleReplay
  <2>1. UNCHANGED <<heap, taken, named>>
    BY <1>5 DEF HandleReplay
  <2>2. NewState = State
    BY <2>1 DEF NewState, State
  <2>3. QED
    BY <1>1, <2>1, <2>2 DEF NamedWrites, AllowWrites, OtherCellsKept
<1>6. CASE HandleOverRate
  <2> DEFINE sx(compact) == [State EXCEPT !.nonces = Inserted(compact), !.credit = Refilled, !.last = handling.at]
  <2>1. PICK compact \in BOOLEAN : Named(sx(compact))
    BY <1>6 DEF HandleOverRate
  <2>2. Inserted(compact) \in [Nonces -> Nat] /\ Refilled \in 0..Credit
    BY <1>1, <1>2, InsertedType
  <2>3. /\ sx(compact) \in States /\ sx(compact).lastNamed = State.lastNamed
        /\ sx(compact).credit = Refilled /\ sx(compact).last = handling.at
    BY <1>3, <2>2 DEF States
  <2>4. Take(FALSE)
    BY <1>6 DEF HandleOverRate
  <2> HIDE DEF sx
  <2>5. /\ NamedWrites /\ OtherCellsKept
        /\ NewState.credit = sx(compact).credit /\ NewState.last = sx(compact).last
    BY <1>1, <1>2, <2>1, <2>3, NamedStores
  <2>6. QED
    BY <1>1, <2>3, <2>4, <2>5 DEF AllowWrites
<1>7. CASE HandleOK
  <2> DEFINE sx(compact) == [State EXCEPT !.nonces = Inserted(compact), !.credit = Refilled - Cost, !.last = handling.at]
  <2>1. PICK compact \in BOOLEAN : heap' = WithState(sx(compact))
    BY <1>7 DEF HandleOK
  <2>2. Inserted(compact) \in [Nonces -> Nat] /\ Refilled - Cost \in 0..Credit
    BY <1>1, <1>2, <1>7, InsertedType, ResponderAssumption DEF HandleOK
  <2>3. /\ sx(compact) \in States /\ sx(compact).lastNamed = State.lastNamed
        /\ sx(compact).credit = Refilled - Cost /\ sx(compact).last = handling.at
    BY <1>3, <2>2 DEF States
  <2>4. Take(TRUE) /\ named' = named
    BY <1>7 DEF HandleOK
  <2> HIDE DEF sx
  <2>5. \A s \in Sources : \A k \in 1..Len(heap[s]) :
          heap'[s][k] = IF s = handling.req.source /\ k = handling.st THEN sx(compact) ELSE heap[s][k]
    BY <1>1, <1>2, <2>1, <2>3, WithStateShape
  <2>6. NewState = sx(compact) /\ OtherCellsKept
    BY <1>3, <2>5 DEF NewState, OtherCellsKept
  <2>7. QED
    BY <1>1, <2>3, <2>4, <2>6 DEF NamedWrites, AllowWrites
<1>8. QED
  BY <1>4, <1>5, <1>6, <1>7 DEF Handle

-----------------------------------------------------------------------------
\* LateInv, action by action.
LEMMA LateStep ==
  ASSUME IInv, LateInv, Next
  PROVE LateInv'
<1>1. TypeOK /\ TableInv /\ late \in Nat
  BY DEF IInv, TypeOK
<1>2. ASSUME NEW r \in Refreshers, NEW entries \in Entries, BuildTable(r, entries)
      PROVE LateInv'
  BY <1>2 DEF BuildTable, LateInv, DroppedAtOnce
<1>3. ASSUME NEW r \in Refreshers, StoreTable(r)
      PROVE LateInv'
  BY <1>3 DEF StoreTable, LateInv, DroppedAtOnce
<1>4. ASSUME NEW req \in Requests, Load(req)
      PROVE LateInv'
  BY <1>1, <1>4 DEF Load, LateInv, DroppedAtOnce, TableInv
<1>5. CASE Handle
  <2>1. handling # None /\ handling' = None /\ UNCHANGED setVars
    BY <1>5, HandleWrites
  <2>2. late' <= 1
    <3>1. CASE HandleOK
      <4>1. ~handling.retired
        BY <3>1 DEF HandleOK, Hold, Fresh
      <4>2. CASE late = 0
        BY <3>1, <4>2 DEF HandleOK
      <4>3. CASE late = 1
        BY <2>1, <3>1, <4>1, <4>3 DEF HandleOK, LateInv
      <4>4. late = 0 \/ late = 1
        BY <1>1 DEF LateInv, DroppedAtOnce
      <4>5. QED
        BY <4>2, <4>3, <4>4
    <3>2. CASE ~HandleOK
      BY <1>5, <3>2 DEF Handle, HandleRetired, HandleStale, HandleReplay, HandleFull, HandleOverRate,
                        LateInv, DroppedAtOnce
    <3>3. QED
      BY <3>1, <3>2
  <2>3. QED
    BY <2>1, <2>2 DEF LateInv, DroppedAtOnce
<1>6. CASE Tick \/ StepBack
  BY <1>6 DEF Tick, StepBack, LateInv, DroppedAtOnce
<1>7. CASE Restart
  BY <1>7, EmptyType DEF Restart, LateInv, DroppedAtOnce
<1>8. QED
  BY <1>2, <1>3, <1>4, <1>5, <1>6, <1>7 DEF Next

-----------------------------------------------------------------------------
\* The latest two replies once one is added.
LEMMA LastTwoAppended ==
  ASSUME NEW S, NEW q \in Seq(S), NEW n \in Nat, n = Len(q), n <= 2, NEW e \in S
  PROVE LET r == LastTwo(Append(q, e)) IN
        /\ r # <<>> /\ Len(r) <= 2
        /\ r[Len(r)] = e
        /\ Len(r) = 2 => q # <<>> /\ r[1] = q[Len(q)] /\ r[2] = e
<1>1. Append(q, e) \in Seq(S) /\ (q = <<>> => n = 0)
  OBVIOUS
<1>2. PICK p \in Seq(S) : p = Append(q, e)
  BY <1>1, Zenon
<1>3. PICK m \in Nat : m = n + 1
  OBVIOUS
<1>4. Len(p) = m /\ p[m] = e /\ \A i \in 1..n : p[i] = q[i]
  BY <1>2, <1>3
<1>5. p # <<>>
  BY <1>3, <1>4
<1>6. CASE n = 2
  <2>1. m = 3
    BY <1>3, <1>6
  <2>2. LastTwo(p) = Tail(p)
    BY <1>4, <2>1 DEF LastTwo
  <2>3. Tail(p) \in Seq(S)
    BY <1>5
  <2>4. PICK t \in Seq(S) : t = Tail(p)
    BY <2>3, Zenon
  <2>5. Len(t) = m - 1 /\ \A i \in 1..(m - 1) : t[i] = p[i + 1]
    BY <1>4, <1>5, <2>4
  <2>6. Len(t) = 2 /\ t[1] = p[2] /\ t[2] = p[3]
    BY <2>1, <2>5
  <2>7. p[3] = e /\ p[2] = q[2] /\ q[2] = q[Len(q)]
    BY <1>4, <1>6, <2>1
  <2>8. t # <<>>
    BY <2>6
  <2>9. QED
    BY <1>1, <1>2, <1>6, <2>2, <2>4, <2>6, <2>7, <2>8
<1>7. CASE n # 2
  <2>1. n = 0 \/ n = 1
    BY <1>7
  <2>2. LastTwo(p) = p
    BY <1>3, <1>4, <2>1 DEF LastTwo
  <2>3. Len(p) <= 2 /\ p[Len(p)] = e
    BY <1>3, <1>4, <2>1
  <2>4. m = 2 => n = 1
    BY <1>3
  <2>5. n = 1 => p[1] = q[1] /\ p[2] = e
    BY <1>3, <1>4
  <2>6. n = 1 => q # <<>> /\ q[1] = q[Len(q)]
    BY <1>1
  <2>7. QED
    BY <1>2, <1>4, <1>5, <2>2, <2>3, <2>4, <2>5, <2>6, Zenon
<1>8. QED
  BY <1>6, <1>7

\* The latest reply to a source and the parts of it that are compared.
LEMMA LatestType ==
  ASSUME TypeOK, NEW s \in Sources, named[s] # <<>>
  PROVE /\ Latest(s) \in NamedReplies /\ Latest(s).at \in Nat
        /\ Latest(s).stay \in Stays /\ Latest(s).stay.tenure \in Nat /\ Latest(s).stay.backs \in Nat
<1>1. named[s] \in Seq(NamedReplies)
  BY DEF TypeOK
<1>2. Latest(s) \in NamedReplies
  BY <1>1 DEF Latest
<1>3. QED
  BY <1>2 DEF NamedReplies, Stays

\* A state's memory of a reply outlives every step but Handle's.
LEMMA NamedOther ==
  ASSUME IInv, IInv', NamedInv, OtherStep
  PROVE NamedInv'
<1>1. TypeOK /\ TypeOK' /\ named' = named
  BY DEF IInv, OtherStep
<1>2. NamedSpacing' /\ \A s \in Sources : Len(named'[s]) <= 2
  BY <1>1 DEF NamedInv, NamedSpacing
<1>3. ASSUME handling' # None PROVE handling'.at # 0
  BY <1>1, <1>3 DEF OtherStep, HandlingKept, HandlingBegins, NamedInv, TypeOK
<1>4. ASSUME NEW s \in Sources, named[s] # <<>>
      PROVE NamedSoFar(s)'
  <2>1. NamedSoFar(s) /\ Latest(s)' = Latest(s)
    BY <1>1, <1>4 DEF NamedInv, Latest
  <2>2. /\ Latest(s).at \in Nat /\ Latest(s).stay \in Stays
        /\ Latest(s).stay.tenure \in Nat /\ Latest(s).stay.backs \in Nat
        /\ now \in Nat /\ now' \in Nat /\ backs \in Nat /\ backs' \in Nat
        /\ tenure[s] \in Nat /\ tenure'[s] \in Nat
    <3>1. Latest(s) \in NamedReplies
      BY <1>1, <1>4, LatestType
    <3>2. now' \in Nat /\ backs' \in Nat /\ tenure'[s] \in Nat
      BY <1>1, ResponderAssumption DEF TypeOK
    <3>3. QED
      BY <1>1, <3>1, <3>2, CounterType DEF NamedReplies, Stays
  <2>3. Latest(s).stay.tenure <= tenure'[s] /\ Latest(s).stay.backs <= backs'
    BY <2>1, <2>2 DEF NamedSoFar, OtherStep
  <2>4. ASSUME s \in DOMAIN table', Latest(s).stay = CurrentStay(s)'
        PROVE heap'[s][table'[s].st].lastNamed = Latest(s).at /\ Latest(s).at <= now'
    <3>1. ~StayBegins(s)
      BY <2>1, <2>2, <2>4 DEF StayBegins, CurrentStay, NamedSoFar
    <3>2. CellKept(s)
      BY <2>4, <3>1 DEF OtherStep
    <3>3. QED
      BY <2>1, <2>2, <2>4, <3>2 DEF CellKept, NamedSoFar, Remembers
  <2>5. ASSUME handling' # None, handling'.req.source = s, Latest(s).stay = handling'.stay
        PROVE State'.lastNamed = Latest(s).at /\ Latest(s).at <= handling'.at
    <3>1. CASE HandlingKept
      BY <2>1, <2>5, <3>1 DEF HandlingKept, NamedSoFar, Remembers
    <3>2. CASE HandlingBegins
      BY <2>1, <2>5, <3>2 DEF HandlingBegins, NamedSoFar, Remembers
    <3>3. QED
      BY <2>5, <3>1, <3>2 DEF OtherStep
  <2>6. QED
    BY <2>1, <2>3, <2>4, <2>5 DEF NamedSoFar, Remembers
<1>5. QED
  BY <1>1, <1>2, <1>3, <1>4 DEF NamedInv

\* Handle replies no sooner than the interval after the reply it remembers.
LEMMA NamedHandle ==
  ASSUME IInv, NamedInv, Handle
  PROVE NamedInv'
<1>1. /\ handling # None /\ handling' = None
      /\ UNCHANGED <<now, backs, table, tenure>>
      /\ NamedWrites /\ OtherCellsKept
  BY HandleWrites
<1>2. TypeOK /\ HandlingStay
  BY <1>1 DEF IInv, StayInv
<1>3. PICK src \in Sources : src = handling.req.source
  BY <1>1, <1>2, HandlingType, Zenon
<1>4. PICK reply : reply = [stay |-> handling.stay, at |-> handling.at]
  OBVIOUS
<1>5. /\ handling.at \in Nat /\ handling.stay \in Stays
      /\ handling.st \in 1..Len(heap[src]) /\ State \in States
      /\ handling.stay.tenure \in Nat /\ handling.stay.backs \in Nat
  BY <1>3, <1>1, <1>2, StateType, HandlingType
<1>6. reply \in NamedReplies /\ named \in [Sources -> Seq(NamedReplies)]
  BY <1>2, <1>5, <1>4 DEF NamedReplies, TypeOK
<1>7. ASSUME NEW s \in Sources, named'[s] = named[s],
             s # src \/ NewState.lastNamed = State.lastNamed, named[s] # <<>>
      PROVE NamedSoFar(s)'
  <2>1. NamedSoFar(s) /\ Latest(s)' = Latest(s)
    BY <1>7 DEF NamedInv, Latest
  <2>2. ASSUME s \in DOMAIN table
        PROVE heap'[s][table[s].st].lastNamed = heap[s][table[s].st].lastNamed
    <3>1. table[s].st \in 1..Len(heap[s])
      BY <2>2, TableState
    <3>2. CASE s = src /\ table[s].st = handling.st
      BY <1>3, <1>7, <3>2 DEF NewState, State
    <3>3. CASE ~(s = src /\ table[s].st = handling.st)
      BY <1>3, <1>1, <3>1, <3>3 DEF OtherCellsKept
    <3>4. QED
      BY <3>2, <3>3
  <2>3. QED
    BY <1>1, <2>1, <2>2 DEF NamedSoFar, Remembers, CurrentStay
<1>8. CASE named' = named /\ NewState.lastNamed = State.lastNamed
  BY <1>1, <1>7, <1>8 DEF NamedInv, NamedSpacing
<1>9. CASE /\ ~Muted(State)
           /\ NewState.lastNamed = handling.at
           /\ named' = [named EXCEPT ![src] = LastTwo(Append(@, reply))]
  <2>1. \A s \in Sources : s # src => named'[s] = named[s]
    BY <1>6, <1>9
  <2>2. named'[src] = LastTwo(Append(named[src], reply))
    BY <1>5, <1>6, <1>9
  <2>3. /\ named'[src] # <<>> /\ Len(named'[src]) <= 2
        /\ Latest(src)' = reply
        /\ Len(named'[src]) = 2 =>
             named[src] # <<>> /\ named'[src][1] = Latest(src) /\ named'[src][2] = reply
    <3>1. named[src] \in Seq(NamedReplies) /\ Len(named[src]) \in Nat /\ Len(named[src]) <= 2
      BY <1>6 DEF NamedInv
    <3>2. LET r == LastTwo(Append(named[src], reply)) IN
          /\ r # <<>> /\ Len(r) <= 2
          /\ r[Len(r)] = reply
          /\ Len(r) = 2 => named[src] # <<>> /\ r[1] = named[src][Len(named[src])] /\ r[2] = reply
      BY <1>6, <3>1, LastTwoAppended, Zenon
    <3>3. QED
      BY <2>2, <3>2 DEF Latest
  <2>4. reply.stay = handling.stay /\ reply.at = handling.at
    BY <1>4
  <2>5. handling.at # 0 /\ handling.stay.source = src
    BY <1>3, <1>1, <1>2 DEF NamedInv, HandlingStay
  <2>6. NamedSoFar(src)'
    <3>1. ASSUME src \in DOMAIN table, handling.stay = CurrentStay(src)
          PROVE heap'[src][table[src].st].lastNamed = handling.at /\ handling.at <= now
      <4>1. handling.stay.tenure = tenure[src] /\ handling.stay.backs = backs
        BY <3>1 DEF CurrentStay
      <4>2. handling.st = table[src].st /\ handling.at <= now
        BY <1>3, <1>2, <3>1, <4>1 DEF HandlingStay
      <4>3. QED
        BY <1>3, <1>9, <4>2 DEF NewState
    <3>2. handling.stay.tenure <= tenure[src] /\ handling.stay.backs <= backs
      BY <1>3, <1>2 DEF HandlingStay
    <3>3. CurrentStay(src)' = CurrentStay(src)
      BY <1>1 DEF CurrentStay
    <3>4. QED
      BY <1>1, <2>3, <2>4, <2>5, <3>1, <3>2, <3>3 DEF NamedSoFar, Remembers
  <2>7. ASSUME Len(named'[src]) = 2, named'[src][1].stay = named'[src][2].stay
        PROVE named'[src][2].at - named'[src][1].at >= Interval
    <3>1. named[src] # <<>> /\ Latest(src).stay = handling.stay
      BY <2>3, <2>4, <2>7
    <3>2. State.lastNamed = Latest(src).at /\ Latest(src).at <= handling.at /\ Latest(src).at # 0
      BY <1>3, <1>1, <3>1 DEF NamedInv, NamedSoFar, Remembers
    <3>3. Latest(src).at \in Nat
      BY <1>2, <1>5, <3>1, LatestType
    <3>4. ~(handling.at - State.lastNamed < Interval)
      BY <1>5, <1>9, <3>2, <3>3 DEF Muted
    <3>5. QED
      BY <1>5, <2>3, <2>4, <2>7, <3>2, <3>3, <3>4, ResponderAssumption
  <2>8. NamedSpacing'
    BY <2>1, <2>7 DEF NamedInv, NamedSpacing
  <2>9. \A s \in Sources : named'[s] # <<>> => NamedSoFar(s)'
    BY <1>7, <2>1, <2>6
  <2>10. \A s \in Sources : Len(named'[s]) <= 2
    BY <2>1, <2>3 DEF NamedInv
  <2>11. QED
    BY <1>1, <2>8, <2>9, <2>10 DEF NamedInv
<1>10. QED
  BY <1>3, <1>1, <1>8, <1>9, <1>4 DEF NamedWrites

-----------------------------------------------------------------------------
\* One more answer costs Cost more.
LEMMA CostOfOneMore ==
  ASSUME NEW n \in Nat, NEW m \in Nat, m <= n + 1
  PROVE Cost * n \in Nat /\ Cost * m \in Nat /\ Cost * m <= Cost * n + Cost
<1>1. Cost \in Nat
  BY ResponderAssumption
<1>2. Cost * n \in Nat /\ Cost * m \in Nat
  BY <1>1
<1>3. CASE m = n + 1
  BY <1>1, <1>3
<1>4. CASE m <= n
  <2>1. Cost * m <= Cost * n
    BY <1>1, <1>4
  <2>2. QED
    BY <1>1, <1>2, <2>1
<1>5. QED
  BY <1>2, <1>3, <1>4

\* The answers of a stay are finitely many.
LEMMA SinceFinite ==
  ASSUME IsFiniteSet(taken), NEW c, NEW a
  PROVE IsFiniteSet(Since(c, a)) /\ Cardinality(Since(c, a)) \in Nat
<1>1. Since(c, a) \subseteq taken
  BY DEF Since
<1>2. QED
  BY <1>1, FS_Subset, FS_CardinalityType

\* allow refills by no more than the time since it last did.
LEMMA RefilledBound ==
  ASSUME TypeOK, handling # None, HandlingStay
  PROVE /\ Refilled \in 0..Credit
        /\ State.last # 0 /\ State.last <= handling.at =>
             Refilled <= State.credit + (handling.at - State.last)
<1>1. Refilled \in 0..Credit
  BY InsertedType
<1>2. State.credit \in Nat /\ State.last \in Nat /\ handling.at \in Nat /\ Credit \in Nat
  BY StateType, HandlingType, ResponderAssumption DEF States
<1>3. QED
  BY <1>1, <1>2 DEF Refilled

\* What is paid for stays so while no request is handled.
LEMMA RateOther ==
  ASSUME IInv, IInv', NamedInv, RateInv, OtherStep
  PROVE RateInv'
<1>1. TypeOK /\ TypeOK' /\ StayInv /\ taken' = taken
  BY DEF IInv, OtherStep
<1>2. now \in Nat /\ now' \in Nat
  BY <1>1 DEF TypeOK
<1>3. /\ IsFiniteSet(taken') /\ \A t \in taken' : t.at # 0
      /\ \A c \in Stays : \A a, b \in Nat :
           a <= b => Cost * Cardinality(Between(c, a, b)') <= Credit + (b - a)
  BY <1>1 DEF RateInv, Between
<1>4. ASSUME NEW s \in DOMAIN table'
      PROVE Paid(CurrentStay(s), heap[s][table[s].st], now)'
  <2>1. PICK c : c = CurrentStay(s)'
    OBVIOUS
  <2>2. CASE StayBegins(s)
    <3>1. s \in Sources
      BY <1>1, <1>4 DEF TypeOK, IsTable
    <3>2. ASSUME NEW x \in taken, x.stay = c PROVE FALSE
      <4>1. x.stay.source = s /\ x.stay.tenure = tenure'[s] /\ x.stay.backs = backs'
        BY <2>1, <3>2 DEF CurrentStay
      <4>2. x.stay.tenure <= tenure[s] /\ x.stay.backs <= backs
        BY <1>1, <4>1 DEF StayInv, TakenStay
      <4>3. tenure[s] \in Nat /\ tenure'[s] \in Nat /\ backs \in Nat /\ backs' \in Nat
        BY <1>1, <3>1, ResponderAssumption DEF TypeOK
      <4>4. QED
        BY <2>2, <4>1, <4>2, <4>3 DEF StayBegins
    <3>3. QED
      BY <1>1, <2>1, <3>2 DEF Paid, Since
  <2>3. CASE CellKept(s)
    <3>1. /\ s \in DOMAIN table /\ c = CurrentStay(s) /\ now <= now'
          /\ heap'[s][table'[s].st] = heap[s][table[s].st]
      BY <2>1, <2>3 DEF CellKept
    <3>2. Paid(c, heap[s][table[s].st], now)
      BY <3>1 DEF RateInv
    <3>3. heap[s][table[s].st].last \in Nat
      BY <3>1, TableState DEF States
    <3>4. QED
      BY <1>1, <1>2, <2>1, <3>1, <3>2, <3>3 DEF Paid, Since
  <2>4. QED
    BY <1>4, <2>2, <2>3 DEF OtherStep
<1>5. ASSUME handling' # None
      PROVE Paid(handling.stay, State, handling.at)'
  <2>1. CASE HandlingKept
    BY <1>1, <2>1 DEF HandlingKept, RateInv, Paid, Since
  <2>2. CASE HandlingBegins
    <3>1. PICK s \in DOMAIN table :
            /\ handling'.stay = CurrentStay(s) /\ handling'.at = now
            /\ State' = heap[s][table[s].st]
      BY <2>2 DEF HandlingBegins
    <3>2. Paid(CurrentStay(s), heap[s][table[s].st], now)
      BY DEF RateInv
    <3>3. QED
      BY <1>1, <3>1, <3>2 DEF Paid, Since
  <2>3. QED
    BY <1>5, <2>1, <2>2 DEF OtherStep
<1>6. ASSUME handling' # None, NEW t \in taken
      PROVE NotAfterHandling(t.stay)'
  <2>1. CASE HandlingKept
    BY <1>1, <2>1 DEF HandlingKept, RateInv, NotAfterHandling
  <2>2. CASE HandlingBegins
    <3>1. TakenStay(t)
      BY <1>1 DEF StayInv
    <3>2. handling'.stay = [source |-> handling'.req.source, tenure |-> tenure[handling'.req.source], backs |-> backs]
      BY <2>2 DEF HandlingBegins, CurrentStay
    <3>3. QED
      BY <3>1, <3>2 DEF TakenStay, NotAfterHandling
  <2>3. QED
    BY <1>6, <2>1, <2>2 DEF OtherStep
<1>7. QED
  BY <1>1, <1>3, <1>4, <1>5, <1>6 DEF RateInv

\* A request that allow passed or refused is paid for.
LEMMA RateHandle ==
  ASSUME IInv, NamedInv, RateInv, Handle
  PROVE RateInv'
<1>1. /\ handling # None /\ handling' = None
      /\ UNCHANGED <<now, backs, table, tenure>>
      /\ AllowWrites /\ OtherCellsKept
  BY HandleWrites
<1>2. TypeOK /\ HandlingStay /\ StayInv
  BY <1>1 DEF IInv, StayInv
<1>3. PICK src \in Sources : src = handling.req.source
  BY <1>1, <1>2, HandlingType, Zenon
<1>4. PICK h \in Stays : h = handling.stay
  BY <1>1, <1>2, HandlingType, Zenon
<1>5. PICK at \in Nat : at = handling.at /\ at # 0
  BY <1>1, <1>2, HandlingType, Zenon DEF NamedInv
<1>6. /\ State \in States /\ State.last \in Nat /\ State.credit \in Nat
      /\ Refilled \in 0..Credit /\ Credit \in Nat /\ Cost \in Nat
      /\ State.last # 0 /\ State.last <= at => Refilled <= State.credit + (at - State.last)
  BY <1>1, <1>2, <1>5, StateType, RefilledBound, ResponderAssumption DEF States
<1>7. Paid(h, State, at) /\ IsFiniteSet(taken)
  BY <1>1, <1>4, <1>5 DEF RateInv
\* A cell whose allowance is what it was.
<1>8. ASSUME NEW s \in DOMAIN table,
             \/ s # src
             \/ NewState.credit = State.credit /\ NewState.last = State.last
      PROVE /\ heap'[s][table[s].st].credit = heap[s][table[s].st].credit
            /\ heap'[s][table[s].st].last = heap[s][table[s].st].last
  <2>1. s \in Sources /\ table[s].st \in 1..Len(heap[s])
    BY TableState
  <2>2. CASE s = src /\ table[s].st = handling.st
    BY <1>3, <1>8, <2>2 DEF NewState, State
  <2>3. CASE ~(s = src /\ table[s].st = handling.st)
    BY <1>1, <1>3, <2>1, <2>3 DEF OtherCellsKept
  <2>4. QED
    BY <2>2, <2>3
<1>9. CASE taken' = taken /\ NewState.credit = State.credit /\ NewState.last = State.last
  <2>1. ASSUME NEW s \in DOMAIN table'
        PROVE Paid(CurrentStay(s), heap[s][table[s].st], now)'
    <3>1. Paid(CurrentStay(s), heap[s][table[s].st], now)
      BY <1>1, <2>1 DEF RateInv
    <3>2. /\ heap'[s][table[s].st].credit = heap[s][table[s].st].credit
          /\ heap'[s][table[s].st].last = heap[s][table[s].st].last
      BY <1>1, <1>8, <1>9, <2>1
    <3>3. CurrentStay(s)' = CurrentStay(s)
      BY <1>1 DEF CurrentStay
    <3>4. QED
      BY <1>1, <1>9, <3>1, <3>2, <3>3 DEF Paid, Since
  <2>2. \A c \in Stays : \A a, b \in Nat : Between(c, a, b)' = Between(c, a, b)
    BY <1>9 DEF Between
  <2>3. QED
    BY <1>1, <1>9, <2>1, <2>2 DEF RateInv
<1>10. ASSUME NEW ok \in BOOLEAN, Take(ok), NewState.last = at,
              NewState.credit = IF ok THEN Refilled - Cost ELSE Refilled,
              NewState.credit \in Nat
       PROVE RateInv'
  <2>1. PICK e : /\ taken' = taken \cup {e}
                 /\ e.ok = ok /\ e.stay = h /\ e.at = at
    <3> DEFINE e == [req |-> handling.req, at |-> handling.at, ok |-> ok,
                     stay |-> handling.stay, st |-> handling.st, boot |-> boots]
    <3>1. taken' = taken \cup {e}
      BY <1>10 DEF Take
    <3>2. e.ok = ok /\ e.stay = h /\ e.at = at
      BY <1>4, <1>5
    <3>3. QED
      BY <3>1, <3>2, Zenon
  <2>2. IsFiniteSet(taken')
    BY <1>7, <2>1, FS_AddElement
  <2>3. \A c, a : (c # h => Since(c, a)' = Since(c, a)) /\ Since(c, a)' \subseteq Since(c, a) \cup {e}
    BY <2>1 DEF Since
  <2>4. \A x \in taken' : x.stay = h => x.at <= at
    BY <1>5, <1>6, <1>7, <1>2, <2>1, TakenType DEF Paid
  <2>5. ASSUME NEW a \in Nat, Since(h, a)' # {}
        PROVE NewState.credit + Cost * Cardinality(Since(h, a)') <= Credit + (at - a)
    <3>1. PICK n \in Nat : n = Cardinality(Since(h, a))
      BY <1>7, SinceFinite, Zenon
    <3>2. IsFiniteSet(Since(h, a) \cup {e}) /\ Cardinality(Since(h, a) \cup {e}) <= n + 1
      <4>1. IsFiniteSet(Since(h, a))
        BY <1>7, SinceFinite
      <4>2. Cardinality(Since(h, a) \cup {e}) =
              IF e \in Since(h, a) THEN Cardinality(Since(h, a)) ELSE Cardinality(Since(h, a)) + 1
        BY <4>1, FS_AddElement
      <4>3. Cardinality(Since(h, a) \cup {e}) \in {n, n + 1}
        BY <3>1, <4>2
      <4>4. QED
        BY <4>1, <4>3, FS_AddElement
    <3>3. PICK m \in Nat : m = Cardinality(Since(h, a)')
      BY <2>3, <3>2, FS_Subset, FS_CardinalityType
    <3>4. m <= n + 1
      <4>1. m <= Cardinality(Since(h, a) \cup {e}) /\ Cardinality(Since(h, a) \cup {e}) \in Nat
        BY <2>3, <3>2, <3>3, FS_Subset, FS_CardinalityType
      <4>2. QED
        BY <3>2, <4>1
    <3>5. Cost * n \in Nat /\ Cost * m \in Nat /\ Cost * m <= Cost * n + Cost
      BY <3>4, CostOfOneMore
    <3>6. CASE Since(h, a) # {}
      <4>1. State.credit + Cost * n <= Credit + (State.last - a)
        BY <1>7, <3>1, <3>6 DEF Paid
      <4>2. State.last <= at /\ State.last # 0
        <5>1. PICK x \in taken : x.stay = h
          BY <3>6 DEF Since
        <5>2. x.at \in Nat /\ x.at # 0
          BY <1>2, TakenType DEF RateInv
        <5>3. x.at <= State.last /\ State.last <= at
          BY <1>7, <5>1 DEF Paid
        <5>4. QED
          BY <1>6, <5>2, <5>3
      <4>3. Refilled + Cost * n <= Credit + (at - a)
        BY <1>6, <3>5, <4>1, <4>2
      <4>4. CASE ok
        BY <1>6, <1>10, <3>3, <3>5, <4>3, <4>4
      <4>5. CASE ~ok
        <5>1. Since(h, a)' = Since(h, a)
          BY <2>1, <4>5 DEF Since
        <5>2. QED
          BY <1>10, <3>1, <4>3, <4>5, <5>1
      <4>6. QED
        BY <4>4, <4>5
    <3>7. CASE Since(h, a) = {}
      <4>1. n = 0 /\ Cost * n = 0
        BY <1>6, <3>1, <3>7, FS_EmptySet
      <4>2. e \in Since(h, a)'
        BY <2>3, <2>5, <3>7
      <4>3. ok /\ a <= at
        BY <2>1, <4>2 DEF Since
      <4>4. QED
        BY <1>6, <1>10, <3>3, <3>5, <4>1, <4>3
    <3>8. QED
      BY <3>6, <3>7
  <2>6. ASSUME NEW s \in DOMAIN table, CurrentStay(s) = h
        PROVE Paid(CurrentStay(s), heap[s][table[s].st], now)'
    <3>1. s = src /\ h.tenure = tenure[s] /\ h.backs = backs
      BY <1>2, <1>3, <1>4, <2>6 DEF CurrentStay, HandlingStay
    <3>2. table[s].st = handling.st /\ at <= now
      BY <1>2, <1>3, <1>4, <1>5, <2>6, <3>1 DEF HandlingStay
    <3>3. heap'[s][table[s].st].last = at /\ heap'[s][table[s].st].credit = NewState.credit
      BY <1>3, <1>10, <3>1, <3>2 DEF NewState
    <3>4. CurrentStay(s)' = h
      BY <1>1, <2>6 DEF CurrentStay
    <3>5. QED
      BY <1>1, <2>4, <2>5, <3>2, <3>3, <3>4 DEF Paid
  <2>7. ASSUME NEW s \in DOMAIN table, CurrentStay(s) # h
        PROVE Paid(CurrentStay(s), heap[s][table[s].st], now)'
    <3>1. PICK c : c = CurrentStay(s) /\ c = CurrentStay(s)'
      BY <1>1 DEF CurrentStay
    <3>2. \A a : Since(c, a)' = Since(c, a)
      BY <2>3, <2>7, <3>1
    <3>3. \A x \in taken' : x.stay = c => x \in taken
      BY <2>1, <2>7, <3>1
    <3>4. CASE \E x \in taken : x.stay = c
      <4>1. PICK x \in taken : x.stay = c
        BY <3>4
      <4>2. s # src
        <5>1. SUFFICES ASSUME s = src PROVE FALSE
          OBVIOUS
        <5>2. c.source = src /\ c.tenure = tenure[src] /\ c.backs = backs
          BY <3>1, <5>1 DEF CurrentStay
        <5>3. h.source = src /\ h.tenure <= tenure[src] /\ h.backs <= backs
          BY <1>2, <1>3, <1>4 DEF HandlingStay
        <5>4. c.tenure <= h.tenure /\ c.backs <= h.backs
          BY <1>1, <1>4, <4>1, <5>2, <5>3 DEF RateInv, NotAfterHandling
        <5>5. tenure[src] \in Nat /\ backs \in Nat /\ h.tenure \in Nat /\ h.backs \in Nat
          BY <1>2, CounterType DEF Stays
        <5>6. h.source = s /\ h.tenure = tenure[s] /\ h.backs = backs
          BY <5>1, <5>2, <5>3, <5>4, <5>5
        <5>7. h = [source |-> h.source, tenure |-> h.tenure, backs |-> h.backs]
          BY DEF Stays
        <5>8. QED
          BY <2>7, <5>6, <5>7 DEF CurrentStay
      <4>3. /\ heap'[s][table[s].st].credit = heap[s][table[s].st].credit
            /\ heap'[s][table[s].st].last = heap[s][table[s].st].last
        BY <1>8, <4>2
      <4>4. Paid(c, heap[s][table[s].st], now)
        BY <3>1 DEF RateInv
      <4>5. QED
        BY <1>1, <3>1, <3>2, <3>3, <4>3, <4>4 DEF Paid
    <3>5. CASE \A x \in taken : x.stay # c
      <4>1. \A a : Since(c, a)' = {}
        BY <3>2, <3>5 DEF Since
      <4>2. QED
        BY <3>1, <3>3, <3>5, <4>1 DEF Paid
    <3>6. QED
      BY <3>4, <3>5
  <2>8. ASSUME NEW c \in Stays, NEW a \in Nat, NEW b \in Nat, a <= b
        PROVE Cost * Cardinality(Between(c, a, b)') <= Credit + (b - a)
    <3>1. Cost * Cardinality(Between(c, a, b)) <= Credit + (b - a)
      BY <2>8 DEF RateInv
    <3>2. CASE e \in Between(c, a, b)'
      <4>1. c = h /\ a <= at /\ at <= b
        BY <2>1, <3>2 DEF Between
      <4>2. Between(c, a, b)' = Since(h, a)' /\ Since(h, a)' # {}
        <5>1. \A x \in taken' : x.at \in Nat
          BY <1>2, <1>5, <2>1, TakenType
        <5>2. Between(c, a, b)' = Since(h, a)'
          BY <1>5, <2>4, <4>1, <5>1 DEF Between, Since
        <5>3. QED
          BY <3>2, <5>2
      <4>3. PICK m \in Nat : m = Cardinality(Since(h, a)')
        <5>1. Since(h, a)' \subseteq taken'
          BY DEF Since
        <5>2. QED
          BY <2>2, <5>1, FS_Subset, FS_CardinalityType, Zenon
      <4>4. NewState.credit + Cost * m <= Credit + (at - a)
        BY <2>5, <4>2, <4>3
      <4>5. Cost * m \in Nat
        BY <1>6
      <4>6. QED
        BY <1>5, <1>6, <1>10, <4>1, <4>2, <4>3, <4>4, <4>5
    <3>3. CASE e \notin Between(c, a, b)'
      <4>1. Between(c, a, b)' = Between(c, a, b)
        BY <2>1, <3>3 DEF Between
      <4>2. QED
        BY <3>1, <4>1
    <3>4. QED
      BY <3>2, <3>3
  <2>9. \A t \in taken' : t.at # 0
    BY <1>5, <2>1 DEF RateInv
  <2>10. QED
    BY <1>1, <2>2, <2>6, <2>7, <2>8, <2>9 DEF RateInv
<1>11. NewState.credit \in Nat
  <2>1. heap' \in [Sources -> Seq(States)] /\ Len(heap'[src]) = Len(heap[src])
    BY <1>2, HandleType, HandleHeap DEF KeepsHeap, TypeOK
  <2>2. handling.st \in 1..Len(heap'[src])
    BY <1>1, <1>2, <1>3, <2>1, StateType
  <2>3. NewState \in States
    BY <1>3, <2>1, <2>2 DEF NewState
  <2>4. QED
    BY <2>3, <1>6 DEF States
<1>12. QED
  BY <1>1, <1>5, <1>9, <1>10, <1>11 DEF AllowWrites

-----------------------------------------------------------------------------
\* What the histories say, beside the inductive invariant.
HistoryInv == IInv /\ NamedInv /\ RateInv /\ LateInv

\* Nothing has happened at the start.
LEMMA InitHistory == Init => HistoryInv
<1>1. SUFFICES ASSUME Init PROVE NamedInv /\ RateInv /\ LateInv
  BY InitIInv DEF HistoryInv
<1>2. taken = {} /\ handling = None /\ late = 0 /\ DOMAIN table = {} /\ \A s \in Sources : named[s] = <<>>
  BY <1>1, EmptyType DEF Init
<1>3. NamedInv
  BY <1>2 DEF NamedInv, NamedSpacing
<1>4. RateInv
  <2>1. \A c, a, b : Between(c, a, b) = {}
    BY <1>2 DEF Between
  <2>2. ASSUME NEW a \in Nat, NEW b \in Nat, a <= b
        PROVE Cost * 0 <= Credit + (b - a)
    BY <2>2, ResponderAssumption
  <2>3. QED
    BY <1>2, <2>1, <2>2, FS_EmptySet DEF RateInv
<1>5. LateInv
  BY <1>2 DEF LateInv, DroppedAtOnce
<1>6. QED
  BY <1>3, <1>4, <1>5

\* Every step keeps the histories in line with the states.
LEMMA NextHistory ==
  ASSUME HistoryInv, [Next]_vars
  PROVE HistoryInv'
<1>1. IInv /\ NamedInv /\ RateInv /\ LateInv /\ IInv'
  BY NextIInv DEF HistoryInv
<1>2. CASE Next
  <2>1. NamedInv' /\ RateInv'
    BY <1>1, <1>2, OtherSteps, NamedOther, NamedHandle, RateOther, RateHandle
  <2>2. QED
    BY <1>1, <1>2, <2>1, LateStep DEF HistoryInv
<1>3. CASE UNCHANGED vars
  <2>1. \A s : Latest(s)' = Latest(s) /\ CurrentStay(s)' = CurrentStay(s)
    BY <1>3 DEF Latest, CurrentStay
  <2>2. State' = State
    BY <1>3 DEF State
  <2>3. NamedInv'
    BY <1>1, <1>3, <2>1, <2>2 DEF NamedInv, NamedSpacing, NamedSoFar, Remembers
  <2>4. RateInv'
    <3>1. \A c, a, b : Since(c, a)' = Since(c, a) /\ Between(c, a, b)' = Between(c, a, b)
      BY <1>3 DEF Since, Between
    <3>2. QED
      BY <1>1, <1>3, <2>1, <2>2, <3>1 DEF RateInv, Paid, NotAfterHandling
  <2>5. LateInv'
    BY <1>1, <1>3 DEF LateInv, DroppedAtOnce
  <2>6. QED
    BY <1>1, <2>3, <2>4, <2>5 DEF HistoryInv
<1>4. QED
  BY <1>2, <1>3

\* The histories stay in line with the states throughout.
LEMMA HistoryInvariant == Spec => []HistoryInv
BY InitHistory, NextHistory, PTL DEF Spec

(***************************************************************************)
(* Non-ok replies to one source are at least NamedReplyInterval apart in   *)
(* one stay in the table (named), for every interval, however many         *)
(* refreshes share the state and however late Handle comes to it.          *)
(***************************************************************************)
THEOREM RepliesSpaced == Spec => []NamedSpacing
<1>1. HistoryInv => NamedSpacing
  BY DEF HistoryInv, NamedInv
<1>2. QED
  BY <1>1, HistoryInvariant, PTL

(***************************************************************************)
(* After SetTable has returned at most one request is still answered that  *)
(* the new table does not allow: the one Handle had already looked up.     *)
(***************************************************************************)
THEOREM DropsAtOnce == Spec => []DroppedAtOnce
<1>1. HistoryInv => DroppedAtOnce
  BY DEF HistoryInv, LateInv
<1>2. QED
  BY <1>1, HistoryInvariant, PTL

(***************************************************************************)
(* In any span of one stay a source gets no more answers than the burst    *)
(* and the refill of that span pay for (allow), for every cost and burst:  *)
(* what is left of the allowance, with what the answers since any moment   *)
(* cost, never exceeds the burst and the time since that moment.           *)
(***************************************************************************)
THEOREM RateIsBounded == Spec => []RateBound
<1>1. HistoryInv => RateBound
  <2>1. SUFFICES ASSUME HistoryInv, NEW t \in taken, NEW u \in taken, t.at <= u.at
        PROVE Cost * Cardinality({x \in taken : /\ x.ok /\ x.stay = t.stay
                                                /\ t.at <= x.at /\ x.at <= u.at})
                <= Credit + (u.at - t.at)
    BY DEF RateBound
  <2>2. t.stay \in Stays /\ t.at \in Nat /\ u.at \in Nat
    BY <2>1, TakenType DEF HistoryInv, IInv
  <2>3. Cost * Cardinality(Between(t.stay, t.at, u.at)) <= Credit + (u.at - t.at)
    BY <2>1, <2>2 DEF HistoryInv, RateInv
  <2>4. QED
    BY <2>3 DEF Between
<1>2. QED
  BY <1>1, HistoryInvariant, PTL
=============================================================================
