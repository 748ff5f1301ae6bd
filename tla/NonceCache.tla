----------------------------- MODULE NonceCache -----------------------------
(***************************************************************************)
(* The open-addressing hash table behind a source's replay protection      *)
(* (NonceCache in beacon/responder.go).  Slots are probed linearly from a  *)
(* seeded hash; a slot is freed only by a compaction, which rebuilds the   *)
(* table with the unexpired nonces and sizes it for one more.  The hash of *)
(* each nonce is chosen with the cache, as maphash.MakeSeed does.          *)
(*                                                                         *)
(* The table has to find every live nonce again, always leave a probe an   *)
(* empty slot to stop at, and refuse an insert only when it really is      *)
(* full: it implements NonceSet.                                           *)
(***************************************************************************)
EXTENDS Naturals, SequencesExt

CONSTANTS
  Nonces,
  None,
  CacheSize, \* NonceCacheSize
  SlotsMin,  \* nonceSlotsMin
  SlotsMax,  \* nonceSlotsMax
  Hashes,    \* values of maphash.Bytes
  MaxNow     \* bound: the largest clock value, and one below the last expiry

\* Every size from SlotsMin to SlotsMax is a power of two and the largest has
\* room for CacheSize nonces.
ASSUME CacheAssumption ==
  /\ CacheSize \in Nat \ {0} /\ MaxNow \in Nat \ {0}
  /\ Hashes \subseteq Nat /\ None \notin Nonces
  /\ SlotsMin \in Nat \ {0} /\ SlotsMax \in Nat /\ SlotsMin <= SlotsMax
  /\ CacheSize <= (SlotsMax * 6) \div 10
  /\ \E k \in 0..SlotsMax : SlotsMax = SlotsMin * 2^k

VARIABLES
  hash,      \* maphash.Bytes(c.seed, nonce)
  slots,     \* NonceCache.slots; expires 0 marks an empty one
  used,      \* NonceCache.used
  fullUntil, \* NonceCache.fullUntil
  now,       \* the time of the latest call
  result     \* what the latest Insert reported, none since the clock moved

vars == <<hash, slots, used, fullUntil, now, result>>

EmptySlot == [nonce |-> None, expires |-> 0]
EmptySlots(size) == [i \in 1..size |-> EmptySlot]

\* NewNonceCache.
Init ==
  /\ hash \in [Nonces -> Hashes]
  /\ slots = <<>> /\ used = 0 /\ fullUntil = 0
  /\ now = 1 /\ result = "none"

-----------------------------------------------------------------------------
\* The slots of sl in the order the probe for n visits them.
Probe(sl, n) == [d \in 1..Len(sl) |-> ((hash[n] + d - 1) % Len(sl)) + 1]

\* The first visited slot that satisfies Stop; 0 if the probe never ends.
FirstSlot(sl, n, Stop(_)) ==
  LET d == SelectInSeq(Probe(sl, n), LAMBDA i : Stop(sl[i]))
  IN IF d = 0 THEN 0 ELSE Probe(sl, n)[d]

IsFree(s) == s.expires = 0

\* Mutant of Find: a probe takes the home slot, whoever is in it.
FindHome(sl, n) == Probe(sl, n)[1]

\* Where Seen and Insert stop: an empty slot, or the nonce's own.
Find(sl, n) == FirstSlot(sl, n, LAMBDA s : IsFree(s) \/ s.nonce = n)

Seen(n, t) ==
  IF slots = <<>> THEN FALSE
  ELSE LET s == slots[Find(slots, n)] IN ~IsFree(s) /\ s.expires > t

-----------------------------------------------------------------------------
Alive(t) == {i \in DOMAIN slots : slots[i].expires > t}

\* compact: the smallest size with room for one more nonce.
Fits(size, live) == live + 1 <= (size * 6) \div 10
Sizes == {size \in SlotsMin..SlotsMax : \E k \in 0..SlotsMax : size = SlotsMin * 2^k}
Size(live) == Min({size \in Sizes : Fits(size, live) \/ size = SlotsMax})

\* compact moves a slot to the first empty one of the new table.
Place(sl, s) == [sl EXCEPT ![FirstSlot(sl, s.nonce, IsFree)] = s]

Compacted(t) ==
  LET moved[k \in 0..Len(slots)] ==
        IF k = 0 THEN EmptySlots(Size(Cardinality(Alive(t))))
        ELSE IF slots[k].expires > t THEN Place(moved[k - 1], slots[k])
        ELSE moved[k - 1]
  IN moved[Len(slots)]

\* Insert puts the nonce into sl, u slots of which are occupied.
Put(sl, u, n, expires) ==
  LET i == Find(sl, n)
  IN /\ slots' = [sl EXCEPT ![i] = [nonce |-> n, expires |-> expires]]
     /\ used' = IF IsFree(sl[i]) THEN u + 1 ELSE u

\* expiresNs <= 0 would mark the slot as empty.
Clamp(expires) == IF expires = 0 THEN 1 ELSE expires

Crowded == used >= CacheSize \/ used + 1 > (Len(slots) * 6) \div 10

InsertWithRoom(n, expires) ==
  /\ ~Crowded
  /\ Put(slots, used, n, Clamp(expires))
  /\ result' = "held"
  /\ UNCHANGED <<hash, fullUntil, now>>

\* A known full cache refuses without scanning again.
InsertStillFull(n, expires) ==
  /\ Crowded /\ now < fullUntil
  /\ result' = "full"
  /\ UNCHANGED <<hash, slots, used, fullUntil, now>>

\* Mutant of InsertFull: it notes when the last nonce expires.
InsertFullTooLong(n, expires) ==
  /\ Crowded /\ now >= fullUntil
  /\ Cardinality(Alive(now)) >= CacheSize
  /\ fullUntil' = Max({slots[i].expires : i \in Alive(now)})
  /\ result' = "full"
  /\ UNCHANGED <<hash, slots, used, now>>

\* compact finds the cache full and notes when the first nonce expires.
InsertFull(n, expires) ==
  /\ Crowded /\ now >= fullUntil
  /\ Cardinality(Alive(now)) >= CacheSize
  /\ fullUntil' = Min({slots[i].expires : i \in Alive(now)})
  /\ result' = "full"
  /\ UNCHANGED <<hash, slots, used, now>>

InsertCompacting(n, expires) ==
  /\ Crowded /\ now >= fullUntil
  /\ Cardinality(Alive(now)) < CacheSize
  /\ fullUntil' = 0
  /\ Put(Compacted(now), Cardinality(Alive(now)), n, Clamp(expires))
  /\ result' = "held"
  /\ UNCHANGED <<hash, now>>

Insert(n, expires) ==
  \/ InsertWithRoom(n, expires) \/ InsertStillFull(n, expires)
  \/ InsertFull(n, expires) \/ InsertCompacting(n, expires)

Tick ==
  /\ now < MaxNow
  /\ now' = now + 1
  /\ result' = "none"
  /\ UNCHANGED <<hash, slots, used, fullUntil>>

Next == Tick \/ \E n \in Nonces, expires \in 0..(MaxNow + 1) : Insert(n, expires)

Spec == Init /\ [][Next]_vars

-----------------------------------------------------------------------------
\* The type invariant: at most CacheSize slots are in use (NonceCacheSize).
TypeOK ==
  /\ hash \in [Nonces -> Hashes]
  /\ slots \in Seq([nonce : Nonces \cup {None}, expires : 0..(MaxNow + 1)])
  /\ Len(slots) \in Sizes \cup {0}
  /\ used \in 0..CacheSize
  /\ fullUntil \in 0..(MaxNow + 1)
  /\ now \in 1..MaxNow
  /\ result \in {"none", "held", "full"}

(***************************************************************************)
(* Seen finds exactly the unexpired nonces: no probe stops early at a slot *)
(* that an expired or rebuilt entry left behind, and no nonce is in two    *)
(* slots with different expiries (Seen, Insert, compact).                  *)
(***************************************************************************)
SeenExact ==
  \A n \in Nonces :
    /\ Cardinality({i \in DOMAIN slots : slots[i].nonce = n}) <= 1
    /\ Seen(n, now) <=> \E i \in Alive(now) : slots[i].nonce = n

(***************************************************************************)
(* Probe loops have no other exit than an empty slot or the nonce itself:  *)
(* an allocated table always has an empty slot, and used counts the        *)
(* occupied ones, also after a compaction that shrinks or reuses the       *)
(* table.                                                                  *)
(***************************************************************************)
ProbesEnd ==
  /\ used = Cardinality({i \in DOMAIN slots : ~IsFree(slots[i])})
  /\ slots # <<>> => used < Len(slots)

\* What makes the table a set: Seen finds exactly the unexpired nonces, and no
\* probe loop of Seen, Insert or compact runs forever.
TableSound == SeenExact /\ ProbesEnd

\* The table implements the bounded set of unexpired nonces.
Held == {<<slots[i].nonce, slots[i].expires>> : i \in Alive(now)}

NonceSetSpec == INSTANCE NonceSet WITH held <- Held, Expiries <- 0..(MaxNow + 1)

(***************************************************************************)
(* Every Insert and every passage of time does to the unexpired nonces     *)
(* what NonceSet says: none is evicted, and an insert is refused exactly   *)
(* when CacheSize of them are held, also on the fullUntil short cut.       *)
(***************************************************************************)
SetImplemented == NonceSetSpec!Spec
=============================================================================
