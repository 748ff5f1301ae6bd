-------------------------- MODULE NonceCacheProofs --------------------------
(***************************************************************************)
(* The nonce cache is a set, for any nonces, hashes, sizes and capacity.   *)
(* The inductive invariant says that every nonce is reached by its probe   *)
(* over occupied slots only, that no nonce is in two slots, that the table *)
(* is at most six tenths full, and that CacheSize nonces stay unexpired    *)
(* until fullUntil.  The loop of compact is a recursive function: the      *)
(* lemmas about it go by induction on the old slots, which SetInduction    *)
(* states for sets of natural numbers.                                     *)
(***************************************************************************)
EXTENDS NonceCache, FiniteSetTheorems, WellFoundedInduction, TLAPS

\* A set of natural numbers has a least element.
LEMMA LeastNatural ==
  ASSUME NEW T \in SUBSET Nat, T # {}
  PROVE \E n \in T : \A m \in T : n <= m
<1>1. PICK x \in T : \A y \in T : ~(<<y, x>> \in OpToRel(<, Nat))
  BY NatLessThanWellFounded, WFMin
<1>2. ASSUME NEW n \in Nat, NEW m \in Nat, m < n
      PROVE <<m, n>> \in OpToRel(<, Nat)
  <2>1. <<m, n>> \in Nat \X Nat /\ <<m, n>>[1] < <<m, n>>[2]
    BY <1>2
  <2>2. QED
    BY <2>1 DEF OpToRel
<1>3. \A y \in T : x \in Nat /\ y \in Nat
  OBVIOUS
<1>4. \A y \in T : ~(y < x)
  BY <1>1, <1>2, <1>3, Zenon
<1>5. QED
  BY <1>3, <1>4

\* Induction over the natural numbers, for a set.
LEMMA SetInduction ==
  ASSUME NEW T \in SUBSET Nat, 0 \in T, \A n \in T : n + 1 \in T
  PROVE T = Nat
<1>1. SUFFICES ASSUME T # Nat PROVE FALSE
  OBVIOUS
<1>2. PICK n \in Nat \ T : \A m \in Nat \ T : n <= m
  BY <1>1, LeastNatural
<1>3. n - 1 \in Nat /\ ~(n <= n - 1)
  BY <1>2
<1>4. n - 1 \in T
  BY <1>2, <1>3
<1>5. QED
  BY <1>2, <1>3, <1>4

\* Min of a set of natural numbers.
LEMMA MinIsLeast ==
  ASSUME NEW S \in SUBSET Nat, S # {}
  PROVE Min(S) \in S /\ \A m \in S : Min(S) <= m
BY LeastNatural DEF Min

-----------------------------------------------------------------------------
\* A remainder does not see a multiple of the divisor.
LEMMA ModMultiple ==
  ASSUME NEW L \in Nat \ {0}, NEW i \in 0..(L - 1), NEW q \in Nat
  PROVE (L * q + i) % L = i
OBVIOUS

\* Division with remainder
LEMMA DivMod ==
  ASSUME NEW L \in Nat \ {0}, NEW a \in Nat
  PROVE a \div L \in Nat /\ a % L \in 0..(L - 1) /\ a = L * (a \div L) + (a % L)
OBVIOUS

-----------------------------------------------------------------------------
(***************************************************************************)
(* A table in which every nonce is found: the slots before its own, in the *)
(* order of its probe, are occupied by other nonces.                       *)
(***************************************************************************)
SlotType == [nonce : Nonces \cup {None}, expires : 0..(MaxNow + 1)]

IsTable(sl) ==
  /\ Len(sl) \in Nat \ {0}
  /\ sl \in [1..Len(sl) -> SlotType]
  /\ \A i \in 1..Len(sl) : IsFree(sl[i]) <=> sl[i].nonce = None

Occupied(sl) == {i \in 1..Len(sl) : ~IsFree(sl[i])}

HasRoom(sl) == Cardinality(Occupied(sl)) < Len(sl)

\* The slot the probe for n visits at its d-th step.
At(h, L, n, d) == ((h[n] + d - 1) % L) + 1

\* The steps of the probe for n before the d-th meet other nonces only.
PassedOver(h, sl, n, d) ==
  \A e \in 1..(d - 1) : LET s == sl[At(h, Len(sl), n, e)] IN ~IsFree(s) /\ s.nonce # n

NoTwice(sl) == \A i, j \in Occupied(sl) : sl[i].nonce = sl[j].nonce => i = j

Reached(h, sl) ==
  \A i \in Occupied(sl) : \E d \in 1..Len(sl) :
    At(h, Len(sl), sl[i].nonce, d) = i /\ PassedOver(h, sl, sl[i].nonce, d)

IsHashTable(h, sl) == IsTable(sl) /\ NoTwice(sl) /\ Reached(h, sl)

HashType == hash \in [Nonces -> Hashes]

\* A probe stays in the table and visits all of it.
LEMMA ProbeCovers ==
  ASSUME HashType, NEW n \in Nonces, NEW L \in Nat \ {0}
  PROVE /\ \A d \in 1..L : At(hash, L, n, d) \in 1..L
        /\ \A i \in 1..L : \E d \in 1..L : At(hash, L, n, d) = i
<1>1. PICK h \in Nat : h = hash[n]
  BY CacheAssumption DEF HashType
<1>2. ASSUME NEW d \in 1..L PROVE At(hash, L, n, d) \in 1..L
  <2>1. h + d - 1 \in Nat
    BY <1>1
  <2>2. (h + d - 1) % L \in 0..(L - 1)
    BY <2>1, DivMod
  <2>3. QED
    BY <1>1, <2>2 DEF At
<1>3. ASSUME NEW i \in 1..L PROVE \E d \in 1..L : At(hash, L, n, d) = i
  <2>1. PICK q \in Nat, r \in 0..(L - 1) : h = L * q + r
    BY DivMod
  <2>2. CASE r <= i - 1
    <3>1. i - r \in 1..L /\ h + (i - r) - 1 = L * q + (i - 1) /\ i - 1 \in 0..(L - 1)
      BY <2>1, <2>2
    <3>2. (L * q + (i - 1)) % L = i - 1
      BY <3>1, ModMultiple
    <3>3. At(hash, L, n, i - r) = i
      BY <1>1, <3>1, <3>2 DEF At
    <3>4. QED
      BY <3>1, <3>3
  <2>3. CASE ~(r <= i - 1)
    <3>1. L + i - r \in 1..L /\ i - 1 \in 0..(L - 1) /\ q + 1 \in Nat
      BY <2>1, <2>3
    <3>2. h + (L + i - r) - 1 = L * (q + 1) + (i - 1)
      BY <2>1
    <3>3. (L * (q + 1) + (i - 1)) % L = i - 1
      BY <3>1, ModMultiple
    <3>4. At(hash, L, n, L + i - r) = i
      BY <1>1, <3>2, <3>3 DEF At
    <3>5. QED
      BY <3>1, <3>4
  <2>4. QED
    BY <2>2, <2>3
<1>4. QED
  BY <1>2, <1>3

\* A table with room has an empty slot.
LEMMA RoomIsASlot ==
  ASSUME NEW sl, IsTable(sl), HasRoom(sl)
  PROVE \E i \in 1..Len(sl) : IsFree(sl[i])
<1>1. SUFFICES ASSUME \A i \in 1..Len(sl) : ~IsFree(sl[i]) PROVE FALSE
  OBVIOUS
<1>2. PICK L \in Nat : L = Len(sl)
  BY DEF IsTable
<1>3. Occupied(sl) = 1..L
  BY <1>1, <1>2 DEF Occupied
<1>4. Cardinality(1..L) = L
  <2>1. 1 \in Int /\ L \in Int
    BY <1>2
  <2>2. Cardinality(1..L) = IF 1 > L THEN 0 ELSE L - 1 + 1
    BY <2>1, FS_Interval, Zenon
  <2>3. QED
    BY <1>2, <2>2
<1>5. QED
  BY <1>2, <1>3, <1>4 DEF HasRoom

\* Where Seen and Insert stop.
LEMMA FindStops ==
  ASSUME HashType, NEW sl, IsTable(sl), HasRoom(sl), NEW n \in Nonces
  PROVE \E d \in 1..Len(sl) :
          /\ Find(sl, n) = At(hash, Len(sl), n, d)
          /\ IsFree(sl[At(hash, Len(sl), n, d)]) \/ sl[At(hash, Len(sl), n, d)].nonce = n
          /\ PassedOver(hash, sl, n, d)
<1>1. PICK L \in Nat \ {0} : L = Len(sl)
  BY DEF IsTable
<1> DEFINE Stops(d) == IsFree(sl[At(hash, L, n, d)]) \/ sl[At(hash, L, n, d)].nonce = n
           D == {d \in 1..L : Stops(d)}
<1>2. D # {}
  <2>1. PICK i \in 1..L : IsFree(sl[i])
    BY <1>1, RoomIsASlot
  <2>2. PICK d \in 1..L : At(hash, L, n, d) = i
    BY ProbeCovers
  <2>3. d \in D
    BY <2>1, <2>2
  <2>4. QED
    BY <2>3
<1>3. D \in SUBSET Nat
  OBVIOUS
<1>4. Min(D) \in D /\ \A d \in D : Min(D) <= d
  BY <1>2, <1>3, MinIsLeast
<1>5. Probe(sl, n) = [d \in 1..L |-> At(hash, L, n, d)]
  BY <1>1 DEF Probe, At
<1>6. Len(Probe(sl, n)) = L
  BY <1>5
<1>7. D = {d \in 1..Len(Probe(sl, n)) : IsFree(sl[Probe(sl, n)[d]]) \/ sl[Probe(sl, n)[d]].nonce = n}
  BY <1>5, <1>6
<1>8. Find(sl, n) = Probe(sl, n)[Min(D)]
  <2>1. Min(D) # 0
    BY <1>4
  <2>2. QED
    BY <1>2, <1>7, <2>1 DEF Find, FirstSlot, SelectInSeq
<1>9. PICK d \in D : d = Min(D) /\ Find(sl, n) = At(hash, L, n, d)
  BY <1>4, <1>5, <1>8
<1>10. \A e \in 1..(d - 1) : ~Stops(e)
  BY <1>4, <1>9
<1>11. QED
  BY <1>1, <1>9, <1>10 DEF PassedOver

\* Where compact puts a nonce.
LEMMA FreeSlotFound ==
  ASSUME HashType, NEW sl, IsTable(sl), HasRoom(sl), NEW n \in Nonces
  PROVE \E d \in 1..Len(sl) :
          /\ FirstSlot(sl, n, IsFree) = At(hash, Len(sl), n, d)
          /\ IsFree(sl[At(hash, Len(sl), n, d)])
          /\ \A e \in 1..(d - 1) : ~IsFree(sl[At(hash, Len(sl), n, e)])
<1>1. PICK L \in Nat \ {0} : L = Len(sl)
  BY DEF IsTable
<1> DEFINE D == {d \in 1..L : IsFree(sl[At(hash, L, n, d)])}
<1>2. D # {}
  <2>1. PICK i \in 1..L : IsFree(sl[i])
    BY <1>1, RoomIsASlot
  <2>2. PICK d \in 1..L : At(hash, L, n, d) = i
    BY ProbeCovers
  <2>3. d \in D
    BY <2>1, <2>2
  <2>4. QED
    BY <2>3
<1>3. D \in SUBSET Nat
  OBVIOUS
<1>4. Min(D) \in D /\ \A d \in D : Min(D) <= d
  BY <1>2, <1>3, MinIsLeast
<1>5. Probe(sl, n) = [d \in 1..L |-> At(hash, L, n, d)]
  BY <1>1 DEF Probe, At
<1>6. Len(Probe(sl, n)) = L
  BY <1>5
<1>7. D = {d \in 1..Len(Probe(sl, n)) : IsFree(sl[Probe(sl, n)[d]])}
  BY <1>5, <1>6
<1>8. FirstSlot(sl, n, IsFree) = Probe(sl, n)[Min(D)]
  <2>1. Min(D) # 0
    BY <1>4
  <2>2. QED
    BY <1>2, <1>7, <2>1 DEF FirstSlot, SelectInSeq
<1>9. PICK d \in D : d = Min(D) /\ FirstSlot(sl, n, IsFree) = At(hash, L, n, d)
  BY <1>4, <1>5, <1>8
<1>10. \A e \in 1..(d - 1) : ~IsFree(sl[At(hash, L, n, e)])
  BY <1>4, <1>9
<1>11. QED
  BY <1>1, <1>9, <1>10

\* The occupied slots are finitely many slots of the table.
LEMMA OccupiedFinite ==
  ASSUME NEW sl, Len(sl) \in Nat
  PROVE IsFiniteSet(Occupied(sl)) /\ Cardinality(Occupied(sl)) \in Nat
<1>1. 1 \in Int /\ Len(sl) \in Int
  OBVIOUS
<1>2. IsFiniteSet(1..Len(sl))
  BY <1>1, FS_Interval, Zenon
<1>3. Occupied(sl) \subseteq 1..Len(sl)
  BY DEF Occupied
<1>4. QED
  BY <1>2, <1>3, FS_Subset, FS_CardinalityType

\* A probe finds the slot of a nonce that is in the table ...
LEMMA HeldIsFound ==
  ASSUME HashType, NEW sl, IsHashTable(hash, sl), HasRoom(sl), NEW n \in Nonces,
         NEW j \in Occupied(sl), sl[j].nonce = n
  PROVE Find(sl, n) = j
<1>1. PICK d \in 1..Len(sl) :
        /\ Find(sl, n) = At(hash, Len(sl), n, d)
        /\ IsFree(sl[At(hash, Len(sl), n, d)]) \/ sl[At(hash, Len(sl), n, d)].nonce = n
        /\ PassedOver(hash, sl, n, d)
  BY FindStops DEF IsHashTable
<1>2. PICK c \in 1..Len(sl) : At(hash, Len(sl), n, c) = j /\ PassedOver(hash, sl, n, c)
  BY DEF IsHashTable, Reached
<1>3. Len(sl) \in Nat
  BY DEF IsHashTable, IsTable
<1>4. ~(c < d)
  <2>1. SUFFICES ASSUME c < d PROVE FALSE
    OBVIOUS
  <2>2. c \in 1..(d - 1)
    BY <1>3, <2>1
  <2>3. QED
    BY <1>1, <1>2, <2>2 DEF PassedOver
<1>5. ~(d < c)
  <2>1. SUFFICES ASSUME d < c PROVE FALSE
    OBVIOUS
  <2>2. d \in 1..(c - 1)
    BY <1>3, <2>1
  <2>3. QED
    BY <1>1, <1>2, <2>2 DEF PassedOver
<1>6. c = d
  BY <1>3, <1>4, <1>5
<1>7. QED
  BY <1>1, <1>2, <1>6

\* ... and a slot with nothing in it for one that is not.
LEMMA UnheldIsFree ==
  ASSUME HashType, NEW sl, IsTable(sl), HasRoom(sl), NEW n \in Nonces,
         \A j \in Occupied(sl) : sl[j].nonce # n
  PROVE \E d \in 1..Len(sl) :
          /\ Find(sl, n) = At(hash, Len(sl), n, d)
          /\ IsFree(sl[At(hash, Len(sl), n, d)])
          /\ PassedOver(hash, sl, n, d)
<1>1. PICK d \in 1..Len(sl) :
        /\ Find(sl, n) = At(hash, Len(sl), n, d)
        /\ IsFree(sl[At(hash, Len(sl), n, d)]) \/ sl[At(hash, Len(sl), n, d)].nonce = n
        /\ PassedOver(hash, sl, n, d)
  BY FindStops
<1>2. At(hash, Len(sl), n, d) \in 1..Len(sl)
  BY ProbeCovers DEF IsTable
<1>3. QED
  BY <1>1, <1>2 DEF Occupied

-----------------------------------------------------------------------------
\* What a table holds.
Pairs(sl) == {<<sl[i].nonce, sl[i].expires>> : i \in Occupied(sl)}

\* Insert and compact store a nonce in a slot.
Stored(sl, i, n, x) == [sl EXCEPT ![i] = [nonce |-> n, expires |-> x]]

\* A table that differs from sl in slot i, which holds n until x.
IsStored(new, sl, i, n, x) ==
  /\ IsTable(new) /\ Len(new) = Len(sl)
  /\ new[i].nonce = n /\ new[i].expires = x
  /\ \A k \in 1..Len(sl) : k # i => new[k] = sl[k]
  /\ Occupied(new) = Occupied(sl) \cup {i}

\* Storing a slot keeps the shape of a table.
LEMMA StoredShape ==
  ASSUME NEW sl, IsTable(sl), NEW i \in 1..Len(sl), NEW n \in Nonces, NEW x \in 1..(MaxNow + 1)
  PROVE IsStored(Stored(sl, i, n, x), sl, i, n, x)
<1> DEFINE new == Stored(sl, i, n, x)
<1>1. PICK L \in Nat \ {0} : L = Len(sl)
  BY DEF IsTable
<1>2. sl \in [1..L -> SlotType]
  BY <1>1 DEF IsTable
<1>3. [nonce |-> n, expires |-> x] \in SlotType
  BY CacheAssumption DEF SlotType
<1>4. new \in [1..L -> SlotType] /\ \A k \in 1..L : new[k] = IF k = i THEN [nonce |-> n, expires |-> x] ELSE sl[k]
  BY <1>1, <1>2, <1>3 DEF Stored
<1> HIDE DEF new
<1>5. Len(new) = L
  BY <1>4
<1>6. \A k \in 1..L : IsFree(new[k]) <=> new[k].nonce = None
  BY <1>1, <1>4, CacheAssumption DEF IsTable, IsFree
<1>7. Occupied(new) = Occupied(sl) \cup {i}
  BY <1>1, <1>4, <1>5, CacheAssumption DEF Occupied, IsFree
<1>8. IsStored(new, sl, i, n, x)
  BY <1>1, <1>4, <1>5, <1>6, <1>7 DEF IsTable, IsStored
<1>9. QED
  BY <1>8 DEF new

\* The other nonces' pairs.
Without(P, n) == {p \in P : p[1] # n}

\* A hash table that holds, besides what sl holds for other nonces, n until x.
Holds(new, sl, n, x) ==
  /\ IsHashTable(hash, new) /\ Len(new) = Len(sl)
  /\ Pairs(new) = Without(Pairs(sl), n) \cup {<<n, x>>}

\* A nonce that is not held goes to the first empty slot of its probe.
LEMMA Added ==
  ASSUME HashType, NEW sl, IsHashTable(hash, sl), NEW n \in Nonces, NEW x \in 1..(MaxNow + 1),
         \A j \in Occupied(sl) : sl[j].nonce # n,
         NEW d \in 1..Len(sl), IsFree(sl[At(hash, Len(sl), n, d)]), PassedOver(hash, sl, n, d),
         NEW new, new = Stored(sl, At(hash, Len(sl), n, d), n, x)
  PROVE /\ Holds(new, sl, n, x)
        /\ Cardinality(Occupied(new)) = Cardinality(Occupied(sl)) + 1
<1>1. PICK i \in 1..Len(sl) : i = At(hash, Len(sl), n, d)
  BY ProbeCovers DEF IsHashTable, IsTable
<1>2. /\ IsTable(new) /\ Len(new) = Len(sl)
      /\ new[i].nonce = n /\ new[i].expires = x
      /\ \A k \in 1..Len(sl) : k # i => new[k] = sl[k]
      /\ Occupied(new) = Occupied(sl) \cup {i}
  <2>1. IsTable(sl)
    BY DEF IsHashTable
  <2>2. IsStored(new, sl, i, n, x)
    BY <1>1, <2>1, StoredShape, Zenon
  <2>3. QED
    BY <2>2, Zenon DEF IsStored
<1>3. i \notin Occupied(sl) /\ Occupied(sl) \subseteq 1..Len(sl)
  BY <1>1, <1>2 DEF Occupied
<1>4. NoTwice(new)
  <2>1. new[i].nonce = n /\ \A k \in Occupied(sl) : new[k].nonce = sl[k].nonce /\ k # i
    BY <1>2, <1>3
  <2>2. NoTwice(sl)
    BY DEF IsHashTable
  <2>3. SUFFICES ASSUME NEW k \in Occupied(new), NEW l \in Occupied(new), new[k].nonce = new[l].nonce PROVE k = l
    BY Zenon DEF NoTwice
  <2>4. (k \in Occupied(sl) \/ k = i) /\ (l \in Occupied(sl) \/ l = i)
    BY <1>2
  <2>5. QED
    BY <2>1, <2>2, <2>3, <2>4, Zenon DEF NoTwice
<1>5. ASSUME NEW m \in Nonces, NEW c \in 1..Len(sl), PassedOver(hash, sl, m, c)
      PROVE PassedOver(hash, new, m, c)
  <2>1. SUFFICES ASSUME NEW e \in 1..(c - 1)
                 PROVE LET s == new[At(hash, Len(sl), m, e)] IN ~IsFree(s) /\ s.nonce # m
    BY <1>2 DEF PassedOver
  <2>2. At(hash, Len(sl), m, e) \in 1..Len(sl)
    <3>1. e \in 1..Len(sl) /\ Len(sl) \in Nat \ {0}
      BY DEF IsHashTable, IsTable
    <3>2. QED
      BY <3>1, ProbeCovers
  <2>3. ~IsFree(sl[At(hash, Len(sl), m, e)]) /\ sl[At(hash, Len(sl), m, e)].nonce # m
    BY <1>5 DEF PassedOver
  <2>4. At(hash, Len(sl), m, e) # i
    BY <1>1, <2>3
  <2>5. QED
    BY <1>2, <2>2, <2>3, <2>4
<1>6. ASSUME NEW k \in Occupied(new)
      PROVE \E c \in 1..Len(sl) : At(hash, Len(sl), new[k].nonce, c) = k /\ PassedOver(hash, new, new[k].nonce, c)
  <2>1. CASE k = i
    <3>1. new[k].nonce = n
      BY <1>2, <2>1
    <3>2. At(hash, Len(sl), n, d) = k /\ PassedOver(hash, new, n, d)
      BY <1>1, <1>5, <2>1, Zenon
    <3>3. QED
      BY <3>1, <3>2, Zenon
  <2>2. CASE k # i
    <3>1. k \in Occupied(sl) /\ new[k] = sl[k]
      BY <1>2, <1>3, <2>2
    <3>2. PICK c \in 1..Len(sl) : At(hash, Len(sl), sl[k].nonce, c) = k /\ PassedOver(hash, sl, sl[k].nonce, c)
      BY <3>1 DEF IsHashTable, Reached
    <3>3. sl[k].nonce \in Nonces
      BY <1>3, <3>1 DEF IsHashTable, IsTable, SlotType, Occupied
    <3>4. QED
      BY <1>5, <3>1, <3>2, <3>3
  <2>3. QED
    BY <2>1, <2>2
<1>7. Reached(hash, new)
  BY <1>2, <1>6 DEF Reached
<1>8. Pairs(new) = Pairs(sl) \cup {<<n, x>>}
  <2>1. \A k \in Occupied(sl) : new[k] = sl[k]
    BY <1>2, <1>3
  <2>2. new[i].nonce = n /\ new[i].expires = x
    BY <1>2
  <2>3. \A p : (\E k \in Occupied(new) : p = <<new[k].nonce, new[k].expires>>)
               <=> (p = <<n, x>> \/ \E k \in Occupied(sl) : p = <<sl[k].nonce, sl[k].expires>>)
    BY <1>2, <2>1, <2>2, Zenon
  <2>4. QED
    BY <2>3 DEF Pairs
<1>9. Cardinality(Occupied(new)) = Cardinality(Occupied(sl)) + 1
  <2>1. Len(sl) \in Nat
    BY DEF IsHashTable, IsTable
  <2>2. IsFiniteSet(Occupied(sl))
    BY <2>1, OccupiedFinite
  <2>3. QED
    BY <1>2, <1>3, <2>2, FS_AddElement
<1>10. Without(Pairs(sl), n) = Pairs(sl)
  BY DEF Without, Pairs
<1>11. QED
  BY <1>2, <1>4, <1>7, <1>8, <1>9, <1>10 DEF IsHashTable, Holds

\* A nonce that is held keeps its slot and gets a new expiry.
LEMMA Renewed ==
  ASSUME HashType, NEW sl, IsHashTable(hash, sl), NEW n \in Nonces, NEW x \in 1..(MaxNow + 1),
         NEW i \in Occupied(sl), sl[i].nonce = n,
         NEW new, new = Stored(sl, i, n, x)
  PROVE /\ Holds(new, sl, n, x)
        /\ Occupied(new) = Occupied(sl)
<1>1. i \in 1..Len(sl)
  BY DEF Occupied
<1>2. /\ IsTable(new) /\ Len(new) = Len(sl)
      /\ new[i].nonce = n /\ new[i].expires = x
      /\ \A k \in 1..Len(sl) : k # i => new[k] = sl[k]
      /\ Occupied(new) = Occupied(sl) \cup {i}
  <2>1. IsTable(sl)
    BY DEF IsHashTable
  <2>2. IsStored(new, sl, i, n, x)
    BY <1>1, <2>1, StoredShape, Zenon
  <2>3. QED
    BY <2>2, Zenon DEF IsStored
<1>3. Occupied(new) = Occupied(sl) /\ Occupied(sl) \subseteq 1..Len(sl)
  BY <1>2 DEF Occupied
<1>4. \A k \in 1..Len(sl) : new[k].nonce = sl[k].nonce /\ (IsFree(new[k]) <=> IsFree(sl[k]))
  BY <1>2, CacheAssumption DEF IsFree, Occupied
<1>5. NoTwice(new)
  BY <1>3, <1>4 DEF NoTwice, IsHashTable
<1>6. ASSUME NEW m \in Nonces, NEW c \in 1..Len(sl), PassedOver(hash, sl, m, c)
      PROVE PassedOver(hash, new, m, c)
  <2>1. \A e \in 1..(c - 1) : At(hash, Len(sl), m, e) \in 1..Len(sl)
    <3>1. \A e \in 1..(c - 1) : e \in 1..Len(sl)
      BY DEF IsHashTable, IsTable
    <3>2. Len(sl) \in Nat \ {0}
      BY DEF IsHashTable, IsTable
    <3>3. QED
      BY <3>1, <3>2, ProbeCovers
  <2>2. QED
    BY <1>2, <1>4, <1>6, <2>1 DEF PassedOver
<1>7. Reached(hash, new)
  <2>1. \A k \in Occupied(sl) : sl[k].nonce \in Nonces
    BY DEF IsHashTable, IsTable, SlotType, Occupied
  <2>2. SUFFICES ASSUME NEW k \in Occupied(sl)
                 PROVE \E c \in 1..Len(sl) : At(hash, Len(sl), new[k].nonce, c) = k /\ PassedOver(hash, new, new[k].nonce, c)
    BY <1>2, <1>3 DEF Reached
  <2>3. new[k].nonce = sl[k].nonce
    BY <1>3, <1>4
  <2>4. PICK c \in 1..Len(sl) : At(hash, Len(sl), sl[k].nonce, c) = k /\ PassedOver(hash, sl, sl[k].nonce, c)
    BY DEF Reached, IsHashTable
  <2>5. QED
    BY <1>6, <2>1, <2>3, <2>4, Zenon
<1>8. Pairs(new) = Without(Pairs(sl), n) \cup {<<n, x>>}
  <2>1. \A k \in Occupied(sl) : k # i => new[k] = sl[k] /\ sl[k].nonce # n
    BY <1>2, <1>3 DEF IsHashTable, NoTwice
  <2>2. new[i].nonce = n /\ new[i].expires = x
    BY <1>1, <1>2
  <2>3. QED
    BY <1>3, <2>1, <2>2 DEF Pairs, Without
<1>9. QED
  BY <1>2, <1>3, <1>5, <1>7, <1>8 DEF IsHashTable, Holds

\* Insert into a table with room.
LEMMA Inserted ==
  ASSUME HashType, NEW sl, IsHashTable(hash, sl), HasRoom(sl), NEW n \in Nonces, NEW x \in 1..(MaxNow + 1),
         NEW new, new = Stored(sl, Find(sl, n), n, x)
  PROVE /\ Holds(new, sl, n, x)
        /\ Cardinality(Occupied(new)) =
             IF IsFree(sl[Find(sl, n)]) THEN Cardinality(Occupied(sl)) + 1 ELSE Cardinality(Occupied(sl))
<1>1. CASE \E j \in Occupied(sl) : sl[j].nonce = n
  <2>1. PICK j \in Occupied(sl) : sl[j].nonce = n
    BY <1>1
  <2>2. Find(sl, n) = j /\ ~IsFree(sl[j])
    BY <2>1, HeldIsFound DEF Occupied
  <2>3. /\ Holds(new, sl, n, x)
        /\ Occupied(new) = Occupied(sl)
    <3>1. new = Stored(sl, j, n, x)
      BY <2>2, Zenon
    <3>2. QED
      BY <2>1, <3>1, Renewed
  <2>4. QED
    BY <2>2, <2>3
<1>2. CASE \A j \in Occupied(sl) : sl[j].nonce # n
  <2>1. PICK d \in 1..Len(sl) :
          /\ Find(sl, n) = At(hash, Len(sl), n, d)
          /\ IsFree(sl[At(hash, Len(sl), n, d)])
          /\ PassedOver(hash, sl, n, d)
    BY <1>2, UnheldIsFree DEF IsHashTable
  <2>2. /\ Holds(new, sl, n, x)
        /\ Cardinality(Occupied(new)) = Cardinality(Occupied(sl)) + 1
    <3>1. new = Stored(sl, At(hash, Len(sl), n, d), n, x)
      BY <2>1, Zenon
    <3>2. QED
      BY <1>2, <2>1, <3>1, Added
  <2>3. QED
    BY <2>1, <2>2
<1>3. QED
  BY <1>1, <1>2

-----------------------------------------------------------------------------
\* compact's loop: the new table after the first k old slots.
Moved(q, t, size, g, k) ==
  IF k = 0 THEN EmptySlots(size)
  ELSE IF q[k].expires > t THEN Place(g[k - 1], q[k])
  ELSE g[k - 1]

\* The unexpired ones among the first k slots.
LiveUpTo(q, t, k) == {i \in 1..k : q[i].expires > t}

\* What the new table is after the first k old slots: their unexpired nonces.
Rebuilt(q, t, size, sl, k) ==
  /\ IsHashTable(hash, sl) /\ Len(sl) = size
  /\ Pairs(sl) = {<<q[i].nonce, q[i].expires>> : i \in LiveUpTo(q, t, k)}
  /\ Cardinality(Occupied(sl)) = Cardinality(LiveUpTo(q, t, k))

LEMMA MovedExists ==
  ASSUME NEW q, NEW t, NEW size, NEW n \in Nat
  PROVE \E g : g = [k \in 0..n |-> Moved(q, t, size, g, k)]
<1> DEFINE T == {m \in Nat : \E g : g = [k \in 0..m |-> Moved(q, t, size, g, k)]}
<1>1. 0 \in T
  <2>1. PICK g : g = [k \in 0..0 |-> EmptySlots(size)]
    OBVIOUS
  <2>2. \A k \in 0..0 : EmptySlots(size) = Moved(q, t, size, g, k)
    BY DEF Moved
  <2>3. g = [k \in 0..0 |-> Moved(q, t, size, g, k)]
    BY <2>1, <2>2, Zenon
  <2>4. QED
    BY <2>3
<1>2. ASSUME NEW m \in T PROVE m + 1 \in T
  <2>1. PICK g : g = [k \in 0..m |-> Moved(q, t, size, g, k)]
    OBVIOUS
  <2>2. PICK h : h = [k \in 0..(m + 1) |-> IF k = m + 1 THEN Moved(q, t, size, g, k) ELSE g[k]]
    OBVIOUS
  <2>3. m \in Nat
    OBVIOUS
  <2>4. \A k \in 0..m : h[k] = g[k]
    BY <2>2, <2>3
  <2>5. \A k \in 0..(m + 1) : k # 0 => h[k - 1] = g[k - 1]
    BY <2>3, <2>4
  <2>6. \A k \in 0..(m + 1) : Moved(q, t, size, h, k) = Moved(q, t, size, g, k)
    BY <2>5 DEF Moved
  <2>7. \A k \in 0..m : g[k] = Moved(q, t, size, g, k)
    BY <2>1
  <2>8. \A k \in 0..(m + 1) : (IF k = m + 1 THEN Moved(q, t, size, g, k) ELSE g[k]) = Moved(q, t, size, h, k)
    BY <2>3, <2>6, <2>7
  <2>9. h = [k \in 0..(m + 1) |-> Moved(q, t, size, h, k)]
    BY <2>2, <2>8, Zenon
  <2>10. \E f : f = [k \in 0..(m + 1) |-> Moved(q, t, size, f, k)]
    BY <2>9
  <2>11. QED
    BY <2>3, <2>10
<1>3. T = Nat
  BY <1>1, <1>2, SetInduction
<1>4. QED
  BY <1>3

\* compact's result is the last of the tables its loop goes through.
LEMMA CompactedLast ==
  ASSUME Len(slots) \in Nat, NEW t, NEW size, size = Size(Cardinality(Alive(t)))
  PROVE \E g : /\ g = [k \in 0..Len(slots) |-> Moved(slots, t, size, g, k)]
               /\ Compacted(t) = g[Len(slots)]
<1>1. \E g : g = [k \in 0..Len(slots) |-> Moved(slots, t, size, g, k)]
  BY MovedExists
<1>2. PICK g : g = CHOOSE m : m = [k \in 0..Len(slots) |-> Moved(slots, t, size, m, k)]
  OBVIOUS
<1>3. g = [k \in 0..Len(slots) |-> Moved(slots, t, size, g, k)]
  BY <1>1, <1>2, Zenon
<1>4. Compacted(t) = g[Len(slots)]
  BY <1>2, Zenon DEF Compacted, Moved
<1>5. QED
  BY <1>3, <1>4, Zenon

\* The unexpired slots are finitely many, and one more when the next is one.
LEMMA LiveUpToGrows ==
  ASSUME NEW q, NEW t, NEW L \in Nat, NEW k \in 1..L
  PROVE /\ IsFiniteSet(LiveUpTo(q, t, L)) /\ Cardinality(LiveUpTo(q, t, L)) \in Nat
        /\ Cardinality(LiveUpTo(q, t, k)) <= Cardinality(LiveUpTo(q, t, L))
        /\ Cardinality(LiveUpTo(q, t, k)) \in Nat /\ Cardinality(LiveUpTo(q, t, k - 1)) \in Nat
        /\ q[k].expires > t =>
             /\ LiveUpTo(q, t, k) = LiveUpTo(q, t, k - 1) \cup {k}
             /\ Cardinality(LiveUpTo(q, t, k)) = Cardinality(LiveUpTo(q, t, k - 1)) + 1
        /\ ~(q[k].expires > t) => LiveUpTo(q, t, k) = LiveUpTo(q, t, k - 1)
<1>1. \A m \in Nat : IsFiniteSet(1..m)
  <2>1. \A m \in Nat : 1 \in Int /\ m \in Int
    OBVIOUS
  <2>2. QED
    BY <2>1, FS_Interval, Zenon
<1>2. \A m \in Nat : IsFiniteSet(LiveUpTo(q, t, m)) /\ Cardinality(LiveUpTo(q, t, m)) \in Nat
  <2>1. \A m \in Nat : LiveUpTo(q, t, m) \subseteq 1..m
    BY DEF LiveUpTo
  <2>2. \A m \in Nat : IsFiniteSet(LiveUpTo(q, t, m))
    BY <1>1, <2>1, FS_Subset
  <2>3. QED
    BY <2>2, FS_CardinalityType
<1>3. k \in Nat /\ k - 1 \in Nat
  OBVIOUS
<1>4. LiveUpTo(q, t, k) \subseteq LiveUpTo(q, t, L)
  BY DEF LiveUpTo
<1>5. Cardinality(LiveUpTo(q, t, k)) <= Cardinality(LiveUpTo(q, t, L))
  BY <1>2, <1>4, FS_Subset
<1>6. k \notin LiveUpTo(q, t, k - 1)
  BY DEF LiveUpTo
<1>7. q[k].expires > t => LiveUpTo(q, t, k) = LiveUpTo(q, t, k - 1) \cup {k}
  BY DEF LiveUpTo
<1>8. ~(q[k].expires > t) => LiveUpTo(q, t, k) = LiveUpTo(q, t, k - 1)
  BY DEF LiveUpTo
<1>9. Cardinality(LiveUpTo(q, t, k - 1) \cup {k}) = Cardinality(LiveUpTo(q, t, k - 1)) + 1
  BY <1>2, <1>3, <1>6, FS_AddElement
<1>10. QED
  BY <1>2, <1>3, <1>5, <1>7, <1>8, <1>9

\* The loop starts with an empty table.
LEMMA RebuiltStart ==
  ASSUME HashType, NEW q, NEW t, NEW size \in Nat \ {0}
  PROVE Rebuilt(q, t, size, EmptySlots(size), 0)
<1> DEFINE sl == EmptySlots(size)
<1>1. sl = [i \in 1..size |-> EmptySlot] /\ Len(sl) = size
  BY DEF EmptySlots
<1>2. EmptySlot \in SlotType /\ IsFree(EmptySlot) /\ EmptySlot.nonce = None
  BY CacheAssumption DEF EmptySlot, SlotType, IsFree
<1>3. IsTable(sl) /\ Occupied(sl) = {}
  <2>1. sl \in [1..size -> SlotType] /\ \A i \in 1..size : sl[i] = EmptySlot
    BY <1>1, <1>2
  <2>2. QED
    BY <1>1, <1>2, <2>1 DEF IsTable, Occupied
<1> HIDE DEF sl
<1>4. NoTwice(sl) /\ Reached(hash, sl) /\ Pairs(sl) = {}
  BY <1>3 DEF NoTwice, Reached, Pairs
<1>5. LiveUpTo(q, t, 0) = {}
  BY DEF LiveUpTo
<1>6. Rebuilt(q, t, size, sl, 0)
  BY <1>1, <1>3, <1>4, <1>5 DEF Rebuilt, IsHashTable
<1>7. QED
  BY <1>6 DEF sl

\* One turn of the loop.
LEMMA RebuiltStep ==
  ASSUME HashType, NEW q, IsHashTable(hash, q), NEW t \in Nat, NEW size \in Nat \ {0},
         Cardinality(LiveUpTo(q, t, Len(q))) < size,
         NEW k \in 1..Len(q), NEW sl, Rebuilt(q, t, size, sl, k - 1)
  PROVE Rebuilt(q, t, size, IF q[k].expires > t THEN Place(sl, q[k]) ELSE sl, k)
<1>1. PICK L \in Nat \ {0} : L = Len(q)
  BY DEF IsHashTable, IsTable
<1>2. /\ Cardinality(LiveUpTo(q, t, k)) < size
      /\ Cardinality(LiveUpTo(q, t, k)) \in Nat /\ Cardinality(LiveUpTo(q, t, k - 1)) \in Nat
      /\ q[k].expires > t =>
           /\ LiveUpTo(q, t, k) = LiveUpTo(q, t, k - 1) \cup {k}
           /\ Cardinality(LiveUpTo(q, t, k)) = Cardinality(LiveUpTo(q, t, k - 1)) + 1
      /\ ~(q[k].expires > t) => LiveUpTo(q, t, k) = LiveUpTo(q, t, k - 1)
  <2>1. L \in Nat /\ k \in 1..L /\ Cardinality(LiveUpTo(q, t, L)) < size
    BY <1>1
  <2>2. QED
    BY <2>1, LiveUpToGrows
<1>3. CASE ~(q[k].expires > t)
  BY <1>2, <1>3 DEF Rebuilt
<1>4. CASE q[k].expires > t
  <2> DEFINE n == q[k].nonce
             x == q[k].expires
  <2>1. \A i \in 1..L : q[i] \in SlotType
    BY <1>1 DEF IsHashTable, IsTable
  <2>2. \A i \in 1..L : q[i].expires > t => i \in Occupied(q)
    BY <1>1, <2>1 DEF Occupied, IsFree, SlotType
  <2>3. n \in Nonces /\ x \in 1..(MaxNow + 1) /\ q[k] = [nonce |-> n, expires |-> x]
    <3>1. ~IsFree(q[k]) /\ n # None
      BY <1>1, <1>4, <2>2 DEF Occupied, IsHashTable, IsTable
    <3>2. QED
      BY <1>1, <2>1, <3>1 DEF SlotType, IsFree
  <2> HIDE DEF n, x
  <2>4. IsHashTable(hash, sl) /\ IsTable(sl) /\ Len(sl) = size /\ HasRoom(sl)
    BY <1>2, <1>4 DEF Rebuilt, IsHashTable, HasRoom
  <2>5. ASSUME NEW j \in Occupied(sl) PROVE sl[j].nonce # n
    <3>1. <<sl[j].nonce, sl[j].expires>> \in Pairs(sl)
      BY DEF Pairs
    <3>2. PICK i \in LiveUpTo(q, t, k - 1) : <<sl[j].nonce, sl[j].expires>> = <<q[i].nonce, q[i].expires>>
      BY <3>1 DEF Rebuilt
    <3>3. i \in 1..L /\ i # k /\ i \in Occupied(q) /\ k \in Occupied(q)
      <4>1. i \in 1..(k - 1) /\ q[i].expires > t
        BY DEF LiveUpTo
      <4>2. QED
        BY <1>1, <1>4, <2>2, <4>1
    <3>4. QED
      BY <3>2, <3>3 DEF IsHashTable, NoTwice, n
  <2>6. PICK d \in 1..Len(sl) :
          /\ FirstSlot(sl, n, IsFree) = At(hash, Len(sl), n, d)
          /\ IsFree(sl[At(hash, Len(sl), n, d)])
          /\ \A e \in 1..(d - 1) : ~IsFree(sl[At(hash, Len(sl), n, e)])
    BY <2>3, <2>4, FreeSlotFound
  <2>7. PassedOver(hash, sl, n, d)
    <3>1. SUFFICES ASSUME NEW e \in 1..(d - 1)
                   PROVE ~IsFree(sl[At(hash, Len(sl), n, e)]) /\ sl[At(hash, Len(sl), n, e)].nonce # n
      BY DEF PassedOver
    <3>2. At(hash, Len(sl), n, e) \in 1..Len(sl)
      <4>1. e \in 1..Len(sl) /\ Len(sl) \in Nat \ {0}
        BY <2>4
      <4>2. QED
        BY <2>3, <4>1, ProbeCovers
    <3>3. At(hash, Len(sl), n, e) \in Occupied(sl)
      BY <2>6, <3>2 DEF Occupied
    <3>4. QED
      BY <2>5, <2>6, <3>3
  <2>8. PICK new : new = Place(sl, q[k])
    OBVIOUS
  <2>9. new = Stored(sl, At(hash, Len(sl), n, d), n, x)
    <3>1. new = [sl EXCEPT ![FirstSlot(sl, q[k].nonce, IsFree)] = q[k]]
      BY <2>8, Zenon DEF Place
    <3>2. q[k].nonce = n
      BY DEF n
    <3>3. QED
      BY <2>3, <2>6, <3>1, <3>2, Zenon DEF Stored
  <2>10. Holds(new, sl, n, x) /\ Cardinality(Occupied(new)) = Cardinality(Occupied(sl)) + 1
    BY <2>3, <2>4, <2>5, <2>6, <2>7, <2>9, Added
  <2>11. Pairs(new) = {<<q[i].nonce, q[i].expires>> : i \in LiveUpTo(q, t, k)}
    <3>1. Pairs(sl) = {<<q[i].nonce, q[i].expires>> : i \in LiveUpTo(q, t, k - 1)}
      BY DEF Rebuilt
    <3>2. Without(Pairs(sl), n) = Pairs(sl)
      BY <2>5 DEF Without, Pairs
    <3>3. Pairs(new) = Pairs(sl) \cup {<<n, x>>}
      BY <2>10, <3>2 DEF Holds
    <3>4. <<n, x>> = <<q[k].nonce, q[k].expires>>
      BY DEF n, x
    <3>5. LiveUpTo(q, t, k) = LiveUpTo(q, t, k - 1) \cup {k}
      BY <1>2, <1>4
    <3>6. QED
      BY <3>1, <3>3, <3>4, <3>5
  <2>12. Rebuilt(q, t, size, new, k)
    BY <1>2, <1>4, <2>4, <2>10, <2>11 DEF Rebuilt, Holds
  <2>13. QED
    BY <1>4, <2>8, <2>12
<1>5. QED
  BY <1>3, <1>4

\* compact rebuilds a table with room from the unexpired nonces.
LEMMA CompactedTable ==
  ASSUME HashType, IsHashTable(hash, slots), NEW t \in Nat, NEW size \in Nat \ {0},
         size = Size(Cardinality(Alive(t))), Cardinality(Alive(t)) < size
  PROVE Rebuilt(slots, t, size, Compacted(t), Len(slots))
<1>1. PICK L \in Nat \ {0} : L = Len(slots)
  BY DEF IsHashTable, IsTable
<1>2. PICK g : g = [k \in 0..Len(slots) |-> Moved(slots, t, size, g, k)] /\ Compacted(t) = g[Len(slots)]
  BY <1>1, CompactedLast
<1>3. Alive(t) = LiveUpTo(slots, t, Len(slots))
  <2>1. DOMAIN slots = 1..Len(slots)
    BY DEF IsHashTable, IsTable
  <2>2. QED
    BY <2>1 DEF Alive, LiveUpTo
<1>4. \A k \in 0..L : g[k] = Moved(slots, t, size, g, k)
  BY <1>1, <1>2
<1> DEFINE T == {k \in Nat : k <= L => Rebuilt(slots, t, size, g[k], k)}
<1>5. 0 \in T
  BY <1>4, RebuiltStart DEF Moved
<1>6. ASSUME NEW m \in T PROVE m + 1 \in T
  <2>1. SUFFICES ASSUME m + 1 <= L PROVE Rebuilt(slots, t, size, g[m + 1], m + 1)
    OBVIOUS
  <2>2. PICK k \in 1..L : k = m + 1 /\ k - 1 = m
    BY <2>1
  <2>3. Rebuilt(slots, t, size, g[k - 1], k - 1)
    BY <2>2
  <2>4. g[k] = IF slots[k].expires > t THEN Place(g[k - 1], slots[k]) ELSE g[k - 1]
    BY <1>4 DEF Moved
  <2>5. Rebuilt(slots, t, size, IF slots[k].expires > t THEN Place(g[k - 1], slots[k]) ELSE g[k - 1], k)
    BY <1>1, <1>3, <2>3, RebuiltStep
  <2>6. QED
    BY <2>2, <2>4, <2>5
<1>7. T = Nat
  <2>1. T \in SUBSET Nat
    OBVIOUS
  <2>2. \A m \in T : m + 1 \in T
    BY <1>6
  <2> HIDE DEF T
  <2>3. QED
    BY <1>5, <2>1, <2>2, SetInduction
<1>8. L \in T
  BY <1>7
<1>9. QED
  BY <1>1, <1>2, <1>8

-----------------------------------------------------------------------------
\* A table that is at most six tenths full has room.
LEMMA SixTenths ==
  ASSUME NEW size \in Nat \ {0}, NEW u \in Nat, u <= (size * 6) \div 10
  PROVE u < size
<1>1. PICK q \in Nat, r \in 0..9 : size * 6 = 10 * q + r /\ q = (size * 6) \div 10
  <2>1. size * 6 \in Nat /\ 10 \in Nat \ {0}
    OBVIOUS
  <2>2. QED
    BY <2>1, DivMod
<1>2. QED
  BY <1>1

\* compact's size has room for one nonce more than the unexpired ones.
LEMMA SizeFits ==
  ASSUME NEW live \in Nat, live < CacheSize
  PROVE /\ Size(live) \in Sizes /\ Size(live) \in Nat \ {0}
        /\ live + 1 <= (Size(live) * 6) \div 10
<1> DEFINE S == {size \in Sizes : Fits(size, live) \/ size = SlotsMax}
<1>1. SlotsMax \in Sizes /\ Sizes \subseteq Nat \ {0}
  BY CacheAssumption DEF Sizes
<1>2. SlotsMax \in S /\ S \in SUBSET Nat
  BY <1>1
<1>3. Min(S) \in S
  BY <1>2, MinIsLeast
<1>4. PICK size \in S : size = Size(live)
  BY <1>3 DEF Size
<1>5. live + 1 <= (size * 6) \div 10
  <2>1. CASE Fits(size, live)
    BY <2>1 DEF Fits
  <2>2. CASE size = SlotsMax
    <3>1. PICK q \in Nat : q = (SlotsMax * 6) \div 10
      <4>1. SlotsMax * 6 \in Nat /\ 10 \in Nat \ {0}
        BY CacheAssumption
      <4>2. QED
        BY <4>1, DivMod
    <3>2. live + 1 <= q
      BY <3>1, CacheAssumption
    <3>3. QED
      BY <2>2, <3>1, <3>2
  <2>3. QED
    BY <2>1, <2>2
<1>6. QED
  BY <1>1, <1>4, <1>5

-----------------------------------------------------------------------------
\* The unexpired nonces of a table.
HeldIn(sl, t) == {p \in Pairs(sl) : p[2] > t}

\* The slots of a table whose nonces expire at t or later.
LastingTo(sl, t) == {i \in 1..Len(sl) : sl[i].expires >= t}

(***************************************************************************)
(* The inductive invariant: the table is a hash table at most six tenths   *)
(* full, used counts its occupied slots, and until fullUntil CacheSize     *)
(* nonces stay unexpired.                                                  *)
(***************************************************************************)
ScalarInv ==
  /\ HashType
  /\ fullUntil \in 0..(MaxNow + 1)
  /\ now \in 1..MaxNow
  /\ result \in {"none", "held", "full"}

TableInv ==
  /\ slots = <<>> \/ (IsHashTable(hash, slots) /\ Len(slots) \in Sizes)
  /\ used = Cardinality(Occupied(slots))
  /\ used <= CacheSize /\ used <= (Len(slots) * 6) \div 10

FullInv == fullUntil # 0 => Cardinality(LastingTo(slots, fullUntil)) >= CacheSize

CacheInv == ScalarInv /\ TableInv /\ FullInv

\* What the invariant says of the table, as plain facts.
LEMMA TableFacts ==
  ASSUME CacheInv
  PROVE /\ Len(slots) \in Nat /\ used \in 0..CacheSize
        /\ DOMAIN slots = 1..Len(slots)
        /\ \A i \in 1..Len(slots) : slots[i] \in SlotType /\ (IsFree(slots[i]) <=> slots[i].nonce = None)
        /\ slots # <<>> => IsHashTable(hash, slots) /\ IsTable(slots) /\ HasRoom(slots) /\ Len(slots) \in Nat \ {0}
        /\ NoTwice(slots)
<1>1. CASE slots = <<>>
  <2>1. Len(slots) = 0 /\ DOMAIN slots = {} /\ 1..Len(slots) = {}
    BY <1>1
  <2>2. Occupied(slots) = {}
    BY <2>1 DEF Occupied
  <2>3. used = 0
    BY <2>2, FS_EmptySet DEF CacheInv, TableInv
  <2>4. QED
    BY <1>1, <2>1, <2>2, <2>3, CacheAssumption DEF NoTwice
<1>2. CASE slots # <<>>
  <2>1. IsHashTable(hash, slots) /\ IsTable(slots) /\ NoTwice(slots)
    BY <1>2 DEF CacheInv, TableInv, IsHashTable
  <2>2. PICK L \in Nat \ {0} : L = Len(slots)
    BY <2>1 DEF IsTable
  <2>3. slots \in [1..L -> SlotType]
    BY <2>1, <2>2 DEF IsTable
  <2>4. PICK u \in Nat : u = Cardinality(Occupied(slots)) /\ u = used
    BY <2>2, OccupiedFinite DEF CacheInv, TableInv
  <2>5. u <= (L * 6) \div 10 /\ u <= CacheSize
    BY <2>2, <2>4 DEF CacheInv, TableInv
  <2>6. u < L
    BY <2>5, SixTenths
  <2>7. HasRoom(slots)
    BY <2>2, <2>4, <2>6 DEF HasRoom
  <2>8. \A i \in 1..L : slots[i] \in SlotType /\ (IsFree(slots[i]) <=> slots[i].nonce = None)
    BY <2>1, <2>2, <2>3 DEF IsTable
  <2>9. QED
    BY <2>1, <2>2, <2>3, <2>4, <2>5, <2>7, <2>8, CacheAssumption
<1>3. QED
  BY <1>1, <1>2

\* The alive slots are the unexpired ones, at most used of them.
LEMMA AliveFacts ==
  ASSUME CacheInv, NEW t \in Nat
  PROVE /\ Alive(t) = LiveUpTo(slots, t, Len(slots))
        /\ Alive(t) \subseteq Occupied(slots)
        /\ IsFiniteSet(Alive(t)) /\ Cardinality(Alive(t)) \in 0..used
<1>1. /\ Len(slots) \in Nat /\ used \in 0..CacheSize
      /\ DOMAIN slots = 1..Len(slots)
      /\ \A i \in 1..Len(slots) : slots[i] \in SlotType
  BY TableFacts
<1>2. Alive(t) = LiveUpTo(slots, t, Len(slots))
  BY <1>1 DEF Alive, LiveUpTo
<1>3. Alive(t) \subseteq Occupied(slots)
  BY <1>1 DEF Alive, Occupied, IsFree, SlotType
<1>4. IsFiniteSet(Occupied(slots)) /\ Cardinality(Occupied(slots)) = used
  BY <1>1, OccupiedFinite DEF CacheInv, TableInv
<1>5. IsFiniteSet(Alive(t)) /\ Cardinality(Alive(t)) <= used
  BY <1>3, <1>4, FS_Subset
<1>6. Cardinality(Alive(t)) \in Nat
  BY <1>5, FS_CardinalityType
<1>7. QED
  BY <1>1, <1>2, <1>3, <1>5, <1>6, CacheAssumption

\* While the cache is known to be full, CacheSize nonces are unexpired.
LEMMA StaysFull ==
  ASSUME CacheInv, fullUntil # 0
  PROVE used = CacheSize /\ (now < fullUntil => Cardinality(Alive(now)) >= CacheSize)
<1> DEFINE S == LastingTo(slots, fullUntil)
<1>1. /\ Len(slots) \in Nat /\ used \in 0..CacheSize
      /\ DOMAIN slots = 1..Len(slots)
      /\ \A i \in 1..Len(slots) : slots[i] \in SlotType
  BY TableFacts
<1>2. fullUntil \in Nat /\ now \in Nat
  BY CacheAssumption DEF CacheInv, ScalarInv
<1>3. IsFiniteSet(Occupied(slots)) /\ Cardinality(Occupied(slots)) = used
  BY <1>1, OccupiedFinite DEF CacheInv, TableInv
<1>4. S \subseteq Occupied(slots)
  BY <1>1, <1>2 DEF LastingTo, Occupied, IsFree, SlotType
<1>5. IsFiniteSet(S) /\ Cardinality(S) <= used
  BY <1>3, <1>4, FS_Subset
<1>6. Cardinality(S) >= CacheSize /\ Cardinality(S) \in Nat
  BY <1>5, FS_CardinalityType DEF CacheInv, FullInv
<1>7. used = CacheSize
  BY <1>1, <1>5, <1>6, CacheAssumption
<1>8. ASSUME now < fullUntil PROVE Cardinality(Alive(now)) >= CacheSize
  <2>1. S \subseteq Alive(now)
    BY <1>1, <1>2, <1>8 DEF LastingTo, Alive, SlotType
  <2>2. IsFiniteSet(Alive(now)) /\ Cardinality(Alive(now)) \in Nat
    BY <1>1, <1>2, AliveFacts
  <2>3. Cardinality(S) <= Cardinality(Alive(now))
    BY <2>1, <2>2, FS_Subset
  <2>4. QED
    BY <1>6, <2>2, <2>3, CacheAssumption
<1>9. QED
  BY <1>7, <1>8

-----------------------------------------------------------------------------
\* The table after Insert stored a nonce in a table with room.
LEMMA PutTable ==
  ASSUME HashType, hash' = hash, NEW sl, IsHashTable(hash, sl), Len(sl) \in Sizes,
         NEW u \in Nat, u = Cardinality(Occupied(sl)), u < CacheSize, u + 1 <= (Len(sl) * 6) \div 10,
         NEW n \in Nonces, NEW x \in 1..(MaxNow + 1), Put(sl, u, n, x)
  PROVE TableInv' /\ Holds(slots', sl, n, x)
<1>1. PICK L \in Nat \ {0} : L = Len(sl)
  BY DEF IsHashTable, IsTable
<1>2. PICK m \in Nat : m = (L * 6) \div 10
  <2>1. L * 6 \in Nat /\ 10 \in Nat \ {0}
    OBVIOUS
  <2>2. QED
    BY <2>1, DivMod
<1>3. HasRoom(sl)
  <2>1. u <= m
    BY <1>1, <1>2
  <2>2. u < L
    BY <1>2, <2>1, SixTenths
  <2>3. QED
    BY <1>1, <2>2 DEF HasRoom
<1>4. PICK new : new = slots'
  OBVIOUS
<1>5. new = Stored(sl, Find(sl, n), n, x)
  BY <1>4, Zenon DEF Put, Stored
<1>6. /\ Holds(new, sl, n, x)
      /\ Cardinality(Occupied(new)) =
           IF IsFree(sl[Find(sl, n)]) THEN Cardinality(Occupied(sl)) + 1 ELSE Cardinality(Occupied(sl))
  BY <1>3, <1>5, Inserted
<1>7. used' = Cardinality(Occupied(new))
  BY <1>6 DEF Put
<1>8. used' <= CacheSize /\ used' <= m
  BY <1>1, <1>2, <1>6, <1>7, CacheAssumption
<1>9. IsHashTable(hash, new) /\ Len(new) = L
  BY <1>1, <1>6 DEF Holds
<1>10. IsHashTable(hash, slots)'
  BY <1>4, <1>9, Zenon
<1>11. Occupied(slots)' = Occupied(new) /\ Len(slots)' = L
  BY <1>4, <1>9 DEF Occupied, IsFree
<1>12. TableInv'
  BY <1>1, <1>2, <1>7, <1>8, <1>10, <1>11 DEF TableInv
<1>13. QED
  BY <1>4, <1>6, <1>12

\* The table compact builds: the unexpired nonces, and room for one more.
LEMMA CompactedFacts ==
  ASSUME CacheInv, Cardinality(Alive(now)) < CacheSize
  PROVE /\ IsHashTable(hash, Compacted(now)) /\ Len(Compacted(now)) \in Sizes
        /\ Pairs(Compacted(now)) = Held
        /\ Cardinality(Occupied(Compacted(now))) = Cardinality(Alive(now))
        /\ Cardinality(Alive(now)) + 1 <= (Len(Compacted(now)) * 6) \div 10
<1>1. now \in Nat
  BY CacheAssumption DEF CacheInv, ScalarInv
<1>2. PICK live \in Nat : live = Cardinality(Alive(now))
  <2>1. Cardinality(Alive(now)) \in 0..used
    BY <1>1, AliveFacts
  <2>2. QED
    BY <2>1
<1>3. PICK size \in Nat \ {0} : size = Size(Cardinality(Alive(now))) /\ size \in Sizes /\ live + 1 <= (size * 6) \div 10
  BY <1>2, SizeFits
<1>4. PICK m \in Nat : m = (size * 6) \div 10
  <2>1. size * 6 \in Nat /\ 10 \in Nat \ {0}
    OBVIOUS
  <2>2. QED
    BY <2>1, DivMod
<1>5. live < size
  <2>1. live <= m
    BY <1>2, <1>3, <1>4
  <2>2. QED
    BY <1>2, <1>4, <2>1, SixTenths
<1>6. HashType
  BY DEF CacheInv, ScalarInv
<1>7. Rebuilt(slots, now, size, Compacted(now), Len(slots))
  <2>1. CASE slots # <<>>
    <3>1. IsHashTable(hash, slots)
      BY <2>1, TableFacts
    <3>2. QED
      BY <1>1, <1>2, <1>3, <1>5, <1>6, <3>1, CompactedTable
  <2>2. CASE slots = <<>>
    <3>1. Len(slots) = 0
      BY <2>2
    <3>2. Len(slots) \in Nat
      BY <3>1
    <3>3. PICK g : g = [k \in 0..Len(slots) |-> Moved(slots, now, size, g, k)] /\ Compacted(now) = g[Len(slots)]
      BY <1>3, <3>2, CompactedLast
    <3>4. Compacted(now) = EmptySlots(size)
      BY <3>1, <3>3 DEF Moved
    <3>5. QED
      BY <1>6, <3>1, <3>4, RebuiltStart
  <2>3. QED
    BY <2>1, <2>2
<1>8. Alive(now) = LiveUpTo(slots, now, Len(slots))
  BY <1>1, AliveFacts
<1>9. QED
  BY <1>2, <1>3, <1>7, <1>8 DEF Rebuilt, Held

\* The expiry an Insert stores.
LEMMA ClampType ==
  ASSUME NEW x \in 0..(MaxNow + 1)
  PROVE Clamp(x) \in 1..(MaxNow + 1)
BY CacheAssumption DEF Clamp

\* An Insert that finds room.
LEMMA WithRoomFacts ==
  ASSUME CacheInv, NEW n \in Nonces, NEW x \in 0..(MaxNow + 1), InsertWithRoom(n, x)
  PROVE TableInv' /\ Holds(slots', slots, n, Clamp(x)) /\ fullUntil = 0 /\ used < CacheSize /\ slots # <<>>
<1>1. used \in Nat /\ used < CacheSize /\ used + 1 <= (Len(slots) * 6) \div 10
  <2>1. used \in Nat /\ Len(slots) \in Nat
    BY TableFacts
  <2>2. PICK m \in Nat : m = (Len(slots) * 6) \div 10
    <3>1. Len(slots) * 6 \in Nat /\ 10 \in Nat \ {0}
      BY <2>1
    <3>2. QED
      BY <3>1, DivMod
  <2>3. ~(used >= CacheSize) /\ ~(used + 1 > m)
    BY <2>2 DEF InsertWithRoom, Crowded
  <2>4. QED
    BY <2>1, <2>2, <2>3, CacheAssumption
<1>2. slots # <<>>
  <2>1. SUFFICES ASSUME slots = <<>> PROVE FALSE
    OBVIOUS
  <2>2. Len(slots) = 0
    BY <2>1
  <2>3. used + 1 <= 0
    BY <1>1, <2>2
  <2>4. QED
    BY <1>1, <2>3
<1>3. IsHashTable(hash, slots) /\ Len(slots) \in Sizes /\ used = Cardinality(Occupied(slots)) /\ HashType
  BY <1>2 DEF CacheInv, ScalarInv, TableInv
<1>4. Put(slots, used, n, Clamp(x)) /\ hash' = hash
  BY DEF InsertWithRoom
<1>5. Clamp(x) \in 1..(MaxNow + 1)
  BY ClampType
<1>6. TableInv' /\ Holds(slots', slots, n, Clamp(x))
  BY <1>1, <1>3, <1>4, <1>5, PutTable
<1>7. fullUntil = 0
  BY <1>1, StaysFull, CacheAssumption
<1>8. QED
  BY <1>1, <1>2, <1>6, <1>7

\* An Insert that compacts the table first.
LEMMA CompactingFacts ==
  ASSUME CacheInv, NEW n \in Nonces, NEW x \in 0..(MaxNow + 1), InsertCompacting(n, x)
  PROVE /\ TableInv' /\ Cardinality(Alive(now)) < CacheSize
        /\ Pairs(slots') = Without(Held, n) \cup {<<n, Clamp(x)>>}
<1>1. Cardinality(Alive(now)) < CacheSize /\ hash' = hash /\ HashType
  BY DEF InsertCompacting, CacheInv, ScalarInv
<1>2. /\ IsHashTable(hash, Compacted(now)) /\ Len(Compacted(now)) \in Sizes
      /\ Pairs(Compacted(now)) = Held
      /\ Cardinality(Occupied(Compacted(now))) = Cardinality(Alive(now))
      /\ Cardinality(Alive(now)) + 1 <= (Len(Compacted(now)) * 6) \div 10
  BY <1>1, CompactedFacts
<1>3. PICK u \in Nat : u = Cardinality(Alive(now))
  <2>1. now \in Nat
    BY CacheAssumption DEF CacheInv, ScalarInv
  <2>2. Cardinality(Alive(now)) \in 0..used
    BY <2>1, AliveFacts
  <2>3. QED
    BY <2>2
<1>4. PICK sl : sl = Compacted(now)
  OBVIOUS
<1>5. Put(sl, u, n, Clamp(x))
  BY <1>3, <1>4, Zenon DEF InsertCompacting
<1>6. Clamp(x) \in 1..(MaxNow + 1)
  BY ClampType
<1>7. /\ IsHashTable(hash, sl) /\ Len(sl) \in Sizes /\ Pairs(sl) = Held
      /\ u = Cardinality(Occupied(sl)) /\ u < CacheSize /\ u + 1 <= (Len(sl) * 6) \div 10
  BY <1>1, <1>2, <1>3, <1>4
<1>8. TableInv' /\ Holds(slots', sl, n, Clamp(x))
  BY <1>1, <1>5, <1>6, <1>7, PutTable
<1>9. QED
  BY <1>1, <1>7, <1>8 DEF Holds

\* The cache is found full: it stays so until the first nonce expires.
LEMMA FullFacts ==
  ASSUME CacheInv, NEW n, NEW x, InsertFull(n, x)
  PROVE fullUntil' \in 0..(MaxNow + 1) /\ FullInv'
<1>1. now \in Nat
  BY CacheAssumption DEF CacheInv, ScalarInv
<1>2. /\ Len(slots) \in Nat /\ DOMAIN slots = 1..Len(slots)
      /\ \A i \in 1..Len(slots) : slots[i] \in SlotType
  BY TableFacts
<1>3. Alive(now) \subseteq Occupied(slots) /\ IsFiniteSet(Alive(now)) /\ Cardinality(Alive(now)) \in Nat
  BY <1>1, AliveFacts
<1>4. Cardinality(Alive(now)) >= CacheSize
  BY DEF InsertFull
<1>5. Alive(now) # {}
  BY <1>3, <1>4, FS_EmptySet, CacheAssumption
<1> DEFINE E == {slots[i].expires : i \in Alive(now)}
<1>6. E # {} /\ E \in SUBSET (0..(MaxNow + 1)) /\ E \in SUBSET Nat
  BY <1>2, <1>3, <1>5, CacheAssumption DEF Occupied, SlotType
<1>7. PICK f \in E : f = Min(E) /\ \A e \in E : f <= e
  BY <1>6, MinIsLeast
<1>8. fullUntil' = f
  BY <1>7 DEF InsertFull
<1>9. Alive(now) \subseteq LastingTo(slots, f)
  BY <1>2, <1>3, <1>6, <1>7 DEF Alive, LastingTo, SlotType
<1>10. IsFiniteSet(LastingTo(slots, f))
  <2>1. 1 \in Int /\ Len(slots) \in Int
    BY <1>2
  <2>2. IsFiniteSet(1..Len(slots))
    BY <2>1, FS_Interval, Zenon
  <2>3. LastingTo(slots, f) \subseteq 1..Len(slots)
    BY DEF LastingTo
  <2>4. QED
    BY <2>2, <2>3, FS_Subset
<1>11. Cardinality(LastingTo(slots, f)) >= CacheSize
  <2>1. Cardinality(Alive(now)) <= Cardinality(LastingTo(slots, f)) /\ Cardinality(LastingTo(slots, f)) \in Nat
    BY <1>9, <1>10, FS_Subset, FS_CardinalityType
  <2>2. QED
    BY <1>3, <1>4, <2>1, CacheAssumption
<1>12. LastingTo(slots, fullUntil)' = LastingTo(slots, f)
  BY <1>8 DEF LastingTo, InsertFull
<1>13. QED
  BY <1>6, <1>7, <1>8, <1>11, <1>12 DEF FullInv

\* A step that leaves the table alone keeps what is said of it.
LEMMA SameTable ==
  ASSUME CacheInv, UNCHANGED <<hash, slots, used>>
  PROVE TableInv' /\ (fullUntil' = fullUntil => FullInv')
<1>1. (slots = <<>> \/ (IsHashTable(hash, slots) /\ Len(slots) \in Sizes))'
  BY DEF CacheInv, TableInv
<1>2. Occupied(slots)' = Occupied(slots)
  BY DEF Occupied, IsFree
<1>3. TableInv'
  BY <1>1, <1>2 DEF CacheInv, TableInv
<1>4. QED
  BY <1>3 DEF CacheInv, FullInv, LastingTo

-----------------------------------------------------------------------------
\* A new cache satisfies the invariant.
LEMMA InitCache == Init => CacheInv
<1> SUFFICES ASSUME Init PROVE CacheInv
  OBVIOUS
<1>1. slots = <<>> /\ Len(slots) = 0 /\ used = 0 /\ fullUntil = 0
  BY DEF Init
<1>2. Occupied(slots) = {}
  BY <1>1 DEF Occupied
<1>3. TableInv
  <2>1. Cardinality(Occupied(slots)) = 0
    BY <1>2, FS_EmptySet
  <2>2. used <= (Len(slots) * 6) \div 10
    BY <1>1
  <2>3. QED
    BY <1>1, <2>1, <2>2, CacheAssumption DEF TableInv
<1>4. ScalarInv /\ FullInv
  BY <1>1, CacheAssumption DEF Init, ScalarInv, HashType, FullInv
<1>5. QED
  BY <1>3, <1>4 DEF CacheInv

\* Every step keeps it.
LEMMA NextCache == CacheInv /\ [Next]_vars => CacheInv'
<1> SUFFICES ASSUME CacheInv, [Next]_vars PROVE CacheInv'
  OBVIOUS
<1>1. CASE Tick
  <2>1. TableInv' /\ FullInv'
    BY <1>1, SameTable DEF Tick
  <2>2. ScalarInv'
    BY <1>1, CacheAssumption DEF Tick, CacheInv, ScalarInv, HashType
  <2>3. QED
    BY <2>1, <2>2 DEF CacheInv
<1>2. ASSUME NEW n \in Nonces, NEW x \in 0..(MaxNow + 1), Insert(n, x)
      PROVE CacheInv'
  <2>1. CASE InsertWithRoom(n, x)
    <3>1. TableInv' /\ fullUntil = 0
      BY <2>1, WithRoomFacts
    <3>2. ScalarInv' /\ fullUntil' = 0
      BY <2>1, <3>1 DEF InsertWithRoom, CacheInv, ScalarInv, HashType
    <3>3. QED
      BY <3>1, <3>2 DEF CacheInv, FullInv
  <2>2. CASE InsertStillFull(n, x)
    <3>1. TableInv' /\ FullInv'
      BY <2>2, SameTable DEF InsertStillFull
    <3>2. ScalarInv'
      BY <2>2 DEF InsertStillFull, CacheInv, ScalarInv, HashType
    <3>3. QED
      BY <3>1, <3>2 DEF CacheInv
  <2>3. CASE InsertFull(n, x)
    <3>1. TableInv'
      BY <2>3, SameTable DEF InsertFull
    <3>2. fullUntil' \in 0..(MaxNow + 1) /\ FullInv'
      BY <2>3, FullFacts
    <3>3. ScalarInv'
      BY <2>3, <3>2 DEF InsertFull, CacheInv, ScalarInv, HashType
    <3>4. QED
      BY <3>1, <3>2, <3>3 DEF CacheInv
  <2>4. CASE InsertCompacting(n, x)
    <3>1. TableInv'
      BY <2>4, CompactingFacts
    <3>2. ScalarInv' /\ fullUntil' = 0
      BY <2>4, CacheAssumption DEF InsertCompacting, CacheInv, ScalarInv, HashType
    <3>3. QED
      BY <3>1, <3>2 DEF CacheInv, FullInv
  <2>5. QED
    BY <1>2, <2>1, <2>2, <2>3, <2>4 DEF Insert
<1>3. CASE UNCHANGED vars
  <2>1. TableInv' /\ FullInv'
    BY <1>3, SameTable DEF vars
  <2>2. ScalarInv'
    BY <1>3 DEF vars, CacheInv, ScalarInv, HashType
  <2>3. QED
    BY <2>1, <2>2 DEF CacheInv
<1>4. QED
  BY <1>1, <1>2, <1>3 DEF Next

LEMMA CacheInvariant == Spec => []CacheInv
BY InitCache, NextCache, PTL DEF Spec

(***************************************************************************)
(* The cache keeps its types: the table has one of compact's sizes, and at *)
(* most CacheSize slots are in use.                                        *)
(***************************************************************************)
THEOREM CacheTypes == Spec => []TypeOK
<1>1. CacheInv => TypeOK
  <2> SUFFICES ASSUME CacheInv PROVE TypeOK
    OBVIOUS
  <2>1. /\ Len(slots) \in Nat /\ used \in 0..CacheSize
        /\ DOMAIN slots = 1..Len(slots)
        /\ \A i \in 1..Len(slots) : slots[i] \in SlotType
    BY TableFacts
  <2>2. slots \in Seq(SlotType)
    <3>1. CASE slots = <<>>
      BY <3>1
    <3>2. CASE slots # <<>>
      <4>1. IsTable(slots)
        BY <3>2, TableFacts
      <4>2. QED
        BY <4>1 DEF IsTable
    <3>3. QED
      BY <3>1, <3>2
  <2>3. Len(slots) \in Sizes \cup {0}
    <3>1. slots = <<>> => Len(slots) = 0
      OBVIOUS
    <3>2. QED
      BY <3>1 DEF CacheInv, TableInv
  <2>4. QED
    BY <2>1, <2>2, <2>3 DEF TypeOK, SlotType, CacheInv, ScalarInv, HashType
<1>2. QED
  BY <1>1, CacheInvariant, PTL

(***************************************************************************)
(* Seen finds exactly the unexpired nonces and every probe loop ends, for  *)
(* every assignment of hashes to nonces, every table size and every        *)
(* history of inserts and compactions.                                     *)
(***************************************************************************)
THEOREM CacheIsSound == Spec => []TableSound
<1>1. ASSUME CacheInv PROVE TableSound
  <2>1. /\ Len(slots) \in Nat /\ used \in 0..CacheSize
        /\ DOMAIN slots = 1..Len(slots)
        /\ \A i \in 1..Len(slots) : slots[i] \in SlotType /\ (IsFree(slots[i]) <=> slots[i].nonce = None)
        /\ slots # <<>> => IsHashTable(hash, slots) /\ IsTable(slots) /\ HasRoom(slots) /\ Len(slots) \in Nat \ {0}
        /\ NoTwice(slots)
    BY <1>1, TableFacts
  <2>2. HashType /\ now \in Nat
    BY <1>1, CacheAssumption DEF CacheInv, ScalarInv
  <2>3. Alive(now) \subseteq Occupied(slots)
    BY <1>1, <2>2, AliveFacts
  <2>4. ProbesEnd
    <3>1. {i \in DOMAIN slots : ~IsFree(slots[i])} = Occupied(slots)
      BY <2>1 DEF Occupied
    <3>2. used = Cardinality(Occupied(slots))
      BY <1>1 DEF CacheInv, TableInv
    <3>3. slots # <<>> => used < Len(slots)
      BY <2>1, <3>2 DEF HasRoom
    <3>4. QED
      BY <3>1, <3>2, <3>3 DEF ProbesEnd
  <2>5. ASSUME NEW n \in Nonces
        PROVE Cardinality({i \in DOMAIN slots : slots[i].nonce = n}) <= 1
    <3> DEFINE S == {i \in DOMAIN slots : slots[i].nonce = n}
    <3>1. S \subseteq Occupied(slots)
      BY <2>1, CacheAssumption DEF Occupied
    <3>2. CASE S = {}
      BY <3>2, FS_EmptySet
    <3>3. CASE S # {}
      <4>1. PICK i \in S : TRUE
        BY <3>3
      <4>2. \A j \in S : j = i
        BY <2>1, <3>1 DEF NoTwice
      <4>3. S = {i}
        BY <4>2
      <4>4. Cardinality(S) = 1
        BY <4>3, FS_Singleton, Zenon
      <4>5. QED
        BY <4>4
    <3>4. QED
      BY <3>2, <3>3
  <2>6. ASSUME NEW n \in Nonces
        PROVE Seen(n, now) <=> \E i \in Alive(now) : slots[i].nonce = n
    <3>1. CASE slots = <<>>
      BY <2>1, <3>1 DEF Seen, Alive
    <3>2. CASE slots # <<>> /\ \E j \in Occupied(slots) : slots[j].nonce = n
      <4>1. PICK j \in Occupied(slots) : slots[j].nonce = n
        BY <3>2
      <4>2. Find(slots, n) = j
        BY <2>1, <2>2, <3>2, <4>1, HeldIsFound
      <4>3. ~IsFree(slots[j]) /\ j \in DOMAIN slots
        BY <2>1 DEF Occupied
      <4>4. Seen(n, now) <=> slots[j].expires > now
        BY <3>2, <4>2, <4>3 DEF Seen
      <4>5. \A i \in Alive(now) : slots[i].nonce = n => i = j
        BY <2>1, <2>3, <4>1 DEF NoTwice
      <4>6. QED
        BY <4>1, <4>3, <4>4, <4>5 DEF Alive
    <3>3. CASE slots # <<>> /\ \A j \in Occupied(slots) : slots[j].nonce # n
      <4>1. PICK d \in 1..Len(slots) :
              /\ Find(slots, n) = At(hash, Len(slots), n, d)
              /\ IsFree(slots[At(hash, Len(slots), n, d)])
              /\ PassedOver(hash, slots, n, d)
        BY <2>1, <2>2, <3>3, UnheldIsFree
      <4>2. ~Seen(n, now)
        BY <3>3, <4>1 DEF Seen
      <4>3. QED
        BY <2>3, <3>3, <4>2
    <3>4. QED
      BY <3>1, <3>2, <3>3
  <2>7. QED
    BY <2>4, <2>5, <2>6 DEF TableSound, SeenExact
<1>2. QED
  BY <1>1, CacheInvariant, PTL

-----------------------------------------------------------------------------
\* The unexpired pairs of a table are those of its alive slots, one each.
LEMMA HeldFacts ==
  ASSUME CacheInv
  PROVE Held = HeldIn(slots, now) /\ Cardinality(Held) = Cardinality(Alive(now))
<1>1. now \in Nat
  BY CacheAssumption DEF CacheInv, ScalarInv
<1>2. Alive(now) \subseteq Occupied(slots) /\ IsFiniteSet(Alive(now))
  BY <1>1, AliveFacts
<1>3. DOMAIN slots = 1..Len(slots) /\ NoTwice(slots)
  BY TableFacts
<1>4. Held = HeldIn(slots, now)
  BY <1>2, <1>3 DEF Held, HeldIn, Pairs, Alive, Occupied
<1> DEFINE f == [i \in Alive(now) |-> <<slots[i].nonce, slots[i].expires>>]
<1>5. f \in [Alive(now) -> Held] /\ \A p \in Held : \E i \in Alive(now) : f[i] = p
  BY DEF Held
<1>6. \A i, j \in Alive(now) : f[i] = f[j] => i = j
  BY <1>2, <1>3 DEF NoTwice
<1>7. f \in Bijection(Alive(now), Held)
  BY <1>5, <1>6 DEF Bijection, Injection, Surjection, IsInjective
<1>8. ExistsBijection(Alive(now), Held)
  BY <1>7, Zenon DEF ExistsBijection
<1>9. QED
  BY <1>2, <1>4, <1>8, FS_Bijection

\* The same after a step.
LEMMA HeldNext ==
  ASSUME CacheInv'
  PROVE Held' = HeldIn(slots', now')
<1>1. (CacheInv => Held = HeldIn(slots, now) /\ Cardinality(Held) = Cardinality(Alive(now)))'
  BY HeldFacts, PTL
<1>2. QED
  BY <1>1

\* Storing n in a table leaves the abstract set with n's new expiry, if that
\* is still to come, and the other nonces.
LEMMA HeldAfter ==
  ASSUME CacheInv, CacheInv', now' = now, NEW n \in Nonces, NEW x \in 0..(MaxNow + 1),
         NEW P, HeldIn(slots, now) = {p \in P : p[2] > now},
         Pairs(slots') = Without(P, n) \cup {<<n, Clamp(x)>>}
  PROVE Held' = NonceSetSpec!Unexpired({p \in Held : p[1] # n} \cup {<<n, x>>}, now)
<1>1. now \in Nat /\ now >= 1
  BY CacheAssumption DEF CacheInv, ScalarInv
<1>2. Held = {p \in P : p[2] > now}
  BY HeldFacts
<1>3. Held' = {p \in Without(P, n) \cup {<<n, Clamp(x)>>} : p[2] > now}
  BY HeldNext DEF HeldIn
<1>4. Clamp(x) > now => Clamp(x) = x
  BY <1>1 DEF Clamp
<1>5. x > now => Clamp(x) = x
  BY <1>1 DEF Clamp
<1>6. {p \in Held : p[1] # n} = {p \in Without(P, n) : p[2] > now}
  BY <1>2 DEF Without
<1>7. Held' = {p \in {q \in Held : q[1] # n} \cup {<<n, x>>} : p[2] > now}
  <2>1. \A p : p \in Held' <=> (p \in Without(P, n) /\ p[2] > now) \/ (p = <<n, Clamp(x)>> /\ Clamp(x) > now)
    BY <1>3
  <2>2. (Clamp(x) > now) <=> (x > now)
    BY <1>4, <1>5
  <2>3. \A p : (p = <<n, Clamp(x)>> /\ Clamp(x) > now) <=> (p = <<n, x>> /\ x > now)
    BY <1>4, <2>2, Zenon
  <2>4. \A p : p \in Held' <=> (p \in {q \in Held : q[1] # n}) \/ (p = <<n, x>> /\ x > now)
    BY <1>6, <2>1, <2>3
  <2>5. \A p \in Held : p[2] > now
    BY <1>2
  <2>6. QED
    BY <2>4, <2>5
<1>8. QED
  BY <1>7 DEF NonceSetSpec!Unexpired

\* NonceSet counts with the same operator.
LEMMA SameCount == \A S : NonceSetSpec!Cardinality(S) = Cardinality(S)
BY Zenon DEF NonceSetSpec!Cardinality, Cardinality

\* Each Insert is the Insert of the abstract set.
LEMMA InsertImplements ==
  ASSUME CacheInv, CacheInv', NEW n \in Nonces, NEW x \in 0..(MaxNow + 1), Insert(n, x)
  PROVE NonceSetSpec!Insert(n, x)
<1>1. now \in Nat /\ CacheSize \in Nat /\ Cardinality(Held) = Cardinality(Alive(now))
  BY HeldFacts, CacheAssumption DEF CacheInv, ScalarInv
<1>2. PICK live \in Nat : live = Cardinality(Alive(now)) /\ live <= used /\ used \in Nat
  <2>1. Cardinality(Alive(now)) \in 0..used /\ used \in Nat
    BY <1>1, AliveFacts, TableFacts
  <2>2. QED
    BY <2>1
<1>3. CASE InsertWithRoom(n, x)
  <2>1. Holds(slots', slots, n, Clamp(x)) /\ used < CacheSize
    BY <1>3, WithRoomFacts
  <2>2. now' = now /\ result' = "held"
    BY <1>3 DEF InsertWithRoom
  <2>3. Held' = NonceSetSpec!Unexpired({p \in Held : p[1] # n} \cup {<<n, x>>}, now)
    <3>1. Pairs(slots') = Without(Pairs(slots), n) \cup {<<n, Clamp(x)>>}
      BY <2>1 DEF Holds
    <3>2. HeldIn(slots, now) = {p \in Pairs(slots) : p[2] > now}
      BY DEF HeldIn
    <3>3. QED
      BY <2>2, <3>1, <3>2, HeldAfter
  <2>4. Cardinality(Held) < CacheSize
    BY <1>1, <1>2, <2>1
  <2>5. QED
    BY <2>2, <2>3, <2>4, SameCount DEF NonceSetSpec!Insert
<1>4. CASE InsertCompacting(n, x)
  <2>1. Pairs(slots') = Without(Held, n) \cup {<<n, Clamp(x)>>} /\ Cardinality(Alive(now)) < CacheSize
    BY <1>4, CompactingFacts
  <2>2. now' = now /\ result' = "held"
    BY <1>4 DEF InsertCompacting
  <2>3. Held' = NonceSetSpec!Unexpired({p \in Held : p[1] # n} \cup {<<n, x>>}, now)
    <3>1. HeldIn(slots, now) = {p \in Held : p[2] > now}
      BY HeldFacts DEF HeldIn
    <3>2. QED
      BY <2>1, <2>2, <3>1, HeldAfter
  <2>4. Cardinality(Held) < CacheSize
    BY <1>1, <2>1
  <2>5. QED
    BY <2>2, <2>3, <2>4, SameCount DEF NonceSetSpec!Insert
<1>5. CASE InsertStillFull(n, x)
  <2>1. slots' = slots /\ now' = now /\ result' = "full" /\ now < fullUntil /\ fullUntil \in Nat
    BY <1>5, CacheAssumption DEF InsertStillFull, CacheInv, ScalarInv
  <2>2. Cardinality(Alive(now)) >= CacheSize
    BY <1>1, <2>1, StaysFull
  <2>3. ~(Cardinality(Held) < CacheSize)
    BY <1>1, <1>2, <2>2
  <2>4. Held' = Held
    BY <2>1 DEF Held, Alive
  <2>5. QED
    BY <2>1, <2>3, <2>4, SameCount DEF NonceSetSpec!Insert
<1>6. CASE InsertFull(n, x)
  <2>1. slots' = slots /\ now' = now /\ result' = "full" /\ Cardinality(Alive(now)) >= CacheSize
    BY <1>6 DEF InsertFull
  <2>2. ~(Cardinality(Held) < CacheSize)
    BY <1>1, <1>2, <2>1
  <2>3. Held' = Held
    BY <2>1 DEF Held, Alive
  <2>4. QED
    BY <2>1, <2>2, <2>3, SameCount DEF NonceSetSpec!Insert
<1>7. QED
  BY <1>3, <1>4, <1>5, <1>6 DEF Insert

\* The passage of time is that of the abstract set.
LEMMA TickImplements ==
  ASSUME CacheInv, CacheInv', Tick
  PROVE NonceSetSpec!Tick
<1>1. now \in Nat /\ now' = now + 1 /\ result' = "none" /\ slots' = slots
  BY CacheAssumption DEF Tick, CacheInv, ScalarInv
<1>2. Held = HeldIn(slots, now) /\ Held' = HeldIn(slots, now')
  BY <1>1, HeldFacts, HeldNext
<1>3. \A p \in Pairs(slots) : p[2] > now' => p[2] > now
  <2>1. \A i \in Occupied(slots) : slots[i].expires \in Nat
    BY TableFacts, CacheAssumption DEF Occupied, SlotType
  <2>2. \A p \in Pairs(slots) : p[2] \in Nat
    BY <2>1 DEF Pairs
  <2>3. QED
    BY <1>1, <2>2
<1>4. Held' = NonceSetSpec!Unexpired(Held, now')
  BY <1>2, <1>3 DEF HeldIn, NonceSetSpec!Unexpired
<1>5. QED
  BY <1>1, <1>4 DEF NonceSetSpec!Tick

(***************************************************************************)
(* The hash table implements NonceSet, the bounded set of unexpired        *)
(* nonces: no Insert, compaction or refusal loses a nonce before its       *)
(* expiry, and an insert is refused exactly when CacheSize are unexpired.  *)
(***************************************************************************)
THEOREM CacheImplementsSet == Spec => SetImplemented
<1>1. Init => NonceSetSpec!Init
  <2> SUFFICES ASSUME Init PROVE NonceSetSpec!Init
    OBVIOUS
  <2>1. slots = <<>> /\ now = 1 /\ result = "none"
    BY DEF Init
  <2>2. Held = {}
    BY <2>1 DEF Held, Alive
  <2>3. QED
    BY <2>1, <2>2 DEF NonceSetSpec!Init
<1>2. CacheInv /\ CacheInv' /\ [Next]_vars => [NonceSetSpec!Next]_NonceSetSpec!vars
  <2> SUFFICES ASSUME CacheInv, CacheInv', [Next]_vars PROVE [NonceSetSpec!Next]_NonceSetSpec!vars
    OBVIOUS
  <2>1. CASE Tick
    BY <2>1, TickImplements DEF NonceSetSpec!Next
  <2>2. ASSUME NEW n \in Nonces, NEW x \in 0..(MaxNow + 1), Insert(n, x)
        PROVE NonceSetSpec!Next
    BY <2>2, InsertImplements DEF NonceSetSpec!Next
  <2>3. CASE UNCHANGED vars
    BY <2>3 DEF vars, NonceSetSpec!vars, Held, Alive
  <2>4. QED
    BY <2>1, <2>2, <2>3 DEF Next
<1>3. QED
  BY <1>1, <1>2, CacheInvariant, PTL DEF Spec, SetImplemented, NonceSetSpec!Spec
=============================================================================
