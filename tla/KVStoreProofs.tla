--------------------------- MODULE KVStoreProofs ---------------------------
(***************************************************************************)
(* Proofs about KVStore, for any set of plugin processes.  NoLostUpdate is *)
(* not inductive: a pending KVPutIfMatch must carry a digest of the value  *)
(* its client read (Based), and NoSpuriousConflict rests on what a client  *)
(* that saw no write since its read holds (Current).                       *)
(***************************************************************************)
EXTENDS KVStore, TLAPS

USE KVAssumption

\* A digest a client holds, or has sent with KVPutIfMatch, is that of the value
\* it read.
Based == \A c \in Clients :
            phase[c] = "holding" \/ (phase[c] \in {"put", "left"} /\ c \in careful)
              => /\ match[c] \in Digests
                 /\ match[c] # NoDigest => match[c] = Digest(read[c])

\* What a client that saw no write since its read holds still matches.
Current == \A c \in fresh :
              phase[c] \in {"holding", "put", "left"} => match[c] = Unconditional \/ Matches(match[c])

\* The inductive invariant.
IInv == TypeOK /\ NoLostUpdate /\ NoSpuriousConflict /\ Based /\ Current

\* A digest is a digest, and is not the empty one.
LEMMA DigestFacts == \A v \in Values : Digest(v) \in Digests /\ Digest(v) # NoDigest /\ Digest(v) # Unconditional
BY DEF Digest, Digests, NoDigest

\* What a JSON string leaves of a value is a value.
LEMMA AsTextType == \A v \in Values : AsText(v) \in Values
BY DEF AsText, Values, Entries

\* The initial states satisfy the invariant.
LEMMA InitIInv == Init => IInv
BY DEF Init, IInv, TypeOK, NoLostUpdate, NoSpuriousConflict, Based, Current, Values, Digests, Phases, Outcomes

\* A read that returns keeps the invariant.
LEMMA HoldIInv == ASSUME IInv, NEW c \in Clients, NEW value \in Values, NEW digest \in Digests,
                         Hold(c, value, digest), stored' = stored, kept' = kept, cas' = cas, careful' = careful,
                         digest # NoDigest => digest = Digest(value),
                         \/ fresh' = fresh \ {c}
                         \/ fresh' = fresh \cup {c} /\ Matches(digest)
                  PROVE  IInv'
<1> USE DEF Hold, Goto, Return
<1>1. TypeOK'
  <2>1. phase' \in [Clients -> Phases] BY DEF IInv, TypeOK, Phases
  <2>2. match' \in [Clients -> Digests \cup {Unconditional}] BY DEF IInv, TypeOK
  <2>3. outcome' \in [Clients -> Outcomes] BY DEF IInv, TypeOK, Outcomes
  <2>4. read' \in [Clients -> Values] BY DEF IInv, TypeOK
  <2> QED BY <2>1, <2>2, <2>3, <2>4 DEF IInv, TypeOK
<1>2. NoLostUpdate' BY DEF IInv, NoLostUpdate
<1>3. NoSpuriousConflict' BY DEF IInv, TypeOK, NoSpuriousConflict
<1>4. Based' BY DEF IInv, TypeOK, Based
<1>5. Current' BY DEF IInv, TypeOK, Current, Matches
<1> QED BY <1>1, <1>2, <1>3, <1>4, <1>5 DEF IInv

\* The start of a read keeps the invariant.
LEMMA GetIInv == ASSUME IInv, NEW c \in Clients, Get(c) PROVE IInv'
<1> USE DEF Get, Goto, Return
<1>1. TypeOK' BY DEF IInv, TypeOK, Phases, Outcomes
<1>2. NoLostUpdate' BY DEF IInv, NoLostUpdate
<1>3. NoSpuriousConflict' BY DEF IInv, TypeOK, NoSpuriousConflict
<1>4. Based' BY DEF IInv, TypeOK, Based
<1>5. Current' BY DEF IInv, TypeOK, Current, Matches
<1> QED BY <1>1, <1>2, <1>3, <1>4, <1>5 DEF IInv

\* Each way a read returns keeps the invariant.
LEMMA ReadIInv == ASSUME IInv, NEW c \in Clients, GotMissing(c) \/ GotPlain(c) \/ Got(c) PROVE IInv'
<1>1. CASE GotMissing(c)
  <2>1. {} \in Values /\ NoDigest \in Digests BY DEF Values, Digests
  <2>2. Matches(NoDigest) BY <1>1 DEF GotMissing, Matches
  <2>3. fresh' = fresh \ {c} \/ fresh' = fresh \cup {c} BY <1>1 DEF GotMissing
  <2> QED BY <1>1, <2>1, <2>2, <2>3, HoldIInv DEF GotMissing
<1>2. CASE GotPlain(c)
  <2>1. stored \in Values BY <1>2 DEF GotPlain, IInv, TypeOK
  <2>2. PICK sent \in {stored, AsText(stored)} : Hold(c, sent, Digest(sent)) BY <1>2 DEF GotPlain
  <2>3. sent \in Values /\ Digest(sent) \in Digests BY <2>1, <2>2, AsTextType, DigestFacts
  <2> QED BY <1>2, <2>2, <2>3, HoldIInv DEF GotPlain
<1>3. CASE Got(c)
  <2>1. stored \in Values /\ stored # Absent BY <1>3 DEF Got, IInv, TypeOK
  <2>2. PICK sent \in {stored, AsText(stored)} :
           \/ /\ Trusted(sent, Reported(stored))
              /\ Hold(c, sent, Reported(stored))
              /\ fresh' = IF cas THEN fresh \cup {c} ELSE fresh \ {c}
           \/ /\ ~Trusted(sent, Reported(stored))
              /\ Goto(c, "idle")
              /\ Return(c, "error")
              /\ UNCHANGED <<read, match, fresh>>
    BY <1>3 DEF Got
  <2>3. sent \in Values BY <2>1, <2>2, AsTextType
  <2>4. Reported(stored) \in Digests BY <2>1, DigestFacts DEF Reported, Digests
  <2>5. CASE Trusted(sent, Reported(stored)) /\ Hold(c, sent, Reported(stored))
             /\ fresh' = IF cas THEN fresh \cup {c} ELSE fresh \ {c}
    <3>1. Reported(stored) # NoDigest => Reported(stored) = Digest(sent) BY <2>5 DEF Trusted
    <3>2. fresh' = fresh \ {c} \/ (fresh' = fresh \cup {c} /\ cas) BY <2>5
    <3>3. cas => Matches(Reported(stored)) BY <2>1, DigestFacts DEF Reported, Matches
    <3>4. stored' = stored /\ kept' = kept /\ cas' = cas /\ careful' = careful BY <1>3 DEF Got
    <3> QED BY <2>3, <2>4, <2>5, <3>1, <3>2, <3>3, <3>4, HoldIInv
  <2>6. CASE Goto(c, "idle") /\ Return(c, "error") /\ UNCHANGED <<read, match, fresh>>
    <3>1. UNCHANGED <<stored, cas, careful, kept>> BY <1>3 DEF Got
    <3>2. TypeOK' BY <2>6, <3>1 DEF IInv, TypeOK, Phases, Outcomes, Goto, Return
    <3>3. NoLostUpdate' BY <2>6, <3>1 DEF IInv, NoLostUpdate
    <3>4. NoSpuriousConflict' BY <2>6, <3>1 DEF IInv, TypeOK, NoSpuriousConflict, Goto
    <3>5. Based' BY <2>6, <3>1 DEF IInv, TypeOK, Based, Goto
    <3>6. Current' BY <2>6, <3>1 DEF IInv, TypeOK, Current, Matches, Goto
    <3> QED BY <3>2, <3>3, <3>4, <3>5, <3>6 DEF IInv
  <2> QED BY <2>2, <2>5, <2>6
<1> QED BY <1>1, <1>2, <1>3

\* KVPutIfMatch keeps the invariant: it sends the digest that was read or nothing.
LEMMA PutIfMatchIInv == ASSUME IInv, NEW c \in Clients, PutIfMatch(c) PROVE IInv'
<1>1. match[c] \in Digests /\ phase[c] = "holding" BY DEF PutIfMatch, IInv, Based
<1>2. match[c] # NoDigest => match[c] = Digest(read[c]) BY DEF PutIfMatch, IInv, Based
<1>3. PICK digest \in {match[c], Malformed} :
         \/ /\ digest # NoDigest => ValidKVDigest(digest)
            /\ Goto(c, "put")
            /\ Return(c, "none")
            /\ match' = [match EXCEPT ![c] = IfMatch(digest)]
            /\ careful' = careful \cup {c}
         \/ /\ digest # NoDigest /\ ~ValidKVDigest(digest)
            /\ Goto(c, "idle")
            /\ Return(c, "error")
            /\ UNCHANGED <<match, careful>>
  BY DEF PutIfMatch
<1>4. UNCHANGED <<stored, cas, read, kept, fresh>> BY DEF PutIfMatch
<1>5. ~ValidKVDigest(Malformed) /\ Malformed # NoDigest BY DEF ValidKVDigest, Digests
<1>6. CASE digest = match[c] /\ Goto(c, "put") /\ Return(c, "none") /\ match' = [match EXCEPT ![c] = digest]
           /\ careful' = careful \cup {c}
  <2>1. match' = match BY <1>6 DEF IInv, TypeOK
  <2>2. TypeOK' BY <1>4, <1>6, <2>1 DEF IInv, TypeOK, Phases, Outcomes, Goto, Return
  <2>3. NoLostUpdate' BY <1>4 DEF IInv, NoLostUpdate
  <2>4. NoSpuriousConflict' BY <1>4, <1>6 DEF IInv, TypeOK, NoSpuriousConflict, Goto
  <2>5. Based' BY <1>1, <1>2, <1>4, <1>6, <2>1 DEF IInv, TypeOK, Based, Goto
  <2>6. Current' BY <1>1, <1>4, <1>6, <2>1 DEF IInv, TypeOK, Current, Matches, Goto
  <2> QED BY <2>2, <2>3, <2>4, <2>5, <2>6 DEF IInv
<1>7. CASE Goto(c, "idle") /\ Return(c, "error") /\ UNCHANGED <<match, careful>>
  <2>2. TypeOK' BY <1>4, <1>7 DEF IInv, TypeOK, Phases, Outcomes, Goto, Return
  <2>3. NoLostUpdate' BY <1>4 DEF IInv, NoLostUpdate
  <2>4. NoSpuriousConflict' BY <1>4, <1>7 DEF IInv, TypeOK, NoSpuriousConflict, Goto
  <2>5. Based' BY <1>4, <1>7 DEF IInv, TypeOK, Based, Goto
  <2>6. Current' BY <1>4, <1>7 DEF IInv, TypeOK, Current, Matches, Goto
  <2> QED BY <2>2, <2>3, <2>4, <2>5, <2>6 DEF IInv
<1> QED BY <1>3, <1>5, <1>6, <1>7 DEF IfMatch

\* KVPut keeps the invariant.
LEMMA PutIInv == ASSUME IInv, NEW c \in Clients, Put(c) PROVE IInv'
<1> USE DEF Put, Goto, Return
<1>1. TypeOK'
  <2>1. match' \in [Clients -> Digests \cup {Unconditional}] BY DEF IInv, TypeOK
  <2> QED BY <2>1 DEF IInv, TypeOK, Phases, Outcomes
<1>2. NoLostUpdate' BY DEF IInv, NoLostUpdate
<1>3. NoSpuriousConflict' BY DEF IInv, TypeOK, NoSpuriousConflict
<1>4. Based' BY DEF IInv, TypeOK, Based
<1>5. Current' BY DEF IInv, TypeOK, Current, Matches
<1> QED BY <1>1, <1>2, <1>3, <1>4, <1>5 DEF IInv

\* A write by the host keeps the invariant: a matching digest means the value read is stored.
LEMMA WriteIInv == ASSUME IInv, NEW c \in Clients, HostWrites(c) PROVE IInv'
<1>1. fresh' = {} /\ stored' = read[c] \cup {c} /\ phase[c] \in {"put", "left"} BY DEF HostWrites, Pending
<1>2. PICK p \in {"gone", "answered"} : phase' = [phase EXCEPT ![c] = p] BY DEF HostWrites, Served, Goto
<1>3. stored' \in Values BY <1>1 DEF IInv, TypeOK, Values, Entries
<1>4. kept' \subseteq stored' /\ kept' \subseteq Clients
  <2>1. CASE cas /\ c \in careful
    <3>1. match[c] \in Digests /\ (match[c] # NoDigest => match[c] = Digest(read[c]))
      BY <1>1, <2>1 DEF IInv, Based
    <3>2. Matches(match[c]) BY <2>1, <3>1 DEF HostWrites, Guarded
    <3>3. kept = {} \/ read[c] = stored BY <3>1, <3>2 DEF Matches, Digest, IInv, NoLostUpdate
    <3>4. kept \subseteq read[c] BY <3>3 DEF IInv, NoLostUpdate
    <3>5. kept' = kept \cup {c} BY <2>1 DEF HostWrites
    <3> QED BY <1>1, <3>4, <3>5 DEF IInv, TypeOK
  <2>2. CASE ~(cas /\ c \in careful)
    <3>1. kept' = {c} BY <2>2 DEF HostWrites
    <3> QED BY <1>1, <3>1
  <2> QED BY <2>1, <2>2
<1>5. TypeOK' BY <1>1, <1>2, <1>3, <1>4 DEF HostWrites, IInv, TypeOK, Phases
<1>6. NoLostUpdate' BY <1>3, <1>4 DEF NoLostUpdate
<1>7. NoSpuriousConflict' /\ Current' BY <1>1 DEF NoSpuriousConflict, Current
<1>8. Based' BY <1>2 DEF HostWrites, IInv, TypeOK, Based
<1> QED BY <1>5, <1>6, <1>7, <1>8 DEF IInv

\* A refusal keeps the invariant: what a fresh client holds matches.
LEMMA RefuseIInv == ASSUME IInv, NEW c \in Clients, HostRefuses(c) PROVE IInv'
<1>1. PICK p \in {"gone", "refused"} : phase' = [phase EXCEPT ![c] = p] BY DEF HostRefuses, Served, Goto
<1>2. UNCHANGED <<stored, cas, read, match, careful, outcome, kept, fresh>> BY DEF HostRefuses
<1>3. c \notin fresh BY DEF HostRefuses, Guarded, Pending, IInv, Current
<1>4. TypeOK' BY <1>1, <1>2 DEF IInv, TypeOK, Phases
<1>5. NoLostUpdate' BY <1>2 DEF IInv, NoLostUpdate
<1>6. NoSpuriousConflict' BY <1>1, <1>2, <1>3 DEF IInv, TypeOK, NoSpuriousConflict
<1>7. Based' BY <1>1, <1>2 DEF IInv, TypeOK, Based
<1>8. Current' BY <1>1, <1>2 DEF IInv, TypeOK, Current, Matches
<1> QED BY <1>4, <1>5, <1>6, <1>7, <1>8 DEF IInv

\* KVDelete keeps the invariant.
LEMMA DeleteIInv == ASSUME IInv, NEW c \in Clients, Delete(c) PROVE IInv'
<1> USE DEF Delete, Return
<1>1. TypeOK' BY DEF IInv, TypeOK, Outcomes
<1>2. NoLostUpdate' BY DEF NoLostUpdate
<1>3. NoSpuriousConflict' /\ Current' BY DEF NoSpuriousConflict, Current
<1>4. Based' BY DEF IInv, Based
<1> QED BY <1>1, <1>2, <1>3, <1>4 DEF IInv

\* The return of a call, with whatever outcome, keeps the invariant.
LEMMA ReturnIInv == ASSUME IInv, NEW c \in Clients, PutReturns(c) \/ Conflict(c) \/ CallFails(c) PROVE IInv'
<1>1. PICK p \in {"idle", "left", "gone"}, o \in {"ok", "conflict", "error"} :
         /\ phase' = [phase EXCEPT ![c] = p] /\ outcome' = [outcome EXCEPT ![c] = o]
         /\ p = "left" => phase[c] = "put"
  BY DEF PutReturns, Conflict, CallFails, Goto, Return
<1>2. UNCHANGED <<stored, cas, read, match, careful, kept, fresh>> BY DEF PutReturns, Conflict, CallFails
<1>3. TypeOK' BY <1>1, <1>2 DEF IInv, TypeOK, Phases, Outcomes
<1>4. NoLostUpdate' BY <1>2 DEF IInv, NoLostUpdate
<1>5. NoSpuriousConflict' BY <1>1, <1>2 DEF IInv, TypeOK, NoSpuriousConflict
<1>6. Based' BY <1>1, <1>2 DEF IInv, TypeOK, Based
<1>7. Current' BY <1>1, <1>2 DEF IInv, TypeOK, Current, Matches
<1> QED BY <1>3, <1>4, <1>5, <1>6, <1>7 DEF IInv

\* The upgrade of the host keeps the invariant.
LEMMA UpgradeIInv == ASSUME IInv, HostUpgrades PROVE IInv'
<1> USE DEF HostUpgrades
<1>1. TypeOK' BY DEF IInv, TypeOK
<1>2. NoLostUpdate' BY DEF IInv, NoLostUpdate
<1>3. NoSpuriousConflict' BY DEF IInv, NoSpuriousConflict
<1>4. Based' BY DEF IInv, Based
<1>5. Current' BY DEF IInv, Current, Matches
<1> QED BY <1>1, <1>2, <1>3, <1>4, <1>5 DEF IInv

\* The invariant holds of every behaviour.
THEOREM Invariant == Spec => []IInv
<1>1. IInv /\ [Next]_kvVars => IInv'
  <2> SUFFICES ASSUME IInv, [Next]_kvVars PROVE IInv' OBVIOUS
  <2>1. CASE UNCHANGED kvVars
    BY <2>1 DEF kvVars, IInv, TypeOK, NoLostUpdate, NoSpuriousConflict, Based, Current, Matches
  <2>2. CASE Next
    BY <2>2, GetIInv, ReadIInv, PutIfMatchIInv, PutIInv, WriteIInv, RefuseIInv, DeleteIInv, ReturnIInv, UpgradeIInv
    DEF Next
  <2> QED BY <2>1, <2>2
<1> QED BY <1>1, InitIInv, PTL DEF Spec

\* The type invariant holds of every behaviour.
THEOREM TypeCorrect == Spec => []TypeOK
BY Invariant, PTL DEF IInv

\* Read-modify-writes through KVGetWithDigest or KVGet and KVPutIfMatch lose no
\* entry to one another, for any number of processes and any set of entries
\* that JSON text garbles, with answers lost and calls left pending.
THEOREM LosesNoUpdate == Spec => []NoLostUpdate
BY Invariant, PTL DEF IInv

\* KVPutIfMatch reports no conflict to a client whose read value was not written
\* since.
THEOREM ConflictsAreReal == Spec => []NoSpuriousConflict
BY Invariant, PTL DEF IInv
=============================================================================
