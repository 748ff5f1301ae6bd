---------------------------- MODULE RecordProofs ----------------------------
(***************************************************************************)
(* The values that live longer than the call that checks them.             *)
(*                                                                         *)
(* A stored share loses only what a binary without a nested member drops,  *)
(* for any set of versions, fields, members and values: ShareInv adds what *)
(* a loaded share holds, of the members this version knows the standing    *)
(* values unless they were edited, of all other fields the standing values *)
(* in Extra.                                                               *)
(*                                                                         *)
(* A stored snapshot stays readable within the bounds, and truthful, for   *)
(* any set of manifests and bodies: SnapshotInv says that the store holds  *)
(* what is in service, the schema number aside, what the document itself   *)
(* says of its last refresh, and that checked provenance is paired.        *)
(*                                                                         *)
(* The interval of a schedule is exact, for hours and days of any length:  *)
(* the latest run was due, so that the gap to the next one is the gap of   *)
(* two minutes that are due (Apart).                                       *)
(*                                                                         *)
(* The verdict on a received page is the one on its encoding, for any page *)
(* and bounds: PageInv says that the total is never below the encoded      *)
(* length of the rows validated (UpTo), and equal to it while exact.       *)
(***************************************************************************)
EXTENDS ShareRecord, SnapshotRecord, CronSchedule, CataloguePage, WellFoundedInduction, TLAPS

\* What a share loses nothing of: the value last saved, unless it was dropped.
Standing(f, m) == IF <<f, m>> \in dropped THEN Zero ELSE latest[f][m]

Knows(v, f, m) == f \in StructFields(v) /\ m \in StructMembers(v, f)

LoadedShare ==
  share # NoShare =>
    /\ DOMAIN share = {"known", "extra"}
    /\ DOMAIN share.known = StructFields(version)
    /\ \A f \in StructFields(version) : DOMAIN share.known[f] = StructMembers(version, f)
    /\ \A f, m : Knows(version, f, m) /\ <<f, m>> \notin edited => share.known[f][m] = Standing(f, m)
    /\ \A f \in Fields \ StructFields(version) : \A m \in Members[f] : Get(share.extra, f, m) = Standing(f, m)

ShareInv ==
  /\ version \in Versions
  /\ \A f, m : <<f, m>> \in edited => Knows(version, f, m)
  /\ LoadedShare /\ LostOnlyNested

\* The list of known fields is the struct's.
LEMMA KnownIsStruct == \A v : KnownFields(v) = StructFields(v)
BY DEF KnownFields, StructFields

\* What a binary does not know of a field it knows.
LEMMA UnreadIs ==
  ASSUME NEW v \in Nat, NEW f \in Fields, NEW m \in Members[f]
  PROVE  <<f, m>> \in Unread(v) <=> f \in StructFields(v) /\ m \notin StructMembers(v, f)
<1>1. <<f, m>> \in Paths
  BY DEF Paths
<1>2. Since[f] \in Nat /\ MemberSince[f][m] \in Nat
  BY ShareAssumption
<1>3. <<f, m>> \in Unread(v) <=> Since[f] <= v /\ MemberSince[f][m] > v
  BY <1>1 DEF Unread
<1> QED
  BY <1>2, <1>3 DEF StructFields, StructMembers

LEMMA KnownMembers ==
  ASSUME NEW v, NEW f, NEW m
  PROVE  Knows(v, f, m) => f \in Fields /\ m \in Members[f]
BY DEF Knows, StructFields, StructMembers

\* A name that is left out, of a field or of a member, reads as it was.
LEMMA EncodedReads ==
  ASSUME NEW known
  PROVE  /\ DOMAIN Encoded(known) \subseteq DOMAIN known
         /\ \A f \in DOMAIN known : \A m \in DOMAIN known[f] : Get(Encoded(known), f, m) = known[f][m]
         /\ \A f \in DOMAIN known : \A m : m \notin DOMAIN known[f] => Get(Encoded(known), f, m) = Zero
<1> DEFINE Kept(f) == {m \in DOMAIN known[f] : m \in Required \/ known[f][m] # Zero}
           there == {f \in DOMAIN known : f \in Required \/ \E m \in DOMAIN known[f] : known[f][m] # Zero}
<1>1. Encoded(known) = [f \in there |-> Restrict(known[f], Kept(f))]
  BY DEF Encoded
<1>2. \A f : DOMAIN Restrict(known[f], Kept(f)) = Kept(f) /\ \A m \in Kept(f) : Restrict(known[f], Kept(f))[m] = known[f][m]
  BY DEF Restrict
<1> HIDE DEF Kept, there
<1>3. DOMAIN Encoded(known) = there /\ \A f \in there : Encoded(known)[f] = Restrict(known[f], Kept(f))
  BY <1>1
<1>4. there \subseteq DOMAIN known
  BY DEF there
<1>5. ASSUME NEW f \in DOMAIN known, NEW m \in DOMAIN known[f] PROVE Get(Encoded(known), f, m) = known[f][m]
  <2>1. CASE f \in there /\ m \in Kept(f)
    BY <2>1, <1>2, <1>3 DEF Get
  <2>2. CASE f \notin there
    BY <2>2, <1>3 DEF Get, there
  <2>3. CASE f \in there /\ m \notin Kept(f)
    BY <2>3, <1>2, <1>3 DEF Get, Kept
  <2> QED
    BY <2>1, <2>2, <2>3
<1>6. ASSUME NEW f \in DOMAIN known, NEW m, m \notin DOMAIN known[f] PROVE Get(Encoded(known), f, m) = Zero
  <2>1. m \notin Kept(f)
    BY <1>6 DEF Kept
  <2> QED
    BY <2>1, <1>2, <1>3 DEF Get
<1> QED
  BY <1>3, <1>4, <1>5, <1>6

LEMMA InitShare == ShareInit => ShareInv
<1> SUFFICES ASSUME ShareInit PROVE ShareInv
  OBVIOUS
<1> DEFINE none == [f \in StructFields(version) |-> [m \in StructMembers(version, f) |-> Zero]]
<1>1. record = Encoded(none)
  BY DEF ShareInit
<1>2. DOMAIN none = StructFields(version)
      /\ \A f \in StructFields(version) : DOMAIN none[f] = StructMembers(version, f) /\ \A m \in StructMembers(version, f) : none[f][m] = Zero
  OBVIOUS
<1> HIDE DEF none
<1>3. \A f, m : Get(record, f, m) = Zero
  BY <1>1, <1>2, EncodedReads DEF Get
<1>4. LostOnlyNested
  BY <1>3 DEF ShareInit, LostOnlyNested
<1> QED
  BY <1>4 DEF ShareInit, ShareInv, LoadedShare

LEMMA LoadShareInv == ShareInv /\ LoadShare => ShareInv'
<1> SUFFICES ASSUME ShareInv, LoadShare PROVE ShareInv'
  OBVIOUS
<1>1. share' = [known |-> [f \in StructFields(version) |-> [m \in StructMembers(version, f) |-> Get(record, f, m)]],
                 extra |-> Restrict(record, DOMAIN record \ StructFields(version))]
      /\ UNCHANGED <<version, record, latest, dropped>> /\ edited' = {}
  BY KnownIsStruct DEF LoadShare, UnmarshalShare
<1>2. \A f \in Fields : \A m \in Members[f] : Get(record, f, m) = Standing(f, m)
  BY DEF ShareInv, LostOnlyNested, Standing
<1>3. DOMAIN share' = {"known", "extra"} /\ DOMAIN share'.known = StructFields(version)
  BY <1>1
<1>4. \A f \in StructFields(version) : DOMAIN share'.known[f] = StructMembers(version, f)
  BY <1>1
<1>5. \A f, m : Knows(version, f, m) => share'.known[f][m] = Standing(f, m)
  BY <1>1, <1>2, KnownMembers DEF Knows
<1>6. \A f \in Fields \ StructFields(version) : \A m \in Members[f] : Get(share'.extra, f, m) = Standing(f, m)
  BY <1>1, <1>2 DEF Get, Restrict
<1>7. LoadedShare'
  <2>1. \A f, m : Standing(f, m)' = Standing(f, m)
    BY <1>1 DEF Standing
  <2>2. version' = version
    BY <1>1
  <2> QED
    BY <2>1, <2>2, <1>3, <1>4, <1>5, <1>6 DEF LoadedShare, Knows, StructFields, StructMembers, Get
<1> QED
  BY <1>1, <1>7 DEF ShareInv, LostOnlyNested, Get

LEMMA EditShareInv == ASSUME NEW f, NEW m, NEW value PROVE ShareInv /\ Edit(f, m, value) => ShareInv'
<1> SUFFICES ASSUME ShareInv, Edit(f, m, value) PROVE ShareInv'
  OBVIOUS
<1>1. /\ DOMAIN share = {"known", "extra"} /\ DOMAIN share.known = StructFields(version)
      /\ \A g \in StructFields(version) : DOMAIN share.known[g] = StructMembers(version, g)
      /\ Knows(version, f, m)
      /\ UNCHANGED <<version, record, latest, dropped>>
      /\ edited' = edited \cup {<<f, m>>}
      /\ share' = [share EXCEPT !.known[f][m] = value]
  BY DEF ShareInv, LoadedShare, Edit, Knows
<1>2. /\ DOMAIN share' = {"known", "extra"} /\ share'.extra = share.extra
      /\ share'.known = [share.known EXCEPT ![f] = [share.known[f] EXCEPT ![m] = value]]
  BY <1>1
<1>3. /\ DOMAIN share'.known = StructFields(version)
      /\ \A g \in StructFields(version) : DOMAIN share'.known[g] = StructMembers(version, g)
      /\ \A g, n : Knows(version, g, n) /\ <<g, n>> # <<f, m>> => share'.known[g][n] = share.known[g][n]
  BY <1>1, <1>2 DEF Knows
<1>4. \A g, n : <<g, n>> \in edited' => Knows(version, g, n)
  BY <1>1 DEF ShareInv
<1>5. \A g, n : Knows(version, g, n) /\ <<g, n>> \notin edited' => share'.known[g][n] = Standing(g, n)
  BY <1>1, <1>3 DEF ShareInv, LoadedShare, Edit
<1>6. \A g \in Fields \ StructFields(version) : \A n \in Members[g] : Get(share'.extra, g, n) = Standing(g, n)
  BY <1>2 DEF ShareInv, LoadedShare, Edit
<1>7. LoadedShare'
  BY <1>1, <1>2, <1>3, <1>5, <1>6 DEF LoadedShare, Knows, StructFields, StructMembers, Get, Standing
<1> QED
  BY <1>1, <1>4, <1>7 DEF ShareInv, LostOnlyNested, Get, Knows, StructFields, StructMembers

LEMMA SaveShareInv == ShareInv /\ SaveShare => ShareInv'
<1> SUFFICES ASSUME ShareInv, SaveShare PROVE ShareInv'
  OBVIOUS
<1> DEFINE known == share.known
           extra == share.extra
           base == Encoded(known)
           kept == {f \in DOMAIN extra : f \notin DOMAIN base /\ f \notin StructFields(version)}
           own == StructFields(version)
<1>1. /\ DOMAIN share = {"known", "extra"} /\ DOMAIN known = own
      /\ \A f \in own : DOMAIN known[f] = StructMembers(version, f)
      /\ \A f, m : Knows(version, f, m) /\ <<f, m>> \notin edited => known[f][m] = Standing(f, m)
      /\ \A f \in Fields \ own : \A m \in Members[f] : Get(extra, f, m) = Standing(f, m)
      /\ \A f, m : <<f, m>> \in edited => Knows(version, f, m)
      /\ UNCHANGED <<version, share>> /\ edited' = {} /\ version \in Nat
  BY ShareAssumption DEF ShareInv, LoadedShare, SaveShare
<1>2. record' = [f \in DOMAIN base \cup kept |-> IF f \in DOMAIN base THEN base[f] ELSE extra[f]]
  BY KnownIsStruct DEF SaveShare, MarshalShare
<1>3. /\ latest' = [f \in Fields |-> [m \in Members[f] |-> IF <<f, m>> \in edited THEN known[f][m] ELSE latest[f][m]]]
      /\ dropped' = (dropped \ edited) \cup Unread(version)
  BY DEF SaveShare
<1> HIDE DEF base
<1>4. /\ DOMAIN base \subseteq own
      /\ \A f \in own : \A m \in StructMembers(version, f) : Get(base, f, m) = known[f][m]
      /\ \A f \in own : \A m : m \notin StructMembers(version, f) => Get(base, f, m) = Zero
  BY <1>1, EncodedReads DEF base
<1>5. \A f \in own : \A m : Get(record', f, m) = Get(base, f, m)
  BY <1>2, <1>4 DEF Get
<1>6. \A f \in Fields \ own : \A m : Get(record', f, m) = Get(extra, f, m)
  BY <1>2, <1>4 DEF Get
<1>7. \A f, m : Knows(version, f, m) => Standing(f, m)' = known[f][m]
  <2> SUFFICES ASSUME NEW f, NEW m, Knows(version, f, m) PROVE Standing(f, m)' = known[f][m]
    OBVIOUS
  <2>1. f \in Fields /\ m \in Members[f] /\ <<f, m>> \notin Unread(version)
    BY <1>1, UnreadIs, KnownMembers DEF Knows
  <2>2. latest'[f][m] = IF <<f, m>> \in edited THEN known[f][m] ELSE latest[f][m]
    BY <1>3, <2>1
  <2>3. <<f, m>> \in dropped' <=> <<f, m>> \in dropped /\ <<f, m>> \notin edited
    BY <1>3, <2>1
  <2> QED
    BY <1>1, <2>2, <2>3 DEF Standing
<1>8. \A f \in own : \A m \in Members[f] : m \notin StructMembers(version, f) => Standing(f, m)' = Zero
  <2> SUFFICES ASSUME NEW f \in own, NEW m \in Members[f], m \notin StructMembers(version, f) PROVE Standing(f, m)' = Zero
    OBVIOUS
  <2>1. f \in Fields
    BY DEF StructFields
  <2>2. <<f, m>> \in Unread(version)
    BY <1>1, <2>1, UnreadIs
  <2> QED
    BY <1>3, <2>2 DEF Standing
<1>9. \A f \in Fields \ own : \A m \in Members[f] : Standing(f, m)' = Standing(f, m)
  <2> SUFFICES ASSUME NEW f \in Fields \ own, NEW m \in Members[f] PROVE Standing(f, m)' = Standing(f, m)
    OBVIOUS
  <2>1. <<f, m>> \notin Unread(version) /\ <<f, m>> \notin edited
    BY <1>1, UnreadIs DEF Knows
  <2>2. latest'[f][m] = latest[f][m] /\ (<<f, m>> \in dropped' <=> <<f, m>> \in dropped)
    BY <1>3, <2>1
  <2> QED
    BY <2>2 DEF Standing
<1>10. \A f \in Fields : \A m \in Members[f] : Get(record', f, m) = Standing(f, m)'
  <2> SUFFICES ASSUME NEW f \in Fields, NEW m \in Members[f] PROVE Get(record', f, m) = Standing(f, m)'
    OBVIOUS
  <2>1. CASE Knows(version, f, m)
    BY <2>1, <1>4, <1>5, <1>7 DEF Knows
  <2>2. CASE f \in own /\ m \notin StructMembers(version, f)
    BY <2>2, <1>4, <1>5, <1>8
  <2>3. CASE f \notin own
    BY <2>3, <1>1, <1>6, <1>9
  <2> QED
    BY <2>1, <2>2, <2>3 DEF Knows
<1>11. LostOnlyNested'
  BY <1>10 DEF LostOnlyNested, Standing, Get
<1>12. LoadedShare'
  BY <1>1, <1>7, <1>9 DEF LoadedShare, Knows, StructFields, StructMembers, Get
<1> QED
  BY <1>1, <1>11, <1>12 DEF ShareInv, SaveShare

LEMMA RestartShareInv == ASSUME NEW v \in Versions PROVE ShareInv /\ Restart(v) => ShareInv'
BY DEF ShareInv, LoadedShare, LostOnlyNested, Restart, Get

(***************************************************************************)
(* No upgrade, rollback, edit or save, in any order and by any number of   *)
(* versions, loses a value that was saved, but for the members of a struct *)
(* that a binary without them rewrote, or brings one back that was cleared *)
(* (SubscriptionShare.UnmarshalJSON, MarshalJSON).                         *)
(***************************************************************************)
THEOREM LosesOnlyNested == ShareSpec => []LostOnlyNested
<1>1. ShareInv /\ [ShareNext]_shareVars => ShareInv'
  <2> SUFFICES ASSUME ShareInv, [ShareNext]_shareVars PROVE ShareInv'
    OBVIOUS
  <2>1. CASE UNCHANGED shareVars
    BY <2>1 DEF ShareInv, LoadedShare, LostOnlyNested, Standing, Knows, shareVars, StructFields, StructMembers, Get
  <2>2. CASE ShareNext
    BY <2>2, LoadShareInv, EditShareInv, SaveShareInv, RestartShareInv DEF ShareNext
  <2> QED
    BY <2>1, <2>2
<1>2. ShareInv => LostOnlyNested
  BY DEF ShareInv
<1> QED
  BY InitShare, <1>1, <1>2, PTL DEF ShareSpec

-----------------------------------------------------------------------------
Paired(s) ==
  /\ s.sourceManifest \in {Missing} \cup Manifests
  /\ s.sourceVersion = IF s.sourceManifest = Missing THEN NoVersion ELSE VersionOf(s.sourceManifest)

\* The documents found or written, of any length.
StoredDocuments ==
  [schema : {1, 2, 3}, raw : Bodies, bytes : Nat, as : Spellings, other : Spellings, otherLast : BOOLEAN,
   fetchError : {Missing, "refused"}]

StoredSnapshot ==
  /\ stored \in StoredDocuments /\ written \in BOOLEAN /\ checked \in BOOLEAN /\ failing \in BOOLEAN
  /\ origin = <<stored.raw, DecodedManifest(stored)>>
  /\ written => stored.schema = Current /\ DecodedStale(stored) = failing /\ stored.bytes > 0
  /\ written /\ checked => AdmitsV2(stored)
  /\ ~written => failing = (stored.fetchError # Missing)

LoadedSnapshot ==
  loaded # Nothing =>
    /\ loaded \in Snapshots
    /\ checked => Paired(loaded)
    /\ [Unmarshal(stored) EXCEPT !.persisted = loaded.persisted] = loaded
    /\ (written \/ loaded.persisted = 1) => loaded.stale = failing

SnapshotInv == StoredSnapshot /\ LoadedSnapshot

LEMMA DocumentTypes ==
  ASSUME NEW d \in StoredDocuments
  PROVE  /\ d.schema \in {1, 2, 3} /\ d.raw \in Bodies /\ d.bytes \in Nat /\ d.otherLast \in BOOLEAN
         /\ d.fetchError \in {Missing, "refused"}
         /\ d.as.version \in {Missing} \cup SourceVersions /\ d.other.version \in {Missing} \cup SourceVersions
         /\ d.as.manifest \in SourceManifests /\ d.other.manifest \in SourceManifests
BY DEF StoredDocuments, Spellings

LEMMA DecodedTypes ==
  ASSUME NEW d \in StoredDocuments
  PROVE  DecodedVersion(d) \in SourceVersions /\ DecodedManifest(d) \in SourceManifests /\ DecodedStale(d) \in BOOLEAN
<1>1. DecodedVersion(d) \in SourceVersions
  BY DocumentTypes DEF DecodedVersion, LastOf, SourceVersions
<1>2. DecodedManifest(d) \in SourceManifests
  BY DocumentTypes DEF DecodedManifest, LastOf
<1>3. DecodedStale(d) \in BOOLEAN
  BY DEF DecodedStale
<1> QED
  BY <1>1, <1>2, <1>3

LEMMA UnmarshalFields ==
  ASSUME NEW d
  PROVE  /\ Unmarshal(d).raw = d.raw /\ Unmarshal(d).fetchError = d.fetchError /\ Unmarshal(d).persisted = d.schema
         /\ Unmarshal(d).sourceVersion = DecodedVersion(d) /\ Unmarshal(d).sourceManifest = DecodedManifest(d)
         /\ Unmarshal(d).stale = DecodedStale(d)
BY DEF Unmarshal

\* What UnmarshalJSON admits it decodes to a snapshot.
LEMMA DecodesTyped ==
  ASSUME NEW d \in StoredDocuments, Admits(d)
  PROVE  Unmarshal(d) \in Snapshots
<1>1. d.schema \in {1, 2}
  BY DocumentTypes DEF Admits, Current
<1> QED
  BY <1>1, DocumentTypes, DecodedTypes DEF Unmarshal, Snapshots

\* With paired provenance, unless that was under another spelling only.
LEMMA DecodesPaired ==
  ASSUME NEW d \in StoredDocuments, Admits(d),
         \/ d.schema = 1 \/ d.as.version # Missing
         \/ d.other.version = Missing /\ d.other.manifest = Missing
  PROVE  Paired(Unmarshal(d))
<1>1. CASE d.schema = 1
  <2>1. DecodedManifest(d) = Missing /\ DecodedVersion(d) = NoVersion
    BY <1>1 DEF Admits, AdmitsV1, Current
  <2> QED
    BY <2>1, UnmarshalFields DEF Paired
<1>2. CASE d.schema # 1 /\ d.as.version # Missing
  <2>1. DecodedManifest(d) \in Manifests /\ DecodedVersion(d) = VersionOf(DecodedManifest(d))
    BY <1>2 DEF Admits, AdmitsV2
  <2>2. DecodedManifest(d) # Missing
    BY <2>1, SnapshotAssumption
  <2> QED
    BY <2>1, <2>2, UnmarshalFields DEF Paired
<1>3. CASE d.schema # 1 /\ d.as.version = Missing /\ d.other.version = Missing /\ d.other.manifest = Missing
  <2>1. d.as.manifest = Missing
    BY <1>3 DEF Admits, AdmitsV2
  <2>2. DecodedManifest(d) = Missing /\ DecodedVersion(d) = NoVersion
    BY <1>3, <2>1 DEF DecodedManifest, DecodedVersion, LastOf
  <2> QED
    BY <2>2, UnmarshalFields DEF Paired
<1> QED
  BY <1>1, <1>2, <1>3

LEMMA WrittenBytes == ASSUME NEW s \in Snapshots PROVE MarshalBytes(s) \in Nat /\ MarshalBytes(s) > 0
<1>1. s.raw.escaped \in Nat /\ EnvelopeBytes \in Nat \ {0}
  BY LengthAssumption DEF Snapshots
<1>2. PICK v \in Nat : v = IF s.sourceVersion = NoVersion THEN 0 ELSE MemberBytes(s.sourceVersion)
  BY LengthAssumption DEF Snapshots
<1>3. PICK m \in Nat : m = IF s.sourceManifest = Missing THEN 0 ELSE MemberBytes(s.sourceManifest)
  BY LengthAssumption DEF Snapshots
<1>4. PICK e \in Nat : e = IF s.fetchError = Missing THEN 0 ELSE MemberBytes(s.fetchError)
  BY LengthAssumption DEF Snapshots
<1>5. MarshalBytes(s) = EnvelopeBytes + s.raw.escaped + v + m + e
  BY <1>2, <1>3, <1>4, Zenon DEF MarshalBytes
<1> QED
  BY <1>1, <1>5

LEMMA SnapshotTypes ==
  ASSUME NEW s \in Snapshots
  PROVE  /\ s.raw \in Bodies /\ s.stale \in BOOLEAN /\ s.fetchError \in {Missing, "refused"} /\ s.persisted \in {1, 2}
         /\ s.sourceManifest \in SourceManifests /\ s.sourceVersion \in SourceVersions
         /\ s = [raw |-> s.raw, sourceVersion |-> s.sourceVersion, sourceManifest |-> s.sourceManifest,
                 stale |-> s.stale, fetchError |-> s.fetchError, persisted |-> s.persisted]
BY DEF Snapshots

\* What is written decodes to what was written, and passes the checks of its
\* provenance when that is paired.
LEMMA RoundTrip ==
  ASSUME NEW s \in Snapshots
  PROVE  /\ Marshal(s) \in StoredDocuments /\ Marshal(s).schema = Current /\ Marshal(s).bytes > 0
         /\ Marshal(s).raw = s.raw /\ DecodedManifest(Marshal(s)) = s.sourceManifest /\ DecodedStale(Marshal(s)) = s.stale
         /\ Paired(s) => AdmitsV2(Marshal(s))
         /\ [Unmarshal(Marshal(s)) EXCEPT !.persisted = s.persisted] = s
<1> DEFINE d == Marshal(s)
           v == IF s.sourceVersion = NoVersion THEN Missing ELSE s.sourceVersion
           n == MarshalBytes(s)
<1>0. n \in Nat /\ n > 0
  BY WrittenBytes
<1> HIDE DEF n
<1>1. d = [schema |-> 2, raw |-> s.raw, bytes |-> n, as |-> [version |-> v, manifest |-> s.sourceManifest, stale |-> s.stale],
           other |-> [version |-> Missing, manifest |-> Missing, stale |-> Missing], otherLast |-> FALSE, fetchError |-> s.fetchError]
  BY DEF Marshal, MarshalAs, Current, Unspelled, n
<1>2. v \in {Missing} \cup SourceVersions
  BY SnapshotTypes
<1>3. \A x \in Manifests : VersionOf(x) # NoVersion /\ VersionOf(x) # Missing
  BY SnapshotAssumption DEF VersionOf, NoVersion
<1>4. s.sourceVersion # Missing
  BY <1>3, SnapshotTypes, SnapshotAssumption DEF SourceVersions
<1>5. v = Missing <=> s.sourceVersion = NoVersion
  BY <1>4
<1>6. (IF v = Missing THEN NoVersion ELSE v) = s.sourceVersion
  BY <1>5
<1> HIDE DEF v
<1>7. [version |-> v, manifest |-> s.sourceManifest, stale |-> s.stale] \in Spellings
  BY <1>2, SnapshotTypes DEF Spellings
<1>8. [version |-> Missing, manifest |-> Missing, stale |-> Missing] \in Spellings
  BY DEF Spellings, SourceManifests
<1>9. d \in StoredDocuments
  <2> HIDE DEF d
  <2>1. s.raw \in Bodies /\ s.fetchError \in {Missing, "refused"}
    BY SnapshotTypes
  <2> QED
    BY <1>0, <1>1, <1>7, <1>8, <2>1 DEF StoredDocuments
<1>10. /\ d.as.version = v /\ d.as.manifest = s.sourceManifest /\ d.as.stale = s.stale
       /\ d.other.version = Missing /\ d.other.manifest = Missing /\ d.other.stale = Missing
       /\ d.schema = 2 /\ d.raw = s.raw /\ d.fetchError = s.fetchError /\ d.bytes = n
  BY <1>1
<1> HIDE DEF d
<1>11. DecodedManifest(d) = s.sourceManifest
  BY <1>10 DEF DecodedManifest, LastOf
<1>12. DecodedVersion(d) = s.sourceVersion
  BY <1>6, <1>10 DEF DecodedVersion, LastOf
<1>13. DecodedStale(d) = s.stale
  <2>1. LastOf(d, d.as.stale, d.other.stale) = s.stale
    BY <1>10 DEF LastOf
  <2>2. s.stale \in BOOLEAN
    BY SnapshotTypes
  <2> QED
    BY <1>10, <2>1, <2>2 DEF DecodedStale
<1>14. ASSUME Paired(s) PROVE AdmitsV2(d)
  <2>1. CASE s.sourceManifest = Missing
    BY <1>5, <1>10, <1>14, <2>1 DEF AdmitsV2, Paired
  <2>2. CASE s.sourceManifest # Missing
    <3>1. s.sourceManifest \in Manifests /\ s.sourceVersion = VersionOf(s.sourceManifest)
      BY <1>14, <2>2 DEF Paired
    <3>2. v # Missing
      BY <1>3, <1>5, <3>1
    <3> QED
      BY <1>10, <1>11, <1>12, <2>2, <3>1, <3>2 DEF AdmitsV2
  <2> QED
    BY <2>1, <2>2
<1>15. Unmarshal(d) = [raw |-> s.raw, sourceVersion |-> s.sourceVersion, sourceManifest |-> s.sourceManifest,
                       stale |-> s.stale, fetchError |-> s.fetchError, persisted |-> 2]
  BY <1>10, <1>11, <1>12, <1>13 DEF Unmarshal
<1>16. [Unmarshal(d) EXCEPT !.persisted = s.persisted] = s
  BY <1>15, SnapshotTypes
<1> QED
  BY <1>0, <1>9, <1>10, <1>11, <1>13, <1>14, <1>16 DEF Current, d

LEMMA InitSnapshot == Init => SnapshotInv
<1> SUFFICES ASSUME Init PROVE SnapshotInv
  OBVIOUS
<1>1. failing \in BOOLEAN /\ failing = (stored.fetchError # Missing)
  BY DEF Init
<1>2. stored \in StoredDocuments
  BY LengthAssumption DEF Init, Documents, StoredDocuments
<1> QED
  BY <1>1, <1>2 DEF Init, SnapshotInv, StoredSnapshot, LoadedSnapshot

LEMMA LoadInv == SnapshotInv /\ Load => SnapshotInv'
<1> SUFFICES ASSUME SnapshotInv, Load PROVE SnapshotInv'
  OBVIOUS
<1> DEFINE seen == \/ stored.schema = 1 \/ stored.as.version # Missing
                   \/ stored.other.version = Missing /\ stored.other.manifest = Missing
<1>1. UNCHANGED <<stored, written, origin, failing>> /\ loaded' = Unmarshal(stored) /\ Admits(stored) /\ stored \in StoredDocuments
  BY DEF Load, SnapshotInv, StoredSnapshot
<1>2. checked' \in BOOLEAN /\ (checked' <=> seen)
  BY DEF Load
<1>3. loaded' \in Snapshots
  BY <1>1, DecodesTyped
<1>4. checked' => Paired(loaded')
  BY <1>1, <1>2, DecodesPaired
<1>5. [Unmarshal(stored) EXCEPT !.persisted = loaded'.persisted] = loaded'
  BY <1>1 DEF Unmarshal
<1>6. loaded'.persisted = stored.schema /\ loaded'.stale = DecodedStale(stored)
  BY <1>1, UnmarshalFields
<1>7. (written' \/ loaded'.persisted = 1) => loaded'.stale = failing'
  <2>1. CASE written
    BY <1>1, <1>6, <2>1 DEF SnapshotInv, StoredSnapshot
  <2>2. CASE ~written
    BY <1>1, <1>6, <2>2 DEF SnapshotInv, StoredSnapshot, DecodedStale
  <2> QED
    BY <2>1, <2>2
<1>8. written => AdmitsV2(stored)
  BY <1>1 DEF Admits, SnapshotInv, StoredSnapshot, Current
<1>9. StoredSnapshot'
  BY <1>1, <1>2, <1>8 DEF SnapshotInv, StoredSnapshot
<1>10. LoadedSnapshot'
  BY <1>1, <1>3, <1>4, <1>5, <1>7 DEF LoadedSnapshot
<1> QED
  BY <1>9, <1>10 DEF SnapshotInv

\* Saving a snapshot s, whatever becomes of the loaded one.
LEMMA SaveInv ==
  ASSUME NEW s \in Snapshots, Save(s), checked' \in BOOLEAN, checked' => Paired(s), failing' = s.stale,
         origin' = <<s.raw, s.sourceManifest>>, loaded' \in {s, Nothing}
  PROVE  SnapshotInv'
<1>1. /\ stored' \in StoredDocuments /\ stored'.schema = Current /\ stored'.bytes > 0
      /\ stored'.raw = s.raw /\ DecodedManifest(stored') = s.sourceManifest /\ DecodedStale(stored') = s.stale
      /\ checked' => AdmitsV2(stored')
      /\ [Unmarshal(stored') EXCEPT !.persisted = s.persisted] = s
  BY RoundTrip DEF Save
<1>2. s.stale \in BOOLEAN
  BY SnapshotTypes
<1>3. written' = TRUE
  BY DEF Save
<1>4. StoredSnapshot'
  BY <1>1, <1>2, <1>3 DEF StoredSnapshot
<1>5. LoadedSnapshot'
  BY <1>1 DEF LoadedSnapshot
<1> QED
  BY <1>4, <1>5 DEF SnapshotInv

\* What is in service is what is stored.
LEMMA InService ==
  ASSUME SnapshotInv, loaded # Nothing
  PROVE  /\ loaded \in Snapshots /\ checked \in BOOLEAN /\ (checked => Paired(loaded))
         /\ origin = <<loaded.raw, loaded.sourceManifest>>
<1>1. loaded.raw = stored.raw /\ loaded.sourceManifest = DecodedManifest(stored)
  BY UnmarshalFields DEF SnapshotInv, LoadedSnapshot, Unmarshal
<1> QED
  BY <1>1 DEF SnapshotInv, StoredSnapshot, LoadedSnapshot

LEMMA RewriteInv == SnapshotInv /\ Rewrite => SnapshotInv'
<1> SUFFICES ASSUME SnapshotInv, Rewrite PROVE SnapshotInv'
  OBVIOUS
<1>1. loaded # Nothing /\ loaded.persisted # 2 /\ Save(loaded) /\ loaded' = Nothing /\ UNCHANGED <<checked, origin, failing>>
  BY DEF Rewrite, NeedsRewrite, Current
<1>2. loaded.persisted = 1
  BY <1>1, InService, SnapshotTypes
<1>3. failing' = loaded.stale
  BY <1>1, <1>2 DEF SnapshotInv, LoadedSnapshot
<1> QED
  BY <1>1, <1>3, InService, SaveInv

LEMMA RefreshInv == ASSUME NEW body \in Bodies, NEW m \in Manifests \cup {Missing} PROVE SnapshotInv /\ Refresh(body, m) => SnapshotInv'
<1> SUFFICES ASSUME SnapshotInv, Refresh(body, m) PROVE SnapshotInv'
  OBVIOUS
<1>1. loaded \in Snapshots /\ Save(loaded') /\ checked' = TRUE /\ origin' = <<body, m>>
  BY DEF SnapshotInv, LoadedSnapshot, Refresh
<1>2. loaded' = [raw |-> body, sourceVersion |-> IF m = Missing THEN NoVersion ELSE VersionOf(m), sourceManifest |-> m,
                 stale |-> FALSE, fetchError |-> Missing, persisted |-> loaded.persisted]
  BY <1>1, SnapshotTypes DEF Refresh, Refreshed, Snapshots
<1>3. Paired(loaded')
  BY <1>2 DEF Paired
<1>4. loaded'.sourceVersion \in SourceVersions /\ loaded'.sourceManifest \in SourceManifests
  BY <1>2 DEF SourceVersions, SourceManifests
<1>5. loaded' \in Snapshots
  BY <1>1, <1>2, <1>4 DEF Snapshots
<1>6. failing' = loaded'.stale
  <2>1. failing' = FALSE
    BY DEF Refresh
  <2>2. loaded'.stale = FALSE
    BY <1>2
  <2> QED
    BY <2>1, <2>2, Zenon
<1>7. origin' = <<loaded'.raw, loaded'.sourceManifest>>
  BY <1>1, <1>2
<1> QED
  BY <1>1, <1>3, <1>5, <1>6, <1>7, SaveInv

LEMMA RefreshFailsInv == SnapshotInv /\ RefreshFails => SnapshotInv'
<1> SUFFICES ASSUME SnapshotInv, RefreshFails PROVE SnapshotInv'
  OBVIOUS
<1>1. loaded # Nothing /\ loaded \in Snapshots /\ Save(loaded') /\ UNCHANGED <<checked, origin>>
  BY DEF SnapshotInv, LoadedSnapshot, RefreshFails
<1>2. loaded' = [raw |-> loaded.raw, sourceVersion |-> loaded.sourceVersion, sourceManifest |-> loaded.sourceManifest,
                 stale |-> TRUE, fetchError |-> "refused", persisted |-> loaded.persisted]
  BY <1>1 DEF RefreshFails, Snapshots
<1>3. checked' => Paired(loaded')
  BY <1>1, <1>2, InService DEF Paired
<1>4. loaded' \in Snapshots
  BY <1>1, <1>2 DEF Snapshots
<1>5. failing' = loaded'.stale
  BY <1>2 DEF RefreshFails
<1>6. origin' = <<loaded'.raw, loaded'.sourceManifest>> /\ checked' \in BOOLEAN
  BY <1>1, <1>2, InService
<1> QED
  BY <1>1, <1>3, <1>4, <1>5, <1>6, SaveInv

LEMMA CrashInv == SnapshotInv /\ Crash => SnapshotInv'
BY DEF SnapshotInv, StoredSnapshot, LoadedSnapshot, Crash

LEMMA Invariance == Spec => []SnapshotInv
<1>1. Init => SnapshotInv
  BY InitSnapshot
<1>2. SnapshotInv /\ [Next]_vars => SnapshotInv'
  <2> SUFFICES ASSUME SnapshotInv, [Next]_vars PROVE SnapshotInv'
    OBVIOUS
  <2>1. CASE UNCHANGED vars
    BY <2>1 DEF SnapshotInv, StoredSnapshot, LoadedSnapshot, vars
  <2>2. CASE Next
    BY <2>2, LoadInv, RewriteInv, RefreshInv, RefreshFailsInv, CrashInv DEF Next
  <2> QED
    BY <2>1, <2>2
<1> QED
  BY <1>1, <1>2, PTL DEF Spec

(***************************************************************************)
(* Whatever the order of loads, rewrites, refreshes, failures and crashes, *)
(* a document this code wrote with provenance it checked or fetched is     *)
(* admitted exactly when it is within the bounds, needs no rewrite and     *)
(* decodes to the snapshot in service                                      *)
(* (SubscriptionSnapshot.UnmarshalJSON).                                   *)
(***************************************************************************)
THEOREM WrittenIsReadBack == Spec => []ReadBack
<1>1. SnapshotInv => ReadBack
  <2> SUFFICES ASSUME SnapshotInv, written, checked
               PROVE  /\ Admits(stored) <=> Fits(stored)
                      /\ ~NeedsRewrite(Unmarshal(stored))
                      /\ loaded # Nothing => [Unmarshal(stored) EXCEPT !.persisted = loaded.persisted] = loaded
    BY DEF ReadBack
  <2>1. stored.schema = Current /\ AdmitsV2(stored) /\ stored.bytes > 0 /\ stored.bytes \in Nat /\ stored.raw \in Bodies
    BY DocumentTypes DEF SnapshotInv, StoredSnapshot
  <2>2. stored.raw.bytes \in Nat /\ MaxRaw \in Nat /\ MaxDocument \in Nat
    BY <2>1, LengthAssumption
  <2>3. stored.bytes \in 1..MaxDocument <=> stored.bytes <= MaxDocument
    BY <2>1, <2>2
  <2>4. stored.raw.bytes > MaxRaw <=> ~(stored.raw.bytes <= MaxRaw)
    BY <2>2
  <2>5. Admits(stored) <=> Fits(stored)
    BY <2>1, <2>3, <2>4 DEF Admits, Fits
  <2>6. ~NeedsRewrite(Unmarshal(stored))
    BY <2>1, UnmarshalFields DEF NeedsRewrite
  <2> QED
    BY <2>5, <2>6 DEF SnapshotInv, LoadedSnapshot
<1> QED
  BY <1>1, Invariance, PTL

(***************************************************************************)
(* A snapshot in service whose provenance was checked or fetched names the *)
(* manifest its content was fetched with, and any is stale exactly when    *)
(* its last refresh failed, after a migration too                          *)
(* (SubscriptionSnapshot.UnmarshalJSON).                                   *)
(***************************************************************************)
THEOREM SnapshotsAreTruthful == Spec => []Truthful
<1>1. SnapshotInv => ProvenanceHolds
  BY InService DEF ProvenanceHolds, Paired
<1>2. SnapshotInv => StaleTruthful
  BY DEF SnapshotInv, LoadedSnapshot, StaleTruthful
<1> QED
  BY <1>1, <1>2, Invariance, PTL DEF Truthful

-----------------------------------------------------------------------------
\* A set of natural numbers has a least element.
LEMMA LeastNatural ==
  ASSUME NEW T \in SUBSET Nat, T # {}
  PROVE \E n \in T : \A m \in T : n <= m
<1>1. PICK x \in T : \A y \in T : ~(<<y, x>> \in OpToRel(<, Nat))
  BY NatLessThanWellFounded, WFMin
<1>2. ASSUME NEW n \in Nat, NEW m \in Nat, m < n
      PROVE <<m, n>> \in OpToRel(<, Nat)
  <2>1. <<m, n>> \in Nat \X Nat /\ <<m, n>>[1] < <<m, n>>[2]
    BY <1>2
  <2>2. QED
    BY <2>1 DEF OpToRel
<1>3. \A y \in T : x \in Nat /\ y \in Nat
  OBVIOUS
<1>4. \A y \in T : ~(y < x)
  BY <1>1, <1>2, <1>3, Zenon
<1>5. QED
  BY <1>3, <1>4

\* Induction over the natural numbers, for a set.
LEMMA SetInduction ==
  ASSUME NEW T \in SUBSET Nat, 0 \in T, \A n \in T : n + 1 \in T
  PROVE T = Nat
<1>1. SUFFICES ASSUME T # Nat PROVE FALSE
  OBVIOUS
<1>2. PICK n \in Nat \ T : \A m \in Nat \ T : n <= m
  BY <1>1, LeastNatural
<1>3. n - 1 \in Nat /\ ~(n <= n - 1)
  BY <1>2
<1>4. n - 1 \in T
  BY <1>2, <1>3
<1>5. QED
  BY <1>2, <1>3, <1>4

\* A set of numbers up to a bound has a greatest element.
LEMMA GreatestUpTo ==
  ASSUME NEW n \in Nat, NEW S \in SUBSET (0..n), S # {}
  PROVE \E x \in S : \A y \in S : x >= y
<1> DEFINE T == {n - x : x \in S}
<1>1. T \in SUBSET Nat /\ T # {}
  <2>1. \A x \in S : n - x \in Nat
    OBVIOUS
  <2>2. QED
    BY <2>1
<1>2. PICK t \in T : \A u \in T : t <= u
  BY <1>1, LeastNatural
<1>3. PICK x \in S : t = n - x
  OBVIOUS
<1>4. \A y \in S : n - y \in T
  OBVIOUS
<1>5. QED
  BY <1>2, <1>3, <1>4

LEMMA Extremes ==
  ASSUME NEW n \in Nat, NEW S \in SUBSET (0..n), S # {}
  PROVE /\ Min(S) \in S /\ \A m \in S : Min(S) <= m
        /\ Max(S) \in S /\ \A m \in S : Max(S) >= m
<1>1. S \in SUBSET Nat
  OBVIOUS
<1>2. QED
  BY <1>1, LeastNatural, GreatestUpTo DEF Min, Max

\* Division with remainder.
LEMMA Quotient ==
  ASSUME NEW L \in Nat \ {0}, NEW a \in Nat
  PROVE a \div L \in Nat /\ a % L \in 0..(L - 1) /\ a = L * (a \div L) + (a % L)
OBVIOUS

LEMMA QuotientOf ==
  ASSUME NEW L \in Nat \ {0}, NEW i \in 0..(L - 1), NEW q \in Nat
  PROVE (L * q + i) % L = i /\ (L * q + i) \div L = q
OBVIOUS

LEMMA Products ==
  ASSUME NEW a \in Nat, NEW b \in Nat, NEW c \in Nat
  PROVE a * b \in Nat /\ (a * b) * c = a * (b * c) /\ a * (b + c) = a * b + a * c
OBVIOUS

LEMMA ProductGrows ==
  ASSUME NEW a \in Nat, NEW b \in Nat, NEW c \in Nat, a <= b
  PROVE c * a <= c * b /\ c * a \in Nat
OBVIOUS

-----------------------------------------------------------------------------
\* What an admitted field selects.
LEMMA SelectedRange ==
  ASSUME NEW hi \in Nat, NEW field \in SUBSET Items, field # {}, \A item \in field : ItemOK(item, 0, hi)
  PROVE Selected(field, 0, hi) \subseteq 0..hi /\ Selected(field, 0, hi) # {}
<1>1. \A item \in field : /\ item.a \in Nat /\ item.b \in Nat /\ item.step \in Nat \cup {-1}
                          /\ item.kind \in {"star", "range", "value", "junk"}
  BY DEF Items
<1>2. ASSUME NEW item \in field
      PROVE /\ Start(item, 0) \in Nat /\ End(item, hi) \in Nat /\ Step(item) \in Nat \ {0}
            /\ Start(item, 0) <= End(item, hi) /\ End(item, hi) <= hi
  BY <1>1 DEF ItemOK, Start, End, Step
<1>3. ASSUME NEW v \in Selected(field, 0, hi) PROVE v \in 0..hi
  <2>1. PICK item \in field : v \in Start(item, 0)..End(item, hi)
    BY DEF Selected
  <2>2. QED
    BY <1>2, <2>1
<1>4. PICK item \in field : TRUE
  OBVIOUS
<1>5. Start(item, 0) \in Selected(field, 0, hi)
  <2>1. PICK s, e, k : s = Start(item, 0) /\ e = End(item, hi) /\ k = Step(item)
    OBVIOUS
  <2>2. s \in Nat /\ e \in Nat /\ k \in Nat \ {0} /\ s <= e
    BY <1>2, <2>1
  <2>3. s \in s..e /\ (s - s) % k = 0
    BY <2>2
  <2>4. QED
    BY <2>1, <2>3 DEF Selected
<1>6. QED
  BY <1>3, <1>5

\* The length of an hour, in minutes.
Hour == MinuteHi + 1

SelHours == Selected(cron.hours, 0, HourHi)
SelMinutes == Selected(cron.minutes, 0, MinuteHi)

Crons == [minutes : MinuteFields, hours : HourFields, days : DaySets]

LEMMA SelectedOfCron ==
  ASSUME cron \in Crons, Parses
  PROVE /\ SelHours \subseteq 0..HourHi /\ SelHours # {}
        /\ SelMinutes \subseteq 0..MinuteHi /\ SelMinutes # {}
<1>1. /\ cron.hours \in SUBSET Items /\ cron.hours # {}
      /\ cron.minutes \in SUBSET Items /\ cron.minutes # {}
  BY ScheduleAssumption DEF Crons
<1>2. QED
  BY <1>1, ScheduleAssumption, SelectedRange DEF Parses, SelHours, SelMinutes

LEMMA Lengths ==
  /\ Hour \in Nat \ {0} /\ DayLength \in Nat \ {0} /\ DayLength = Hour * (HourHi + 1)
  /\ HourHi \in Nat /\ MinuteHi \in Nat /\ MinuteHi = Hour - 1
<1>1. PICK h, m \in Nat : h = HourHi /\ m = MinuteHi
  BY ScheduleAssumption
<1>2. (h + 1) * (m + 1) = (m + 1) * (h + 1) /\ (m + 1) * (h + 1) \in Nat \ {0}
  OBVIOUS
<1>3. QED
  BY <1>1, <1>2 DEF Hour, DayLength

\* The runs of a day, by hour and minute.
LEMMA RunSplit ==
  ASSUME cron \in Crons, Parses, NEW r \in 0..(DayLength - 1)
  PROVE r \in Runs <=> r \div Hour \in SelHours /\ r % Hour \in SelMinutes
<1>1. r \in Nat
  BY Lengths
<1>2. r = Hour * (r \div Hour) + (r % Hour) /\ r \div Hour \in Nat /\ r % Hour \in 0..(Hour - 1)
  BY <1>1, Lengths, Quotient
<1>3. ASSUME r \in Runs PROVE r \div Hour \in SelHours /\ r % Hour \in SelMinutes
  <2>1. PICK h \in SelHours, m \in SelMinutes : r = h * Hour + m
    BY <1>3 DEF Runs, SelHours, SelMinutes, Hour
  <2>2. h \in Nat /\ m \in 0..(Hour - 1)
    BY <2>1, SelectedOfCron, Lengths
  <2>3. r = Hour * h + m
    BY <2>1, <2>2, Lengths
  <2>4. r % Hour = m /\ r \div Hour = h
    BY <2>2, <2>3, Lengths, QuotientOf
  <2>5. QED
    BY <2>1, <2>4
<1>4. ASSUME r \div Hour \in SelHours, r % Hour \in SelMinutes PROVE r \in Runs
  <2>1. PICK h \in SelHours, m \in SelMinutes : h = r \div Hour /\ m = r % Hour
    BY <1>4
  <2>2. r = h * Hour + m
    BY <1>2, <2>1, Lengths
  <2>3. QED
    BY <2>1, <2>2 DEF Runs, SelHours, SelMinutes, Hour
<1>5. QED
  BY <1>3, <1>4

LEMMA RunsOfDay ==
  ASSUME cron \in Crons, Parses
  PROVE Runs \subseteq 0..(DayLength - 1) /\ Runs # {}
<1>1. ASSUME NEW h \in SelHours, NEW m \in SelMinutes
      PROVE h * Hour + m \in 0..(DayLength - 1)
  <2>1. PICK n \in Nat : n = HourHi
    BY Lengths
  <2>2. h \in Nat /\ h <= n /\ m \in 0..(Hour - 1) /\ Hour \in Nat \ {0}
    BY <2>1, SelectedOfCron, Lengths
  <2>3. Hour * h <= Hour * n /\ Hour * h \in Nat /\ h * Hour = Hour * h
    BY <2>2, ProductGrows
  <2>4. DayLength = Hour * n + Hour
    BY <2>1, <2>2, Lengths
  <2>5. QED
    BY <2>2, <2>3, <2>4
<1>2. Runs \subseteq 0..(DayLength - 1)
  BY <1>1 DEF Runs, SelHours, SelMinutes, Hour
<1>3. PICK h \in SelHours, m \in SelMinutes : TRUE
  BY SelectedOfCron
<1>4. h * Hour + m \in Runs
  BY DEF Runs, SelHours, SelMinutes, Hour
<1>5. QED
  BY <1>2, <1>4

\* What is due is a run of a selected day.
LEMMA DueIsRun ==
  ASSUME cron \in Crons, Parses, NEW t \in Nat
  PROVE /\ Due(t) <=> (t \div DayLength) % Days \in cron.days /\ t % DayLength \in Runs
        /\ t \div DayLength \in Nat /\ t % DayLength \in 0..(DayLength - 1)
        /\ t = DayLength * (t \div DayLength) + (t % DayLength)
<1>1. PICK q, r : q \in Nat /\ r \in Nat /\ q = t \div DayLength /\ r = t % DayLength
  BY Lengths, Quotient
<1>2. t = DayLength * q + r /\ r \in 0..(DayLength - 1)
  BY <1>1, Lengths, Quotient
<1>3. PICK h, m : h \in Nat /\ m \in Nat /\ h = r \div Hour /\ m = r % Hour
  BY <1>1, Lengths, Quotient
<1>4. r = Hour * h + m /\ m \in 0..(Hour - 1)
  BY <1>1, <1>3, Lengths, Quotient
<1>5. PICK a, k \in Nat : a = HourHi /\ k = Hour /\ k # 0 /\ DayLength = k * (a + 1)
  BY Lengths
<1>6. t = k * ((a + 1) * q + h) + m /\ (a + 1) * q + h \in Nat
  <2>1. PICK x, y : x = a + 1 /\ x \in Nat /\ y = x * q
    BY <1>5
  <2>2. y \in Nat /\ (k * x) * q = k * y /\ k * (y + h) = k * y + k * h
    BY <1>1, <1>3, <1>5, <2>1, Products
  <2>3. k * y \in Nat /\ k * h \in Nat
    BY <1>3, <1>5, <2>2, Products
  <2>4. t = (k * x) * q + (k * h + m)
    BY <1>2, <1>4, <1>5, <2>1, Lengths
  <2>5. t = k * (y + h) + m
    BY <1>3, <2>2, <2>3, <2>4
  <2>6. QED
    BY <1>3, <2>1, <2>2, <2>5
<1>7. t % Hour = m
  BY <1>4, <1>5, <1>6, QuotientOf
<1>8. r \in Runs <=> h \in SelHours /\ m \in SelMinutes
  BY <1>2, <1>3, RunSplit
<1>9. QED
  BY <1>1, <1>2, <1>3, <1>7, <1>8 DEF Due, SelHours, SelMinutes, Hour

-----------------------------------------------------------------------------
\* The gap over midnight, and those between neighbours of one day.
Night == Min(Runs) + DayLength - Max(Runs)

Neighbours(t, u) == t \in Runs /\ u \in Runs /\ t < u /\ \A r \in Runs : r <= t \/ u <= r

LEMMA GapOf ==
  ASSUME NEW g
  PROVE g \in Gaps <=> \E t, u \in Runs : Neighbours(t, u) /\ g = u - t
<1>1. ASSUME g \in Gaps PROVE \E t, u \in Runs : Neighbours(t, u) /\ g = u - t
  <2>1. PICK p \in Runs \X Runs : /\ g = p[2] - p[1]
                                  /\ p[1] < p[2] /\ \A r \in Runs : r <= p[1] \/ p[2] <= r
    BY <1>1 DEF Gaps
  <2>2. QED
    BY <2>1 DEF Neighbours
<1>2. ASSUME NEW t \in Runs, NEW u \in Runs, Neighbours(t, u), g = u - t PROVE g \in Gaps
  <2>1. PICK p \in Runs \X Runs : p = <<t, u>>
    OBVIOUS
  <2>2. p[1] = t /\ p[2] = u
    BY <2>1
  <2>3. p[1] < p[2] /\ \A r \in Runs : r <= p[1] \/ p[2] <= r
    BY <1>2, <2>2 DEF Neighbours
  <2>4. QED
    BY <1>2, <2>2, <2>3 DEF Gaps
<1>3. QED
  BY <1>1, <1>2

LEMMA IntervalLeast ==
  ASSUME cron \in Crons, Parses
  PROVE /\ CronMinInterval \in 1..DayLength
        /\ CronMinInterval = Night \/ CronMinInterval \in Gaps
        /\ CronMinInterval <= Night /\ \A g \in Gaps : CronMinInterval <= g
        /\ Night \in 1..DayLength
        /\ Min(Runs) \in Runs /\ Max(Runs) \in Runs /\ \A r \in Runs : Min(Runs) <= r /\ r <= Max(Runs)
<1>1. PICK n : n \in Nat /\ n + 1 = DayLength
  <2>1. DayLength - 1 \in Nat /\ (DayLength - 1) + 1 = DayLength
    BY Lengths
  <2>2. QED
    BY <2>1
<1>2. Runs \in SUBSET (0..n) /\ Runs # {}
  BY <1>1, RunsOfDay
<1>3. /\ Min(Runs) \in Runs /\ Max(Runs) \in Runs
      /\ \A r \in Runs : Min(Runs) <= r /\ r <= Max(Runs) /\ r \in 0..n
  BY <1>1, <1>2, Extremes
<1>4. Night \in 1..(n + 1)
  BY <1>1, <1>3 DEF Night
<1>5. Gaps \subseteq 1..(n + 1)
  <2>1. ASSUME NEW t \in Runs, NEW u \in Runs, Neighbours(t, u) PROVE u - t \in 1..(n + 1)
    BY <1>1, <1>3, <2>1 DEF Neighbours
  <2>2. QED
    BY <2>1, GapOf
<1>6. PICK S : S = {Night} \cup Gaps
  OBVIOUS
<1>7. S \in SUBSET (0..(n + 1)) /\ S # {} /\ n + 1 \in Nat
  BY <1>1, <1>4, <1>5, <1>6
<1>8. Min(S) \in S /\ \A m \in S : Min(S) <= m
  BY <1>7, Extremes
<1>9. CronMinInterval = Min(S)
  BY <1>6 DEF CronMinInterval, Night
<1>10. QED
  BY <1>1, <1>3, <1>4, <1>5, <1>6, <1>8, <1>9

\* The next run of a day that has one.
LEMMA NextRun ==
  ASSUME cron \in Crons, Parses, NEW t \in Runs, NEW u \in Runs, t < u
  PROVE \E v \in Runs : Neighbours(t, v) /\ v <= u
<1> DEFINE After == {r \in Runs : t < r}
<1>1. Runs \subseteq Nat
  BY RunsOfDay, Lengths
<1>2. After \in SUBSET Nat /\ After # {}
  BY <1>1
<1>3. PICK v \in After : \A r \in After : v <= r
  BY <1>2, LeastNatural
<1>4. \A r \in Runs : r <= t \/ v <= r
  BY <1>1, <1>3
<1>5. QED
  BY <1>3, <1>4 DEF Neighbours

\* Two minutes that are due are no closer than the interval.
LEMMA Apart ==
  ASSUME cron \in Crons, Parses, NEW t \in Nat, NEW u \in Nat, t < u, Due(t), Due(u)
  PROVE u - t >= CronMinInterval
<1>1. PICK q, r, p, s : q = t \div DayLength /\ r = t % DayLength /\ p = u \div DayLength /\ s = u % DayLength
  OBVIOUS
<1>2. PICK d : d \in Nat \ {0} /\ d = DayLength
  BY Lengths
<1>3. /\ q \in Nat /\ r \in Runs /\ t = d * q + r /\ r \in 0..(d - 1)
      /\ p \in Nat /\ s \in Runs /\ u = d * p + s /\ s \in 0..(d - 1)
  BY <1>1, <1>2, DueIsRun
<1>4. PICK i, k \in Nat : i = CronMinInterval /\ k = Night
  BY IntervalLeast, Lengths
<1>5. CASE p = q
  <2>1. r < s /\ u - t = s - r
    <3>1. d * q \in Nat /\ r \in Nat /\ s \in Nat
      BY <1>2, <1>3
    <3>2. t = d * q + r /\ u = d * q + s
      BY <1>3, <1>5
    <3>3. QED
      BY <3>1, <3>2
  <2>2. PICK v \in Runs : Neighbours(r, v) /\ v <= s
    BY <1>3, <2>1, NextRun
  <2>3. CronMinInterval <= v - r
    BY <1>3, <2>2, GapOf, IntervalLeast
  <2>4. v \in Nat
    BY RunsOfDay, Lengths
  <2>5. QED
    BY <1>1, <1>4, <2>1, <2>2, <2>3, <2>4
<1>6. CASE q < p
  <2>1. d * (q + 1) <= d * p
    BY <1>2, <1>3, <1>6, ProductGrows
  <2>2. d * (q + 1) = d * q + d * 1 /\ d * 1 = d /\ d * q \in Nat /\ d * p \in Nat
    BY <1>2, <1>3, Products
  <2>3. u - t >= d + s - r
    BY <1>2, <1>3, <2>1, <2>2
  <2>4. PICK a, b : a = Min(Runs) /\ b = Max(Runs)
    OBVIOUS
  <2>5. a \in Nat /\ b \in Nat /\ a <= s /\ r <= b
    <3>1. a \in Runs /\ b \in Runs /\ a <= s /\ r <= b
      BY <1>3, <2>4, IntervalLeast
    <3>2. \A x \in Runs : x \in Nat
      BY RunsOfDay, Lengths
    <3>3. QED
      BY <3>1, <3>2
  <2>6. k = a + d - b /\ i <= k
    BY <1>2, <1>4, <2>4, IntervalLeast DEF Night
  <2>7. QED
    BY <1>2, <1>3, <1>4, <2>3, <2>5, <2>6
<1>7. CASE p < q
  <2>1. d * (p + 1) <= d * q
    BY <1>2, <1>3, <1>7, ProductGrows
  <2>2. d * (p + 1) = d * p + d * 1 /\ d * 1 = d /\ d * q \in Nat /\ d * p \in Nat
    BY <1>2, <1>3, Products
  <2>3. QED
    BY <1>2, <1>3, <2>1, <2>2
<1>8. QED
  BY <1>3, <1>5, <1>6, <1>7

\* The minute after which the interval is seen.
LEMMA IntervalSeen ==
  ASSUME cron \in Crons, Parses, cron.days = 0..(Days - 1)
  PROVE \E t \in 0..(DayLength - 1) :
          /\ Due(t) /\ Due(t + CronMinInterval)
          /\ \A u \in (t + 1)..(t + CronMinInterval - 1) : ~Due(u)
<1>1. PICK d, i : d \in Nat \ {0} /\ d = DayLength /\ i = CronMinInterval
  BY Lengths
<1>2. i \in 1..d /\ \A x \in Runs : x \in 0..(d - 1)
  BY <1>1, IntervalLeast, RunsOfDay
<1>3. \A t \in Nat : Due(t) <=> t % d \in Runs
  <2>1. ASSUME NEW t \in Nat PROVE (t \div DayLength) % Days \in cron.days
    <3>1. t \div DayLength \in Nat
      BY Lengths, Quotient
    <3>2. (t \div DayLength) % Days \in 0..(Days - 1)
      BY <3>1, ScheduleAssumption, Quotient
    <3>3. QED
      BY <3>2
  <2>2. QED
    BY <1>1, <2>1, DueIsRun
<1>4. \A x \in 0..(d - 1) : x % d = x /\ (d + x) % d = x /\ x \in Nat /\ d + x \in Nat
  <2>1. ASSUME NEW x \in 0..(d - 1) PROVE x % d = x /\ (d + x) % d = x
    <3>1. d * 0 + x = x /\ d * 1 + x = d + x
      BY <1>1
    <3>2. QED
      BY <1>1, <3>1, QuotientOf
  <2>2. QED
    BY <1>1, <2>1
<1>5. CASE i \in Gaps
  <2>1. PICK t \in Runs, v \in Runs : Neighbours(t, v) /\ i = v - t
    BY <1>5, GapOf
  <2>2. t + i = v /\ t \in 0..(d - 1) /\ v \in 0..(d - 1)
    BY <1>1, <1>2, <2>1
  <2>3. Due(t) /\ Due(t + i)
    BY <1>3, <1>4, <2>2
  <2>4. ASSUME NEW u \in (t + 1)..(t + i - 1) PROVE ~Due(u)
    <3>1. u \in 0..(d - 1) /\ t < u /\ u < v
      BY <1>1, <1>2, <2>2
    <3>2. u \notin Runs
      BY <1>2, <2>1, <2>2, <3>1 DEF Neighbours
    <3>3. QED
      BY <1>3, <1>4, <3>1, <3>2
  <2>5. QED
    BY <1>1, <2>2, <2>3, <2>4
<1>6. CASE i = Night
  <2>1. PICK a, b : a = Min(Runs) /\ b = Max(Runs)
    OBVIOUS
  <2>2. /\ a \in Runs /\ b \in Runs /\ a \in 0..(d - 1) /\ b \in 0..(d - 1)
        /\ \A r \in Runs : a <= r /\ r <= b
    BY <1>2, <2>1, IntervalLeast
  <2>3. b + i = d + a
    BY <1>1, <1>6, <2>1, <2>2 DEF Night
  <2>4. Due(b) /\ Due(b + i)
    BY <1>3, <1>4, <2>2, <2>3
  <2>5. ASSUME NEW u \in (b + 1)..(b + i - 1) PROVE ~Due(u)
    <3>1. CASE u < d
      <4>1. u \in 0..(d - 1) /\ b < u
        BY <1>1, <2>2, <3>1
      <4>2. u \notin Runs
        BY <1>2, <2>2, <4>1
      <4>3. QED
        BY <1>3, <1>4, <4>1, <4>2
    <3>2. CASE ~(u < d)
      <4>1. PICK x : x \in 0..(d - 1) /\ u = d + x /\ x < a
        <5>1. u - d \in 0..(d - 1) /\ u = d + (u - d) /\ u - d < a
          BY <1>1, <1>2, <2>2, <2>3, <3>2
        <5>2. QED
          BY <5>1
      <4>2. x \notin Runs
        BY <1>2, <2>2, <4>1
      <4>3. QED
        BY <1>3, <1>4, <4>1, <4>2
    <3>3. QED
      BY <3>1, <3>2
  <2>6. QED
    BY <1>1, <2>2, <2>4, <2>5
<1>7. QED
  BY <1>1, <1>5, <1>6, IntervalLeast

-----------------------------------------------------------------------------
Timed == state \in {"too_often", "scheduled"}

ScheduleInv ==
  /\ cron \in Crons /\ state \in {"new", "invalid", "too_often", "scheduled"}
  /\ IF Timed THEN Parses /\ interval = CronMinInterval ELSE interval = -1
  /\ state = "scheduled" => interval >= MinInterval
  /\ now \in Nat
  /\ last \in {-1} \cup Nat /\ last < now /\ (last # -1 => Due(last))
  /\ gap \in {-1} \cup (Nat \ {0}) /\ (gap # -1 => gap >= interval)
  /\ state # "scheduled" => last = -1 /\ gap = -1

\* The expression decides what is due and how far apart.
LEMMA SameCron ==
  ASSUME cron' = cron
  PROVE /\ Parses' = Parses /\ CronMinInterval' = CronMinInterval
        /\ \A t : Due(t)' = Due(t)
BY DEF Parses, CronMinInterval, Runs, Gaps, Due

LEMMA ScheduleInvariant == ScheduleSpec => []ScheduleInv
<1>1. ScheduleInit => ScheduleInv
  BY DEF ScheduleInit, ScheduleInv, Timed, Crons
<1>2. ASSUME ScheduleInv, Validate PROVE ScheduleInv'
  <2>1. cron' = cron /\ state = "new" /\ now' = now /\ last' = last /\ gap' = gap /\ last = -1 /\ gap = -1
    BY <1>2 DEF Validate, ScheduleInv
  <2>2. cron' \in Crons /\ now' \in Nat /\ last' = -1 /\ gap' = -1 /\ last' < now'
    BY <1>2, <2>1 DEF ScheduleInv
  <2>3. CASE Parses
    <3>1. PICK i : i = CronMinInterval /\ i \in 1..DayLength
      BY <1>2, <2>3, IntervalLeast DEF ScheduleInv
    <3>2. i \in Nat /\ MinInterval \in Nat
      BY <3>1, Lengths, ScheduleAssumption
    <3>3. interval' = i /\ state' = IF i < MinInterval THEN "too_often" ELSE "scheduled"
      BY <1>2, <2>3, <3>1 DEF Validate
    <3>4. Parses' /\ CronMinInterval' = i
      BY <2>1, <2>3, <3>1, SameCron
    <3>5. QED
      BY <2>2, <3>2, <3>3, <3>4 DEF ScheduleInv, Timed
  <2>4. CASE ~Parses
    <3>1. state' = "invalid" /\ interval' = interval /\ interval = -1
      BY <1>2, <2>1, <2>4 DEF Validate, ScheduleInv, Timed
    <3>2. QED
      BY <2>2, <3>1 DEF ScheduleInv, Timed
  <2>5. QED
    BY <2>3, <2>4
<1>3. ASSUME ScheduleInv, Tick PROVE ScheduleInv'
  <2>1. /\ cron' = cron /\ state = "scheduled" /\ state' = state /\ interval' = interval
        /\ now' = now + 1 /\ now \in Nat /\ Parses /\ interval = CronMinInterval /\ cron \in Crons
    BY <1>3 DEF Tick, ScheduleInv, Timed
  <2>2. Parses' /\ CronMinInterval' = CronMinInterval /\ \A t : Due(t)' = Due(t)
    BY <2>1, SameCron
  <2>3. CASE Due(now)
    <3>1. last' = now /\ gap' = IF last = -1 THEN -1 ELSE now - last
      BY <1>3, <2>3 DEF Tick
    <3>2. last # -1 => now - last \in Nat \ {0} /\ now - last >= interval
      BY <1>3, <2>1, <2>3, Apart DEF ScheduleInv
    <3>3. last' \in {-1} \cup Nat /\ last' < now'
      BY <2>1, <3>1
    <3>4. Due(last)'
      <4>1. PICK n : n = now
        OBVIOUS
      <4>2. Due(n)' /\ last' = n
        BY <2>2, <2>3, <3>1, <4>1
      <4>3. QED
        BY <4>2 DEF Due
    <3>5. QED
      BY <1>3, <2>1, <2>2, <3>1, <3>2, <3>3, <3>4 DEF ScheduleInv, Timed
  <2>4. CASE ~Due(now)
    <3>1. last' = last /\ gap' = gap
      BY <1>3, <2>4 DEF Tick
    <3>2. Due(last)' = Due(last)
      BY <2>1, <3>1 DEF Due
    <3>3. last' < now'
      BY <1>3, <2>1, <3>1 DEF ScheduleInv
    <3>4. QED
      BY <1>3, <2>1, <2>2, <3>1, <3>2, <3>3 DEF ScheduleInv, Timed
  <2>5. QED
    BY <2>3, <2>4
<1>4. ASSUME ScheduleInv, UNCHANGED scheduleVars PROVE ScheduleInv'
  <2>1. /\ cron' = cron /\ state' = state /\ interval' = interval /\ now' = now /\ last' = last /\ gap' = gap
    BY <1>4 DEF scheduleVars
  <2>2. Parses' = Parses /\ CronMinInterval' = CronMinInterval /\ Due(last)' = Due(last)
    BY <2>1, SameCron DEF Due
  <2>3. QED
    BY <1>4, <2>1, <2>2 DEF ScheduleInv, Timed
<1>5. QED
  BY <1>1, <1>2, <1>3, <1>4, PTL DEF ScheduleSpec, ScheduleNext

(***************************************************************************)
(* For any expression and lengths of hour and day: the runs of an accepted *)
(* schedule are at least MinInterval apart, over midnights and skipped     *)
(* days, and the interval CronMinInterval returns is one that occurs.      *)
(***************************************************************************)
THEOREM IntervalIsExact == ScheduleSpec => []IntervalExact
<1>1. ASSUME ScheduleInv PROVE RunsApart
  <2>1. CASE gap # -1
    <3>1. state = "scheduled" /\ interval >= MinInterval /\ gap >= interval /\ gap \in Nat /\ interval \in 1..DayLength
      BY <1>1, <2>1, IntervalLeast DEF ScheduleInv, Timed
    <3>2. MinInterval \in Nat /\ interval \in Nat
      BY <3>1, Lengths, ScheduleAssumption
    <3>3. QED
      BY <3>1, <3>2 DEF RunsApart
  <2>2. QED
    BY <2>1 DEF RunsApart
<1>2. ASSUME ScheduleInv PROVE RefusedForCause
  BY <1>2, IntervalSeen DEF ScheduleInv, Timed, RefusedForCause
<1>3. QED
  BY <1>1, <1>2, ScheduleInvariant, PTL DEF IntervalExact

-----------------------------------------------------------------------------
\* One running total, from the ones before it.
Running(sizes, g, k) == IF k = 0 THEN 0 ELSE g[k - 1] + sizes[k]

\* The recursion of Totals has a solution.
LEMMA RunningExists ==
  ASSUME NEW sizes, NEW n \in Nat
  PROVE \E g : g = [k \in 0..n |-> Running(sizes, g, k)]
<1> DEFINE T == {m \in Nat : \E g : g = [k \in 0..m |-> Running(sizes, g, k)]}
<1>1. 0 \in T
  <2>1. PICK g : g = [k \in 0..0 |-> 0]
    OBVIOUS
  <2>2. \A k \in 0..0 : 0 = Running(sizes, g, k)
    BY DEF Running
  <2>3. g = [k \in 0..0 |-> Running(sizes, g, k)]
    BY <2>1, <2>2, Zenon
  <2>4. QED
    BY <2>3
<1>2. ASSUME NEW m \in T PROVE m + 1 \in T
  <2>1. PICK g : g = [k \in 0..m |-> Running(sizes, g, k)]
    OBVIOUS
  <2>2. PICK h : h = [k \in 0..(m + 1) |-> IF k = m + 1 THEN Running(sizes, g, k) ELSE g[k]]
    OBVIOUS
  <2>3. m \in Nat
    OBVIOUS
  <2>4. \A k \in 0..m : h[k] = g[k]
    BY <2>2, <2>3
  <2>5. \A k \in 0..(m + 1) : k # 0 => h[k - 1] = g[k - 1]
    BY <2>3, <2>4
  <2>6. \A k \in 0..(m + 1) : Running(sizes, h, k) = Running(sizes, g, k)
    BY <2>5 DEF Running
  <2>7. \A k \in 0..m : g[k] = Running(sizes, g, k)
    BY <2>1
  <2>8. \A k \in 0..(m + 1) : (IF k = m + 1 THEN Running(sizes, g, k) ELSE g[k]) = Running(sizes, h, k)
    BY <2>3, <2>6, <2>7
  <2>9. h = [k \in 0..(m + 1) |-> Running(sizes, h, k)]
    BY <2>2, <2>8, Zenon
  <2>10. \E f : f = [k \in 0..(m + 1) |-> Running(sizes, f, k)]
    BY <2>9
  <2>11. QED
    BY <2>3, <2>10
<1>3. T = Nat
  BY <1>1, <1>2, SetInduction
<1>4. QED
  BY <1>3

LEMMA TotalsAre ==
  ASSUME NEW sizes, NEW n \in Nat, Len(sizes) = n, \A k \in 1..n : sizes[k] \in Nat
  PROVE /\ Totals(sizes)[0] = 0
        /\ \A k \in 1..n : Totals(sizes)[k] = Totals(sizes)[k - 1] + sizes[k]
        /\ \A k \in 0..n : Totals(sizes)[k] \in Nat
<1>1. PICK g : g = CHOOSE f : f = [k \in 0..Len(sizes) |-> Running(sizes, f, k)]
  OBVIOUS
<1>2. \E f : f = [k \in 0..Len(sizes) |-> Running(sizes, f, k)]
  BY RunningExists
<1>3. g = [k \in 0..Len(sizes) |-> Running(sizes, g, k)]
  BY <1>1, <1>2, Zenon
<1>4. Totals(sizes) = g
  BY <1>1, Zenon DEF Totals, Running
<1>5. g[0] = 0 /\ \A k \in 1..n : g[k] = g[k - 1] + sizes[k]
  <2>1. \A k \in 0..n : g[k] = Running(sizes, g, k)
    BY <1>3
  <2>2. QED
    BY <2>1 DEF Running
<1> DEFINE T == {k \in Nat : k <= n => g[k] \in Nat}
<1>6. 0 \in T
  BY <1>5
<1>7. ASSUME NEW k \in T PROVE k + 1 \in T
  <2>1. CASE k + 1 <= n
    <3>1. k + 1 \in 1..n /\ (k + 1) - 1 = k /\ g[k] \in Nat
      BY <2>1
    <3>2. g[k + 1] = g[k] + sizes[k + 1] /\ sizes[k + 1] \in Nat
      BY <1>5, <3>1
    <3>3. QED
      BY <3>1, <3>2
  <2>2. QED
    BY <2>1
<1>8. T = Nat
  BY <1>6, <1>7, SetInduction
<1>9. \A k \in 0..n : k \in Nat /\ k <= n /\ k \in T
  BY <1>8
<1>10. QED
  BY <1>4, <1>5, <1>9

-----------------------------------------------------------------------------
\* The encoded length of the first k rows.
UpTo(k) == Totals(Sizes(page.rows))[k]

LEMMA UpToFacts ==
  ASSUME page \in Pages, NEW n, n = Len(page.rows)
  PROVE /\ n \in Nat /\ DOMAIN page.rows = 1..n /\ \A k \in 1..n : page.rows[k] \in Rows
        /\ UpTo(0) = 0
        /\ \A k \in 1..n : UpTo(k) = UpTo(k - 1) + page.rows[k].encoded
        /\ \A k \in 0..n : UpTo(k) \in Nat
        /\ EncodedSize(page) = page.head + UpTo(n) + Commas(page.rows)
        /\ page.head \in Nat /\ page.bytes \in Nat /\ Commas(page.rows) \in Nat
<1>1. PICK q : q = page.rows
  OBVIOUS
<1>2. q \in Seq(Rows) /\ page.head \in Nat /\ page.bytes \in Nat
  BY <1>1, PageAssumption
<1>3. n \in Nat /\ DOMAIN q = 1..n /\ \A k \in 1..n : q[k] \in Rows
  BY <1>1, <1>2
<1>4. PICK s : s = Sizes(q)
  OBVIOUS
<1>5. Len(s) = n /\ \A k \in 1..n : s[k] = q[k].encoded
  BY <1>1, <1>3, <1>4 DEF Sizes
<1>6. \A k \in 1..n : s[k] \in Nat
  BY <1>3, <1>5, PageAssumption
<1>7. Commas(q) \in Nat
  BY <1>1, <1>2, <1>3 DEF Commas
<1>8. /\ Totals(s)[0] = 0
      /\ \A k \in 1..n : Totals(s)[k] = Totals(s)[k - 1] + s[k]
      /\ \A k \in 0..n : Totals(s)[k] \in Nat
  BY <1>3, <1>5, <1>6, TotalsAre
<1>9. QED
  BY <1>1, <1>2, <1>3, <1>4, <1>5, <1>7, <1>8 DEF UpTo, EncodedSize

-----------------------------------------------------------------------------
RowRead(i) ==
  /\ rowBytes[i] = page.rows[i].bytes
  /\ rowCanonical[i] = IF Measured(page.rows[i]) THEN page.rows[i].encoded ELSE -1

\* The rows decoded so far are sized as they are.
ReadInv ==
  /\ page \in Pages /\ unread \subseteq DOMAIN page.rows
  /\ IF page.onePass
     THEN /\ rowBytes \in Seq(Nat) /\ Len(rowBytes) = Len(page.rows)
          /\ rowCanonical \in Seq(Nat \cup {-1}) /\ Len(rowCanonical) = Len(page.rows)
          /\ \A i \in DOMAIN page.rows : i \notin unread => RowRead(i)
     ELSE rowBytes = <<>> /\ rowCanonical = <<>> /\ unread = {}

\* What a row is held to and adds, once all are read.
LEMMA RowFacts ==
  ASSUME ReadInv, unread = {}, NEW i \in DOMAIN page.rows
  PROVE /\ Bounded(i) \in Nat /\ Added(i) \in Nat
        /\ page.rows[i].encoded \in Nat /\ page.rows[i].bytes \in Nat
        /\ Added(i) >= page.rows[i].encoded
        /\ (Sized => rowCanonical[i] >= 0) => Added(i) = page.rows[i].encoded
        /\ Sized => (Bounded(i) > MaxRow <=> page.rows[i].encoded > MaxRow \/ page.rows[i].bytes > MaxRow)
        /\ ~Sized \/ page.rows[i].bytes = page.rows[i].encoded => Bounded(i) = page.rows[i].encoded
<1>1. PICK r, b, c : r = page.rows[i] /\ b = r.bytes /\ c = r.encoded
  OBVIOUS
<1>2. r \in Rows /\ b \in Nat /\ c \in Nat /\ (r.plain => c <= b + Growth)
  BY <1>1, UpToFacts, PageAssumption DEF ReadInv
<1>3. MaxRow \in Nat /\ Growth \in Nat
  BY PageAssumption
<1>4. CASE ~Sized
  BY <1>1, <1>2, <1>4 DEF Bounded, Added
<1>5. CASE Sized
  <2>1. rowBytes[i] = b /\ rowCanonical[i] = IF Measured(r) THEN c ELSE -1
    <3>1. page.onePass
      <4>1. SUFFICES ASSUME ~page.onePass PROVE FALSE
        OBVIOUS
      <4>2. rowBytes = <<>>
        BY <4>1 DEF ReadInv
      <4>3. Len(page.rows) = 0
        BY <1>5, <4>2 DEF Sized
      <4>4. QED
        BY <4>3, UpToFacts DEF ReadInv
    <3>2. QED
      BY <1>1, <3>1 DEF ReadInv, RowRead
  <2>2. CASE Measured(r)
    BY <1>1, <1>2, <1>3, <1>5, <2>1, <2>2 DEF Bounded, Added
  <2>3. CASE ~Measured(r)
    <3>1. b + Growth <= MaxRow /\ c <= b + Growth
      BY <1>1, <1>2, <1>3, <2>3 DEF Measured, WithinGrowth
    <3>2. rowCanonical[i] = -1
      BY <2>1, <2>3
    <3>3. Bounded(i) = b /\ Added(i) = b + Growth
      BY <1>5, <2>1, <3>2 DEF Bounded, Added
    <3>4. QED
      BY <1>1, <1>2, <1>3, <1>5, <3>1, <3>2, <3>3
  <2>4. QED
    BY <2>2, <2>3
<1>6. QED
  BY <1>4, <1>5

-----------------------------------------------------------------------------
RowFaults == {"fields", "row_size", "twice"}

LEMMA RowVerdicts == \A i, size : RowVerdict(i, size) \in RowFaults \cup {"none"}
BY DEF RowVerdict, RowFaults

Passed(k) == \A j \in 1..k : RowVerdict(j, Bounded(j)) = "none"

\* How far validatePage is, what it has added and what it found.
WalkInv ==
  /\ at \in 0..(Len(page.rows) + 1) /\ total \in Nat /\ exact \in BOOLEAN
  /\ verdict \in {"none", "ok", "page", "page_size"} \cup RowFaults
  /\ at = 0 => /\ total = 0 /\ exact = TRUE /\ verdict \in {"none", "page"}
               /\ verdict = "page" => ~(page.named /\ Len(page.rows) <= MaxRows)
  /\ at > 0 => unread = {} /\ page.named /\ Len(page.rows) <= MaxRows /\ verdict # "page"
  /\ \A k \in 0..Len(page.rows) : at = k + 1 =>
       /\ total >= UpTo(k) /\ (exact => total = UpTo(k))
       /\ verdict = "none" => Passed(k)
       /\ verdict \in RowFaults => k >= 1 /\ Passed(k - 1) /\ verdict = RowVerdict(k, Bounded(k))
       /\ verdict \in {"ok", "page_size"} =>
            k = Len(page.rows) /\ Passed(k) /\ verdict = IF PageHeld(PageSize) THEN "ok" ELSE "page_size"

PageInv == ReadInv /\ WalkInv

\* What the page as it arrived and the sizes of its rows decide.
LEMMA SamePage ==
  ASSUME page' = page, rowBytes' = rowBytes, rowCanonical' = rowCanonical
  PROVE /\ \A k : UpTo(k)' = UpTo(k)
        /\ \A k : RowVerdict(k, Bounded(k))' = RowVerdict(k, Bounded(k))
        /\ \A k : Passed(k)' = Passed(k)
        /\ \A size : PageHeld(size)' = PageHeld(size)
        /\ Sized' = Sized
<1>1. /\ \A k : UpTo(k)' = UpTo(k)
      /\ \A k : RowVerdict(k, Bounded(k))' = RowVerdict(k, Bounded(k))
      /\ \A size : PageHeld(size)' = PageHeld(size)
      /\ Sized' = Sized
  BY DEF UpTo, RowVerdict, Bounded, Sized, Listed, PageHeld
<1>2. \A k : Passed(k)' = Passed(k)
  BY <1>1 DEF Passed
<1>3. QED
  BY <1>1, <1>2

LEMMA PageInitInv == PageInit => PageInv
<1> SUFFICES ASSUME PageInit PROVE PageInv
  OBVIOUS
<1>1. PICK n : n \in Nat /\ n = Len(page.rows) /\ DOMAIN page.rows = 1..n
  BY UpToFacts DEF PageInit
<1>2. ReadInv
  <2>1. CASE page.onePass
    BY <1>1, <2>1 DEF PageInit, ReadInv
  <2>2. CASE ~page.onePass
    BY <1>1, <2>2 DEF PageInit, ReadInv
  <2>3. QED
    BY <2>1, <2>2
<1>3. WalkInv
  BY <1>1 DEF PageInit, WalkInv, Reading
<1>4. QED
  BY <1>2, <1>3 DEF PageInv

LEMMA ReadRowInv ==
  ASSUME PageInv, NEW i \in DOMAIN page.rows, ReadRow(i)
  PROVE PageInv'
<1>1. /\ page' = page /\ at' = at /\ total' = total /\ exact' = exact /\ verdict' = verdict
      /\ i \in unread /\ unread' = unread \ {i}
      /\ rowBytes' = [rowBytes EXCEPT ![i] = page.rows[i].bytes]
      /\ rowCanonical' = [rowCanonical EXCEPT ![i] = IF Measured(page.rows[i]) THEN page.rows[i].encoded ELSE -1]
  BY DEF ReadRow
<1>2. PICK q, n : q = page.rows /\ n \in Nat /\ n = Len(q) /\ DOMAIN q = 1..n
  BY UpToFacts DEF PageInv, ReadInv
<1>3. page.onePass
  BY <1>1 DEF PageInv, ReadInv
<1>4. PICK b, c : b = q[i].bytes /\ c = IF Measured(q[i]) THEN q[i].encoded ELSE -1
  OBVIOUS
<1>5. b \in Nat /\ c \in Nat \cup {-1}
  <2>1. q[i] \in Rows
    BY <1>2, UpToFacts DEF PageInv, ReadInv
  <2>2. QED
    BY <1>4, <2>1, PageAssumption
<1>6. /\ rowBytes \in Seq(Nat) /\ Len(rowBytes) = n /\ rowCanonical \in Seq(Nat \cup {-1}) /\ Len(rowCanonical) = n
      /\ \A j \in 1..n : j \notin unread => RowRead(j)
  BY <1>2, <1>3 DEF PageInv, ReadInv
<1>7. /\ rowBytes' \in Seq(Nat) /\ Len(rowBytes') = n /\ rowBytes'[i] = b
      /\ rowCanonical' \in Seq(Nat \cup {-1}) /\ Len(rowCanonical') = n /\ rowCanonical'[i] = c
      /\ \A j \in 1..n : j # i => rowBytes'[j] = rowBytes[j] /\ rowCanonical'[j] = rowCanonical[j]
  BY <1>1, <1>2, <1>4, <1>5, <1>6
<1>8. ASSUME NEW j \in 1..n, j \notin unread' PROVE RowRead(j)'
  <2>1. CASE j = i
    BY <1>1, <1>2, <1>4, <1>7, <2>1 DEF RowRead, Measured, WithinGrowth
  <2>2. CASE j # i
    <3>1. RowRead(j)
      BY <1>1, <1>6, <1>8, <2>2
    <3>2. QED
      BY <1>1, <1>7, <2>2, <3>1 DEF RowRead, Measured, WithinGrowth
  <2>3. QED
    BY <2>1, <2>2
<1>9. ReadInv'
  BY <1>1, <1>2, <1>3, <1>7, <1>8 DEF PageInv, ReadInv
<1>10. at = 0
  BY <1>1, <1>2 DEF PageInv, WalkInv
<1>11. WalkInv'
  BY <1>1, <1>2, <1>10 DEF PageInv, WalkInv
<1>12. QED
  BY <1>9, <1>11 DEF PageInv

\* Only ReadRow changes what was read.
LEMMA ReadKept ==
  ASSUME ReadInv, page' = page, rowBytes' = rowBytes, rowCanonical' = rowCanonical, unread' = unread
  PROVE ReadInv'
<1>1. \A i : RowRead(i)' = RowRead(i)
  BY DEF RowRead, Measured, WithinGrowth
<1>2. QED
  BY <1>1 DEF ReadInv

LEMMA BeginInv ==
  ASSUME PageInv, Begin
  PROVE PageInv'
<1>1. /\ page' = page /\ rowBytes' = rowBytes /\ rowCanonical' = rowCanonical /\ unread' = unread
      /\ total' = total /\ exact' = exact /\ at = 0 /\ unread = {} /\ verdict = "none"
  BY DEF Begin, Reading
<1>2. PICK q, n : q = page.rows /\ n \in Nat /\ n = Len(q) /\ UpTo(0) = 0
  BY UpToFacts DEF PageInv, ReadInv
<1>3. UpTo(0)' = 0 /\ Passed(0)'
  <2>1. Passed(0)
    BY DEF Passed
  <2>2. QED
    BY <1>1, <1>2, <2>1, SamePage
<1>4. total' = 0 /\ exact' = TRUE
  BY <1>1 DEF PageInv, WalkInv
<1>5. WalkInv'
  <2>1. CASE page.named /\ Len(page.rows) <= MaxRows
    <3>1. at' = 1 /\ verdict' = "none"
      BY <1>1, <2>1 DEF Begin
    <3>2. \A k \in 0..Len(page'.rows) : at' = k + 1 => k = 0
      BY <1>1, <1>2, <3>1
    <3>3. QED
      BY <1>1, <1>2, <1>3, <1>4, <2>1, <3>1, <3>2 DEF WalkInv, RowFaults
  <2>2. CASE ~(page.named /\ Len(page.rows) <= MaxRows)
    <3>1. at' = 0 /\ verdict' = "page"
      BY <1>1, <2>2 DEF Begin
    <3>2. QED
      BY <1>1, <1>2, <1>4, <2>2, <3>1 DEF WalkInv
  <2>3. QED
    BY <2>1, <2>2
<1>6. QED
  BY <1>1, <1>5, ReadKept DEF PageInv

LEMMA ValidateRowInv ==
  ASSUME PageInv, ValidateRow
  PROVE PageInv'
<1>1. /\ page' = page /\ rowBytes' = rowBytes /\ rowCanonical' = rowCanonical /\ unread' = unread
      /\ verdict = "none" /\ at \in DOMAIN page.rows /\ at' = at + 1
      /\ verdict' = RowVerdict(at, Bounded(at)) /\ total' = total + Added(at)
      /\ exact' = (exact /\ (Sized => rowCanonical[at] >= 0))
  BY DEF ValidateRow
<1>2. PICK n, k : n \in Nat /\ n = Len(page.rows) /\ DOMAIN page.rows = 1..n /\ k = at
  BY UpToFacts DEF PageInv, ReadInv
<1>3. /\ k \in 1..n /\ k - 1 \in 0..n /\ k = (k - 1) + 1 /\ k > 0 /\ at' = k + 1 /\ k \in 0..n
      /\ total \in Nat
  BY <1>1, <1>2 DEF PageInv, WalkInv
<1>4. /\ unread = {} /\ page.named /\ Len(page.rows) <= MaxRows
      /\ total >= UpTo(k - 1) /\ (exact => total = UpTo(k - 1)) /\ Passed(k - 1)
  BY <1>1, <1>2, <1>3 DEF PageInv, WalkInv
<1>5. /\ UpTo(k) = UpTo(k - 1) + page.rows[k].encoded /\ UpTo(k - 1) \in Nat /\ UpTo(k) \in Nat
  BY <1>2, <1>3, UpToFacts DEF PageInv, ReadInv
<1>6. /\ Added(k) \in Nat /\ page.rows[k].encoded \in Nat /\ Added(k) >= page.rows[k].encoded
      /\ (Sized => rowCanonical[k] >= 0) => Added(k) = page.rows[k].encoded
  BY <1>1, <1>2, <1>4, RowFacts DEF PageInv
<1>7. total' \in Nat /\ total' >= UpTo(k) /\ (exact' => total' = UpTo(k))
  <2>1. total' = total + Added(k) /\ (exact' => exact /\ (Sized => rowCanonical[k] >= 0))
    BY <1>1, <1>2
  <2>2. PICK a, b, c, d : a = Added(k) /\ b = page.rows[k].encoded /\ c = UpTo(k - 1) /\ d = UpTo(k)
    OBVIOUS
  <2>3. a \in Nat /\ b \in Nat /\ c \in Nat /\ d = c + b /\ a >= b /\ total >= c
    BY <1>4, <1>5, <1>6, <2>2
  <2>4. total' \in Nat /\ total' >= d
    BY <1>3, <2>1, <2>2, <2>3
  <2>5. ASSUME exact' PROVE total' = d
    BY <1>4, <1>6, <2>1, <2>2, <2>3, <2>5
  <2>6. QED
    BY <2>2, <2>4, <2>5
<1>8. exact' \in BOOLEAN
  BY <1>1
<1>9. PICK v : v = RowVerdict(k, Bounded(k)) /\ v \in RowFaults \cup {"none"}
  BY RowVerdicts
<1>10. verdict' = v
  BY <1>1, <1>2, <1>9
<1>11. v = "none" => Passed(k)
  <2>1. \A j \in 1..k : j = k \/ j \in 1..(k - 1)
    BY <1>3
  <2>2. QED
    BY <1>4, <1>9, <2>1 DEF Passed
<1>12. /\ UpTo(k)' = UpTo(k) /\ Passed(k)' = Passed(k) /\ Passed(k - 1)' = Passed(k - 1)
       /\ RowVerdict(k, Bounded(k))' = v
  BY <1>1, <1>9, SamePage
<1>13. WalkInv'
  <2>1. at' \in 0..(n + 1) /\ at' > 0 /\ at' # 0 /\ \A j \in 0..n : at' = j + 1 => j = k
    BY <1>2, <1>3
  <2>2. v # "page" /\ v \notin {"ok", "page_size"} /\ (v \in RowFaults => v # "none")
    BY <1>9 DEF RowFaults
  <2>3. k >= 1 /\ page' = page /\ Len(page.rows) = n /\ unread' = {}
    BY <1>1, <1>2, <1>3, <1>4
  <2>4. QED
    BY <1>4, <1>7, <1>8, <1>9, <1>10, <1>11, <1>12, <2>1, <2>2, <2>3 DEF WalkInv
<1>14. QED
  BY <1>1, <1>13, ReadKept DEF PageInv

LEMMA ValidatePageInv ==
  ASSUME PageInv, ValidatePage
  PROVE PageInv'
<1>1. /\ page' = page /\ rowBytes' = rowBytes /\ rowCanonical' = rowCanonical /\ unread' = unread
      /\ at' = at /\ total' = total /\ exact' = exact
      /\ verdict = "none" /\ at = Len(page.rows) + 1
      /\ verdict' = IF PageHeld(PageSize) THEN "ok" ELSE "page_size"
  BY DEF ValidatePage
<1>2. PICK n : n \in Nat /\ n = Len(page.rows)
  BY UpToFacts DEF PageInv, ReadInv
<1>3. /\ at > 0 /\ at # 0 /\ n \in 0..n /\ at = n + 1 /\ \A k \in 0..n : at = k + 1 => k = n
  BY <1>1, <1>2
<1>4. /\ unread = {} /\ page.named /\ Len(page.rows) <= MaxRows
      /\ total >= UpTo(n) /\ (exact => total = UpTo(n)) /\ Passed(n)
  BY <1>1, <1>2, <1>3 DEF PageInv, WalkInv
<1>5. UpTo(n)' = UpTo(n) /\ Passed(n)' = Passed(n)
  BY <1>1, SamePage
<1>6. PageHeld(PageSize)' = PageHeld(PageSize)
  BY <1>1 DEF PageHeld, PageSize, Sized
<1>7. verdict' \in {"ok", "page_size"} /\ verdict' # "none" /\ verdict' \notin RowFaults /\ verdict' # "page"
  BY <1>1 DEF RowFaults
<1>8. WalkInv'
  BY <1>1, <1>2, <1>3, <1>4, <1>5, <1>6, <1>7 DEF PageInv, WalkInv
<1>9. QED
  BY <1>1, <1>8, ReadKept DEF PageInv

LEMMA PageInvariant == PageSpec => []PageInv
<1>1. ASSUME PageInv, UNCHANGED pageVars PROVE PageInv'
  <2>1. /\ page' = page /\ rowBytes' = rowBytes /\ rowCanonical' = rowCanonical /\ unread' = unread
        /\ at' = at /\ total' = total /\ exact' = exact /\ verdict' = verdict
    BY <1>1 DEF pageVars
  <2>2. PageHeld(PageSize)' = PageHeld(PageSize)
    BY <2>1 DEF PageHeld, PageSize, Sized
  <2>3. WalkInv'
    BY <1>1, <2>1, <2>2, SamePage DEF PageInv, WalkInv
  <2>4. QED
    BY <1>1, <2>1, <2>3, ReadKept DEF PageInv
<1>2. ASSUME PageInv, PageNext PROVE PageInv'
  BY <1>2, BeginInv, ValidateRowInv, ValidatePageInv, ReadRowInv DEF PageNext
<1>3. QED
  BY <1>1, <1>2, PageInitInv, PTL DEF PageSpec

-----------------------------------------------------------------------------
\* What LineCatalogueResponse.Validate says of a row.
RowResponse(i) == RowVerdict(i, page.rows[i].encoded)

LEMMA ResponsePage ==
  ASSUME page \in Pages, ~(page.named /\ Len(page.rows) <= MaxRows)
  PROVE Response(page) = "page"
<1>1. Len(page.rows) \in Nat /\ MaxRows \in Nat
  BY UpToFacts, PageAssumption
<1>2. ~page.named \/ Len(page.rows) > MaxRows
  BY <1>1
<1>3. QED
  BY <1>2 DEF Response

LEMMA ResponseRow ==
  ASSUME page.named, Len(page.rows) <= MaxRows, NEW n \in Nat, DOMAIN page.rows = 1..n,
         NEW k \in 1..n, RowResponse(k) # "none", \A j \in 1..(k - 1) : RowResponse(j) = "none"
  PROVE Response(page) = RowResponse(k)
<1>1. PICK bad : bad = {i \in DOMAIN page.rows : RowResponse(i) # "none"}
  OBVIOUS
<1>2. k \in bad /\ \A j \in bad : k <= j
  <2>1. \A j \in 1..n : j < k => j \in 1..(k - 1)
    OBVIOUS
  <2>2. QED
    BY <1>1, <2>1
<1>3. \A i \in bad : (\A j \in bad : i <= j) => i = k
  BY <1>1, <1>2
<1>4. PICK c : c = CHOOSE i \in bad : \A j \in bad : i <= j
  OBVIOUS
<1>5. c = k
  BY <1>2, <1>3, <1>4
<1>6. Response(page) = RowResponse(c)
  <2>1. bad # {} /\ ~(~page.named \/ Len(page.rows) > MaxRows) 
    BY <1>2, UpToFacts, PageAssumption
  <2>2. QED
    BY <1>1, <1>4, <2>1 DEF Response, RowResponse
<1>7. QED
  BY <1>5, <1>6

LEMMA ResponseSize ==
  ASSUME page \in Pages, page.named, Len(page.rows) <= MaxRows, \A i \in DOMAIN page.rows : RowResponse(i) = "none"
  PROVE Response(page) = IF EncodedSize(page) <= MaxPage THEN "ok" ELSE "page_size"
<1>1. PICK bad : bad = {i \in DOMAIN page.rows : RowResponse(i) # "none"}
  OBVIOUS
<1>2. Len(page.rows) \in Nat /\ MaxRows \in Nat
  BY UpToFacts, PageAssumption
<1>3. bad = {} /\ ~(~page.named \/ Len(page.rows) > MaxRows)
  BY <1>1, <1>2
<1>4. QED
  BY <1>1, <1>3 DEF Response, RowResponse

\* A page that is sized and validated is held to its bounds.
LEMMA PageSized ==
  ASSUME PageInv, at > 0, at = Len(page.rows) + 1
  PROVE PageHeld(PageSize) <=> EncodedSize(page) <= MaxPage /\ (Sized => page.bytes <= MaxPage)
<1>1. PICK n, h, c, b : n = Len(page.rows) /\ h = page.head /\ c = Commas(page.rows) /\ b = UpTo(n)
  OBVIOUS
<1>2. /\ n \in Nat /\ h \in Nat /\ c \in Nat /\ b \in Nat /\ EncodedSize(page) = h + b + c
  <2>1. n \in Nat /\ n \in 0..n
    BY <1>1, UpToFacts DEF PageInv, ReadInv
  <2>2. QED
    BY <1>1, <2>1, UpToFacts DEF PageInv, ReadInv
<1>3. total \in Nat /\ total >= b /\ (exact => total = b)
  <2>1. n \in 0..n /\ at = n + 1
    BY <1>2, <1>1
  <2>2. QED
    BY <1>2, <1>1, <2>1 DEF PageInv, WalkInv
<1>4. MaxPage \in Nat
  BY PageAssumption
<1>5. PICK s : s = page.head + total + Commas(page.rows)
  OBVIOUS
<1>6. PageSize = IF s > MaxPage /\ ~exact THEN EncodedSize(page) ELSE s
  BY <1>5 DEF PageSize
<1>7. PageSize <= MaxPage <=> EncodedSize(page) <= MaxPage
  <2>1. s = h + total + c
    BY <1>2, <1>1, <1>5
  <2>2. CASE s > MaxPage /\ ~exact
    BY <1>6, <2>2
  <2>3. CASE ~(s > MaxPage) /\ ~exact
    <3>1. PageSize = s /\ s <= MaxPage /\ h + b + c <= MaxPage
      BY <1>2, <1>1, <1>3, <1>4, <1>6, <2>1, <2>3
    <3>2. QED
      BY <1>2, <1>1, <3>1
  <2>4. CASE exact
    BY <1>2, <1>1, <1>3, <1>6, <2>1, <2>4
  <2>5. QED
    BY <2>2, <2>3, <2>4
<1>8. QED
  BY <1>7 DEF PageHeld

\* The row that made the verdict, and those before it, on the page as encoded.
LEMMA VerdictOfRows ==
  ASSUME PageInv, unread = {}, page.named, Len(page.rows) <= MaxRows,
         NEW n \in Nat, n = Len(page.rows), NEW k \in 1..n
  PROVE /\ Sized /\ RowVerdict(k, Bounded(k)) # "none"
             => RowResponse(k) # "none" \/ page.rows[k].bytes > MaxRow
        /\ Sized /\ RowVerdict(k, Bounded(k)) = "none"
             => RowResponse(k) = "none" /\ page.rows[k].bytes <= MaxRow
        /\ ~Sized \/ page.rows[k].bytes = page.rows[k].encoded => RowResponse(k) = RowVerdict(k, Bounded(k))
<1>1. DOMAIN page.rows = 1..n
  BY UpToFacts DEF PageInv, ReadInv
<1>2. /\ page.rows[k].bytes \in Nat /\ page.rows[k].encoded \in Nat /\ MaxRow \in Nat /\ Bounded(k) \in Nat
      /\ Sized => (Bounded(k) > MaxRow <=> page.rows[k].encoded > MaxRow \/ page.rows[k].bytes > MaxRow)
      /\ ~Sized \/ page.rows[k].bytes = page.rows[k].encoded => Bounded(k) = page.rows[k].encoded
  BY <1>1, RowFacts, PageAssumption DEF PageInv
<1>3. \A size : RowVerdict(k, size) = "none" <=> page.rows[k].fields /\ ~(size > MaxRow) /\ ~Listed(k)
  BY DEF RowVerdict
<1>4. QED
  BY <1>2, <1>3 DEF RowResponse

LEMMA ExactlyAccepted == PageInv => AcceptedExactly
<1> SUFFICES ASSUME PageInv, verdict # "none", Sized
             PROVE verdict = "ok" <=>
                     /\ Response(page) = "ok"
                     /\ page.bytes <= MaxPage
                     /\ \A i \in DOMAIN page.rows : page.rows[i].bytes <= MaxRow
  BY DEF AcceptedExactly
<1>1. PICK n : n \in Nat /\ n = Len(page.rows) /\ DOMAIN page.rows = 1..n /\ page \in Pages
  BY UpToFacts DEF PageInv, ReadInv
<1>2. CASE verdict = "page"
  <2>1. at = 0
    BY <1>1, <1>2 DEF PageInv, WalkInv
  <2>2. Response(page) = "page"
    BY <1>1, <1>2, <2>1, ResponsePage DEF PageInv, WalkInv
  <2>3. QED
    BY <1>2, <2>2
<1>3. CASE verdict # "page"
  <2>1. PICK k \in 0..n : at = k + 1
    <3>1. at # 0
      BY <1>3 DEF PageInv, WalkInv
    <3>2. at \in 1..(n + 1)
      BY <1>1, <3>1 DEF PageInv, WalkInv
    <3>3. at - 1 \in 0..n /\ at = (at - 1) + 1
      BY <1>1, <3>2
    <3>4. QED
      BY <3>3
  <2>2. unread = {} /\ page.named /\ Len(page.rows) <= MaxRows /\ at > 0
    BY <1>1, <2>1 DEF PageInv, WalkInv
  <2>3. CASE verdict \in RowFaults
    <3>1. k \in 1..n /\ verdict = RowVerdict(k, Bounded(k)) /\ Passed(k - 1)
      BY <1>1, <2>1, <2>3 DEF PageInv, WalkInv
    <3>2. RowResponse(k) # "none" \/ page.rows[k].bytes > MaxRow
      BY <1>1, <2>2, <3>1, VerdictOfRows
    <3>3. \A j \in 1..(k - 1) : RowResponse(j) = "none"
      BY <1>1, <2>2, <3>1, VerdictOfRows DEF Passed
    <3>4. verdict # "ok"
      BY <2>3 DEF RowFaults
    <3>5. CASE RowResponse(k) # "none"
      <4>1. Response(page) = RowResponse(k)
        BY <1>1, <2>2, <3>1, <3>3, <3>5, ResponseRow
      <4>2. Response(page) # "ok"
        BY <4>1, RowVerdicts DEF RowResponse, RowFaults
      <4>3. QED
        BY <3>4, <4>2
    <3>6. CASE page.rows[k].bytes > MaxRow
      <4>1. page.rows[k].bytes \in Nat /\ MaxRow \in Nat
        BY <1>1, <2>2, <3>1, RowFacts, PageAssumption DEF PageInv
      <4>2. QED
        BY <1>1, <3>1, <3>4, <3>6, <4>1
    <3>7. QED
      BY <3>2, <3>5, <3>6
  <2>4. CASE verdict \in {"ok", "page_size"}
    <3>1. k = n /\ Passed(n) /\ verdict = IF PageHeld(PageSize) THEN "ok" ELSE "page_size"
      BY <1>1, <2>1, <2>4 DEF PageInv, WalkInv
    <3>2. \A j \in 1..n : RowResponse(j) = "none" /\ page.rows[j].bytes <= MaxRow
      BY <1>1, <2>2, <3>1, VerdictOfRows DEF Passed
    <3>3. Response(page) = IF EncodedSize(page) <= MaxPage THEN "ok" ELSE "page_size"
      BY <1>1, <2>2, <3>2, ResponseSize
    <3>4. PageHeld(PageSize) <=> EncodedSize(page) <= MaxPage /\ page.bytes <= MaxPage
      BY <1>1, <2>1, <2>2, <3>1, PageSized
    <3>5. QED
      BY <1>1, <3>1, <3>2, <3>3, <3>4
  <2>5. QED
    BY <1>3, <2>3, <2>4 DEF PageInv, WalkInv
<1>4. QED
  BY <1>2, <1>3

LEMMA VerdictIsSame == PageInv => SameVerdict
<1> SUFFICES ASSUME PageInv, verdict # "none", CoreEncoded \/ ~Sized
             PROVE verdict = Response(page)
  BY DEF SameVerdict
<1>1. PICK n : n \in Nat /\ n = Len(page.rows) /\ DOMAIN page.rows = 1..n /\ page \in Pages
  BY UpToFacts DEF PageInv, ReadInv
<1>2. CASE verdict = "page"
  <2>1. at = 0
    BY <1>1, <1>2 DEF PageInv, WalkInv
  <2>2. QED
    BY <1>1, <1>2, <2>1, ResponsePage DEF PageInv, WalkInv
<1>3. CASE verdict # "page"
  <2>1. PICK k \in 0..n : at = k + 1
    <3>1. at # 0
      BY <1>3 DEF PageInv, WalkInv
    <3>2. at \in 1..(n + 1)
      BY <1>1, <3>1 DEF PageInv, WalkInv
    <3>3. at - 1 \in 0..n /\ at = (at - 1) + 1
      BY <1>1, <3>2
    <3>4. QED
      BY <3>3
  <2>2. unread = {} /\ page.named /\ Len(page.rows) <= MaxRows /\ at > 0
    BY <1>1, <2>1 DEF PageInv, WalkInv
  <2>3. \A j \in 1..n : RowResponse(j) = RowVerdict(j, Bounded(j))
    <3>1. ~Sized \/ \A j \in 1..n : page.rows[j].bytes = page.rows[j].encoded
      BY <1>1 DEF CoreEncoded
    <3>2. QED
      BY <1>1, <2>2, <3>1, VerdictOfRows
  <2>4. CASE verdict \in RowFaults
    <3>1. k \in 1..n /\ verdict = RowVerdict(k, Bounded(k)) /\ Passed(k - 1)
      BY <1>1, <2>1, <2>4 DEF PageInv, WalkInv
    <3>2. \A j \in 1..(k - 1) : RowResponse(j) = "none"
      <4>1. \A j \in 1..(k - 1) : j \in 1..n
        BY <1>1, <3>1
      <4>2. QED
        BY <2>3, <3>1, <4>1 DEF Passed
    <3>3. RowResponse(k) = verdict
      BY <2>3, <3>1
    <3>4. QED
      BY <1>1, <2>2, <3>1, <3>2, <3>3, ResponseRow
  <2>5. CASE verdict \in {"ok", "page_size"}
    <3>1. k = n /\ Passed(n) /\ verdict = IF PageHeld(PageSize) THEN "ok" ELSE "page_size"
      BY <1>1, <2>1, <2>5 DEF PageInv, WalkInv
    <3>2. \A j \in 1..n : RowResponse(j) = "none"
      BY <2>3, <3>1 DEF Passed
    <3>3. Response(page) = IF EncodedSize(page) <= MaxPage THEN "ok" ELSE "page_size"
      BY <1>1, <2>2, <3>2, ResponseSize
    <3>4. PageHeld(PageSize) <=> EncodedSize(page) <= MaxPage /\ (Sized => page.bytes <= MaxPage)
      BY <1>1, <2>1, <2>2, <3>1, PageSized
    <3>5. Sized => page.bytes = EncodedSize(page)
      BY DEF CoreEncoded
    <3>6. QED
      BY <3>1, <3>3, <3>4, <3>5
  <2>6. QED
    BY <1>3, <2>4, <2>5 DEF PageInv, WalkInv
<1>4. QED
  BY <1>2, <1>3

(***************************************************************************)
(* For any page, bounds and growth: the verdict reached without encoding   *)
(* the rows is that of the bounds on the page as received and as encoded,  *)
(* and of a page the core encoded it is LineCatalogueResponse.Validate's   *)
(* to the word.                                                            *)
(***************************************************************************)
THEOREM PagesAreJudged == PageSpec => []PageVerdict
<1>1. PageInv => PageVerdict
  BY ExactlyAccepted, VerdictIsSame DEF PageVerdict
<1>2. QED
  BY <1>1, PageInvariant, PTL
=============================================================================
