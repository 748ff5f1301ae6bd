-------------------------- MODULE StrictJSONProofs --------------------------
(***************************************************************************)
(* The scanner admits only what the token walk admits, refuses only for    *)
(* cause and collects the members there are, for any tokens, depth and     *)
(* number of linear keys.  One inductive invariant says that the keys      *)
(* noted at a depth point into the document being read, that a scanner at  *)
(* rest has none, and at which depths each place of the scan can be; the   *)
(* other what has been collected at each place, in terms of the document.  *)
(***************************************************************************)
EXTENDS StrictJSON, FiniteSetTheorems, TLAPS

Places == {"value", "first", "key", "colon", "after", "end"}

\* What keys are written as and decode to.
Texts == {t.name : t \in Tokens} \cup {t.raw : t \in Tokens} \cup {Undecoded}

KeyRefs == [at : Nat, plain : BOOLEAN, decoded : Texts]

ScanTypes ==
  /\ verdict \in {"none", "valid", "refused"}
  /\ doc \in Seq(Tokens)
  /\ depth \in 0..MaxDepth
  /\ kind \in [Depths -> {"object", "array"}]
  /\ slots \in [Depths -> Seq(KeyRefs)]
  /\ used \in [Depths -> 0..LinearKeys]
  /\ seen \in [Depths -> SUBSET Texts]
  /\ expect \in Places

\* The keys noted are in the document.
KeysInv ==
  \A d \in Depths :
    /\ used[d] <= Len(slots[d])
    /\ \A i \in 1..used[d] : slots[d][i].at \in 1..Len(doc)

\* A scanner at rest has nothing noted.
RestInv == verdict # "none" => depth = 0 /\ expect = "value" /\ \A d \in Depths : used[d] = 0

PlaceInv ==
  /\ expect \in {"first", "key", "colon", "after"} => depth > 0
  /\ expect \in {"key", "colon"} => kind[depth] = "object"
  /\ expect = "end" => depth = 0

ScanInv == ScanTypes /\ KeysInv /\ RestInv /\ PlaceInv

-----------------------------------------------------------------------------
\* A new scanner, and one at rest, satisfy the invariant.
LEMMA FreshInv ==
  ASSUME ScanTypes, Fresh, verdict' \in {"none", "valid", "refused"},
         slots' \in [Depths -> Seq(KeyRefs)], used' = [d \in Depths |-> 0]
  PROVE ScanInv'
<1>1. ScanTypes'
  BY StrictAssumption DEF Fresh, ScanTypes, Places
<1>2. KeysInv'
  BY <1>1 DEF KeysInv, ScanTypes
<1>3. QED
  BY <1>1, <1>2 DEF ScanInv, Fresh, RestInv, PlaceInv

LEMMA InitScan == Init => ScanInv
<1> SUFFICES ASSUME Init PROVE ScanInv
  OBVIOUS
<1>1. ScanTypes
  BY StrictAssumption DEF Init, ScanTypes, Places
<1>2. KeysInv
  BY <1>1 DEF KeysInv, ScanTypes, Init
<1>3. QED
  BY <1>1, <1>2 DEF ScanInv, Init, RestInv, PlaceInv

LEMMA AnswerInv ==
  ASSUME ScanInv, NEW v \in {"valid", "refused"}, Answer(v)
  PROVE ScanInv'
<1>1. slots' \in [Depths -> Seq(KeyRefs)]
  BY DEF Answer, Cleared
<1>2. QED
  BY <1>1, FreshInv DEF Answer, Cleared, ScanInv

LEMMA TakeInv ==
  ASSUME ScanInv, NEW c \in Calls, Again(c)
  PROVE ScanInv'
<1>1. used' = [d \in Depths |-> 0]
  BY DEF Again, Take, ScanInv, RestInv, ScanTypes
<1>2. QED
  BY <1>1, FreshInv DEF Again, Take, ScanInv, ScanTypes

\* The token that is read: the document grows by one.
LEMMA DocGrows ==
  ASSUME ScanInv, NEW t \in Tokens, doc' = Append(doc, t)
  PROVE /\ doc' \in Seq(Tokens) /\ Len(doc') = Len(doc) + 1 /\ Len(doc) \in Nat
        /\ doc'[Len(doc) + 1] = t
        /\ \A i \in 1..Len(doc) : doc'[i] = doc[i] /\ i \in 1..Len(doc')
<1>1. doc \in Seq(Tokens)
  BY DEF ScanInv, ScanTypes
<1>2. QED
  BY <1>1

\* Keys noted stay in the document when it grows.
LEMMA KeysStay ==
  ASSUME ScanInv, NEW t \in Tokens, doc' = Append(doc, t), slots' = slots,
         used' \in [Depths -> 0..LinearKeys], \A d \in Depths : used'[d] \in {0, used[d]}
  PROVE KeysInv'
<1>1. \A i \in 1..Len(doc) : i \in 1..Len(doc')
  BY DocGrows
<1>2. SUFFICES ASSUME NEW d \in Depths
               PROVE used'[d] <= Len(slots[d]) /\ \A i \in 1..used'[d] : slots[d][i].at \in 1..Len(doc')
  BY DEF KeysInv
<1>3. used[d] \in Nat /\ slots[d] \in Seq(KeyRefs)
  BY StrictAssumption DEF ScanInv, ScanTypes
<1>4. used[d] <= Len(slots[d]) /\ \A i \in 1..used[d] : slots[d][i].at \in 1..Len(doc)
  BY DEF ScanInv, KeysInv
<1>5. CASE used'[d] = used[d]
  BY <1>1, <1>4, <1>5
<1>6. CASE used'[d] = 0
  BY <1>3, <1>6
<1>7. QED
  BY <1>5, <1>6

\* A reference to the token read, and what it stands for.
LEMMA KeyRefFacts ==
  ASSUME ScanInv, NEW t \in Tokens, doc' = Append(doc, t)
  PROVE /\ KeyRef(t) \in KeyRefs /\ KeyRef(t).at = Len(doc) + 1
        /\ (IF KeyRef(t).plain THEN doc'[KeyRef(t).at].raw ELSE KeyRef(t).decoded) = t.name
<1>1. Len(doc) \in Nat /\ doc'[Len(doc) + 1] = t
  BY DocGrows
<1>2. t.name \in Texts
  BY DEF Texts
<1>3. Undecoded \in Texts
  BY DEF Texts
<1>4. PICK n \in Nat : n = Len(doc) + 1
  BY <1>1
<1>5. PICK k : k = KeyRef(t)
  OBVIOUS
<1>6. CASE t.raw = t.name
  <2>1. k = [at |-> n, plain |-> TRUE, decoded |-> Undecoded]
    BY <1>4, <1>5, <1>6, Zenon DEF KeyRef
  <2>2. k \in KeyRefs /\ k.at = n
    BY <1>3, <2>1 DEF KeyRefs
  <2>3. k.plain = TRUE
    BY <2>1, Zenon
  <2>4. doc'[k.at].raw = t.name
    BY <1>1, <1>4, <1>6, <2>2
  <2>5. QED
    BY <1>4, <1>5, <2>2, <2>3, <2>4
<1>7. CASE t.raw # t.name
  <2>1. k = [at |-> n, plain |-> FALSE, decoded |-> t.name]
    BY <1>4, <1>5, <1>7, Zenon DEF KeyRef
  <2>2. k \in KeyRefs /\ k.at = n
    BY <1>2, <2>1 DEF KeyRefs
  <2>3. k.plain = FALSE /\ k.decoded = t.name
    BY <2>1, Zenon
  <2>4. QED
    BY <1>4, <1>5, <2>2, <2>3
<1>8. QED
  BY <1>6, <1>7

-----------------------------------------------------------------------------
\* Where a token that is not refused finds the scanner.
LEMMA PlaceOf ==
  ASSUME ScanInv, NEW t \in Tokens, verdict = "none", ~Refused(t), t.kind # "space"
  PROVE /\ t.kind \in Begins => expect \in {"value", "first"} /\ depth + 1 <= MaxDepth
        /\ t.kind \in Ends => expect \in {"first", "after"} /\ depth > 0 /\ t.kind = Bracket
        /\ t.kind = "comma" => expect = "after" /\ depth > 0
        /\ t.kind = "colon" => expect = "colon"
        /\ t.kind = "end" => expect = "end"
        /\ t.kind \in Scalars /\ ~Keying => expect \in {"value", "first"}
        /\ Keying /\ t.kind = "string" => depth > 0 /\ kind[depth] = "object" /\ ~Repeated(t)
<1>1. t.kind \in Looked /\ expect \in Places
  BY DEF Refused, Skipped, ScanInv, ScanTypes
<1>2. depth \in Nat /\ MaxDepth \in Nat
  BY StrictAssumption DEF ScanInv, ScanTypes
<1>3. expect \in {"first", "after"} => depth > 0
  BY DEF ScanInv, PlaceInv
<1>4. t.kind \in Begins => depth + 1 <= MaxDepth
  <2>1. t.kind \in Begins => ~TooDeep
    BY DEF Refused, Skipped
  <2>2. QED
    BY <1>2, <2>1 DEF TooDeep
<1>5. Keying /\ t.kind = "string" => ~Repeated(t)
  BY DEF Refused, Skipped
<1>6. CASE expect = "value"
  <2>1. t.kind \in Values
    BY <1>1, <1>2, <1>6 DEF Looked, Values, Scalars, Begins
  <2>2. t.kind \in Begins => depth + 1 <= MaxDepth
    BY <1>4
  <2>3. ~Keying
    BY <1>6 DEF Keying
  <2>4. QED
    BY <1>6, <2>1, <2>2, <2>3 DEF Values, Scalars, Begins, Ends
<1>7. CASE expect = "first"
  <2>1. t.kind \in (IF InObject THEN {"string"} ELSE Values) \cup {Bracket}
    BY <1>1, <1>7 DEF Looked
  <2>2. t.kind \in Ends => t.kind = Bracket
    BY <2>1 DEF Values, Scalars, Begins, Ends
  <2>3. t.kind \notin {"comma", "colon", "end"}
    BY <2>1 DEF Values, Scalars, Begins, Ends, Bracket
  <2>4. Keying => kind[depth] = "object"
    BY <1>7 DEF Keying, InObject
  <2>5. QED
    BY <1>3, <1>7, <1>4, <1>5, <2>2, <2>3, <2>4
<1>8. CASE expect = "key"
  <2>1. t.kind = "string"
    BY <1>1, <1>8 DEF Looked
  <2>2. QED
    BY <1>8, <2>1 DEF Keying, Refused, Skipped, Scalars, Begins, Ends, ScanInv, PlaceInv
<1>9. CASE expect = "colon"
  <2>1. t.kind = "colon"
    BY <1>1, <1>9 DEF Looked
  <2>2. QED
    BY <1>9, <2>1 DEF Scalars, Begins, Ends
<1>10. CASE expect = "after"
  <2>1. t.kind \in {"comma", Bracket}
    BY <1>1, <1>10 DEF Looked
  <2>2. QED
    BY <1>3, <1>10, <2>1 DEF Scalars, Bracket, Begins, Ends
<1>11. CASE expect = "end"
  <2>1. t.kind = "end"
    BY <1>1, <1>11 DEF Looked
  <2>2. QED
    BY <1>11, <2>1 DEF Scalars, Begins, Ends
<1>12. QED
  BY <1>1, <1>6, <1>7, <1>8, <1>9, <1>10, <1>11 DEF Places

\* What Key does to the slice of its depth.
LEMMA KeyNoted ==
  ASSUME ScanInv, NEW t \in Tokens, doc' = Append(doc, t), depth \in Depths, ~Mapped(depth)
  PROVE /\ used[depth] \in Nat /\ used[depth] + 1 <= LinearKeys
        /\ Noted(t) \in [Depths -> Seq(KeyRefs)]
        /\ \A d \in Depths : d # depth => Noted(t)[d] = slots[d]
        /\ Len(Noted(t)[depth]) = used[depth] + 1
        /\ \A i \in 1..used[depth] : Noted(t)[depth][i] = slots[depth][i]
        /\ Noted(t)[depth][used[depth] + 1] = KeyRef(t)
<1>1. PICK q \in Seq(KeyRefs), u \in Nat : q = slots[depth] /\ u = used[depth] /\ u <= Len(q) /\ u + 1 <= LinearKeys
  <2>1. slots[depth] \in Seq(KeyRefs) /\ used[depth] \in 0..LinearKeys /\ used[depth] # LinearKeys
    BY DEF ScanInv, ScanTypes, Mapped
  <2>2. used[depth] <= Len(slots[depth])
    BY DEF ScanInv, KeysInv
  <2>3. used[depth] \in Nat /\ used[depth] + 1 <= LinearKeys
    BY <2>1, StrictAssumption
  <2>4. QED
    BY <2>1, <2>2, <2>3
<1>2. KeyRef(t) \in KeyRefs
  BY KeyRefFacts
<1>3. PICK k \in KeyRefs : k = KeyRef(t)
  BY <1>2
<1>4. PICK p : p = SubSeq(q, 1, u)
  OBVIOUS
<1>5. PICK r : r = p \o <<k>>
  OBVIOUS
<1>6. /\ r \in Seq(KeyRefs) /\ Len(r) = u + 1 /\ r[u + 1] = KeyRef(t)
      /\ \A i \in 1..u : r[i] = q[i]
  <2>1. p \in Seq(KeyRefs) /\ Len(p) = u /\ \A i \in 1..u : p[i] = q[i]
    BY <1>1, <1>4
  <2>2. <<k>> \in Seq(KeyRefs) /\ Len(<<k>>) = 1 /\ <<k>>[1] = k
    OBVIOUS
  <2>3. QED
    BY <1>3, <1>5, <2>1, <2>2
<1>7. Noted(t) = [slots EXCEPT ![depth] = r]
  BY <1>1, <1>3, <1>4, <1>5 DEF Noted, Slot
<1>8. slots \in [Depths -> Seq(KeyRefs)]
  BY DEF ScanInv, ScanTypes
<1>9. Noted(t) \in [Depths -> Seq(KeyRefs)] /\ Noted(t)[depth] = r /\ \A d \in Depths : d # depth => Noted(t)[d] = slots[d]
  BY <1>6, <1>7, <1>8
<1>10. QED
  BY <1>1, <1>6, <1>9

\* The keys held at a depth are key references into the document.
LEMMA HeldFacts ==
  ASSUME ScanInv, NEW d \in Depths, NEW k \in Held(d)
  PROVE k \in KeyRefs /\ k.at \in 1..Len(doc)
<1>1. PICK i \in 1..used[d] : k = slots[d][i]
  BY DEF Held, Slot
<1>2. slots[d] \in Seq(KeyRefs) /\ used[d] \in Nat /\ used[d] <= Len(slots[d]) /\ slots[d][i].at \in 1..Len(doc)
  BY StrictAssumption DEF ScanInv, ScanTypes, KeysInv
<1>3. i \in 1..Len(slots[d])
  BY <1>2
<1>4. QED
  BY <1>1, <1>2, <1>3

\* A key decodes to a string.
LEMMA KeyStringType ==
  ASSUME ScanInv, NEW d \in Depths, NEW k \in Held(d)
  PROVE KeyString(k) \in Texts
<1>1. k \in KeyRefs /\ k.at \in 1..Len(doc)
  BY HeldFacts
<1>2. doc \in Seq(Tokens)
  BY DEF ScanInv, ScanTypes
<1>3. doc[k.at] \in Tokens
  BY <1>1, <1>2
<1>4. QED
  BY <1>1, <1>3 DEF KeyString, KeyRefs, Texts

LEMMA KeyInv ==
  ASSUME ScanInv, NEW t \in Tokens, Reading(t), ~Refused(t), doc' = Append(doc, t), Key(t)
  PROVE ScanInv'
<1>1. /\ verdict = "none" /\ verdict' = verdict /\ depth' = depth /\ kind' = kind /\ expect' = "colon"
      /\ t.kind = "string" /\ Keying
  BY DEF Reading, Key
<1>2. depth \in Depths /\ kind[depth] = "object"
  <2>1. depth > 0 /\ kind[depth] = "object"
    BY <1>1, PlaceOf
  <2>2. QED
    BY <2>1, StrictAssumption DEF ScanInv, ScanTypes, Depths
<1>3. doc' \in Seq(Tokens) /\ Len(doc') = Len(doc) + 1 /\ Len(doc) \in Nat /\ \A i \in 1..Len(doc) : i \in 1..Len(doc')
  BY DocGrows
<1>4. t.name \in Texts
  BY DEF Texts
<1>5. CASE Mapped(depth)
  <2>1. slots' = slots /\ used' = used /\ seen' = [seen EXCEPT ![depth] = @ \cup {t.name}]
    BY <1>5 DEF Key
  <2>2. seen' \in [Depths -> SUBSET Texts]
    BY <1>2, <1>4, <2>1 DEF ScanInv, ScanTypes
  <2>3. KeysInv'
    BY <2>1, KeysStay DEF ScanInv, ScanTypes
  <2>4. ScanTypes'
    BY <1>1, <1>3, <2>1, <2>2 DEF ScanInv, ScanTypes, Places
  <2>5. RestInv' /\ PlaceInv'
    BY <1>1, <1>2, StrictAssumption DEF RestInv, PlaceInv, Depths
  <2>6. QED
    BY <2>3, <2>4, <2>5 DEF ScanInv
<1>6. CASE ~Mapped(depth)
  <2>1. /\ slots' = Noted(t) /\ used' = [used EXCEPT ![depth] = @ + 1]
        /\ seen' = IF used[depth] + 1 = LinearKeys
                   THEN [seen EXCEPT ![depth] = {KeyString(k) : k \in Held(depth)} \cup {t.name}]
                   ELSE seen
    BY <1>6 DEF Key
  <2>2. /\ used[depth] \in Nat /\ used[depth] + 1 <= LinearKeys
        /\ Noted(t) \in [Depths -> Seq(KeyRefs)]
        /\ \A d \in Depths : d # depth => Noted(t)[d] = slots[d]
        /\ Len(Noted(t)[depth]) = used[depth] + 1
        /\ \A i \in 1..used[depth] : Noted(t)[depth][i] = slots[depth][i]
        /\ Noted(t)[depth][used[depth] + 1] = KeyRef(t)
    BY <1>2, <1>6, KeyNoted
  <2>3. used' \in [Depths -> 0..LinearKeys] /\ used'[depth] = used[depth] + 1 /\ \A d \in Depths : d # depth => used'[d] = used[d]
    BY <1>2, <2>1, <2>2, StrictAssumption DEF ScanInv, ScanTypes
  <2>4. seen' \in [Depths -> SUBSET Texts]
    <3>1. {KeyString(k) : k \in Held(depth)} \cup {t.name} \in SUBSET Texts
      BY <1>2, <1>4, KeyStringType
    <3>2. QED
      BY <1>2, <2>1, <3>1 DEF ScanInv, ScanTypes
  <2>5. ScanTypes'
    BY <1>1, <1>3, <2>1, <2>2, <2>3, <2>4 DEF ScanInv, ScanTypes, Places
  <2>6. KeysInv'
    <3>1. SUFFICES ASSUME NEW d \in Depths
                   PROVE used'[d] <= Len(slots'[d]) /\ \A i \in 1..used'[d] : slots'[d][i].at \in 1..Len(doc')
      BY DEF KeysInv
    <3>2. used[d] <= Len(slots[d]) /\ \A i \in 1..used[d] : slots[d][i].at \in 1..Len(doc)
      BY DEF ScanInv, KeysInv
    <3>3. CASE d # depth
      BY <1>3, <2>1, <2>2, <2>3, <3>2, <3>3
    <3>4. CASE d = depth
      <4>1. PICK u, r : u \in Nat /\ u = used[depth] /\ r = Noted(t)[depth]
        BY <2>2
      <4>2. Len(r) = u + 1 /\ used'[d] = u + 1 /\ slots'[d] = r
        BY <2>1, <2>2, <2>3, <3>4, <4>1
      <4>3. ASSUME NEW i \in 1..(u + 1) PROVE r[i].at \in 1..Len(doc')
        <5>1. CASE i = u + 1
          <6>1. KeyRef(t).at = Len(doc) + 1
            BY KeyRefFacts
          <6>2. r[i] = KeyRef(t)
            BY <2>2, <4>1, <5>1
          <6>3. QED
            BY <1>3, <6>1, <6>2
        <5>2. CASE i # u + 1
          <6>1. i \in 1..u
            BY <4>1, <5>2
          <6>2. r[i] = slots[depth][i]
            BY <2>2, <4>1, <6>1
          <6>3. QED
            BY <1>3, <3>2, <3>4, <4>1, <6>1, <6>2
        <5>3. QED
          BY <5>1, <5>2
      <4>4. QED
        BY <4>2, <4>3
    <3>5. QED
      BY <3>3, <3>4
  <2>7. RestInv' /\ PlaceInv'
    BY <1>1, <1>2, StrictAssumption DEF RestInv, PlaceInv, Depths
  <2>8. QED
    BY <2>5, <2>6, <2>7 DEF ScanInv
<1>7. QED
  BY <1>5, <1>6

-----------------------------------------------------------------------------
\* Tokens that note no key.
LEMMA PlainStepInv ==
  ASSUME ScanInv, NEW t \in Tokens, Reading(t), ~Refused(t), doc' = Append(doc, t),
         Space(t) \/ Colon(t) \/ Scalar(t) \/ Comma(t)
  PROVE ScanInv'
<1>1. /\ verdict = "none" /\ verdict' = verdict /\ depth' = depth /\ kind' = kind
      /\ slots' = slots /\ used' = used /\ seen' = seen
  BY DEF Reading, Space, Colon, Scalar, Comma
<1>2. doc' \in Seq(Tokens)
  BY DocGrows
<1>3. KeysInv'
  BY <1>1, KeysStay DEF ScanInv, ScanTypes
<1>4. expect' \in Places /\ PlaceInv'
  <2>1. CASE Space(t)
    BY <1>1, <2>1 DEF Space, ScanInv, ScanTypes, PlaceInv
  <2>2. CASE Colon(t)
    BY <2>2 DEF Colon, Places, PlaceInv
  <2>3. CASE Scalar(t)
    <3>1. expect' = IF depth = 0 THEN "end" ELSE "after"
      BY <2>3 DEF Scalar, Ended
    <3>2. depth \in Nat
      BY StrictAssumption DEF ScanInv, ScanTypes
    <3>3. QED
      BY <1>1, <3>1, <3>2 DEF Places, PlaceInv
  <2>4. CASE Comma(t)
    <3>1. depth > 0
      BY <1>1, <2>4, PlaceOf DEF Comma
    <3>2. expect' = IF InObject THEN "key" ELSE "value"
      BY <2>4 DEF Comma
    <3>3. QED
      BY <1>1, <3>1, <3>2 DEF Places, PlaceInv, InObject
  <2>5. QED
    BY <2>1, <2>2, <2>3, <2>4
<1>5. ScanTypes'
  BY <1>1, <1>2, <1>4 DEF ScanInv, ScanTypes
<1>6. QED
  BY <1>1, <1>3, <1>4, <1>5 DEF ScanInv, RestInv

\* The depth of a bracket.
LEMMA OpenDepth ==
  ASSUME ScanInv, NEW t \in Tokens, Reading(t), ~Refused(t), Open(t)
  PROVE depth + 1 \in Depths /\ depth \in Nat /\ \A d \in 1..depth : d \in Depths /\ d # depth + 1
<1>1. depth \in Nat /\ MaxDepth \in Nat
  BY StrictAssumption DEF ScanInv, ScanTypes
<1>2. t.kind \in Begins /\ verdict = "none"
  BY DEF Open, Reading
<1>3. t.kind # "space"
  BY <1>2 DEF Begins
<1>4. depth + 1 <= MaxDepth
  BY <1>2, <1>3, PlaceOf
<1>5. QED
  BY <1>1, <1>4 DEF Depths

LEMMA CloseDepth ==
  ASSUME ScanInv, NEW t \in Tokens, Reading(t), ~Refused(t), Close(t)
  PROVE /\ depth \in Depths /\ depth \in Nat /\ depth - 1 \in 0..MaxDepth
        /\ \A d \in 1..(depth - 1) : d \in Depths /\ d \in 1..depth /\ d # depth
<1>1. depth \in 0..MaxDepth /\ MaxDepth \in Nat
  BY StrictAssumption DEF ScanInv, ScanTypes
<1>2. t.kind \in Ends /\ verdict = "none"
  BY DEF Close, Reading
<1>3. t.kind # "space"
  BY <1>2 DEF Ends
<1>4. depth > 0
  BY <1>2, <1>3, PlaceOf
<1>5. QED
  BY <1>1, <1>4 DEF Depths

LEMMA BracketInv ==
  ASSUME ScanInv, NEW t \in Tokens, Reading(t), ~Refused(t), doc' = Append(doc, t), Open(t) \/ Close(t)
  PROVE ScanInv'
<1>1. verdict = "none" /\ verdict' = verdict /\ slots' = slots
  BY DEF Reading, Open, Close
<1>2. doc' \in Seq(Tokens)
  BY DocGrows
<1>3. /\ kind \in [Depths -> {"object", "array"}] /\ used \in [Depths -> 0..LinearKeys]
      /\ seen \in [Depths -> SUBSET Texts] /\ 0 \in 0..LinearKeys
  BY StrictAssumption DEF ScanInv, ScanTypes
<1>4. CASE Open(t)
  <2>1. depth + 1 \in Depths /\ depth \in Nat
    BY <1>4, OpenDepth
  <2>2. /\ depth' = depth + 1 /\ expect' = "first"
        /\ used' = [used EXCEPT ![depth + 1] = 0] /\ seen' = [seen EXCEPT ![depth + 1] = {}]
    BY <1>4 DEF Open
  <2>3. kind' \in [Depths -> {"object", "array"}]
    BY <1>3, <1>4, <2>1 DEF Open
  <2>4. used' \in [Depths -> 0..LinearKeys] /\ \A d \in Depths : used'[d] \in {0, used[d]}
    BY <1>3, <2>1, <2>2
  <2>5. seen' \in [Depths -> SUBSET Texts]
    BY <1>3, <2>1, <2>2
  <2>6. KeysInv'
    BY <1>1, <2>4, KeysStay
  <2>7. ScanTypes'
    BY <1>1, <1>2, <2>1, <2>2, <2>3, <2>4, <2>5, StrictAssumption DEF ScanInv, ScanTypes, Places, Depths
  <2>8. PlaceInv'
    BY <2>1, <2>2 DEF PlaceInv
  <2>9. QED
    BY <1>1, <2>6, <2>7, <2>8 DEF ScanInv, RestInv
<1>5. CASE Close(t)
  <2>1. depth \in Depths /\ depth \in Nat /\ depth - 1 \in 0..MaxDepth
    BY <1>5, CloseDepth
  <2>2. /\ depth' = depth - 1 /\ expect' = (IF depth - 1 = 0 THEN "end" ELSE "after")
        /\ used' = [used EXCEPT ![depth] = 0] /\ seen' = seen /\ kind' = kind
    BY <1>5 DEF Close, Ended
  <2>3. used' \in [Depths -> 0..LinearKeys] /\ \A d \in Depths : used'[d] \in {0, used[d]}
    BY <1>3, <2>1, <2>2
  <2>4. KeysInv'
    BY <1>1, <2>3, KeysStay
  <2>5. ScanTypes'
    BY <1>1, <1>2, <1>3, <2>1, <2>2, <2>3 DEF ScanInv, ScanTypes, Places
  <2>6. PlaceInv'
    BY <2>1, <2>2 DEF PlaceInv
  <2>7. QED
    BY <1>1, <2>4, <2>5, <2>6 DEF ScanInv, RestInv
<1>6. QED
  BY <1>4, <1>5

\* Every step keeps the invariant.
LEMMA NextScan == ScanInv /\ [Next]_vars => ScanInv'
<1> SUFFICES ASSUME ScanInv, [Next]_vars PROVE ScanInv'
  OBVIOUS
<1>1. ASSUME NEW t \in Tokens, Scan(t) PROVE ScanInv'
  BY <1>1, KeyInv, PlainStepInv, BracketInv DEF Scan
<1>2. ASSUME NEW t \in Tokens, Accept(t) \/ Refuse(t) PROVE ScanInv'
  BY <1>2, AnswerInv DEF Accept, Refuse
<1>3. ASSUME NEW c \in Calls, Again(c) PROVE ScanInv'
  BY <1>3, TakeInv
<1>4. CASE UNCHANGED vars
  BY <1>4 DEF vars, ScanInv, ScanTypes, KeysInv, RestInv, PlaceInv
<1>5. QED
  BY <1>1, <1>2, <1>3, <1>4 DEF Next

LEMMA ScanInvariant == Spec => []ScanInv
BY InitScan, NextScan, PTL DEF Spec

-----------------------------------------------------------------------------
\* The keys of a depth that a token leaves alone.
LEMMA NamesKept ==
  ASSUME ScanInv, NEW t \in Tokens, doc' = Append(doc, t), NEW d \in Depths,
         slots'[d] = slots[d], used'[d] = used[d], seen'[d] = seen[d]
  PROVE Names(d)' = Names(d)
<1>1. \A i \in 1..Len(doc) : doc'[i] = doc[i]
  BY DocGrows
<1>2. Held(d)' = Held(d) /\ Mapped(d)' = Mapped(d)
  BY DEF Held, Slot, Mapped
<1>3. \A k \in Held(d) : KeyString(k)' = KeyString(k)
  BY <1>1, HeldFacts DEF KeyString
<1>4. QED
  BY <1>2, <1>3 DEF Names

\* A depth just entered has no keys.
LEMMA NoNames ==
  ASSUME NEW d \in Depths, used'[d] = 0
  PROVE Names(d)' = {}
<1>1. Held(d)' = {} /\ ~Mapped(d)'
  BY StrictAssumption DEF Held, Mapped
<1>2. QED
  BY <1>1 DEF Names

\* Key adds its name, on the slice, on the map and where the map is made.
LEMMA NameAdded ==
  ASSUME ScanInv, NEW t \in Tokens, doc' = Append(doc, t), Key(t), NEW e \in Depths, e = depth
  PROVE /\ Names(e)' = Names(e) \cup {t.name}
        /\ \A d \in Depths : d # e => slots'[d] = slots[d] /\ used'[d] = used[d] /\ seen'[d] = seen[d]
<1>1. /\ used \in [Depths -> 0..LinearKeys] /\ seen \in [Depths -> SUBSET Texts]
  BY DEF ScanInv, ScanTypes
<1>2. CASE Mapped(depth)
  <2>1. slots' = slots /\ used' = used /\ seen' = [seen EXCEPT ![depth] = @ \cup {t.name}]
    BY <1>2 DEF Key
  <2>2. seen'[e] = seen[e] \cup {t.name} /\ \A d \in Depths : d # e => seen'[d] = seen[d]
    BY <1>1, <2>1
  <2>3. Mapped(e) /\ Mapped(e)'
    BY <1>2, <2>1 DEF Mapped
  <2>4. QED
    BY <2>1, <2>2, <2>3 DEF Names
<1>3. CASE ~Mapped(depth)
  <2>1. /\ slots' = Noted(t) /\ used' = [used EXCEPT ![depth] = @ + 1]
        /\ seen' = IF used[depth] + 1 = LinearKeys
                   THEN [seen EXCEPT ![depth] = {KeyString(k) : k \in Held(depth)} \cup {t.name}]
                   ELSE seen
    BY <1>3 DEF Key
  <2>2. /\ used[depth] \in Nat /\ used[depth] + 1 <= LinearKeys
        /\ Noted(t) \in [Depths -> Seq(KeyRefs)]
        /\ \A d \in Depths : d # depth => Noted(t)[d] = slots[d]
        /\ Len(Noted(t)[depth]) = used[depth] + 1
        /\ \A i \in 1..used[depth] : Noted(t)[depth][i] = slots[depth][i]
        /\ Noted(t)[depth][used[depth] + 1] = KeyRef(t)
    BY <1>3, KeyNoted
  <2>3. used'[e] = used[e] + 1 /\ \A d \in Depths : d # e => used'[d] = used[d]
    BY <1>1, <2>1
  <2>4. /\ used[e] + 1 = LinearKeys => seen'[e] = {KeyString(k) : k \in Held(e)} \cup {t.name}
        /\ \A d \in Depths : d # e => seen'[d] = seen[d]
    BY <1>1, <2>1
  <2>5. Names(e) = {KeyString(k) : k \in Held(e)}
    BY <1>3 DEF Names
  <2>6. CASE used[e] + 1 = LinearKeys
    <3>1. Mapped(e)'
      BY <2>3, <2>6 DEF Mapped
    <3>2. QED
      BY <2>1, <2>2, <2>3, <2>4, <2>5, <2>6, <3>1 DEF Names
  <2>7. CASE used[e] + 1 # LinearKeys
    <3>1. ~Mapped(e)'
      BY <2>3, <2>7 DEF Mapped
    <3>2. Held(e)' = Held(e) \cup {KeyRef(t)}
      <4>1. PICK u \in Nat : u = used[e]
        BY <2>2
      <4>2. Held(e) = {slots[e][i] : i \in 1..u} /\ Held(e)' = {Noted(t)[e][i] : i \in 1..(u + 1)}
        BY <2>1, <2>3, <4>1 DEF Held, Slot
      <4>3. 1..(u + 1) = (1..u) \cup {u + 1}
        OBVIOUS
      <4>4. PICK r, q : r = Noted(t)[e] /\ q = slots[e]
        OBVIOUS
      <4>5. r[u + 1] = KeyRef(t) /\ \A i \in 1..u : r[i] = q[i]
        BY <2>2, <4>1, <4>4
      <4>6. {r[i] : i \in 1..(u + 1)} = {q[i] : i \in 1..u} \cup {KeyRef(t)}
        BY <4>3, <4>5
      <4>7. QED
        BY <4>2, <4>4, <4>6
    <3>3. \A k \in Held(e) : KeyString(k)' = KeyString(k)
      <4>1. \A i \in 1..Len(doc) : doc'[i] = doc[i]
        BY DocGrows
      <4>2. QED
        BY <4>1, HeldFacts DEF KeyString
    <3>4. PICK k : k = KeyRef(t)
      OBVIOUS
    <3>5. KeyString(k)' = t.name
      BY <3>4, KeyRefFacts DEF KeyString
    <3>6. Names(e)' = {KeyString(j)' : j \in Held(e)'}
      BY <3>1 DEF Names
    <3>7. QED
      BY <2>1, <2>2, <2>3, <2>4, <2>5, <3>2, <3>3, <3>4, <3>5, <3>6
  <2>8. QED
    BY <2>6, <2>7
<1>4. QED
  BY <1>2, <1>3

-----------------------------------------------------------------------------
(***************************************************************************)
(* The scanner beside the token walk.                                      *)
(***************************************************************************)
LevelOf(d) == [kind |-> kind[d], seen |-> IF kind[d] = "object" THEN Names(d) ELSE {}]

WalkExpect == IF Scanning THEN expect ELSE "value"

\* The levels of the walk while a document is scanned.
LEMMA LevelsFacts ==
  ASSUME ScanInv, verdict = "none"
  PROVE /\ Levels = [d \in 1..depth |-> LevelOf(d)] /\ Len(Levels) = depth /\ depth \in Nat
        /\ depth > 0 => Levels[Len(Levels)] = LevelOf(depth)
        /\ Levels = <<>> <=> depth = 0
        /\ WalkExpect = expect
<1>1. depth \in Nat
  BY StrictAssumption DEF ScanInv, ScanTypes
<1>2. Levels = [d \in 1..depth |-> LevelOf(d)] /\ WalkExpect = expect
  BY DEF Levels, Scanning, LevelOf, WalkExpect
<1>3. PICK n, f : n \in Nat /\ n = depth /\ f = [d \in 1..n |-> LevelOf(d)]
  BY <1>1
<1>4. Len(f) = n /\ (n > 0 => f[n] = LevelOf(n)) /\ (f = <<>> <=> n = 0)
  BY <1>3
<1>5. QED
  BY <1>2, <1>3, <1>4

\* A scanner at rest is a walk that has not begun.
LEMMA RestLevels ==
  ASSUME ScanInv, verdict # "none" \/ (depth = 0 /\ expect = "value")
  PROVE Levels = <<>> /\ WalkExpect = "value"
<1>1. CASE verdict # "none"
  BY <1>1 DEF Levels, WalkExpect, Scanning
<1>2. CASE verdict = "none"
  BY <1>2, LevelsFacts
<1>3. QED
  BY <1>1, <1>2

\* What the walk admits and whether it reads a key, in the scanner's terms.
LEMMA WalkPlace ==
  ASSUME ScanInv, verdict = "none"
  PROVE /\ Walk!Keying <=> Keying
        /\ \A t : Keying => (t.name \in Levels[Len(Levels)].seen <=> Repeated(t))
        /\ Looked \subseteq Walk!Admitted
        /\ Looked = Walk!Admitted \/ (depth = 0 /\ call \in {"Fields", "Elements"} /\ expect = "value")
<1>1. /\ Levels = [d \in 1..depth |-> LevelOf(d)] /\ Len(Levels) = depth /\ depth \in Nat
      /\ depth > 0 => Levels[Len(Levels)] = LevelOf(depth)
      /\ WalkExpect = expect
  BY LevelsFacts
<1>2. /\ expect \in Places
      /\ expect \in {"first", "key", "colon", "after"} => depth > 0
      /\ expect \in {"key", "colon"} => kind[depth] = "object"
  BY DEF ScanInv, ScanTypes, PlaceInv
<1>3. depth > 0 => Walk!Inside = kind[depth]
  BY <1>1 DEF Walk!Inside, LevelOf
<1>4. expect \in {"first", "after"} => Walk!Bracket = Bracket /\ (InObject <=> Walk!Inside = "object")
  BY <1>2, <1>3 DEF Walk!Bracket, Bracket, InObject
<1>5. Walk!Keying <=> Keying
  BY <1>1, <1>4 DEF Walk!Keying, Keying, WalkExpect
<1>6. ASSUME NEW t, Keying PROVE t.name \in Levels[Len(Levels)].seen <=> Repeated(t)
  <2>1. depth > 0 /\ kind[depth] = "object"
    BY <1>2, <1>6 DEF Keying, InObject
  <2>2. Levels[Len(Levels)].seen = Names(depth)
    BY <1>1, <2>1 DEF LevelOf
  <2>3. t.name \in Names(depth) <=> Repeated(t)
    BY DEF Names, Repeated, SameKey
  <2>4. QED
    BY <2>2, <2>3
<1>7. Values = Walk!Values
  BY DEF Values, Scalars, Begins, Walk!Values, Walk!Scalars, Walk!Begins
<1>8. Looked = Walk!Admitted \/ (Looked \subseteq Walk!Admitted /\ depth = 0 /\ call \in {"Fields", "Elements"} /\ expect = "value")
  <2>1. CASE expect = "value"
    <3>1. Walk!Admitted = Values
      BY <1>1, <1>7, <2>1 DEF Walk!Admitted, WalkExpect
    <3>2. CASE depth = 0 /\ call \in {"Fields", "Elements"}
      <4>1. Looked \in {{"beginObject"}, {"beginArray"}}
        BY <2>1, <3>2 DEF Looked
      <4>2. QED
        BY <2>1, <3>1, <3>2, <4>1 DEF Values, Begins
    <3>3. CASE ~(depth = 0 /\ call \in {"Fields", "Elements"})
      BY <1>1, <2>1, <3>1, <3>3 DEF Looked
    <3>4. QED
      BY <3>2, <3>3
  <2>2. CASE expect = "first"
    BY <1>1, <1>4, <1>7, <2>2 DEF Looked, Walk!Admitted, WalkExpect
  <2>3. CASE expect = "key"
    BY <1>1, <2>3 DEF Looked, Walk!Admitted, WalkExpect
  <2>4. CASE expect = "colon"
    BY <1>1, <2>4 DEF Looked, Walk!Admitted, WalkExpect
  <2>5. CASE expect = "after"
    BY <1>1, <1>4, <2>5 DEF Looked, Walk!Admitted, WalkExpect
  <2>6. CASE expect = "end"
    BY <1>1, <2>6 DEF Looked, Walk!Admitted, WalkExpect
  <2>7. QED
    BY <1>2, <2>1, <2>2, <2>3, <2>4, <2>5, <2>6 DEF Places
<1>9. QED
  BY <1>5, <1>6, <1>8

\* What the scanner does not refuse, the walk does not.
LEMMA NotRefused ==
  ASSUME ScanInv, NEW t \in Tokens, verdict = "none", ~Refused(t), t.kind # "space"
  PROVE ~Walk!Refuses(t)
<1>1. /\ t.kind \in Looked /\ ~(t.kind = "number" /\ ~Parsed(t))
      /\ ~(Keying /\ t.kind = "string" /\ Repeated(t))
  BY DEF Refused, Skipped
<1>2. t.kind \in Walk!Admitted /\ (Walk!Keying <=> Keying) /\ (Keying => (t.name \in Levels[Len(Levels)].seen <=> Repeated(t)))
  BY <1>1, WalkPlace
<1>3. ~(t.kind = "number" /\ t.name = "overflows")
  BY <1>1, StrictAssumption DEF Parsed
<1>4. QED
  BY <1>1, <1>2, <1>3 DEF Walk!Refuses

\* The levels after a token.
LEMMA LevelsNext ==
  ASSUME verdict' = "none"
  PROVE Levels' = [d \in 1..depth' |-> LevelOf(d)'] /\ WalkExpect' = expect'
BY DEF Levels, Scanning, LevelOf, WalkExpect

\* Levels whose keys and kind a token leaves alone.
LEMMA LevelKept ==
  ASSUME ScanInv, NEW t \in Tokens, doc' = Append(doc, t), NEW d \in Depths, kind'[d] = kind[d],
         slots'[d] = slots[d], used'[d] = used[d], seen'[d] = seen[d]
  PROVE LevelOf(d)' = LevelOf(d)
BY NamesKept DEF LevelOf

\* Tokens that note no key leave the levels as they are.
LEMMA SameLevels ==
  ASSUME ScanInv, NEW t \in Tokens, doc' = Append(doc, t), verdict = "none",
         UNCHANGED <<verdict, depth, kind, slots, used, seen>>
  PROVE Levels' = Levels /\ WalkExpect' = expect'
<1>1. Levels = [d \in 1..depth |-> LevelOf(d)]
  BY LevelsFacts
<1>2. Levels' = [d \in 1..depth |-> LevelOf(d)'] /\ WalkExpect' = expect'
  BY LevelsNext
<1>3. \A d \in 1..depth : d \in Depths
  BY StrictAssumption DEF ScanInv, ScanTypes, Depths
<1>4. \A d \in 1..depth : LevelOf(d)' = LevelOf(d)
  BY <1>3, LevelKept
<1>5. QED
  BY <1>1, <1>2, <1>4

\* An open level, and the same level with one more name seen: adding the name leaves the kind alone.
OpenLevel(k, names) == [kind |-> k, seen |-> names]
Added(level, x) == [level EXCEPT !.seen = @ \cup {x}]

LEMMA SeenAdded ==
  ASSUME NEW k, NEW names, NEW x
  PROVE Added(OpenLevel(k, names), x) = OpenLevel(k, names \cup {x})
<1>1. PICK r : r = OpenLevel(k, names)
  OBVIOUS
<1>2. Added(r, x) = OpenLevel(k, names \cup {x})
  BY <1>1, SMT DEF Added, OpenLevel
<1>3. QED
  BY <1>1, <1>2

LEMMA KeyWalks ==
  ASSUME ScanInv, NEW t \in Tokens, doc' = Append(doc, t), Reading(t), ~Refused(t), Key(t)
  PROVE Walk!Key(t)
<1>1. /\ verdict = "none" /\ verdict' = verdict /\ depth' = depth /\ kind' = kind /\ expect' = "colon"
      /\ t.kind = "string" /\ Keying
  BY DEF Reading, Key
<1>2. PICK n \in Depths : n = depth /\ kind[n] = "object" /\ n \in 1..n
  <2>1. depth > 0 /\ kind[depth] = "object"
    BY <1>1, PlaceOf
  <2>2. QED
    BY <2>1, StrictAssumption DEF ScanInv, ScanTypes, Depths
<1>3. /\ Levels = [d \in 1..depth |-> LevelOf(d)] /\ Len(Levels) = depth
      /\ (Walk!Keying <=> Keying)
  BY <1>1, LevelsFacts, WalkPlace
<1>4. Levels' = [d \in 1..depth |-> LevelOf(d)'] /\ WalkExpect' = "colon"
  BY <1>1, LevelsNext
<1>5. /\ Names(n)' = Names(n) \cup {t.name}
      /\ \A d \in Depths : d # n => slots'[d] = slots[d] /\ used'[d] = used[d] /\ seen'[d] = seen[d]
  BY <1>2, NameAdded
<1>6. \A d \in 1..n : d # n => LevelOf(d)' = LevelOf(d)
  <2>1. \A d \in 1..n : d \in Depths
    BY <1>2, StrictAssumption DEF Depths
  <2>2. QED
    BY <1>1, <1>5, <2>1, LevelKept
<1>7. LevelOf(n)' = [LevelOf(n) EXCEPT !.seen = @ \cup {t.name}]
  <2>1. LevelOf(n) = OpenLevel("object", Names(n)) /\ LevelOf(n)' = OpenLevel("object", Names(n)')
    BY <1>1, <1>2 DEF LevelOf, OpenLevel
  <2>2. LevelOf(n)' = Added(LevelOf(n), t.name)
    BY <1>5, <2>1, SeenAdded
  <2>3. QED
    BY <2>2, Zenon DEF Added
<1>8. Levels' = [Levels EXCEPT ![Len(Levels)].seen = @ \cup {t.name}]
  <2>1. PICK f, g : f = Levels /\ g = Levels'
    OBVIOUS
  <2>2. f = [d \in 1..n |-> LevelOf(d)] /\ g = [d \in 1..n |-> LevelOf(d)']
    BY <1>2, <1>3, <1>4, <2>1
  <2>3. g = [f EXCEPT ![n] = [f[n] EXCEPT !.seen = @ \cup {t.name}]]
    BY <1>2, <1>6, <1>7, <2>2
  <2>4. QED
    BY <1>2, <1>3, <2>1, <2>3
<1>9. QED
  BY <1>1, <1>3, <1>4, <1>8 DEF Walk!Key, WalkExpect

LEMMA ScalarWalks ==
  ASSUME ScanInv, NEW t \in Tokens, doc' = Append(doc, t), Reading(t), ~Refused(t), Scalar(t)
  PROVE Walk!Scalar(t)
<1>1. /\ verdict = "none" /\ UNCHANGED <<verdict, depth, kind, slots, used, seen>>
      /\ t.kind \in Scalars /\ ~Keying /\ expect' = IF depth = 0 THEN "end" ELSE "after"
  BY DEF Reading, Scalar, Ended
<1>2. Levels' = Levels /\ WalkExpect' = expect' /\ (Levels = <<>> <=> depth = 0) /\ (Walk!Keying <=> Keying)
  BY <1>1, SameLevels, LevelsFacts, WalkPlace
<1>3. QED
  BY <1>1, <1>2 DEF Walk!Scalar, Walk!Outside, Walk!Scalars, Scalars, WalkExpect

LEMMA SeparatorWalks ==
  ASSUME ScanInv, NEW t \in Tokens, doc' = Append(doc, t), Reading(t), ~Refused(t), Colon(t) \/ Comma(t)
  PROVE Walk!Separator(t)
<1>1. /\ verdict = "none" /\ UNCHANGED <<verdict, depth, kind, slots, used, seen>>
  BY DEF Reading, Colon, Comma
<1>2. Levels' = Levels /\ WalkExpect' = expect'
  BY <1>1, SameLevels
<1>3. CASE Colon(t)
  BY <1>2, <1>3 DEF Colon, Walk!Separator, WalkExpect
<1>4. CASE Comma(t)
  <2>1. t.kind = "comma" /\ expect' = IF InObject THEN "key" ELSE "value"
    BY <1>4 DEF Comma
  <2>2. depth > 0 /\ depth \in Depths
    <3>1. depth > 0
      BY <1>1, <2>1, PlaceOf
    <3>2. QED
      BY <3>1, StrictAssumption DEF ScanInv, ScanTypes, Depths
  <2>3. Walk!Inside = kind[depth] /\ kind[depth] \in {"object", "array"}
    <3>1. Levels[Len(Levels)] = LevelOf(depth)
      BY <1>1, <2>2, LevelsFacts
    <3>2. QED
      BY <2>2, <3>1 DEF Walk!Inside, LevelOf, ScanInv, ScanTypes
  <2>4. expect' = IF Walk!Inside = "array" THEN "value" ELSE "key"
    BY <2>1, <2>2, <2>3 DEF InObject
  <2>5. QED
    BY <1>2, <2>1, <2>4 DEF Walk!Separator, WalkExpect
<1>5. QED
  BY <1>3, <1>4

LEMMA OpenWalks ==
  ASSUME ScanInv, NEW t \in Tokens, doc' = Append(doc, t), Reading(t), ~Refused(t), Open(t)
  PROVE Walk!Open(t)
<1>1. /\ verdict = "none" /\ verdict' = verdict /\ depth' = depth + 1 /\ expect' = "first"
      /\ slots' = slots /\ t.kind \in Begins
  BY DEF Reading, Open
<1>2. PICK n \in Nat : n = depth /\ n + 1 \in Depths /\ \A d \in 1..n : d \in Depths /\ d # n + 1
  BY OpenDepth
<1>3. /\ kind \in [Depths -> {"object", "array"}] /\ used \in [Depths -> 0..LinearKeys] /\ seen \in [Depths -> SUBSET Texts]
  BY DEF ScanInv, ScanTypes
<1>4. /\ used' = [used EXCEPT ![n + 1] = 0] /\ seen' = [seen EXCEPT ![n + 1] = {}]
      /\ kind' = [kind EXCEPT ![n + 1] = IF t.kind = "beginObject" THEN "object" ELSE "array"]
  BY <1>2 DEF Open
<1>5. \A d \in 1..n : LevelOf(d)' = LevelOf(d)
  <2>1. \A d \in 1..n : kind'[d] = kind[d] /\ used'[d] = used[d] /\ seen'[d] = seen[d]
    BY <1>2, <1>3, <1>4
  <2>2. QED
    BY <1>1, <1>2, <2>1, LevelKept
<1>6. LevelOf(n + 1)' = [kind |-> IF t.kind = "beginObject" THEN "object" ELSE "array", seen |-> {}]
  <2>1. PICK m \in Depths : m = n + 1
    BY <1>2
  <2>2. used'[m] = 0 /\ kind'[m] = IF t.kind = "beginObject" THEN "object" ELSE "array"
    BY <1>3, <1>4, <2>1
  <2>3. Names(m)' = {}
    BY <2>2, NoNames
  <2>4. LevelOf(m)' = [kind |-> IF t.kind = "beginObject" THEN "object" ELSE "array", seen |-> {}]
    BY <2>2, <2>3 DEF LevelOf
  <2>5. QED
    BY <2>1, <2>4
<1>7. Levels' = Append(Levels, [kind |-> IF t.kind = "beginObject" THEN "object" ELSE "array", seen |-> {}])
  <2>1. Levels = [d \in 1..n |-> LevelOf(d)] /\ Levels' = [d \in 1..(n + 1) |-> LevelOf(d)']
    BY <1>1, <1>2, LevelsFacts, LevelsNext
  <2>2. PICK f, g, l : /\ f = Levels /\ g = Levels'
                       /\ l = [kind |-> IF t.kind = "beginObject" THEN "object" ELSE "array", seen |-> {}]
    OBVIOUS
  <2>3. /\ f = [d \in 1..n |-> LevelOf(d)] /\ Len(f) = n
        /\ g = [d \in 1..(n + 1) |-> LevelOf(d)']
    BY <2>1, <2>2
  <2>4. \A d \in 1..(n + 1) : g[d] = IF d = n + 1 THEN l ELSE f[d]
    BY <1>5, <1>6, <2>2, <2>3
  <2>5. Append(f, l) = [d \in 1..(n + 1) |-> IF d = n + 1 THEN l ELSE f[d]]
    BY <2>3
  <2>6. g = [d \in 1..(n + 1) |-> g[d]]
    BY <2>3
  <2>7. g = Append(f, l)
    BY <2>4, <2>5, <2>6, Zenon
  <2>8. QED
    BY <2>2, <2>7
<1>8. QED
  BY <1>1, <1>7, LevelsNext DEF Walk!Open, Walk!Begins, Begins, WalkExpect

LEMMA CloseWalks ==
  ASSUME ScanInv, NEW t \in Tokens, doc' = Append(doc, t), Reading(t), ~Refused(t), Close(t)
  PROVE Walk!Close(t)
<1>1. /\ verdict = "none" /\ verdict' = verdict /\ depth' = depth - 1 /\ t.kind \in Ends
      /\ slots' = slots /\ seen' = seen /\ kind' = kind
      /\ expect' = IF depth - 1 = 0 THEN "end" ELSE "after"
  BY DEF Reading, Close, Ended
<1>2. PICK n \in Nat : n = depth /\ n > 0 /\ n \in Depths /\ \A d \in 1..(n - 1) : d \in Depths /\ d # n
  <2>1. /\ depth \in Depths /\ depth \in Nat
        /\ \A d \in 1..(depth - 1) : d \in Depths /\ d # depth
    BY CloseDepth
  <2>2. depth > 0
    BY <2>1, StrictAssumption DEF Depths
  <2>3. QED
    BY <2>1, <2>2
<1>3. used \in [Depths -> 0..LinearKeys] /\ used' = [used EXCEPT ![n] = 0]
  BY <1>2 DEF ScanInv, ScanTypes, Close
<1>4. \A d \in 1..(n - 1) : LevelOf(d)' = LevelOf(d)
  <2>1. \A d \in 1..(n - 1) : used'[d] = used[d]
    BY <1>2, <1>3
  <2>2. QED
    BY <1>1, <1>2, <2>1, LevelKept
<1>5. PICK f, g : f = Levels /\ g = Levels'
  OBVIOUS
<1>6. /\ f = [d \in 1..n |-> LevelOf(d)] /\ Len(f) = n
      /\ g = [d \in 1..(n - 1) |-> LevelOf(d)'] /\ WalkExpect' = expect'
  BY <1>1, <1>2, <1>5, LevelsFacts, LevelsNext
<1>7. g = SubSeq(f, 1, n - 1) /\ (g = <<>> <=> n - 1 = 0)
  <2>1. \A d \in 1..(n - 1) : LevelOf(d)' = f[d]
    BY <1>2, <1>4, <1>6
  <2>2. g = [d \in 1..(n - 1) |-> f[d]]
    BY <1>6, <2>1
  <2>3. PICK m \in Nat : m = n - 1
    BY <1>2
  <2>4. f \in Seq({LevelOf(d) : d \in 1..n}) /\ m <= Len(f)
    BY <1>6, <2>3
  <2>5. SubSeq(f, 1, m) = [d \in 1..m |-> f[d]]
    BY <2>4
  <2>6. ([d \in 1..m |-> f[d]] = <<>>) <=> m = 0
    OBVIOUS
  <2>7. QED
    BY <2>2, <2>3, <2>5, <2>6
<1>8. Levels' = Walk!Front(Levels)
  BY <1>5, <1>6, <1>7 DEF Walk!Front
<1>9. WalkExpect' = Walk!Outside(Levels')
  BY <1>1, <1>2, <1>5, <1>6, <1>7 DEF Walk!Outside
<1>10. t.kind \in Walk!Ends
  BY <1>1 DEF Walk!Ends, Ends
<1>11. QED
  BY <1>8, <1>9, <1>10 DEF Walk!Close, WalkExpect

(***************************************************************************)
(* The scanner admits nothing the token walk refuses: for any tokens, any  *)
(* depth, any number of keys compared one by one, and a scanner that any   *)
(* documents have been through.                                            *)
(***************************************************************************)
THEOREM ScannerWalks == Spec => WalkImplemented
<1>1. Init => Walk!Init
  <2> SUFFICES ASSUME Init PROVE Walk!Init
    OBVIOUS
  <2>1. ScanInv /\ verdict = "none" /\ depth = 0 /\ expect = "value"
    BY InitScan DEF Init
  <2>2. Levels = <<>> /\ WalkExpect = "value"
    BY <2>1, RestLevels
  <2>3. QED
    BY <2>1, <2>2 DEF Walk!Init, WalkExpect
<1>2. ScanInv /\ ScanInv' /\ [Next]_vars => [Walk!Next]_Walk!vars
  <2> SUFFICES ASSUME ScanInv, ScanInv', [Next]_vars PROVE [Walk!Next]_Walk!vars
    OBVIOUS
  <2>1. ASSUME NEW t \in Tokens, Scan(t) PROVE Walk!Next \/ UNCHANGED Walk!vars
    <3>1. doc' = Append(doc, t) /\ Reading(t) /\ ~Refused(t) /\ verdict = "none"
      BY <2>1 DEF Scan, Reading
    <3>2. CASE Space(t)
      <4>1. UNCHANGED <<verdict, depth, kind, slots, used, seen, expect>>
        BY <3>2 DEF Space
      <4>2. Levels' = Levels /\ WalkExpect' = WalkExpect
        BY <3>1, <4>1, SameLevels, LevelsFacts
      <4>3. QED
        BY <4>1, <4>2 DEF Walk!vars, WalkExpect
    <3>3. ASSUME ~Space(t) PROVE Walk!Token(t)
      <4>1. Walk!Key(t) \/ Walk!Scalar(t) \/ Walk!Open(t) \/ Walk!Close(t) \/ Walk!Separator(t)
        BY <2>1, <3>1, <3>3, KeyWalks, ScalarWalks, OpenWalks, CloseWalks, SeparatorWalks DEF Scan
      <4>2. verdict' = verdict
        BY <2>1 DEF Scan, Space, Key, Colon, Scalar, Open, Close, Comma
      <4>3. t.kind # "space"
        BY <2>1, <3>3 DEF Scan, Key, Colon, Scalar, Open, Close, Comma, Scalars, Begins, Ends
      <4>4. ~Walk!Refuses(t)
        BY <3>1, <4>3, NotRefused
      <4>5. QED
        BY <3>1, <4>1, <4>2, <4>4 DEF Walk!Token
    <3>4. QED
      BY <3>2, <3>3 DEF Walk!Next
  <2>2. ASSUME NEW t \in Tokens, NEW v \in {"valid", "refused"}, Reading(t), Answer(v)
        PROVE Walk!End(v)
    <3>1. verdict = "none" /\ verdict' = v
      BY <2>2 DEF Reading, Answer
    <3>2. Levels' = <<>> /\ WalkExpect' = "value"
      BY <3>1 DEF Levels, WalkExpect, Scanning
    <3>3. QED
      BY <3>1, <3>2 DEF Walk!End, WalkExpect
  <2>3. ASSUME NEW t \in Tokens, Accept(t) PROVE Walk!Next
    <3>1. t.kind = "end" /\ verdict = "none" /\ ~Refused(t) /\ Reading(t) /\ Answer("valid")
      BY <2>3 DEF Accept, Reading
    <3>2. expect = "end"
      BY <3>1, PlaceOf
    <3>3. WalkExpect = "end"
      BY <3>1, <3>2 DEF WalkExpect, Scanning
    <3>4. Walk!End("valid")
      BY <2>2, <3>1
    <3>5. QED
      BY <3>3, <3>4 DEF Walk!Next, Walk!Accept, WalkExpect
  <2>4. ASSUME NEW t \in Tokens, Refuse(t) PROVE Walk!Next
    <3>1. Walk!End("refused")
      BY <2>2, <2>4 DEF Refuse
    <3>2. QED
      BY <3>1 DEF Walk!Next, Walk!GiveUp
  <2>5. ASSUME NEW c \in Calls, Again(c) PROVE Walk!Next
    <3>1. verdict # "none" /\ verdict' = "none" /\ depth' = 0 /\ expect' = "value"
      BY <2>5 DEF Again, Take, Fresh
    <3>2. Levels = <<>> /\ WalkExpect = "value"
      BY <3>1, RestLevels
    <3>3. Levels' = <<>> /\ WalkExpect' = "value"
      <4>1. Levels' = [d \in 1..depth' |-> LevelOf(d)'] /\ WalkExpect' = expect'
        BY <3>1, LevelsNext
      <4>2. QED
        BY <3>1, <4>1
    <3>4. QED
      BY <3>1, <3>2, <3>3 DEF Walk!Next, Walk!Restart, WalkExpect
  <2>6. CASE UNCHANGED vars
    <3>1. Levels' = Levels /\ WalkExpect' = WalkExpect
      BY <2>6 DEF vars, Levels, Scanning, Names, Mapped, Held, Slot, KeyString, WalkExpect
    <3>2. QED
      BY <2>6, <3>1 DEF vars, Walk!vars, WalkExpect
  <2>7. QED
    BY <2>1, <2>3, <2>4, <2>5, <2>6 DEF Next
<1>3. QED
  BY <1>1, <1>2, ScanInvariant, PTL DEF Spec, WalkImplemented, Walk!Spec

(***************************************************************************)
(* The scanner refuses a document only where the token walk does, for its  *)
(* depth, or for what the entry point asks besides.                        *)
(***************************************************************************)
THEOREM RefusesForCause == Spec => RefusedForCause
<1>1. ASSUME ScanInv, NEW t \in Tokens, Refuse(t)
      PROVE \/ Walk!Refuses(t)
            \/ t.kind \in Begins /\ depth = MaxDepth
            \/ depth = 0 /\ call \in {"Fields", "Elements"} /\ expect = "value"
            \/ call = "Compact" /\ (spaced \/ t.kind = "space")
  <2>1. verdict = "none" /\ Refused(t)
    BY <1>1 DEF Refuse, Reading
  <2>2. CASE t.kind = "space"
    BY <2>1, <2>2 DEF Refused, Skipped
  <2>3. CASE t.kind # "space" /\ t.kind \notin Looked
    BY <1>1, <2>1, <2>3, WalkPlace DEF Walk!Refuses
  <2>4. CASE t.kind # "space" /\ t.kind = "number" /\ ~Parsed(t)
    <3>1. t.name = "overflows"
      BY <2>4, StrictAssumption DEF Parsed
    <3>2. QED
      BY <2>4, <3>1 DEF Walk!Refuses
  <2>5. CASE t.kind \in Begins /\ TooDeep
    <3>1. depth \in 0..MaxDepth /\ MaxDepth \in Nat
      BY <1>1, StrictAssumption DEF ScanInv, ScanTypes
    <3>2. depth = MaxDepth
      BY <2>5, <3>1 DEF TooDeep
    <3>3. QED
      BY <2>5, <3>2
  <2>6. CASE Keying /\ t.kind = "string" /\ Repeated(t)
    <3>1. Walk!Keying /\ t.name \in Levels[Len(Levels)].seen
      BY <1>1, <2>1, <2>6, WalkPlace
    <3>2. QED
      BY <2>6, <3>1 DEF Walk!Refuses
  <2>7. CASE t.kind = "end" /\ call = "Compact" /\ spaced
    BY <2>7
  <2>8. QED
    BY <2>1, <2>2, <2>3, <2>4, <2>5, <2>6, <2>7 DEF Refused
<1> DEFINE Cause ==
      \A t \in Tokens : Refuse(t) =>
        \/ Walk!Refuses(t)
        \/ t.kind \in Begins /\ depth = MaxDepth
        \/ depth = 0 /\ call \in {"Fields", "Elements"} /\ expect = "value"
        \/ call = "Compact" /\ (spaced \/ t.kind = "space")
<1>2. ScanInv => Cause
  BY <1>1
<1>3. ScanInv /\ [Next]_vars => [Cause]_vars
  BY <1>2
<1>4. RefusedForCause <=> [][Cause]_vars
  BY DEF RefusedForCause
<1> HIDE DEF Cause
<1>5. QED
  BY <1>3, <1>4, ScanInvariant, PTL DEF Spec

-----------------------------------------------------------------------------
(***************************************************************************)
(* The members a document has.  A document that has grown by a token, its  *)
(* separators and its values.                                              *)
(***************************************************************************)
Upto(q, K, i) == {j \in 1..i : q[j].kind \in K}

\* The tokens of some kinds up to a place are finitely many.
LEMMA UptoFinite ==
  ASSUME NEW q, NEW K, NEW i \in Nat
  PROVE IsFiniteSet(Upto(q, K, i)) /\ Cardinality(Upto(q, K, i)) \in Nat
<1>1. 1 \in Int /\ i \in Int
  OBVIOUS
<1>2. IsFiniteSet(1..i)
  BY <1>1, FS_Interval, Zenon
<1>3. Upto(q, K, i) \subseteq 1..i
  BY DEF Upto
<1>4. IsFiniteSet(Upto(q, K, i))
  BY <1>2, <1>3, FS_Subset
<1>5. QED
  BY <1>4, FS_CardinalityType

\* A document of n tokens that grows by one.
Grows(q, t, r, n) == q \in Seq(Tokens) /\ t \in Tokens /\ r = Append(q, t) /\ n = Len(q)

\* What growing leaves of the document.
LEMMA Grown ==
  ASSUME NEW q, NEW t, NEW r, NEW n, Grows(q, t, r, n)
  PROVE /\ n \in Nat /\ Len(r) = n + 1 /\ DOMAIN r = 1..(n + 1) /\ DOMAIN q = 1..n
        /\ r[n + 1] = t /\ \A i \in 1..n : r[i] = q[i]
        /\ r \in Seq(Tokens)
<1>1. n \in Nat
  BY DEF Grows
<1>2. QED
  BY <1>1 DEF Grows

\* The tokens of some kinds up to a place, when the document grows.
LEMMA UptoGrown ==
  ASSUME NEW q, NEW t, NEW r, NEW n, Grows(q, t, r, n), NEW K
  PROVE /\ \A i \in 0..n : Upto(r, K, i) = Upto(q, K, i)
        /\ Upto(r, K, n + 1) = IF t.kind \in K THEN Upto(q, K, n) \cup {n + 1} ELSE Upto(q, K, n)
        /\ n + 1 \notin Upto(q, K, n)
<1>1. n \in Nat /\ r[n + 1] = t /\ \A i \in 1..n : r[i] = q[i]
  BY Grown
<1>2. QED
  BY <1>1 DEF Upto

\* The level where the document was, and the level the new token leaves.
LEMMA LevelGrown ==
  ASSUME NEW q, NEW t, NEW r, NEW n, Grows(q, t, r, n)
  PROVE /\ \A i \in 0..n : Level(r, i) = Level(q, i) /\ Level(q, i) \in Int
        /\ Level(r, n + 1) = CASE t.kind \in Begins -> Level(q, n) + 1
                               [] t.kind \in Ends -> Level(q, n) - 1
                               [] OTHER -> Level(q, n)
<1>1. n \in Nat /\ n \in 0..n
  BY Grown
<1>2. \A x, i : Level(x, i) = Cardinality(Upto(x, Begins, i)) - Cardinality(Upto(x, Ends, i))
  BY DEF Level, Upto
<1>3. ASSUME NEW K
      PROVE /\ \A i \in 0..n : Upto(r, K, i) = Upto(q, K, i) /\ Cardinality(Upto(q, K, i)) \in Nat
            /\ Cardinality(Upto(r, K, n + 1)) =
                 IF t.kind \in K THEN Cardinality(Upto(q, K, n)) + 1 ELSE Cardinality(Upto(q, K, n))
  <2>1. \A i \in 0..n : i \in Nat /\ IsFiniteSet(Upto(q, K, i)) /\ Cardinality(Upto(q, K, i)) \in Nat
    BY <1>1, UptoFinite
  <2>2. \A i \in 0..n : Upto(r, K, i) = Upto(q, K, i)
    BY Grown DEF Upto
  <2>3. /\ Upto(r, K, n + 1) = IF t.kind \in K THEN Upto(q, K, n) \cup {n + 1} ELSE Upto(q, K, n)
        /\ n + 1 \notin Upto(q, K, n)
    BY UptoGrown
  <2>4. Cardinality(Upto(q, K, n) \cup {n + 1}) = Cardinality(Upto(q, K, n)) + 1
    BY <1>1, <2>1, <2>3, FS_AddElement
  <2>5. QED
    BY <2>1, <2>2, <2>3, <2>4
<1>4. \A K : Cardinality(Upto(r, K, n + 1)) =
               IF t.kind \in K THEN Cardinality(Upto(q, K, n)) + 1 ELSE Cardinality(Upto(q, K, n))
  BY <1>3
<1>5. ~(t.kind \in Begins /\ t.kind \in Ends)
  BY DEF Begins, Ends
<1>6. PICK a, b, c, d : /\ a = Cardinality(Upto(q, Begins, n)) /\ b = Cardinality(Upto(q, Ends, n))
                        /\ c = Cardinality(Upto(r, Begins, n + 1)) /\ d = Cardinality(Upto(r, Ends, n + 1))
  OBVIOUS
<1>7. a \in Nat /\ b \in Nat /\ Level(q, n) = a - b /\ Level(r, n + 1) = c - d
  BY <1>1, <1>2, <1>3, <1>6
<1>8. c = (IF t.kind \in Begins THEN a + 1 ELSE a) /\ d = (IF t.kind \in Ends THEN b + 1 ELSE b)
  BY <1>4, <1>6
<1>9. \A i \in 0..n : Level(r, i) = Level(q, i) /\ Level(q, i) \in Int
  BY <1>2, <1>3
<1>10. QED
  BY <1>5, <1>7, <1>8, <1>9

IsMark(t, level) ==
  \/ level = 1 /\ t.kind \in {"colon", "comma"} \cup Begins
  \/ level = 0 /\ t.kind \in Ends

\* The new token is a separator or it is not; the old ones stay.
LEMMA MarksGrown ==
  ASSUME NEW q, NEW t, NEW r, NEW n, Grows(q, t, r, n)
  PROVE /\ Marks(q) \subseteq 1..n /\ n \in Nat
        /\ Marks(r) = IF IsMark(t, Level(r, n + 1)) THEN Marks(q) \cup {n + 1} ELSE Marks(q)
<1>1. /\ n \in Nat /\ Len(r) = n + 1 /\ DOMAIN r = 1..(n + 1) /\ DOMAIN q = 1..n
      /\ r[n + 1] = t /\ \A i \in 1..n : r[i] = q[i]
  BY Grown
<1>2. \A i \in 1..n : Level(r, i) = Level(q, i)
  <2>1. \A i \in 1..n : i \in 0..n
    BY <1>1
  <2>2. \A i \in 0..n : Level(r, i) = Level(q, i)
    BY LevelGrown
  <2>3. QED
    BY <2>1, <2>2
<1>3. Marks(q) = {i \in 1..n : IsMark(q[i], Level(q, i))}
  BY <1>1 DEF Marks, IsMark
<1>4. Marks(r) = {i \in 1..(n + 1) : IsMark(r[i], Level(r, i))}
  BY <1>1 DEF Marks, IsMark
<1>5. \A i \in 1..n : IsMark(r[i], Level(r, i)) = IsMark(q[i], Level(q, i))
  BY <1>1, <1>2
<1>6. \A i : i \in 1..(n + 1) <=> i \in 1..n \/ i = n + 1
  BY <1>1
<1>7. n + 1 \notin 1..n
  BY <1>1
<1>8. QED
  BY <1>1, <1>3, <1>4, <1>5, <1>6, <1>7

-----------------------------------------------------------------------------
\* The stretch between two neighbouring separators, and the value in it.
NextMarks(q, a, b) == a \in Marks(q) /\ b \in Marks(q) /\ a < b /\ ~\E m \in Marks(q) : a < m /\ m < b

Spans(q, a, b, s, e) ==
  /\ a < s /\ s <= e /\ e < b /\ Solid(q, s) /\ Solid(q, e)
  /\ \A k \in (a + 1)..(b - 1) : Solid(q, k) => s <= k /\ k <= e

\* A value of the document is what lies between two neighbouring separators.
LEMMA TopValueIs ==
  ASSUME NEW q \in Seq(Tokens), NEW p
  PROVE p \in TopValues(q) <=>
          \E s, e \in 1..Len(q) :
            /\ p = <<s, e>>
            /\ \E a, b \in Marks(q) : NextMarks(q, a, b) /\ q[b].kind # "colon" /\ Spans(q, a, b, s, e)
<1>1. Len(q) \in Nat /\ DOMAIN q = 1..Len(q) /\ Marks(q) \subseteq 1..Len(q)
  BY DEF Marks
<1>2. ASSUME NEW s \in 1..Len(q), NEW e \in 1..Len(q), NEW a \in Marks(q), NEW b \in Marks(q), a < s, s <= e, e < b
      PROVE /\ {k \in (a + 1)..(b - 1) : Solid(q, k)} \subseteq s..e <=>
                 \A k \in (a + 1)..(b - 1) : Solid(q, k) => s <= k /\ k <= e
            /\ a < b
  <2>1. a \in Nat /\ b \in Nat /\ s \in Nat /\ e \in Nat
    BY <1>1
  <2>2. QED
    BY <1>2, <2>1
<1>3. ASSUME p \in TopValues(q)
      PROVE \E s, e \in 1..Len(q) :
              /\ p = <<s, e>>
              /\ \E a, b \in Marks(q) : NextMarks(q, a, b) /\ q[b].kind # "colon" /\ Spans(q, a, b, s, e)
  <2>1. p \in (1..Len(q)) \X (1..Len(q))
    BY <1>1, <1>3 DEF TopValues
  <2>2. PICK s, e \in 1..Len(q) : p = <<s, e>> /\ p[1] = s /\ p[2] = e
    BY <2>1
  <2>3. s <= e /\ Solid(q, s) /\ Solid(q, e)
    BY <1>3, <2>2 DEF TopValues
  <2>4. PICK a, b \in Marks(q) :
          /\ a < s /\ e < b /\ q[b].kind # "colon"
          /\ ~\E m \in Marks(q) : a < m /\ m < b
          /\ {k \in (a + 1)..(b - 1) : Solid(q, k)} \subseteq s..e
    BY <1>3, <2>2 DEF TopValues
  <2>5. QED
    BY <1>2, <2>2, <2>3, <2>4 DEF NextMarks, Spans
<1>4. ASSUME NEW s \in 1..Len(q), NEW e \in 1..Len(q), p = <<s, e>>, NEW a \in Marks(q), NEW b \in Marks(q),
             NextMarks(q, a, b), q[b].kind # "colon", Spans(q, a, b, s, e)
      PROVE p \in TopValues(q)
  <2>1. p \in (DOMAIN q) \X (DOMAIN q) /\ p[1] = s /\ p[2] = e
    BY <1>1, <1>4
  <2>2. /\ s <= e /\ Solid(q, s) /\ Solid(q, e) /\ a < s /\ e < b /\ q[b].kind # "colon"
        /\ ~\E m \in Marks(q) : a < m /\ m < b
    BY <1>4 DEF NextMarks, Spans
  <2>3. {k \in (a + 1)..(b - 1) : Solid(q, k)} \subseteq s..e
    BY <1>2, <1>4, <2>2 DEF Spans
  <2>4. QED
    BY <2>1, <2>2, <2>3 DEF TopValues
<1>5. QED
  BY <1>3, <1>4

\* What lies between two old separators is as it was.
LEMMA SpansKept ==
  ASSUME NEW q, NEW t, NEW r, NEW n, Grows(q, t, r, n),
         NEW a \in 1..n, NEW b \in 1..n, NEW s \in 1..(n + 1), NEW e \in 1..(n + 1)
  PROVE /\ Spans(r, a, b, s, e) <=> Spans(q, a, b, s, e)
        /\ r[b] = q[b] /\ (Spans(q, a, b, s, e) => s \in 1..n /\ e \in 1..n)
<1>1. n \in Nat /\ \A i \in 1..n : r[i] = q[i]
  BY Grown
<1>2. \A i \in 1..n : Solid(r, i) <=> Solid(q, i)
  BY <1>1 DEF Solid
<1>3. \A k \in (a + 1)..(b - 1) : k \in 1..n
  BY <1>1
<1>4. a < s /\ s <= e /\ e < b => s \in 1..n /\ e \in 1..n
  BY <1>1
<1>5. QED
  BY <1>1, <1>2, <1>3, <1>4 DEF Spans

\* A token that is no separator ends no value.
LEMMA TopKept ==
  ASSUME NEW q, NEW t, NEW r, NEW n, Grows(q, t, r, n), Marks(r) = Marks(q)
  PROVE TopValues(r) = TopValues(q)
<1>1. n \in Nat /\ Len(r) = n + 1 /\ Len(q) = n /\ q \in Seq(Tokens) /\ r \in Seq(Tokens) /\ Marks(q) \subseteq 1..n
  BY Grown, MarksGrown DEF Grows
<1>2. \A a, b : NextMarks(r, a, b) <=> NextMarks(q, a, b)
  BY DEF NextMarks
<1>3. ASSUME NEW p PROVE p \in TopValues(r) <=> p \in TopValues(q)
  <2>1. ASSUME p \in TopValues(r) PROVE p \in TopValues(q)
    <3>1. PICK s, e \in 1..(n + 1) :
            /\ p = <<s, e>>
            /\ \E a, b \in Marks(q) : NextMarks(r, a, b) /\ r[b].kind # "colon" /\ Spans(r, a, b, s, e)
      BY <1>1, <2>1, TopValueIs
    <3>2. PICK a, b \in Marks(q) : NextMarks(q, a, b) /\ r[b].kind # "colon" /\ Spans(r, a, b, s, e)
      BY <1>2, <3>1
    <3>3. Spans(q, a, b, s, e) /\ r[b] = q[b] /\ s \in 1..n /\ e \in 1..n
      BY <1>1, <3>2, SpansKept
    <3>4. QED
      BY <1>1, <3>1, <3>2, <3>3, TopValueIs
  <2>2. ASSUME p \in TopValues(q) PROVE p \in TopValues(r)
    <3>1. PICK s, e \in 1..n :
            /\ p = <<s, e>>
            /\ \E a, b \in Marks(q) : NextMarks(q, a, b) /\ q[b].kind # "colon" /\ Spans(q, a, b, s, e)
      BY <1>1, <2>2, TopValueIs
    <3>2. PICK a, b \in Marks(q) : NextMarks(r, a, b) /\ q[b].kind # "colon" /\ Spans(q, a, b, s, e)
      BY <1>2, <3>1
    <3>3. s \in 1..(n + 1) /\ e \in 1..(n + 1)
      BY <1>1
    <3>4. Spans(r, a, b, s, e) /\ r[b] = q[b]
      BY <1>1, <3>2, <3>3, SpansKept
    <3>5. QED
      BY <1>1, <3>1, <3>2, <3>3, <3>4, TopValueIs
  <2>3. QED
    BY <2>1, <2>2
<1>4. QED
  BY <1>3

LastMark(q, l) == l \in Marks(q) /\ \A m \in Marks(q) : m <= l

\* A new separator ends the stretch that began at the last one.
LEMMA TopMarked ==
  ASSUME NEW q, NEW t, NEW r, NEW n, Grows(q, t, r, n), Marks(r) = Marks(q) \cup {n + 1}, NEW l, LastMark(q, l)
  PROVE /\ LastMark(r, n + 1)
        /\ \A p : p \in TopValues(r) <=>
             \/ p \in TopValues(q)
             \/ t.kind # "colon" /\ \E s, e \in 1..(n + 1) : p = <<s, e>> /\ Spans(r, l, n + 1, s, e)
<1>1. n \in Nat /\ Len(r) = n + 1 /\ Len(q) = n /\ q \in Seq(Tokens) /\ r \in Seq(Tokens) /\ Marks(q) \subseteq 1..n
  BY Grown, MarksGrown DEF Grows
<1>2. l \in 1..n /\ l < n + 1 /\ r[n + 1] = t
  BY <1>1, Grown DEF LastMark
<1>3. LastMark(r, n + 1)
  BY <1>1 DEF LastMark
<1>4. \A a \in Marks(q) : a \in 1..n /\ a <= l /\ a < n + 1
  BY <1>1 DEF LastMark
<1>5. \A a, b \in Marks(q) : NextMarks(r, a, b) <=> NextMarks(q, a, b)
  BY <1>1, <1>4 DEF NextMarks
<1>6. \A a \in Marks(r) : NextMarks(r, a, n + 1) <=> a = l
  <2>1. ASSUME NEW a \in Marks(r), NextMarks(r, a, n + 1) PROVE a = l
    <3>1. a \in Marks(q) /\ ~(a < l /\ l < n + 1) /\ l \in Marks(q)
      BY <1>1, <2>1 DEF NextMarks, LastMark
    <3>2. QED
      BY <1>1, <1>2, <1>4, <3>1
  <2>2. NextMarks(r, l, n + 1)
    <3>1. \A m \in Marks(r) : ~(l < m /\ m < n + 1)
      BY <1>1, <1>2, <1>4
    <3>2. QED
      BY <1>2, <3>1 DEF NextMarks, LastMark
  <2>3. QED
    BY <2>1, <2>2
<1>7. \A a, b \in Marks(r) : NextMarks(r, a, b) => a \in Marks(q) /\ (b \in Marks(q) \/ b = n + 1)
  <2>1. ASSUME NEW a \in Marks(r), NEW b \in Marks(r), NextMarks(r, a, b)
        PROVE a \in Marks(q) /\ (b \in Marks(q) \/ b = n + 1)
    <3>1. a < b /\ (b \in Marks(q) \/ b = n + 1) /\ (a \in Marks(q) \/ a = n + 1)
      BY <2>1 DEF NextMarks
    <3>2. QED
      BY <1>1, <1>4, <3>1
  <2>2. QED
    BY <2>1
<1>8. ASSUME NEW p, p \in TopValues(r)
      PROVE \/ p \in TopValues(q)
            \/ t.kind # "colon" /\ \E s, e \in 1..(n + 1) : p = <<s, e>> /\ Spans(r, l, n + 1, s, e)
  <2>1. PICK s, e \in 1..(n + 1) :
          /\ p = <<s, e>>
          /\ \E a, b \in Marks(r) : NextMarks(r, a, b) /\ r[b].kind # "colon" /\ Spans(r, a, b, s, e)
    BY <1>1, <1>8, TopValueIs
  <2>2. PICK a, b \in Marks(r) : NextMarks(r, a, b) /\ r[b].kind # "colon" /\ Spans(r, a, b, s, e)
    BY <2>1
  <2>3. CASE b = n + 1
    BY <1>2, <1>6, <2>1, <2>2, <2>3
  <2>4. CASE b # n + 1
    <3>1. a \in Marks(q) /\ b \in Marks(q) /\ NextMarks(q, a, b) /\ a \in 1..n /\ b \in 1..n
      BY <1>1, <1>5, <1>7, <2>2, <2>4
    <3>2. Spans(q, a, b, s, e) /\ r[b] = q[b] /\ s \in 1..n /\ e \in 1..n
      BY <2>2, <3>1, SpansKept
    <3>3. QED
      BY <1>1, <2>1, <2>2, <3>1, <3>2, TopValueIs
  <2>5. QED
    BY <2>3, <2>4
<1>9. ASSUME NEW p, p \in TopValues(q) PROVE p \in TopValues(r)
  <2>1. PICK s, e \in 1..n :
          /\ p = <<s, e>>
          /\ \E a, b \in Marks(q) : NextMarks(q, a, b) /\ q[b].kind # "colon" /\ Spans(q, a, b, s, e)
    BY <1>1, <1>9, TopValueIs
  <2>2. PICK a, b \in Marks(q) : NextMarks(q, a, b) /\ q[b].kind # "colon" /\ Spans(q, a, b, s, e)
    BY <2>1
  <2>3. s \in 1..(n + 1) /\ e \in 1..(n + 1) /\ a \in 1..n /\ b \in 1..n /\ a \in Marks(r) /\ b \in Marks(r)
    BY <1>1
  <2>4. Spans(r, a, b, s, e) /\ r[b] = q[b] /\ NextMarks(r, a, b)
    BY <1>5, <2>2, <2>3, SpansKept
  <2>5. QED
    BY <1>1, <2>1, <2>2, <2>3, <2>4, TopValueIs
<1>10. ASSUME NEW p, t.kind # "colon", NEW s \in 1..(n + 1), NEW e \in 1..(n + 1), p = <<s, e>>, Spans(r, l, n + 1, s, e)
       PROVE p \in TopValues(r)
  <2>1. l \in Marks(r) /\ n + 1 \in Marks(r) /\ NextMarks(r, l, n + 1) /\ r[n + 1].kind # "colon"
    BY <1>2, <1>6, <1>10 DEF LastMark
  <2>2. QED
    BY <1>1, <1>10, <2>1, TopValueIs
<1>11. QED
  BY <1>3, <1>8, <1>9, <1>10

\* There is no value before the first separator.
LEMMA TopFirst ==
  ASSUME NEW q, NEW t, NEW r, NEW n, Grows(q, t, r, n), Marks(q) = {}, Marks(r) = Marks(q) \cup {n + 1}
  PROVE TopValues(r) = {} /\ LastMark(r, n + 1)
<1>1. n \in Nat /\ r \in Seq(Tokens)
  BY Grown
<1>2. \A a, b \in Marks(r) : ~NextMarks(r, a, b)
  BY <1>1 DEF NextMarks
<1>3. \A p : p \notin TopValues(r)
  BY <1>1, <1>2, TopValueIs
<1>4. QED
  BY <1>1, <1>3 DEF LastMark

-----------------------------------------------------------------------------
(***************************************************************************)
(* What Fields and Elements have collected of a document.                  *)
(***************************************************************************)
\* What has been collected: the values of the document, in order, up to its
\* last separator.
Items(ms) == {ms[i] : i \in DOMAIN ms}

InOrder(ms) == \A i \in 1..(Len(ms) - 1) : ms[i][2] < ms[i + 1][1]

Gathered(q, ms, l) ==
  /\ ms \in Seq(Nat \X Nat) /\ Items(ms) = TopValues(q) /\ InOrder(ms)
  /\ LastMark(q, l) /\ \A i \in 1..Len(ms) : ms[i][2] < l

\* Nothing but white space after the separator.
Quiet(q, l) == \A k \in (l + 1)..Len(q) : ~Solid(q, k)

\* A value that began at s.
Opened(q, l, s) == s \in (l + 1)..Len(q) /\ Solid(q, s) /\ \A k \in (l + 1)..Len(q) : Solid(q, k) => s <= k

\* The places of the scan inside the top-level value: between two values, past
\* a key, past a value, and in a value that began at s; and after it.
Between(q, ms) == \E l \in 1..Len(q) : Gathered(q, ms, l) /\ Quiet(q, l)

Keyed(q, ms) == \E l \in 1..Len(q) : Gathered(q, ms, l)

Valued(q, ms) ==
  \E m, l, s, e : Gathered(q, m, l) /\ Spans(q, l, Len(q) + 1, s, e) /\ s \in Nat /\ e \in Nat /\ ms = Append(m, <<s, e>>)

Within(q, ms, s) == \E l \in 1..Len(q) : Gathered(q, ms, l) /\ Opened(q, l, s)

Done(q, ms) == Items(ms) = TopValues(q) /\ InOrder(ms)

-----------------------------------------------------------------------------
\* A value that begins after all those collected.
LEMMA ItemsAppended ==
  ASSUME NEW m \in Seq(Nat \X Nat), NEW s \in Nat, NEW e \in Nat, InOrder(m), s <= e,
         NEW l \in Nat, \A i \in 1..Len(m) : m[i][2] < l, l < s
  PROVE /\ Items(Append(m, <<s, e>>)) = Items(m) \cup {<<s, e>>}
        /\ InOrder(Append(m, <<s, e>>)) /\ Append(m, <<s, e>>) \in Seq(Nat \X Nat)
        /\ \A i \in 1..Len(Append(m, <<s, e>>)) : Append(m, <<s, e>>)[i][2] <= e
<1>1. PICK k, x, r : k = Len(m) /\ x = <<s, e>> /\ r = Append(m, x)
  OBVIOUS
<1>2. x \in Nat \X Nat /\ x[1] = s /\ x[2] = e
  BY <1>1
<1>3. /\ k \in Nat /\ r \in Seq(Nat \X Nat) /\ Len(r) = k + 1 /\ DOMAIN r = 1..(k + 1) /\ DOMAIN m = 1..k
      /\ r[k + 1] = x /\ \A i \in 1..k : r[i] = m[i] /\ m[i] \in Nat \X Nat
  BY <1>1, <1>2
<1>4. Items(r) = Items(m) \cup {x}
  <2>1. \A i : i \in 1..(k + 1) <=> i \in 1..k \/ i = k + 1
    BY <1>3
  <2>2. Items(r) = {r[i] : i \in 1..(k + 1)} /\ Items(m) = {m[i] : i \in 1..k}
    BY <1>3, Zenon DEF Items
  <2>3. \A p : p \in {r[i] : i \in 1..(k + 1)} <=> p \in {m[i] : i \in 1..k} \/ p = x
    BY <1>3, <2>1
  <2>4. QED
    BY <2>2, <2>3
<1>5. \A i \in 1..k : m[i][2] \in Nat /\ m[i][2] < l
  BY <1>1, <1>3
<1>6. InOrder(r)
  <2>1. SUFFICES ASSUME NEW i \in 1..k PROVE r[i][2] < r[i + 1][1]
    BY <1>3 DEF InOrder
  <2>2. CASE i = k
    BY <1>2, <1>3, <1>5, <2>2
  <2>3. CASE i # k
    <3>1. i \in 1..(k - 1) /\ i + 1 \in 1..k
      BY <1>3, <2>3
    <3>2. m[i][2] < m[i + 1][1]
      BY <1>1, <3>1 DEF InOrder
    <3>3. QED
      BY <1>3, <3>1, <3>2
  <2>4. QED
    BY <2>2, <2>3
<1>7. \A i \in 1..(k + 1) : r[i][2] <= e
  <2>1. SUFFICES ASSUME NEW i \in 1..(k + 1) PROVE r[i][2] <= e
    OBVIOUS
  <2>2. CASE i = k + 1
    BY <1>2, <1>3, <2>2
  <2>3. CASE i # k + 1
    <3>1. i \in 1..k
      BY <1>3, <2>3
    <3>2. QED
      BY <1>3, <1>5, <3>1
  <2>4. QED
    BY <2>2, <2>3
<1>8. QED
  BY <1>1, <1>3, <1>4, <1>6, <1>7

\* A token that is no separator.
LEMMA Unmarked ==
  ASSUME NEW q, NEW t, NEW r, NEW n, Grows(q, t, r, n), Marks(r) = Marks(q), NEW ms, NEW l, Gathered(q, ms, l)
  PROVE Gathered(r, ms, l) /\ l \in 1..n /\ l \in 1..(n + 1) /\ n \in Nat
<1>1. TopValues(r) = TopValues(q) /\ Marks(q) \subseteq 1..n /\ n \in Nat
  BY TopKept, MarksGrown
<1>2. QED
  BY <1>1 DEF Gathered, LastMark

\* A separator after which no value ends, or the colon.
LEMMA MarkedPlain ==
  ASSUME NEW q, NEW t, NEW r, NEW n, Grows(q, t, r, n), Marks(r) = Marks(q) \cup {n + 1},
         NEW ms, NEW l, Gathered(q, ms, l), t.kind = "colon" \/ Quiet(q, l)
  PROVE Gathered(r, ms, n + 1) /\ Quiet(r, n + 1) /\ n + 1 \in 1..Len(r)
<1>1. /\ n \in Nat /\ Len(r) = n + 1 /\ n = Len(q) /\ Marks(q) \subseteq 1..n /\ LastMark(q, l)
      /\ \A i \in 1..n : r[i] = q[i]
  <2>1. n \in Nat /\ Len(r) = n + 1 /\ \A i \in 1..n : r[i] = q[i]
    BY Grown
  <2>2. Marks(q) \subseteq 1..n
    BY MarksGrown
  <2>3. n = Len(q) /\ LastMark(q, l)
    BY DEF Grows, Gathered
  <2>4. QED
    BY <2>1, <2>2, <2>3
<1>2. l \in 1..n
  BY <1>1 DEF LastMark
<1>3. ASSUME NEW s \in 1..(n + 1), NEW e \in 1..(n + 1), Spans(r, l, n + 1, s, e)
      PROVE ~Quiet(q, l)
  <2>1. s \in (l + 1)..n /\ s \in 1..n /\ Solid(r, s)
    BY <1>1, <1>2, <1>3 DEF Spans
  <2>2. Solid(q, s)
    BY <1>1, <2>1 DEF Solid
  <2>3. QED
    BY <1>1, <2>1, <2>2 DEF Quiet
<1>4. /\ LastMark(r, n + 1)
      /\ \A p : p \in TopValues(r) <=>
           \/ p \in TopValues(q)
           \/ t.kind # "colon" /\ \E s, e \in 1..(n + 1) : p = <<s, e>> /\ Spans(r, l, n + 1, s, e)
  BY <1>1, TopMarked
<1>5. \A p : p \in TopValues(r) <=> p \in TopValues(q)
  BY <1>3, <1>4
<1>6. TopValues(r) = TopValues(q)
  BY <1>5
<1>7. \A i \in 1..Len(ms) : ms[i][2] < n + 1
  <2>1. ms \in Seq(Nat \X Nat) /\ \A i \in 1..Len(ms) : ms[i][2] < l
    BY DEF Gathered
  <2>2. \A i \in 1..Len(ms) : ms[i] \in Nat \X Nat
    BY <2>1
  <2>3. QED
    BY <1>1, <1>2, <2>1, <2>2
<1>8. Quiet(r, n + 1)
  BY <1>1 DEF Quiet
<1>9. QED
  BY <1>1, <1>4, <1>6, <1>7, <1>8 DEF Gathered

\* A separator, no colon, after a value.
LEMMA MarkedValue ==
  ASSUME NEW q, NEW t, NEW r, NEW n, Grows(q, t, r, n), Marks(r) = Marks(q) \cup {n + 1}, t.kind # "colon",
         NEW m, NEW l, NEW s \in Nat, NEW e \in Nat, Gathered(q, m, l), Spans(q, l, n + 1, s, e)
  PROVE /\ Gathered(r, Append(m, <<s, e>>), n + 1) /\ Quiet(r, n + 1) /\ n + 1 \in 1..Len(r)
<1>1. /\ n \in Nat /\ Len(r) = n + 1 /\ n = Len(q) /\ Marks(q) \subseteq 1..n /\ LastMark(q, l)
      /\ \A i \in 1..n : r[i] = q[i]
  <2>1. n \in Nat /\ Len(r) = n + 1 /\ \A i \in 1..n : r[i] = q[i]
    BY Grown
  <2>2. Marks(q) \subseteq 1..n
    BY MarksGrown
  <2>3. n = Len(q) /\ LastMark(q, l)
    BY DEF Grows, Gathered
  <2>4. QED
    BY <2>1, <2>2, <2>3
<1>2. l \in 1..n
  BY <1>1 DEF LastMark
<1>3. l < s /\ s <= e /\ e < n + 1 /\ s \in 1..n /\ e \in 1..n
  BY <1>1, <1>2 DEF Spans
<1>4. \A k \in (l + 1)..n : k \in 1..n /\ (Solid(r, k) <=> Solid(q, k))
  BY <1>1, <1>2 DEF Solid
<1>5. \A k \in (l + 1)..n : Solid(q, k) => s <= k /\ k <= e
  BY <1>1, <1>2 DEF Spans
<1>6. Solid(q, s) /\ Solid(q, e) /\ s \in (l + 1)..n /\ e \in (l + 1)..n
  BY <1>1, <1>2, <1>3 DEF Spans
<1>7. ASSUME NEW x \in 1..(n + 1), NEW y \in 1..(n + 1)
      PROVE Spans(r, l, n + 1, x, y) <=> x = s /\ y = e
  <2>1. ASSUME Spans(r, l, n + 1, x, y) PROVE x = s /\ y = e
    <3>1. /\ x \in (l + 1)..n /\ y \in (l + 1)..n /\ Solid(r, x) /\ Solid(r, y)
          /\ \A k \in (l + 1)..n : Solid(r, k) => x <= k /\ k <= y
      BY <1>1, <1>2, <2>1 DEF Spans
    <3>2. s <= x /\ y <= e
      BY <1>4, <1>5, <3>1
    <3>3. x <= s /\ e <= y
      BY <1>4, <1>6, <3>1
    <3>4. QED
      BY <1>1, <1>2, <3>1, <3>2, <3>3
  <2>2. Spans(r, l, n + 1, s, e)
    BY <1>1, <1>2, <1>3, <1>4, <1>5, <1>6 DEF Spans
  <2>3. QED
    BY <2>1, <2>2
<1>8. /\ LastMark(r, n + 1)
      /\ \A p : p \in TopValues(r) <=>
           \/ p \in TopValues(q)
           \/ t.kind # "colon" /\ \E x, y \in 1..(n + 1) : p = <<x, y>> /\ Spans(r, l, n + 1, x, y)
  BY <1>1, TopMarked
<1>9. \A p : p \in TopValues(r) <=> p \in TopValues(q) \/ p = <<s, e>>
  <2>1. s \in 1..(n + 1) /\ e \in 1..(n + 1)
    BY <1>1, <1>3
  <2>2. QED
    BY <1>7, <1>8, <2>1
<1>10. TopValues(r) = TopValues(q) \cup {<<s, e>>}
  BY <1>9
<1>11. m \in Seq(Nat \X Nat) /\ InOrder(m) /\ Items(m) = TopValues(q) /\ \A i \in 1..Len(m) : m[i][2] < l
  BY DEF Gathered
<1>12. /\ Items(Append(m, <<s, e>>)) = Items(m) \cup {<<s, e>>}
       /\ InOrder(Append(m, <<s, e>>)) /\ Append(m, <<s, e>>) \in Seq(Nat \X Nat)
       /\ \A i \in 1..Len(Append(m, <<s, e>>)) : Append(m, <<s, e>>)[i][2] <= e
  <2>1. l \in Nat
    BY <1>1, <1>2
  <2>2. QED
    BY <1>3, <1>11, <2>1, ItemsAppended
<1>13. PICK a : a = Append(m, <<s, e>>)
  OBVIOUS
<1>14. \A i \in 1..Len(a) : a[i][2] < n + 1
  <2>1. \A i \in 1..Len(a) : a[i] \in Nat \X Nat /\ a[i][2] <= e
    BY <1>12, <1>13
  <2>2. QED
    BY <1>1, <1>3, <2>1
<1>15. Gathered(r, a, n + 1)
  BY <1>8, <1>10, <1>11, <1>12, <1>13, <1>14 DEF Gathered
<1>16. Quiet(r, n + 1)
  BY <1>1 DEF Quiet
<1>17. QED
  BY <1>1, <1>13, <1>15, <1>16

-----------------------------------------------------------------------------
(***************************************************************************)
(* What each token does to what has been collected.                        *)
(***************************************************************************)
\* White space changes nothing.
LEMMA SpacePasses ==
  ASSUME NEW q, NEW t, NEW r, NEW n, Grows(q, t, r, n), Marks(r) = Marks(q), t.kind = "space", NEW ms, NEW s
  PROVE /\ Between(q, ms) => Between(r, ms)
        /\ Keyed(q, ms) => Keyed(r, ms)
        /\ Valued(q, ms) => Valued(r, ms)
        /\ Within(q, ms, s) => Within(r, ms, s)
        /\ Done(q, ms) => Done(r, ms)
<1>1. /\ n \in Nat /\ Len(r) = n + 1 /\ r[n + 1] = t /\ \A i \in 1..n : r[i] = q[i]
  BY Grown
<1>2. n = Len(q)
  BY DEF Grows
<1>3. ~Solid(r, n + 1) /\ \A k \in 1..n : Solid(r, k) <=> Solid(q, k)
  BY <1>1 DEF Solid
<1>4. ASSUME NEW m, NEW l, Gathered(q, m, l) PROVE Gathered(r, m, l) /\ l \in 1..n /\ l \in 1..Len(r)
  BY <1>1, <1>4, Unmarked
<1>5. ASSUME NEW l \in 1..n PROVE \A k \in (l + 1)..(n + 1) : Solid(r, k) => k \in (l + 1)..n /\ Solid(q, k)
  <2>1. \A k \in (l + 1)..(n + 1) : k = n + 1 \/ (k \in (l + 1)..n /\ k \in 1..n)
    BY <1>1
  <2>2. QED
    BY <1>3, <2>1
<1>6. Between(q, ms) => Between(r, ms)
  <2> SUFFICES ASSUME NEW l \in 1..Len(q), Gathered(q, ms, l), Quiet(q, l) PROVE Between(r, ms)
    BY DEF Between
  <2>1. Gathered(r, ms, l) /\ l \in 1..n /\ l \in 1..Len(r)
    BY <1>4
  <2>2. Quiet(r, l)
    BY <1>1, <1>2, <1>5, <2>1 DEF Quiet
  <2>3. QED
    BY <2>1, <2>2 DEF Between
<1>7. Keyed(q, ms) => Keyed(r, ms)
  BY <1>4 DEF Keyed
<1>8. Valued(q, ms) => Valued(r, ms)
  <2> SUFFICES ASSUME NEW m, NEW l, NEW x, NEW y, Gathered(q, m, l), Spans(q, l, Len(q) + 1, x, y),
                      x \in Nat, y \in Nat, ms = Append(m, <<x, y>>)
               PROVE Valued(r, ms)
    BY DEF Valued
  <2>1. Gathered(r, m, l) /\ l \in 1..n
    BY <1>4
  <2>2. /\ l < x /\ x <= y /\ y < n + 1 /\ Solid(q, x) /\ Solid(q, y)
        /\ \A k \in (l + 1)..n : Solid(q, k) => x <= k /\ k <= y
    BY <1>1, <1>2 DEF Spans
  <2>3. x \in 1..n /\ y \in 1..n
    BY <1>1, <2>1, <2>2
  <2>4. Solid(r, x) /\ Solid(r, y) /\ y < n + 2
    BY <1>1, <1>3, <2>2, <2>3
  <2>5. \A k \in (l + 1)..(n + 1) : Solid(r, k) => x <= k /\ k <= y
    BY <1>5, <2>1, <2>2
  <2>6. Spans(r, l, Len(r) + 1, x, y)
    BY <1>1, <2>2, <2>4, <2>5 DEF Spans
  <2>7. QED
    BY <2>1, <2>6 DEF Valued
<1>9. Within(q, ms, s) => Within(r, ms, s)
  <2> SUFFICES ASSUME NEW l \in 1..Len(q), Gathered(q, ms, l), Opened(q, l, s) PROVE Within(r, ms, s)
    BY DEF Within
  <2>1. Gathered(r, ms, l) /\ l \in 1..n /\ l \in 1..Len(r)
    BY <1>4
  <2>2. s \in (l + 1)..n /\ s \in (l + 1)..(n + 1) /\ s \in 1..n /\ Solid(q, s)
    BY <1>1, <1>2, <2>1 DEF Opened
  <2>3. Opened(r, l, s)
    BY <1>1, <1>2, <1>3, <1>5, <2>1, <2>2 DEF Opened
  <2>4. QED
    BY <2>1, <2>3 DEF Within
<1>10. Done(q, ms) => Done(r, ms)
  BY TopKept DEF Done
<1>11. QED
  BY <1>6, <1>7, <1>8, <1>9, <1>10

\* A key between two values.
LEMMA KeyPasses ==
  ASSUME NEW q, NEW t, NEW r, NEW n, Grows(q, t, r, n), Marks(r) = Marks(q), NEW ms, Between(q, ms)
  PROVE Keyed(r, ms)
<1>1. Len(r) = n + 1
  BY Grown
<1>2. PICK l : Gathered(q, ms, l)
  BY DEF Between
<1>3. Gathered(r, ms, l) /\ l \in 1..(n + 1)
  BY <1>2, Unmarked
<1>4. QED
  BY <1>1, <1>3 DEF Keyed

\* The colon: the key before it is no value.
LEMMA ColonPasses ==
  ASSUME NEW q, NEW t, NEW r, NEW n, Grows(q, t, r, n), Marks(r) = Marks(q) \cup {n + 1}, t.kind = "colon",
         NEW ms, Keyed(q, ms)
  PROVE Between(r, ms)
<1>1. PICK l : Gathered(q, ms, l)
  BY DEF Keyed
<1>2. Gathered(r, ms, n + 1) /\ Quiet(r, n + 1) /\ n + 1 \in 1..Len(r)
  BY <1>1, MarkedPlain
<1>3. QED
  BY <1>2 DEF Between

\* What follows a quiet stretch begins at the new token.
LEMMA FirstSolid ==
  ASSUME NEW q, NEW t, NEW r, NEW n, Grows(q, t, r, n), t.kind # "space", NEW l \in 1..n, Quiet(q, l)
  PROVE Opened(r, l, n + 1) /\ Spans(r, l, Len(r) + 1, n + 1, n + 1)
<1>1. /\ n \in Nat /\ Len(r) = n + 1 /\ r[n + 1] = t /\ \A i \in 1..n : r[i] = q[i]
  BY Grown
<1>2. n = Len(q)
  BY DEF Grows
<1>3. Solid(r, n + 1) /\ \A k \in 1..n : Solid(r, k) <=> Solid(q, k)
  BY <1>1 DEF Solid
<1>4. \A k \in (l + 1)..n : k \in 1..n /\ ~Solid(q, k)
  BY <1>1, <1>2 DEF Quiet
<1>5. \A k \in (l + 1)..(n + 1) : k \in (l + 1)..n \/ k = n + 1
  BY <1>1
<1>6. \A k \in (l + 1)..(n + 1) : Solid(r, k) => k = n + 1
  BY <1>3, <1>4, <1>5
<1>7. n + 1 \in (l + 1)..(n + 1) /\ l < n + 1 /\ n + 1 < n + 2 /\ n + 1 <= n + 1
  BY <1>1
<1>8. Opened(r, l, n + 1)
  BY <1>1, <1>3, <1>6, <1>7 DEF Opened
<1>9. Spans(r, l, (n + 1) + 1, n + 1, n + 1)
  BY <1>1, <1>3, <1>6, <1>7 DEF Spans
<1>10. QED
  BY <1>1, <1>8, <1>9

\* A string, word or number is a value by itself.
LEMMA ScalarPasses ==
  ASSUME NEW q, NEW t, NEW r, NEW n, Grows(q, t, r, n), Marks(r) = Marks(q), t.kind # "space",
         NEW ms, Between(q, ms)
  PROVE Valued(r, Append(ms, <<n + 1, n + 1>>))
<1>1. PICK l : Gathered(q, ms, l) /\ Quiet(q, l)
  BY DEF Between
<1>2. Gathered(r, ms, l) /\ l \in 1..n /\ n \in Nat
  BY <1>1, Unmarked
<1>3. Spans(r, l, Len(r) + 1, n + 1, n + 1)
  BY <1>1, <1>2, FirstSolid
<1>4. n + 1 \in Nat
  BY <1>2
<1>5. QED
  BY <1>2, <1>3, <1>4 DEF Valued

\* The bracket a value begins with.
LEMMA OpenPasses ==
  ASSUME NEW q, NEW t, NEW r, NEW n, Grows(q, t, r, n), Marks(r) = Marks(q), t.kind # "space",
         NEW ms, Between(q, ms)
  PROVE Within(r, ms, n + 1)
<1>1. PICK l : Gathered(q, ms, l) /\ Quiet(q, l)
  BY DEF Between
<1>2. Gathered(r, ms, l) /\ l \in 1..n /\ l \in 1..(n + 1)
  BY <1>1, Unmarked
<1>3. Opened(r, l, n + 1) /\ Len(r) = n + 1
  BY <1>1, <1>2, FirstSolid, Grown
<1>4. QED
  BY <1>2, <1>3 DEF Within

\* A token inside a value: the value began where it did, and ends no earlier.
LEMMA StillOpened ==
  ASSUME NEW q, NEW t, NEW r, NEW n, Grows(q, t, r, n), NEW l \in 1..n, NEW s, Opened(q, l, s)
  PROVE /\ Opened(r, l, s) /\ s \in Nat /\ n + 1 \in Nat
        /\ t.kind # "space" => Spans(r, l, Len(r) + 1, s, n + 1)
<1>1. /\ n \in Nat /\ Len(r) = n + 1 /\ r[n + 1] = t /\ \A i \in 1..n : r[i] = q[i]
  BY Grown
<1>2. n = Len(q)
  BY DEF Grows
<1>3. \A k \in 1..n : Solid(r, k) <=> Solid(q, k)
  BY <1>1 DEF Solid
<1>4. s \in (l + 1)..n /\ s \in 1..n /\ Solid(q, s) /\ \A k \in (l + 1)..n : k \in 1..n /\ (Solid(q, k) => s <= k)
  BY <1>1, <1>2 DEF Opened
<1>5. \A k \in (l + 1)..(n + 1) : k \in (l + 1)..n \/ k = n + 1
  BY <1>1
<1>6. s <= n + 1 /\ s \in (l + 1)..(n + 1) /\ Solid(r, s) /\ s \in Nat /\ n + 1 \in Nat /\ l < s /\ n + 1 < n + 2
  BY <1>1, <1>3, <1>4
<1>7. \A k \in (l + 1)..(n + 1) : Solid(r, k) => s <= k /\ k <= n + 1
  BY <1>1, <1>3, <1>4, <1>5, <1>6
<1>8. Opened(r, l, s)
  BY <1>1, <1>6, <1>7 DEF Opened
<1>9. t.kind # "space" => Solid(r, n + 1)
  BY <1>1 DEF Solid
<1>10. t.kind # "space" => Spans(r, l, (n + 1) + 1, s, n + 1)
  BY <1>1, <1>6, <1>7, <1>9 DEF Spans
<1>11. QED
  BY <1>1, <1>6, <1>8, <1>10

\* A token inside a value.
LEMMA InnerPasses ==
  ASSUME NEW q, NEW t, NEW r, NEW n, Grows(q, t, r, n), Marks(r) = Marks(q), NEW ms, NEW s, Within(q, ms, s)
  PROVE Within(r, ms, s)
<1>1. PICK l : Gathered(q, ms, l) /\ Opened(q, l, s)
  BY DEF Within
<1>2. Gathered(r, ms, l) /\ l \in 1..n /\ l \in 1..(n + 1) /\ Len(r) = n + 1
  BY <1>1, Unmarked, Grown
<1>3. Opened(r, l, s)
  BY <1>1, <1>2, StillOpened
<1>4. QED
  BY <1>2, <1>3 DEF Within

\* The bracket a value ends with.
LEMMA ClosePasses ==
  ASSUME NEW q, NEW t, NEW r, NEW n, Grows(q, t, r, n), Marks(r) = Marks(q), t.kind # "space",
         NEW ms, NEW s, Within(q, ms, s)
  PROVE Valued(r, Append(ms, <<s, n + 1>>))
<1>1. PICK l : Gathered(q, ms, l) /\ Opened(q, l, s)
  BY DEF Within
<1>2. Gathered(r, ms, l) /\ l \in 1..n
  BY <1>1, Unmarked
<1>3. Spans(r, l, Len(r) + 1, s, n + 1) /\ s \in Nat /\ n + 1 \in Nat
  BY <1>1, <1>2, StillOpened
<1>4. QED
  BY <1>2, <1>3 DEF Valued

\* The comma, or the bracket that ends the top-level value.
LEMMA MarkPasses ==
  ASSUME NEW q, NEW t, NEW r, NEW n, Grows(q, t, r, n), Marks(r) = Marks(q) \cup {n + 1}, t.kind # "colon",
         NEW ms, Between(q, ms) \/ Valued(q, ms)
  PROVE Between(r, ms) /\ Done(r, ms)
<1>1. CASE Between(q, ms)
  <2>1. PICK l : Gathered(q, ms, l) /\ Quiet(q, l)
    BY <1>1 DEF Between
  <2>2. Gathered(r, ms, n + 1) /\ Quiet(r, n + 1) /\ n + 1 \in 1..Len(r)
    BY <2>1, MarkedPlain
  <2>3. QED
    BY <2>2 DEF Between, Done, Gathered
<1>2. CASE Valued(q, ms)
  <2>1. PICK m, l, s, e : /\ Gathered(q, m, l) /\ Spans(q, l, Len(q) + 1, s, e)
                          /\ s \in Nat /\ e \in Nat /\ ms = Append(m, <<s, e>>)
    BY <1>2 DEF Valued
  <2>2. Spans(q, l, n + 1, s, e)
    BY <2>1 DEF Grows
  <2>3. Gathered(r, Append(m, <<s, e>>), n + 1) /\ Quiet(r, n + 1) /\ n + 1 \in 1..Len(r)
    BY <2>1, <2>2, MarkedValue
  <2>4. QED
    BY <2>1, <2>3 DEF Between, Done, Gathered
<1>3. QED
  BY <1>1, <1>2

\* The bracket the top-level value begins with.
LEMMA BeginPasses ==
  ASSUME NEW q, NEW t, NEW r, NEW n, Grows(q, t, r, n), Marks(q) = {}, Marks(r) = Marks(q) \cup {n + 1}
  PROVE Between(r, <<>>)
<1>1. n \in Nat /\ Len(r) = n + 1
  BY Grown
<1>2. TopValues(r) = {} /\ LastMark(r, n + 1)
  BY TopFirst
<1>3. Items(<<>>) = {} /\ InOrder(<<>>) /\ <<>> \in Seq(Nat \X Nat) /\ \A i \in 1..Len(<<>>) : <<>>[i][2] < n + 1
  BY DEF Items, InOrder
<1>4. Quiet(r, n + 1) /\ n + 1 \in 1..Len(r)
  BY <1>1 DEF Quiet
<1>5. QED
  BY <1>2, <1>3, <1>4 DEF Between, Gathered

-----------------------------------------------------------------------------
(***************************************************************************)
(* The invariant of a scanner that collects members.                       *)
(***************************************************************************)
Collecting == call \in {"Fields", "Elements"}

\* What the entry point set, and how deep the document read so far leaves it.
CallInv ==
  /\ start \in [Depths -> Nat]
  /\ verdict # "none" => ~elements
  /\ verdict = "none" =>
       /\ top <=> call = "Fields"
       /\ elements <=> call = "Elements"
       /\ Level(doc, Len(doc)) = depth
       /\ ~Collecting => members = <<>>
       /\ Collecting /\ depth > 0 => kind[1] = IF call = "Fields" THEN "object" ELSE "array"

\* What has been collected, place by place.
PlaceMembers ==
  /\ depth = 0 /\ expect = "value" => Marks(doc) = {} /\ members = <<>>
  /\ depth = 0 /\ expect = "end" => Done(doc, members)
  /\ depth = 1 /\ expect \in {"first", "key", "value"} => Between(doc, members)
  /\ depth = 1 /\ expect = "colon" => Keyed(doc, members)
  /\ depth = 1 /\ expect = "after" => Valued(doc, members)
  /\ depth > 1 => Within(doc, members, start[1])

MemberInv == CallInv /\ (verdict = "none" /\ Collecting => PlaceMembers)

\* Which tokens are separators at depth d.
LEMMA MarkStep ==
  ASSUME NEW q, NEW t, NEW r, NEW n, Grows(q, t, r, n), NEW d \in Nat, Level(q, n) = d
  PROVE /\ Level(r, n + 1) = CASE t.kind \in Begins -> d + 1
                               [] t.kind \in Ends -> d - 1
                               [] OTHER -> d
        /\ Marks(r) = IF \/ t.kind \in Begins /\ d = 0
                         \/ t.kind \in {"colon", "comma"} \cup Ends /\ d = 1
                      THEN Marks(q) \cup {n + 1} ELSE Marks(q)
<1>1. Level(r, n + 1) = CASE t.kind \in Begins -> d + 1
                          [] t.kind \in Ends -> d - 1
                          [] OTHER -> d
  BY LevelGrown
<1>2. Marks(r) = IF IsMark(t, Level(r, n + 1)) THEN Marks(q) \cup {n + 1} ELSE Marks(q)
  BY MarksGrown
<1>3. CASE t.kind \in Begins
  BY <1>1, <1>2, <1>3 DEF IsMark, Begins, Ends
<1>4. CASE t.kind \in Ends
  BY <1>1, <1>2, <1>4 DEF IsMark, Begins, Ends
<1>5. CASE t.kind \notin Begins \cup Ends
  BY <1>1, <1>2, <1>5 DEF IsMark, Begins, Ends
<1>6. QED
  BY <1>3, <1>4, <1>5

\* The document grows by the token read.
LEMMA DocSteps ==
  ASSUME ScanInv, NEW t \in Tokens, doc' = Append(doc, t)
  PROVE Grows(doc, t, doc', Len(doc)) /\ Len(doc') = Len(doc) + 1 /\ depth \in Nat
<1>1. doc \in Seq(Tokens) /\ depth \in Nat
  BY StrictAssumption DEF ScanInv, ScanTypes
<1>2. QED
  BY <1>1 DEF Grows

\* What is collected where a value ends.
LEMMA EndedMembers ==
  ASSUME CallInv, verdict = "none", NEW d, NEW i, Ended(d, i), d = 1 => depth > 0
  PROVE /\ ~Collecting => members' = <<>>
        /\ Collecting => members' = IF d = 1 THEN Append(members, <<i, Len(doc) + 1>>) ELSE members
        /\ expect' = IF d = 0 THEN "end" ELSE "after"
<1>1. /\ top <=> call = "Fields"
      /\ elements <=> call = "Elements"
      /\ ~Collecting => members = <<>>
      /\ Collecting /\ depth > 0 => kind[1] = IF call = "Fields" THEN "object" ELSE "array"
  BY DEF CallInv
<1>2. CASE ~Collecting
  BY <1>1, <1>2 DEF Ended, Collecting
<1>3. CASE Collecting
  BY <1>1, <1>3 DEF Ended, Collecting
<1>4. QED
  BY <1>2, <1>3

-----------------------------------------------------------------------------
\* Every token keeps what the entry point set, and the level is the depth.
LEMMA CallKept ==
  ASSUME ScanInv, CallInv, NEW t \in Tokens, Reading(t), ~Refused(t), doc' = Append(doc, t),
         Space(t) \/ Key(t) \/ Colon(t) \/ Scalar(t) \/ Open(t) \/ Close(t) \/ Comma(t)
  PROVE CallInv'
<1>1. /\ verdict = "none" /\ verdict' = "none" /\ call' = call /\ top' = top /\ elements' = elements
  BY DEF Reading, Space, Key, Colon, Scalar, Open, Close, Comma
<1>2. /\ top <=> call = "Fields"
      /\ elements <=> call = "Elements"
      /\ Level(doc, Len(doc)) = depth
      /\ ~Collecting => members = <<>>
      /\ Collecting /\ depth > 0 => kind[1] = IF call = "Fields" THEN "object" ELSE "array"
      /\ start \in [Depths -> Nat]
  BY <1>1 DEF CallInv
<1>3. Level(doc', Len(doc')) = CASE t.kind \in Begins -> depth + 1
                                 [] t.kind \in Ends -> depth - 1
                                 [] OTHER -> depth
  BY <1>2, DocSteps, MarkStep
<1>4. Level(doc', Len(doc')) = depth'
  <2>1. CASE Open(t)
    <3>1. t.kind \in Begins /\ depth' = depth + 1
      BY <2>1 DEF Open
    <3>2. t.kind \notin Ends
      BY <3>1 DEF Begins, Ends
    <3>3. QED
      BY <1>3, <3>1, <3>2
  <2>2. CASE Close(t)
    BY <1>3, <2>2 DEF Close, Begins, Ends
  <2>3. CASE Space(t) \/ Key(t) \/ Colon(t) \/ Scalar(t) \/ Comma(t)
    <3>1. depth' = depth /\ t.kind \notin Begins \cup Ends
      BY <2>3 DEF Space, Skipped, Key, Colon, Scalar, Comma, Scalars, Begins, Ends
    <3>2. QED
      BY <1>3, <3>1
  <2>4. QED
    BY <2>1, <2>2, <2>3
<1>5. Collecting' <=> Collecting
  BY <1>1 DEF Collecting
<1>6. ~Collecting => members' = <<>>
  <2>1. CASE Scalar(t)
    <3>1. Ended(depth, Len(doc) + 1)
      BY <2>1 DEF Scalar
    <3>2. QED
      BY <1>1, <3>1, EndedMembers
  <2>2. CASE Close(t)
    <3>1. Ended(depth - 1, IF depth = 1 THEN 1 ELSE start[depth - 1]) /\ depth \in Nat
      BY <2>2, DocSteps DEF Close
    <3>2. depth - 1 = 1 => depth > 0
      BY <3>1
    <3>3. QED
      BY <1>1, <3>1, <3>2, EndedMembers
  <2>3. CASE Space(t) \/ Key(t) \/ Colon(t) \/ Open(t) \/ Comma(t)
    BY <1>2, <2>3 DEF Space, Key, Colon, Open, Comma
  <2>4. QED
    BY <2>1, <2>2, <2>3
<1>7. Collecting /\ depth' > 0 => kind'[1] = IF call = "Fields" THEN "object" ELSE "array"
  <2>1. CASE Open(t)
    <3>1. PICK m \in Nat : /\ m = depth /\ m + 1 \in Depths
                           /\ kind' = [kind EXCEPT ![m + 1] = IF t.kind = "beginObject" THEN "object" ELSE "array"]
      <4>1. \E m \in Nat : m = depth /\ m + 1 \in Depths
        BY <1>1, <2>1, OpenDepth
      <4>2. QED
        BY <2>1, <4>1 DEF Open
    <3>2. kind \in [Depths -> {"object", "array"}]
      BY DEF ScanInv, ScanTypes
    <3>3. CASE m = 0
      <4>1. SUFFICES ASSUME Collecting PROVE kind'[1] = IF call = "Fields" THEN "object" ELSE "array"
        OBVIOUS
      <4>2. expect \in {"value", "first"} /\ (expect = "first" => depth > 0) /\ t.kind \in Looked
        <5>1. t.kind \in Begins /\ t.kind # "space"
          BY <2>1 DEF Open, Begins
        <5>2. expect \in {"value", "first"}
          BY <1>1, <5>1, PlaceOf
        <5>3. QED
          BY <5>1, <5>2 DEF ScanInv, PlaceInv, Refused, Skipped
      <4>3. expect = "value"
        BY <3>1, <3>3, <4>2
      <4>4. t.kind = IF call = "Fields" THEN "beginObject" ELSE "beginArray"
        BY <3>1, <3>3, <4>1, <4>2, <4>3 DEF Looked, Collecting
      <4>5. kind'[1] = IF t.kind = "beginObject" THEN "object" ELSE "array"
        BY <3>1, <3>2, <3>3
      <4>6. QED
        BY <4>4, <4>5
    <3>4. CASE m > 0
      <4>1. m + 1 # 1 /\ 1 \in Depths
        BY <3>1, <3>4, StrictAssumption DEF Depths
      <4>2. kind'[1] = kind[1]
        BY <3>1, <3>2, <4>1
      <4>3. QED
        BY <1>2, <3>1, <3>4, <4>2
    <3>5. QED
      BY <3>1, <3>3, <3>4
  <2>2. CASE Space(t) \/ Key(t) \/ Colon(t) \/ Scalar(t) \/ Close(t) \/ Comma(t)
    <3>1. kind' = kind /\ (depth' = depth \/ depth' = depth - 1) /\ depth \in Nat
      BY <2>2, DocSteps DEF Space, Key, Colon, Scalar, Close, Comma
    <3>2. depth' > 0 => depth > 0
      BY <3>1
    <3>3. QED
      BY <1>2, <3>1, <3>2
  <2>3. QED
    BY <2>1, <2>2
<1>8. start' \in [Depths -> Nat]
  <2>1. CASE Open(t)
    <3>1. start' = IF depth = 0 THEN start ELSE [start EXCEPT ![depth] = Len(doc) + 1]
      BY <2>1 DEF Open
    <3>2. doc \in Seq(Tokens)
      BY DEF ScanInv, ScanTypes
    <3>3. Len(doc) + 1 \in Nat
      BY <3>2
    <3>4. QED
      BY <1>2, <3>1, <3>3
  <2>2. CASE ~Open(t)
    <3>1. start' = start
      BY <2>2 DEF Space, Key, Colon, Scalar, Close, Comma
    <3>2. QED
      BY <1>2, <3>1
  <2>3. QED
    BY <2>1, <2>2
<1>9. QED
  BY <1>1, <1>2, <1>4, <1>5, <1>6, <1>7, <1>8 DEF CallInv

-----------------------------------------------------------------------------
\* The separators of the document that has grown.
LEMMA MarksNext ==
  ASSUME ScanInv, CallInv, NEW t \in Tokens, Reading(t), doc' = Append(doc, t)
  PROVE /\ Grows(doc, t, doc', Len(doc)) /\ depth \in Nat
        /\ Marks(doc') = IF \/ t.kind \in Begins /\ depth = 0
                            \/ t.kind \in {"colon", "comma"} \cup Ends /\ depth = 1
                         THEN Marks(doc) \cup {Len(doc) + 1} ELSE Marks(doc)
<1>1. Level(doc, Len(doc)) = depth
  BY DEF CallInv, Reading
<1>2. QED
  BY <1>1, DocSteps, MarkStep

\* Inside a member's value nothing is collected.
LEMMA InnerKept ==
  ASSUME ScanInv, CallInv, PlaceMembers, NEW t \in Tokens, Reading(t), doc' = Append(doc, t),
         depth > 1, members' = members, depth' > 1, start'[1] = start[1]
  PROVE PlaceMembers'
<1>1. Grows(doc, t, doc', Len(doc)) /\ Marks(doc') = Marks(doc) /\ depth' # 0 /\ depth' # 1
  BY MarksNext
<1>2. Within(doc, members, start[1])
  BY DEF PlaceMembers
<1>3. Within(doc', members, start[1])
  BY <1>1, <1>2, InnerPasses
<1>4. QED
  BY <1>1, <1>3 DEF PlaceMembers

\* Space keeps what has been collected right for its place.
LEMMA SpaceMembers ==
  ASSUME ScanInv, CallInv, PlaceMembers, NEW t \in Tokens, Reading(t), doc' = Append(doc, t), Space(t)
  PROVE PlaceMembers'
<1>1. UNCHANGED <<depth, expect, start, members>> /\ t.kind = "space"
  BY DEF Space, Skipped
<1>2. Grows(doc, t, doc', Len(doc)) /\ Marks(doc') = Marks(doc)
  BY <1>1, MarksNext DEF Begins, Ends
<1>3. \A s : /\ Between(doc, members) => Between(doc', members)
             /\ Keyed(doc, members) => Keyed(doc', members)
             /\ Valued(doc, members) => Valued(doc', members)
             /\ Within(doc, members, s) => Within(doc', members, s)
             /\ Done(doc, members) => Done(doc', members)
  BY <1>1, <1>2, SpacePasses
<1>4. QED
  BY <1>1, <1>2, <1>3 DEF PlaceMembers

\* Key keeps what has been collected right for its place.
LEMMA KeyMembers ==
  ASSUME ScanInv, CallInv, PlaceMembers, NEW t \in Tokens, Reading(t), ~Refused(t), doc' = Append(doc, t), Key(t)
  PROVE PlaceMembers'
<1>1. UNCHANGED <<depth, start, members>> /\ t.kind = "string" /\ Keying /\ expect' = "colon" /\ verdict = "none"
  BY DEF Key, Reading
<1>2. depth > 0 /\ expect \in {"key", "first"}
  <2>1. depth > 0
    BY <1>1, PlaceOf
  <2>2. QED
    BY <1>1, <2>1 DEF Keying
<1>3. Grows(doc, t, doc', Len(doc)) /\ Marks(doc') = Marks(doc) /\ depth \in Nat
  BY <1>1, MarksNext DEF Begins, Ends
<1>4. CASE depth = 1
  <2>1. Between(doc, members)
    BY <1>2, <1>4 DEF PlaceMembers
  <2>2. Keyed(doc', members)
    BY <1>3, <2>1, KeyPasses
  <2>3. QED
    BY <1>1, <1>4, <2>2 DEF PlaceMembers
<1>5. CASE depth > 1
  BY <1>1, <1>5, InnerKept
<1>6. QED
  BY <1>2, <1>3, <1>4, <1>5

\* Colon keeps what has been collected right for its place.
LEMMA ColonMembers ==
  ASSUME ScanInv, CallInv, PlaceMembers, NEW t \in Tokens, Reading(t), ~Refused(t), doc' = Append(doc, t), Colon(t)
  PROVE PlaceMembers'
<1>1. UNCHANGED <<depth, start, members>> /\ t.kind = "colon" /\ expect' = "value" /\ verdict = "none"
  BY DEF Colon, Reading
<1>2. expect = "colon" /\ depth > 0
  <2>1. expect = "colon"
    BY <1>1, PlaceOf
  <2>2. QED
    BY <2>1 DEF ScanInv, PlaceInv
<1>3. Grows(doc, t, doc', Len(doc)) /\ depth \in Nat
  BY MarksNext
<1>4. CASE depth = 1
  <2>1. Keyed(doc, members)
    BY <1>2, <1>4 DEF PlaceMembers
  <2>2. Marks(doc') = Marks(doc) \cup {Len(doc) + 1}
    BY <1>1, <1>4, MarksNext
  <2>3. Between(doc', members)
    BY <1>1, <1>3, <2>1, <2>2, ColonPasses
  <2>4. QED
    BY <1>1, <1>4, <2>3 DEF PlaceMembers
<1>5. CASE depth > 1
  BY <1>1, <1>5, InnerKept
<1>6. QED
  BY <1>2, <1>3, <1>4, <1>5

\* Comma keeps what has been collected right for its place.
LEMMA CommaMembers ==
  ASSUME ScanInv, CallInv, PlaceMembers, NEW t \in Tokens, Reading(t), ~Refused(t), doc' = Append(doc, t), Comma(t)
  PROVE PlaceMembers'
<1>1. UNCHANGED <<depth, start, members>> /\ t.kind = "comma" /\ expect' \in {"key", "value"} /\ verdict = "none"
  BY DEF Comma, Reading
<1>2. expect = "after" /\ depth > 0
  BY <1>1, PlaceOf
<1>3. Grows(doc, t, doc', Len(doc)) /\ depth \in Nat
  BY MarksNext
<1>4. CASE depth = 1
  <2>1. Valued(doc, members)
    BY <1>2, <1>4 DEF PlaceMembers
  <2>2. Marks(doc') = Marks(doc) \cup {Len(doc) + 1} /\ t.kind # "colon"
    BY <1>1, <1>4, MarksNext
  <2>3. Between(doc', members)
    BY <1>3, <2>1, <2>2, MarkPasses
  <2>4. QED
    BY <1>1, <1>4, <2>3 DEF PlaceMembers
<1>5. CASE depth > 1
  BY <1>1, <1>5, InnerKept
<1>6. QED
  BY <1>2, <1>3, <1>4, <1>5

\* Fields and Elements go on only at the bracket they ask for.
LEMMA TopBracket ==
  ASSUME ScanInv, Collecting, NEW t \in Tokens, Reading(t), ~Refused(t), t.kind \in Values, ~Keying, depth = 0
  PROVE expect = "value" /\ t.kind \in Begins
<1>1. t.kind # "space" /\ verdict = "none" /\ (t.kind \in Scalars \/ t.kind \in Begins)
  BY DEF Values, Scalars, Begins, Reading
<1>2. expect \in {"value", "first"}
  BY <1>1, PlaceOf
<1>3. expect = "value" /\ t.kind \in Looked
  BY <1>1, <1>2 DEF ScanInv, PlaceInv, Refused, Skipped
<1>4. QED
  BY <1>3 DEF Looked, Collecting, Begins

\* Scalar keeps what has been collected right for its place.
LEMMA ScalarMembers ==
  ASSUME ScanInv, CallInv, Collecting, PlaceMembers, NEW t \in Tokens, Reading(t), ~Refused(t),
         doc' = Append(doc, t), Scalar(t)
  PROVE PlaceMembers'
<1>1. /\ UNCHANGED <<depth, start>> /\ t.kind \in Scalars /\ ~Keying /\ verdict = "none" /\ t.kind # "space"
      /\ Ended(depth, Len(doc) + 1)
  BY DEF Scalar, Scalars, Reading
<1>2. /\ members' = IF depth = 1 THEN Append(members, <<Len(doc) + 1, Len(doc) + 1>>) ELSE members
      /\ expect' = IF depth = 0 THEN "end" ELSE "after"
  BY <1>1, EndedMembers
<1>3. expect \in {"value", "first"} /\ depth # 0
  <2>1. expect \in {"value", "first"}
    BY <1>1, PlaceOf
  <2>2. t.kind \in Values /\ t.kind \notin Begins
    BY <1>1 DEF Values, Scalars, Begins
  <2>3. QED
    BY <1>1, <2>1, <2>2, TopBracket
<1>4. Grows(doc, t, doc', Len(doc)) /\ Marks(doc') = Marks(doc) /\ depth \in Nat
  BY <1>1, MarksNext DEF Scalars, Begins, Ends
<1>5. CASE depth = 1
  <2>1. Between(doc, members)
    BY <1>3, <1>5 DEF PlaceMembers
  <2>2. Valued(doc', Append(members, <<Len(doc) + 1, Len(doc) + 1>>))
    BY <1>1, <1>4, <2>1, ScalarPasses
  <2>3. QED
    BY <1>1, <1>2, <1>5, <2>2 DEF PlaceMembers
<1>6. CASE depth > 1
  BY <1>1, <1>2, <1>6, InnerKept
<1>7. QED
  BY <1>3, <1>4, <1>5, <1>6

\* Open keeps what has been collected right for its place.
LEMMA OpenMembers ==
  ASSUME ScanInv, CallInv, Collecting, PlaceMembers, NEW t \in Tokens, Reading(t), ~Refused(t),
         doc' = Append(doc, t), Open(t)
  PROVE PlaceMembers'
<1>1. /\ depth' = depth + 1 /\ members' = members /\ t.kind \in Begins /\ verdict = "none" /\ t.kind # "space"
      /\ start' = (IF depth = 0 THEN start ELSE [start EXCEPT ![depth] = Len(doc) + 1])
      /\ expect' = "first"
  BY DEF Open, Begins, Reading
<1>2. expect \in {"value", "first"} /\ (expect = "first" => depth > 0) /\ t.kind \notin {"colon", "comma"} \cup Ends
  <2>1. expect \in {"value", "first"}
    BY <1>1, PlaceOf
  <2>2. t.kind \notin {"colon", "comma"} \cup Ends
    BY <1>1 DEF Begins, Ends
  <2>3. QED
    BY <2>1, <2>2 DEF ScanInv, PlaceInv
<1>3. Grows(doc, t, doc', Len(doc)) /\ depth \in Nat
  BY MarksNext
<1>4. start \in [Depths -> Nat] /\ depth + 1 \in Depths /\ 1 \in Depths /\ (depth > 0 => depth \in Depths)
  BY <1>3, OpenDepth, StrictAssumption DEF CallInv, Depths
<1>5. CASE depth = 0
  <2>1. Marks(doc) = {} /\ members = <<>>
    BY <1>2, <1>5 DEF PlaceMembers
  <2>2. Marks(doc') = Marks(doc) \cup {Len(doc) + 1}
    BY <1>1, <1>5, MarksNext
  <2>3. Between(doc', <<>>)
    BY <1>3, <2>1, <2>2, BeginPasses
  <2>4. depth' = 1
    BY <1>1, <1>5
  <2>5. QED
    BY <1>1, <2>1, <2>3, <2>4 DEF PlaceMembers
<1>6. CASE depth = 1
  <2>1. Between(doc, members)
    BY <1>2, <1>6 DEF PlaceMembers
  <2>2. Marks(doc') = Marks(doc)
    BY <1>2, <1>6, MarksNext
  <2>3. Within(doc', members, Len(doc) + 1)
    BY <1>1, <1>3, <2>1, <2>2, OpenPasses
  <2>4. start'[1] = Len(doc) + 1 /\ depth' = 2
    BY <1>1, <1>4, <1>6
  <2>5. QED
    BY <1>1, <2>3, <2>4 DEF PlaceMembers
<1>7. CASE depth > 1
  <2>1. start'[1] = start[1] /\ depth' > 1
    BY <1>1, <1>3, <1>4, <1>7
  <2>2. QED
    BY <1>1, <1>7, <2>1, InnerKept
<1>8. QED
  BY <1>3, <1>5, <1>6, <1>7

\* Close keeps what has been collected right for its place.
LEMMA CloseMembers ==
  ASSUME ScanInv, CallInv, Collecting, PlaceMembers, NEW t \in Tokens, Reading(t), ~Refused(t),
         doc' = Append(doc, t), Close(t)
  PROVE PlaceMembers'
<1>1. /\ depth' = depth - 1 /\ start' = start /\ t.kind \in Ends /\ verdict = "none" /\ t.kind \notin {"space", "colon"}
      /\ Ended(depth - 1, IF depth = 1 THEN 1 ELSE start[depth - 1])
  BY DEF Close, Ends, Reading
<1>2. expect \in {"first", "after"} /\ depth > 0 /\ depth \in Nat
  <2>1. expect \in {"first", "after"} /\ depth > 0
    BY <1>1, PlaceOf
  <2>2. QED
    BY <2>1, MarksNext
<1>3. /\ members' = (IF depth - 1 = 1 THEN Append(members, <<IF depth = 1 THEN 1 ELSE start[depth - 1], Len(doc) + 1>>)
                     ELSE members)
      /\ expect' = IF depth - 1 = 0 THEN "end" ELSE "after"
  BY <1>1, <1>2, EndedMembers
<1>4. Grows(doc, t, doc', Len(doc)) /\ t.kind \notin Begins
  BY <1>1, MarksNext DEF Begins, Ends
<1>5. CASE depth = 1
  <2>1. Between(doc, members) \/ Valued(doc, members)
    BY <1>2, <1>5 DEF PlaceMembers
  <2>2. Marks(doc') = Marks(doc) \cup {Len(doc) + 1}
    BY <1>1, <1>5, MarksNext
  <2>3. Done(doc', members)
    BY <1>1, <1>4, <2>1, <2>2, MarkPasses
  <2>4. depth' = 0 /\ expect' = "end" /\ members' = members
    BY <1>1, <1>3, <1>5
  <2>5. QED
    BY <2>3, <2>4 DEF PlaceMembers
<1>6. CASE depth = 2
  <2>1. Within(doc, members, start[1])
    BY <1>6 DEF PlaceMembers
  <2>2. Marks(doc') = Marks(doc)
    BY <1>4, <1>6, MarksNext
  <2>3. Valued(doc', Append(members, <<start[1], Len(doc) + 1>>))
    BY <1>1, <1>4, <2>1, <2>2, ClosePasses
  <2>4. depth' = 1 /\ expect' = "after" /\ members' = Append(members, <<start[1], Len(doc) + 1>>)
    BY <1>1, <1>3, <1>6
  <2>5. QED
    BY <2>3, <2>4 DEF PlaceMembers
<1>7. CASE depth > 2
  <2>1. depth > 1 /\ depth' > 1 /\ members' = members /\ start'[1] = start[1]
    BY <1>1, <1>2, <1>3, <1>7
  <2>2. QED
    BY <2>1, InnerKept
<1>8. QED
  BY <1>2, <1>5, <1>6, <1>7

-----------------------------------------------------------------------------
\* A document of no tokens.
LEMMA NoTokens == Marks(<<>>) = {} /\ Level(<<>>, Len(<<>>)) = 0
<1>1. Len(<<>>) = 0 /\ DOMAIN <<>> = {}
  OBVIOUS
<1>2. Marks(<<>>) = {}
  BY <1>1 DEF Marks
<1>3. \A K : {j \in 1..0 : <<>>[j].kind \in K} = {}
  OBVIOUS
<1>4. Cardinality({}) = 0
  BY FS_EmptySet
<1>5. QED
  BY <1>1, <1>2, <1>3, <1>4 DEF Level

\* The invariant of a scanner that collects members is inductive.
LEMMA MembersInvariant == Spec => []MemberInv
<1>1. Init => MemberInv
  <2> SUFFICES ASSUME Init PROVE MemberInv
    OBVIOUS
  <2>1. /\ start \in [Depths -> Nat] /\ verdict = "none" /\ doc = <<>> /\ depth = 0 /\ members = <<>> /\ expect = "value"
        /\ (top <=> call = "Fields") /\ (elements <=> call = "Elements")
    BY DEF Init
  <2>2. QED
    BY <2>1, NoTokens DEF MemberInv, CallInv, PlaceMembers
<1>2. ScanInv /\ MemberInv /\ [Next]_vars => MemberInv'
  <2> SUFFICES ASSUME ScanInv, MemberInv, [Next]_vars PROVE MemberInv'
    OBVIOUS
  <2>1. ASSUME NEW t \in Tokens, Scan(t) PROVE MemberInv'
    <3>1. /\ doc' = Append(doc, t) /\ Reading(t) /\ ~Refused(t) /\ verdict = "none" /\ CallInv
          /\ Space(t) \/ Key(t) \/ Colon(t) \/ Scalar(t) \/ Open(t) \/ Close(t) \/ Comma(t)
      BY <2>1 DEF Scan, Reading, MemberInv
    <3>2. CallInv'
      BY <3>1, CallKept
    <3>3. call' = call /\ (Collecting' <=> Collecting)
      BY <3>1 DEF Space, Key, Colon, Scalar, Open, Close, Comma, Collecting
    <3>4. ASSUME Collecting PROVE PlaceMembers'
      <4>1. PlaceMembers
        BY <3>1, <3>4 DEF MemberInv
      <4>2. QED
        BY <3>1, <3>4, <4>1, SpaceMembers, KeyMembers, ColonMembers, ScalarMembers, OpenMembers, CloseMembers, CommaMembers
    <3>5. QED
      BY <3>2, <3>3, <3>4 DEF MemberInv
  <2>2. ASSUME NEW v \in {"valid", "refused"}, Answer(v) PROVE MemberInv'
    BY <2>2 DEF Answer, Fresh, Cleared, MemberInv, CallInv
  <2>3. ASSUME NEW c \in Calls, Again(c) PROVE MemberInv'
    <3>1. /\ start' \in [Depths -> Nat] /\ verdict' = "none" /\ doc' = <<>> /\ depth' = 0 /\ members' = <<>>
          /\ expect' = "value" /\ call' = c /\ top' = (c = "Fields") /\ elements' = (elements \/ c = "Elements")
      BY <2>3 DEF Again, Take, Fresh
    <3>2. ~elements
      BY <2>3 DEF Again, MemberInv, CallInv
    <3>3. (top' <=> c = "Fields") /\ (elements' <=> c = "Elements")
      BY <3>1, <3>2
    <3>4. QED
      BY <3>1, <3>3, NoTokens DEF MemberInv, CallInv, PlaceMembers
  <2>4. CASE UNCHANGED vars
    BY <2>4 DEF vars, MemberInv, CallInv, PlaceMembers, Collecting
  <2>5. QED
    BY <2>1, <2>2, <2>3, <2>4 DEF Next, Accept, Refuse
<1>3. QED
  BY <1>1, <1>2, ScanInvariant, PTL DEF Spec

(***************************************************************************)
(* Fields and Elements answer the values of the top-level members, each    *)
(* once and in document order, for documents of any length and depth.      *)
(***************************************************************************)
THEOREM MembersAreExact == Spec => MembersExact
<1> DEFINE Exact ==
      verdict = "none" /\ verdict' = "valid" =>
        /\ \A i \in 1..(Len(members) - 1) : members[i][2] < members[i + 1][1]
        /\ {members[i] : i \in DOMAIN members} = IF call \in {"Fields", "Elements"} THEN TopValues(doc) ELSE {}
<1>1. ScanInv /\ MemberInv /\ [Next]_vars => [Exact]_vars
  <2> SUFFICES ASSUME ScanInv, MemberInv, Next, verdict = "none", verdict' = "valid" PROVE Exact
    OBVIOUS
  <2>1. PICK t \in Tokens : Accept(t)
    BY DEF Next, Scan, Space, Key, Colon, Scalar, Open, Close, Comma, Refuse, Answer, Again
  <2>2. expect = "end" /\ depth = 0
    <3>1. expect = "end"
      BY <2>1, PlaceOf DEF Accept
    <3>2. QED
      BY <3>1 DEF ScanInv, PlaceInv
  <2>3. CASE call \in {"Fields", "Elements"}
    <3>1. Done(doc, members)
      BY <2>2, <2>3 DEF MemberInv, Collecting, PlaceMembers
    <3>2. QED
      BY <2>3, <3>1 DEF Done, InOrder, Items
  <2>4. CASE call \notin {"Fields", "Elements"}
    <3>1. members = <<>>
      BY <2>4 DEF MemberInv, CallInv, Collecting
    <3>2. QED
      BY <2>4, <3>1
  <2>5. QED
    BY <2>3, <2>4
<1>2. MembersExact <=> [][Exact]_vars
  BY DEF MembersExact
<1> HIDE DEF Exact
<1>3. QED
  BY <1>1, <1>2, ScanInvariant, MembersInvariant, PTL DEF Spec
=============================================================================
