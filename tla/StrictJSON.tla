----------------------------- MODULE StrictJSON -----------------------------
(***************************************************************************)
(* strictjson's one-pass scanner (strictjson/strictjson.go): Valid,        *)
(* Fields, Elements and Compact over a scanner that goes back to a pool    *)
(* and is used for the next document.                                      *)
(*                                                                         *)
(* The document is chosen as it is read: the scanner looks at one token    *)
(* and never back, except through the keys it has noted.  The keys of an   *)
(* object are held in the slot of its depth, a slice whose array outlives  *)
(* the object and the document: used is the slice's length, slots the      *)
(* array behind it.                                                        *)
(***************************************************************************)
EXTENDS Integers, Sequences, FiniteSets

CONSTANTS
  Tokens,     \* the tokens of a document (TokenWalk), "end" among them
  Calls,      \* the entry points called: "Valid", "Fields", "Elements", "Compact"
  MaxDepth,   \* MaxDepth
  LinearKeys, \* linearKeys
  MaxTokens   \* bound: the longest document read, its end included

\* A number without an exponent and of at most 15 bytes fits a float64.
ASSUME StrictAssumption ==
  /\ MaxDepth \in Nat /\ LinearKeys \in Nat \ {0} /\ MaxTokens \in Nat
  /\ Tokens \subseteq [kind : STRING, raw : STRING, name : STRING]
  /\ \A t \in Tokens : t.kind = "number" =>
       t.name \in {"fits", "overflows"} /\ (t.name = "overflows" => t.raw = "long")

VARIABLES
  call,      \* the entry point at work
  doc,       \* s.data, as far as it has been read
  depth,     \* s.depth
  kind,      \* per depth, whether object or array scans there
  slots,     \* per depth, the array behind s.keys[depth]
  used,      \* per depth, len(keys)
  seen,      \* per depth, the map used past LinearKeys
  start,     \* per depth, valueStart or elementStart
  expect,    \* where the scanner is
  spaced,    \* s.spaced
  top,       \* s.top is set
  elements,  \* s.elements is set
  members,   \* what *s.top or *s.elements has collected
  verdict    \* what the entry point answered, "none" while it is scanning

vars == <<call, doc, depth, kind, slots, used, seen, start, expect, spaced, top, elements, members, verdict>>

Depths == 1..MaxDepth

\* keyRef.decoded of a key whose bytes are its decoded form.
Undecoded == ""

-----------------------------------------------------------------------------
(***************************************************************************)
(* The pool.                                                               *)
(***************************************************************************)
Init ==
  /\ call \in Calls /\ verdict = "none"
  /\ doc = <<>> /\ depth = 0 /\ spaced = FALSE /\ members = <<>> /\ expect = "value"
  /\ kind = [d \in Depths |-> "array"] /\ start = [d \in Depths |-> 0] /\ seen = [d \in Depths |-> {}]
  /\ slots = [d \in Depths |-> <<>>] /\ used = [d \in Depths |-> 0]
  /\ top = (call = "Fields") /\ elements = (call = "Elements")

\* Nothing scanned yet; the local variables of array and object have no value.
Fresh ==
  /\ doc' = <<>> /\ depth' = 0 /\ spaced' = FALSE /\ members' = <<>> /\ expect' = "value"
  /\ kind' = [d \in Depths |-> "array"] /\ start' = [d \in Depths |-> 0] /\ seen' = [d \in Depths |-> {}]

\* getScanner, and what Fields and Elements set; s.elements is left as it is.
Take(c) ==
  /\ Fresh /\ call' = c /\ verdict' = "none"
  /\ top' = (c = "Fields")
  /\ elements' = (elements \/ c = "Elements")
  /\ UNCHANGED <<slots, used>>

\* Mutant of Cleared: s.elements survives putScanner.
ClearedButElements == used' = [d \in Depths |-> 0] /\ slots' = [d \in Depths |-> <<>>] /\ top' = FALSE /\ UNCHANGED elements

\* putScanner.
Cleared ==
  /\ used' = [d \in Depths |-> 0]
  /\ slots' = [d \in Depths |-> <<>>]
  /\ top' = FALSE /\ elements' = FALSE

Answer(v) == Fresh /\ Cleared /\ verdict' = v /\ UNCHANGED call

-----------------------------------------------------------------------------
(***************************************************************************)
(* Keys.                                                                   *)
(***************************************************************************)
\* keyString.
KeyString(k) == IF k.plain THEN doc[k.at].raw ELSE k.decoded

\* str and decodeKey: the key just read, its bytes when they are its decoded
\* form already.
KeyRef(t) ==
  IF t.raw = t.name THEN [at |-> Len(doc) + 1, plain |-> TRUE, decoded |-> Undecoded]
  ELSE [at |-> Len(doc) + 1, plain |-> FALSE, decoded |-> t.name]

\* sameKey, of a key held and the one read.
SameKey(k, t) == KeyString(k) = t.name

\* Mutant of Slot: every object notes its keys in one slice.
OneSlot(d) == 1

Slot(d) == d

Held(d) == {slots[Slot(d)][i] : i \in 1..used[d]}

\* seen != nil: the map is made when the slice reaches LinearKeys, and the slice
\* grows no more.
Mapped(d) == used[d] = LinearKeys

Repeated(t) ==
  IF Mapped(depth) THEN t.name \in seen[depth] ELSE \E k \in Held(depth) : SameKey(k, t)

\* keys = append(keys, key).
Noted(t) ==
  [slots EXCEPT ![Slot(depth)] = SubSeq(@, 1, used[depth]) \o <<KeyRef(t)>>]

-----------------------------------------------------------------------------
(***************************************************************************)
(* The scan.                                                               *)
(***************************************************************************)
Scalars == {"string", "word", "number"}
Begins == {"beginObject", "beginArray"}
Ends == {"endObject", "endArray"}
Values == Scalars \cup Begins

InObject == depth > 0 /\ kind[depth] = "object"
Bracket == IF InObject THEN "endObject" ELSE "endArray"
Keying == expect = "key" \/ (expect = "first" /\ InObject)

\* space(), which Compact does not call around the value.
Skipped(t) == t.kind = "space" /\ ~(call = "Compact" /\ depth = 0)

\* The bytes value, array and object go on at.
Looked ==
  CASE expect = "value" /\ depth = 0 /\ call = "Fields" -> {"beginObject"}
    [] expect = "value" /\ depth = 0 /\ call = "Elements" -> {"beginArray"}
    [] expect = "value" /\ (depth > 0 \/ call \notin {"Fields", "Elements"}) -> Values
    [] expect = "first" -> (IF InObject THEN {"string"} ELSE Values) \cup {Bracket}
    [] expect = "key" -> {"string"}
    [] expect = "colon" -> {"colon"}
    [] expect = "after" -> {"comma", Bracket}
    [] OTHER -> {"end"}

\* number: only a long one, or one with an exponent, is parsed.
Parsed(t) == t.raw = "long" => t.name = "fits"

\* Mutant of TooDeep: the deepest level admitted is refused.
TooDeepEarly == depth + 1 >= MaxDepth

\* s.depth++; s.depth > MaxDepth.
TooDeep == depth + 1 > MaxDepth

Refused(t) ==
  /\ ~Skipped(t)
  /\ \/ t.kind \notin Looked
     \/ t.kind = "number" /\ ~Parsed(t)
     \/ t.kind \in Begins /\ TooDeep
     \/ Keying /\ t.kind = "string" /\ Repeated(t)
     \/ t.kind = "end" /\ call = "Compact" /\ spaced

\* Bound: a document has at most MaxTokens tokens, one of them white space.
Reading(t) == verdict = "none" /\ Len(doc) < MaxTokens /\ (t.kind = "space" => ~spaced)

Space(t) ==
  /\ Skipped(t) /\ spaced' = TRUE
  /\ UNCHANGED <<call, depth, kind, slots, used, seen, start, expect, top, elements, members, verdict>>

\* object, up to the colon: a key it does not carry yet.
Key(t) ==
  /\ t.kind = "string" /\ Keying
  /\ IF Mapped(depth)
     THEN seen' = [seen EXCEPT ![depth] = @ \cup {t.name}] /\ UNCHANGED <<slots, used>>
     ELSE /\ slots' = Noted(t)
          /\ used' = [used EXCEPT ![depth] = @ + 1]
          /\ seen' = IF used[depth] + 1 = LinearKeys
                     THEN [seen EXCEPT ![depth] = {KeyString(k) : k \in Held(depth)} \cup {t.name}]
                     ELSE seen
  /\ expect' = "colon"
  /\ UNCHANGED <<call, depth, kind, start, spaced, top, elements, members, verdict>>

Colon(t) ==
  /\ t.kind = "colon" /\ expect' = "value"
  /\ UNCHANGED <<call, depth, kind, slots, used, seen, start, spaced, top, elements, members, verdict>>

\* A value that began at token i ends at the one read, at depth d: a member or
\* an element of the top-level value is collected.
Ended(d, i) ==
  /\ members' =
       IF d = 1 /\ ((kind[1] = "object" /\ top) \/ (kind[1] = "array" /\ elements))
       THEN Append(members, <<i, Len(doc) + 1>>) ELSE members
  /\ expect' = IF d = 0 THEN "end" ELSE "after"

Scalar(t) ==
  /\ t.kind \in Scalars /\ ~Keying
  /\ Ended(depth, Len(doc) + 1)
  /\ UNCHANGED <<call, depth, kind, slots, used, seen, start, spaced, top, elements, verdict>>

\* array and object, at their opening bracket.
Open(t) ==
  /\ t.kind \in Begins
  /\ depth' = depth + 1
  /\ kind' = [kind EXCEPT ![depth + 1] = IF t.kind = "beginObject" THEN "object" ELSE "array"]
  /\ used' = [used EXCEPT ![depth + 1] = 0]
  /\ seen' = [seen EXCEPT ![depth + 1] = {}]
  /\ start' = IF depth = 0 THEN start ELSE [start EXCEPT ![depth] = Len(doc) + 1]
  /\ expect' = "first"
  /\ UNCHANGED <<call, slots, spaced, top, elements, members, verdict>>

Close(t) ==
  /\ t.kind \in Ends
  /\ depth' = depth - 1
  /\ used' = [used EXCEPT ![depth] = 0]
  /\ Ended(depth - 1, IF depth = 1 THEN 1 ELSE start[depth - 1])
  /\ UNCHANGED <<call, kind, slots, seen, start, spaced, top, elements, verdict>>

Comma(t) ==
  /\ t.kind = "comma"
  /\ expect' = IF InObject THEN "key" ELSE "value"
  /\ UNCHANGED <<call, depth, kind, slots, used, seen, start, spaced, top, elements, members, verdict>>

Scan(t) ==
  /\ Reading(t) /\ ~Refused(t) /\ doc' = Append(doc, t)
  /\ Space(t) \/ Key(t) \/ Colon(t) \/ Scalar(t) \/ Open(t) \/ Close(t) \/ Comma(t)

Accept(t) == Reading(t) /\ ~Refused(t) /\ t.kind = "end" /\ Answer("valid")

Refuse(t) == Reading(t) /\ Refused(t) /\ Answer("refused")

Again(c) == verdict # "none" /\ Take(c)

Next == (\E t \in Tokens : Scan(t) \/ Accept(t) \/ Refuse(t)) \/ \E c \in Calls : Again(c)

Spec == Init /\ [][Next]_vars

-----------------------------------------------------------------------------
Names(d) == IF Mapped(d) THEN seen[d] ELSE {KeyString(k) : k \in Held(d)}

Scanning == verdict = "none"

\* The values being scanned, with the keys the objects have had.
Levels ==
  IF Scanning
  THEN [d \in 1..depth |-> [kind |-> kind[d], seen |-> IF kind[d] = "object" THEN Names(d) ELSE {}]]
  ELSE <<>>

Walk == INSTANCE TokenWalk WITH open <- Levels, expect <- IF Scanning THEN expect ELSE "value"

(***************************************************************************)
(* The scanner admits no document the token walk refuses: a repeated key   *)
(* at any depth, however it is written and however many keys came before   *)
(* it, with a scanner other documents have used (strictjson.go: "it never  *)
(* admits what the specification refuses").                                *)
(***************************************************************************)
WalkImplemented == Walk!Spec

(***************************************************************************)
(* It refuses a document only where the token walk does, at nesting deeper *)
(* than MaxDepth, or for what its entry point asks besides (Fields an      *)
(* object, Elements an array, Compact no white space).                     *)
(***************************************************************************)
RefusedForCause ==
  [][\A t \in Tokens : Refuse(t) =>
       \/ Walk!Refuses(t)
       \/ t.kind \in Begins /\ depth = MaxDepth
       \/ depth = 0 /\ call \in {"Fields", "Elements"} /\ expect = "value"
       \/ call = "Compact" /\ (spaced \/ t.kind = "space")]_vars

\* How deep the token at i of a document q leaves it.
Level(q, i) ==
  Cardinality({j \in 1..i : q[j].kind \in Begins}) - Cardinality({j \in 1..i : q[j].kind \in Ends})

\* The separators of the top-level value: its brackets, commas and colons.
Marks(q) ==
  {i \in DOMAIN q :
     \/ Level(q, i) = 1 /\ q[i].kind \in {"colon", "comma"} \cup Begins
     \/ Level(q, i) = 0 /\ q[i].kind \in Ends}

Solid(q, i) == q[i].kind # "space"

\* The values of its members, or its elements: what lies between two
\* separators, keys aside, without white space around it.
TopValues(q) ==
  {p \in (DOMAIN q) \X (DOMAIN q) :
     /\ p[1] <= p[2] /\ Solid(q, p[1]) /\ Solid(q, p[2])
     /\ \E a, b \in Marks(q) :
          /\ a < p[1] /\ p[2] < b /\ q[b].kind # "colon"
          /\ ~\E m \in Marks(q) : a < m /\ m < b
          /\ {k \in (a + 1)..(b - 1) : Solid(q, k)} \subseteq p[1]..p[2]}

(***************************************************************************)
(* Fields and Elements answer the values of the top-level members, each    *)
(* once, in document order; Valid and Compact collect nothing.             *)
(***************************************************************************)
MembersExact ==
  [][verdict = "none" /\ verdict' = "valid" =>
       /\ \A i \in 1..(Len(members) - 1) : members[i][2] < members[i + 1][1]
       /\ {members[i] : i \in DOMAIN members} = IF call \in {"Fields", "Elements"} THEN TopValues(doc) ELSE {}]_vars
=============================================================================
