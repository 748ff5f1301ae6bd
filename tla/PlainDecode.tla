----------------------------- MODULE PlainDecode -----------------------------
(***************************************************************************)
(* The decoders that read a document's members in one strictjson pass when *)
(* every member is named exactly as the struct's, and run the strict       *)
(* encoding/json decode for anything else: the invoke frame, the           *)
(* host_response frame and the call payload (plugin/frame_fast.go), the    *)
(* selection plan (model/selection_plan.go) and the convert request        *)
(* (model/subscription_methods.go).                                        *)
(*                                                                         *)
(* A document is its members in order, whether data follows it, and        *)
(* whether it nests deeper than strictjson scans.  A member is the field   *)
(* its key names when case is ignored ("other" for none), whether it is    *)
(* spelled exactly so, and a value [form, id, in]: null, a text, a number, *)
(* an object of members or a list of values.  A struct keeps one field of  *)
(* each type its decoder tells apart.  A list spelled twice is left out:   *)
(* encoding/json then decodes into the elements it already holds.          *)
(***************************************************************************)
EXTENDS Integers, Sequences

Val(form, id, in) == [form |-> form, id |-> id, in |-> in]
Zero == Val("zero", "", <<>>)
-----------------------------------------------------------------------------
(***************************************************************************)
(* The structs.  A "strict" member is decoded as a whole with unknown      *)
(* fields refused (decodeStrictMember), a "pointer", a "struct" and the    *)
(* elements of "records" by their own members.                             *)
(***************************************************************************)
Outer(shape) ==
  CASE shape = "invoke" -> [kind |-> "string", generation |-> "number", request |-> "pointer"]
    [] shape = "host_response" -> [kind |-> "string", generation |-> "number", host_response |-> "struct"]
    [] shape = "call" -> [service |-> "string", method |-> "string", payload |-> "raw"]
    [] shape = "plan" -> [kind |-> "string", nodes |-> "records", selection |-> "strict"]
    [] OTHER -> [target |-> "string", nodes |-> "raws", document |-> "strict"]

Inner(shape) ==
  CASE shape = "invoke" -> [action |-> "string", payload |-> "raw"]
    [] shape = "host_response" -> [id |-> "raw", ok |-> "raw"]
    [] shape = "plan" -> [line_uuid |-> "string", node |-> "raw"]
    [] OTHER -> [content |-> "string"]

\* A field that may hold an object has a struct of its own.
Nested(type) == type \in {"pointer", "struct", "records", "strict"}

Zeros(schema) == [f \in DOMAIN schema |-> Zero]

Failed == [ok |-> FALSE, value |-> Zero]
Made(v) == [ok |-> TRUE, value |-> v]

-----------------------------------------------------------------------------
(***************************************************************************)
(* encoding/json.                                                          *)
(***************************************************************************)
\* One value into a field that holds old, for the types without a struct:
\* null leaves a string and a number as they are and is kept by a RawMessage.
Store(type, old, v) ==
  CASE type = "raw" -> Made(v)
    [] type = "raws" -> (CASE v.form = "null" -> Made(Zero) [] v.form = "list" -> Made(v) [] OTHER -> Failed)
    [] type \in {"string", "number"} /\ v.form = "null" -> Made(old)
    [] OTHER -> IF <<type, v.form>> \in {<<"string", "text">>, <<"number", "number">>} THEN Made(v) ELSE Failed

\* The members of an object into a struct, in order; a key matches a field
\* whatever its case, and one no field answers to is refused.
Fill(schema, from, members) ==
  LET Step(acc, m) ==
        IF ~acc.ok THEN acc
        ELSE IF m.key \notin DOMAIN schema THEN Failed
        ELSE LET stored == Store(schema[m.key], acc.value[m.key], m.val)
             IN IF stored.ok THEN Made([acc.value EXCEPT ![m.key] = stored.value]) ELSE Failed
      Upto[i \in 0..Len(members)] == IF i = 0 THEN Made(from) ELSE Step(Upto[i - 1], members[i])
  IN Upto[Len(members)]

Object(filled) == IF filled.ok THEN Made(Val("object", "", filled.value)) ELSE Failed

\* A value into a field with a struct.
StoreNested(type, old, v, inner) ==
  LET One(x, from) == IF x.form = "object" THEN Object(Fill(inner, from, x.in))
                      ELSE IF x.form = "null" THEN Made(Val("object", "", from)) ELSE Failed
      all == [i \in DOMAIN v.in |-> One(v.in[i], Zeros(inner))]
  IN CASE v.form = "null" -> Made(IF type = "struct" THEN old ELSE Zero)
       [] v.form = "list" /\ type = "records" ->
            (IF \A i \in DOMAIN all : all[i].ok THEN Made(Val("list", "", [i \in DOMAIN all |-> all[i].value])) ELSE Failed)
       [] v.form = "object" /\ type # "records" -> One(v, IF old = Zero THEN Zeros(inner) ELSE old.in)
       [] OTHER -> Failed

Unmarshal(shape, members, lenient) ==
  LET schema == Outer(shape)
      Step(acc, m) ==
        IF ~acc.ok THEN acc
        ELSE IF m.key \notin DOMAIN schema THEN IF lenient THEN acc ELSE Failed
        ELSE LET stored == IF Nested(schema[m.key]) THEN StoreNested(schema[m.key], acc.value[m.key], m.val, Inner(shape))
                           ELSE Store(schema[m.key], acc.value[m.key], m.val)
             IN IF stored.ok THEN Made([acc.value EXCEPT ![m.key] = stored.value]) ELSE Failed
      Upto[i \in 0..Len(members)] == IF i = 0 THEN Made(Zeros(schema)) ELSE Step(Upto[i - 1], members[i])
  IN Upto[Len(members)]

-----------------------------------------------------------------------------
(***************************************************************************)
(* The strict decode.                                                      *)
(***************************************************************************)
Repeats(members) ==
  \E i, j \in DOMAIN members : i < j /\ members[i].key = members[j].key /\ members[i].exact = members[j].exact

ObjectsIn(v) == CASE v.form = "object" -> {v.in} [] v.form = "list" -> {v.in[i].in : i \in {k \in DOMAIN v.in : v.in[k].form = "object"}} [] OTHER -> {}

\* rejectDuplicateJSONFields, rejectDuplicateJSONKeys: at any depth.
Duplicates(d) == Repeats(d.members) \/ \E i \in DOMAIN d.members : \E o \in ObjectsIn(d.members[i].val) : Repeats(o)

\* strictDecodeFrame and the slow halves of DecodeSelectionPlan and
\* DecodeConvertRequest; CallPayload runs json.Unmarshal.
Strict(d) ==
  IF d.trailing \/ (d.shape # "call" /\ Duplicates(d)) THEN Failed
  ELSE Unmarshal(d.shape, d.members, d.shape = "call")

-----------------------------------------------------------------------------
(***************************************************************************)
(* The plain case.                                                         *)
(***************************************************************************)
\* strictjson.Fields answers: one object, no key twice at any depth.
Scanned(d) == ~d.trailing /\ ~d.deep /\ ~Duplicates(d)

\* Mutant of Exact: a member is looked up without regard to case, last one wins.
Folded(schema, members) == \A i \in DOMAIN members : members[i].key \in DOMAIN schema

\* strictMembers: every member is named exactly as a field.
Exact(schema, members) ==
  \A i \in DOMAIN members : members[i].exact /\ members[i].key \in DOMAIN schema

\* decodeMembers and decodePlanNodeFast: each member on its own.
Members(schema, members) ==
  LET Value(f) == LET i == CHOOSE j \in DOMAIN members : members[j].key = f IN Store(schema[f], Zero, members[i].val)
      named == {members[i].key : i \in DOMAIN members}
  IN IF Exact(schema, members) /\ \A f \in named : Value(f).ok
     THEN Made([f \in DOMAIN schema |-> IF f \in named THEN Value(f).value ELSE Zero]) ELSE Failed

\* A member with a struct: by its own members, element by element, or whole.
Descend(type, v, inner) ==
  LET each == [i \in DOMAIN v.in |-> IF v.in[i].form = "object" THEN Object(Members(inner, v.in[i].in)) ELSE Failed]
  IN CASE type = "strict" -> StoreNested("strict", Zero, v, inner)
       [] type = "records" /\ v.form = "null" -> Made(Zero)
       [] type = "records" /\ v.form = "list" ->
            (IF \A i \in DOMAIN each : each[i].ok THEN Made(Val("list", "", [i \in DOMAIN each |-> each[i].value])) ELSE Failed)
       [] type \in {"pointer", "struct"} /\ v.form = "object" -> Object(Members(inner, v.in))
       [] OTHER -> Failed

Fast(d) ==
  LET schema == Outer(d.shape)
      named == {d.members[i].key : i \in DOMAIN d.members}
      Value(f) == LET v == d.members[CHOOSE i \in DOMAIN d.members : d.members[i].key = f].val
                  IN IF Nested(schema[f]) THEN Descend(schema[f], v, Inner(d.shape)) ELSE Store(schema[f], Zero, v)
  IN IF Scanned(d) /\ Exact(schema, d.members) /\ \A f \in named : Value(f).ok
     THEN Made([f \in DOMAIN schema |-> IF f \in named THEN Value(f).value ELSE Zero]) ELSE Failed

-----------------------------------------------------------------------------
\* decodeInvokeV2, HostClient.Call, Request.CallPayload, DecodeSelectionPlan
\* and DecodeConvertRequest, up to their validation.
Decode(d) == LET fast == Fast(d) IN IF fast.ok THEN fast ELSE Strict(d)
=============================================================================
