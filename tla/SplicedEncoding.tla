-------------------------- MODULE SplicedEncoding --------------------------
(***************************************************************************)
(* The two encoders that write raw JSON into their output as it is instead *)
(* of letting encoding/json compact it again: the invoke_result frame      *)
(* (plugin/frame_fast.go) and the convert request (model/                  *)
(* subscription_methods.go).                                               *)
(*                                                                         *)
(* A raw value is [open, json, repeats, spaced, escapes, bytes]: whether   *)
(* it opens an object, is JSON, repeats a key, has white space between its *)
(* tokens, holds a byte encoding/json escapes, and its length.  Encoded    *)
(* output is the sequence of its parts.                                    *)
(***************************************************************************)
EXTENDS SelectionPlan

CONSTANT MaxConvert  \* MaxConvertRequestBytes

\* What json.Marshal writes for a RawMessage: compacted (one byte less here)
\* and escaped (five bytes more).
Marshalled(raw) ==
  [raw EXCEPT !.spaced = FALSE, !.escapes = FALSE,
              !.bytes = @ - (IF raw.spaced THEN 1 ELSE 0) + (IF raw.escapes THEN 5 ELSE 0)]

\* strictjson.Compact.
Compact(raw) == raw.json /\ ~raw.repeats /\ ~raw.spaced

\* Mutant of CanonicalRaw: the bytes encoding/json escapes are not looked for.
CanonicalUnescaped(raw) == Compact(raw)

CanonicalRaw(raw) == Compact(raw) /\ ~raw.escapes

-----------------------------------------------------------------------------
(***************************************************************************)
(* The invoke_result frame of a response [ok, plan, message, result,       *)
(* error, warnings]: a member left out is {}.                              *)
(***************************************************************************)
Member(name, values) == IF values = {} THEN <<>> ELSE <<[name |-> name, value |-> CHOOSE v \in values : TRUE]>>

\* json.NewEncoder(w).Encode: "omitempty" members left out when empty.
EncodedResult(resp) ==
  <<[name |-> "ok", value |-> resp.ok]>> \o Member("plan", resp.plan) \o Member("message", resp.message)
  \o Member("result", {Marshalled(r) : r \in resp.result}) \o Member("error", resp.error) \o Member("warnings", resp.warnings)

\* appendInvokeResultFrame, and emitV2 of the frame when it answers false.
InvokeResult(resp) ==
  IF \A r \in resp.result : CanonicalRaw(r)
  THEN <<[name |-> "ok", value |-> resp.ok]>> \o Member("plan", resp.plan) \o Member("message", resp.message)
       \o Member("result", resp.result) \o Member("error", resp.error) \o Member("warnings", resp.warnings)
  ELSE EncodedResult(resp)

-----------------------------------------------------------------------------
(***************************************************************************)
(* The convert request [uris, raw, target, nodes, document, chain]; uris,  *)
(* raw and target say whether they are set, document is a sequence of at   *)
(* most one [content, substitutions].                                      *)
(***************************************************************************)
\* ConvertDocument.Validate: a substitution is [placeholder, credential], the
\* validity of each.
DocumentError(d) ==
  First(<<If(~d.content, "content"), If(\E s \in d.substitutions : ~s.placeholder, "key"),
          If(\E s \in d.substitutions : ~s.credential, "credential")>>)

Set(condition) == IF condition THEN 1 ELSE 0

\* ConvertRequest.Validate.
RequestError(r) ==
  First(<<If(Set(r.uris) + Set(r.raw) + Set(r.nodes # <<>>) + Set(r.document # <<>>) # 1, "inputs"),
          If(r.document = <<>> /\ ~r.target, "target"),
          If(Len(r.nodes) > MaxNodes, "nodes")>>
        \o [i \in DOMAIN r.nodes |-> If(~IsJSONObject(r.nodes[i]), "node")]
        \o [i \in DOMAIN r.document |-> DocumentError(r.document[i])]
        \o <<ChainError(r.chain)>>)

Failing(e) == [error |-> e, parts |-> <<>>]

Bytes(parts) == FoldLeft(+, 0, [i \in DOMAIN parts |-> parts[i].bytes])

Bounded(parts) == IF Bytes(parts) > MaxConvert THEN Failing("size") ELSE [error |-> OK, parts |-> parts]

Marshal(r) == [i \in DOMAIN r.nodes |-> Marshalled(r.nodes[i])]

\* The slot is in the encoded rest once for the nodes, and once for each step
\* whose arguments spell it out.
Slots(r) == 1 + Cardinality({i \in DOMAIN r.chain : r.chain[i].slot})

EmptyNode == [open |-> TRUE, json |-> TRUE, repeats |-> FALSE, spaced |-> FALSE, escapes |-> FALSE, bytes |-> 2]

\* encodeConvertRequestSpliced: at most one outcome, none when it leaves the
\* request to the caller.
Spliced(r) ==
  LET error == RequestError([r EXCEPT !.nodes = <<EmptyNode>>])
  IN IF \/ r.nodes = <<>> \/ \E i \in DOMAIN r.nodes : ~(r.nodes[i].open /\ CanonicalRaw(r.nodes[i]))
        \/ Len(r.nodes) > MaxNodes THEN <<>>
     ELSE IF error # OK THEN <<Failing(error)>>
     ELSE IF Slots(r) # 1 THEN <<>>
     ELSE <<[error |-> OK, parts |-> r.nodes]>>

Plainly(r) == IF RequestError(r) # OK THEN Failing(RequestError(r)) ELSE Bounded(Marshal(r))

\* EncodeConvertRequest.
EncodeConvertRequest(r) ==
  LET spliced == Spliced(r)
  IN CASE spliced = <<>> -> Plainly(r)
       [] spliced # <<>> -> IF spliced[1].error = OK THEN Bounded(spliced[1].parts) ELSE spliced[1]
=============================================================================
