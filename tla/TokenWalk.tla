------------------------------ MODULE TokenWalk ------------------------------
(***************************************************************************)
(* The specification strictjson.Valid stands in front of: the walk of a    *)
(* document with encoding/json's Decoder that refuses a key an object has  *)
(* already carried (rejectDuplicateJSONFields, scanJSONValue).             *)
(*                                                                         *)
(* A token is [kind, raw, name]: its kind, what it looks like and what it  *)
(* decodes to.  A string is raw and decodes to name; a number is "short"   *)
(* or "long" and "fits" a float64 or "overflows" it; "bad" is anything     *)
(* that is no token at all, "end" is the end of the data.  The walk may    *)
(* give up at any token: its callers decide on a document it refuses by    *)
(* other means.  It never accepts one it should not.                       *)
(***************************************************************************)
EXTENDS Integers, Sequences

CONSTANT Tokens

VARIABLES
  open,    \* the values being walked: whether each is an object or an array, and seen, the keys it has had
  expect,  \* what may come next
  verdict  \* "none", "valid" or "refused"

vars == <<open, expect, verdict>>

Init == open = <<>> /\ expect = "value" /\ verdict = "none"

Scalars == {"string", "word", "number"}
Begins == {"beginObject", "beginArray"}
Ends == {"endObject", "endArray"}
Values == Scalars \cup Begins

Inside == open[Len(open)].kind
Bracket == IF Inside = "object" THEN "endObject" ELSE "endArray"

\* What encoding/json's grammar admits next.
Admitted ==
  CASE expect = "value" -> Values
    [] expect = "first" -> (IF Inside = "object" THEN {"string"} ELSE Values) \cup {Bracket}
    [] expect = "key" -> {"string"}
    [] expect = "colon" -> {"colon"}
    [] expect = "after" -> {"comma", Bracket}
    [] OTHER -> {"end"}

Keying == expect = "key" \/ (expect = "first" /\ Inside = "object")

\* Decoder.Token fails, or the key is in seen.
Refuses(t) ==
  /\ t.kind # "space"
  /\ \/ t.kind \notin Admitted
     \/ t.kind = "number" /\ t.name = "overflows"
     \/ Keying /\ t.kind = "string" /\ t.name \in open[Len(open)].seen

Outside(levels) == IF levels = <<>> THEN "end" ELSE "after"

Front(levels) == SubSeq(levels, 1, Len(levels) - 1)

Key(t) ==
  /\ Keying /\ t.kind = "string"
  /\ open' = [open EXCEPT ![Len(open)].seen = @ \cup {t.name}]
  /\ expect' = "colon"

Scalar(t) == ~Keying /\ t.kind \in Scalars /\ expect' = Outside(open) /\ UNCHANGED open

Open(t) ==
  /\ t.kind \in Begins
  /\ open' = Append(open, [kind |-> IF t.kind = "beginObject" THEN "object" ELSE "array", seen |-> {}])
  /\ expect' = "first"

Close(t) == t.kind \in Ends /\ open' = Front(open) /\ expect' = Outside(open')

Separator(t) ==
  /\ t.kind \in {"colon", "comma"}
  /\ expect' = IF t.kind = "colon" \/ Inside = "array" THEN "value" ELSE "key"
  /\ UNCHANGED open

Token(t) ==
  /\ verdict = "none" /\ ~Refuses(t)
  /\ Key(t) \/ Scalar(t) \/ Open(t) \/ Close(t) \/ Separator(t)
  /\ UNCHANGED verdict

End(v) == verdict = "none" /\ verdict' = v /\ open' = <<>> /\ expect' = "value"

\* requireJSONEOF.
Accept == expect = "end" /\ End("valid")

GiveUp == End("refused")

\* The next document.
Restart == verdict # "none" /\ verdict' = "none" /\ UNCHANGED <<open, expect>>

Next == Accept \/ GiveUp \/ Restart \/ \E t \in Tokens : Token(t)

Spec == Init /\ [][Next]_vars
=============================================================================
