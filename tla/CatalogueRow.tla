---------------------------- MODULE CatalogueRow ----------------------------
(***************************************************************************)
(* What a catalogue row may hold (model/line_catalogue.go): its fields,    *)
(* its template, and the screen that keeps credentials out of its Extra.   *)
(*                                                                         *)
(* A text is a sequence of characters.  A JSON value is the sequence of    *)
(* its nodes [up, key, form, text], each after the list or object it is    *)
(* in: the first is the value itself, up is the place of the one around a  *)
(* node, and key counts for a node in an object, where one may come twice. *)
(***************************************************************************)
EXTENDS Checks, Sequences, SequencesExt

CONSTANTS
  MaxRowBytes,  \* MaxLineCatalogueRowBytes
  MaxExtra,     \* MaxLineCatalogueExtraBytes
  MaxParams     \* MaxLineTemplateParams

-----------------------------------------------------------------------------
(***************************************************************************)
(* Texts.  Characters that are not ASCII: "dotless" upper-cases to "I",    *)
(* "accent" to itself, "next" (U+0085) is a control character.             *)
(***************************************************************************)
ASCII(c) == c \notin {"dotless", "accent", "next"}
Control(c) == c \in {"lf", "del", "next"}

\* asciiUpper, and strings.ToUpper on one character.
AsciiUpper(c) == CASE c = "i" -> "I" [] c = "k" -> "K" [] OTHER -> c
ToUpper(c) == IF c = "dotless" THEN "I" ELSE AsciiUpper(c)

\* privateKeyMarker, in two letters.
Marker == <<"I", "K">>

HasPart(text, part) ==
  \E i \in 0..(Len(text) - Len(part)) : \A j \in DOMAIN part : text[i + j] = part[j]

ContainsPrivateKey(text) ==
  IF \E i \in DOMAIN text : ~ASCII(text[i]) THEN HasPart([i \in DOMAIN text |-> ToUpper(text[i])], Marker)
  ELSE HasPart([i \in DOMAIN text |-> AsciiUpper(text[i])], Marker)

\* containsControl: ASCII bytes one by one, the rest from the first that is not.
ContainsControl(text) ==
  LET From[i \in 1..(Len(text) + 1)] ==
        IF i > Len(text) THEN FALSE
        ELSE IF ~ASCII(text[i]) THEN \E j \in i..Len(text) : Control(text[j])
        ELSE text[i] \in {"lf", "del"} \/ From[i + 1]
  IN From[1]

\* sensitiveCatalogueText: a URL, a private key or a sealed secret ("lat$").
SensitiveText(text) ==
  HasPart(text, <<"://">>) \/ ContainsPrivateKey(text) \/ (text # <<>> /\ text[1] = "lat$")

\* credentialName: case and separators aside, one of some names or about one of
\* some stems.  A name is a sequence of words and separators.
CredentialName(name) ==
  LET folded == SelectSeq([i \in DOMAIN name |-> IF name[i] = "Key" THEN "key" ELSE name[i]], LAMBDA w : w \notin {"-", "_"})
  IN folded = <<"id">> \/ HasPart(folded, <<"private", "key">>) \/ HasPart(folded, <<"secret">>)

-----------------------------------------------------------------------------
(***************************************************************************)
(* Extra.                                                                  *)
(***************************************************************************)
\* A node that is a member of an object.
Member(v, i) == i # 1 /\ v[v[i].up].form = "object"

\* rejectDuplicateJSONFields: at any depth.
Repeats(v) ==
  \E i, j \in DOMAIN v : i < j /\ Member(v, i) /\ Member(v, j) /\ v[i].up = v[j].up /\ v[i].key = v[j].key

\* json.Unmarshal into a map keeps the last value of a key, and what is in it.
Unmarshalled(v) ==
  LET Latest(i) == Member(v, i) => \A j \in DOMAIN v : j > i /\ v[j].up = v[i].up => v[j].key # v[i].key
      Kept[i \in DOMAIN v] == i = 1 \/ (Kept[v[i].up] /\ Latest(i))
  IN Kept

\* The name screenCatalogueValue is called with: a member's own, or the one
\* its list was called with.
NameOf(key, v) ==
  LET Name[i \in DOMAIN v] == IF i = 1 THEN key ELSE IF Member(v, i) THEN v[i].key ELSE Name[v[i].up]
  IN Name

Clean(name, node) == ~CredentialName(name) /\ (node.form = "text" => ~SensitiveText(node.text))

\* screenCatalogueValue, of the decoded value.
Screened(key, v) == \A i \in DOMAIN v : Unmarshalled(v)[i] => Clean(NameOf(key, v)[i], v[i])

\* Mutant of ValueError: a repeated key is left to the decoder.
ValueErrorDecoded(key, v) == If(~Screened(key, v), "screen")

ValueError(key, v) == First(<<If(Repeats(v), "duplicate"), If(~Screened(key, v), "screen")>>)

Total(extra, i) == FoldLeft(+, 0, [j \in 1..i |-> extra[j].bytes])

\* validateLineCatalogueExtra: an entry is [key, lower, bytes, val]; the total
\* is compared after each.
ExtraError(extra) ==
  First([i \in DOMAIN extra |->
           First(<<If(~extra[i].lower, "key"), If(Total(extra, i) > MaxExtra, "size"), ValueError(extra[i].key, extra[i].val)>>)])

\* What the raw bytes carry, whichever of two equal keys it stands under.
Carries(key, v) == \E i \in DOMAIN v : ~Clean(NameOf(key, v)[i], v[i])

-----------------------------------------------------------------------------
(***************************************************************************)
(* Rows.  A row names the single-field checks it fails (bad), and has a    *)
(* chain, at most one probe, usage and template, an Extra and its encoded  *)
(* size.                                                                   *)
(***************************************************************************)
\* The checks of single fields at the head of validateFields, in their order.
FieldChecks ==
  <<"line_uuid", "line_hash_id", "node_id", "protocol", "enum", "text", "tag", "public_port", "address", "ddns name", "ddns target">>

\* LineCatalogueChain.Validate, LineCatalogueProbe.Validate.
ChainError(c) ==
  First(<<If(c.role \notin {"single", "entry", "relay", "exit"}, "role"),
          If(c.path \notin {"", "converged", "drifted", "busy"}, "path state"),
          If(c.downstream = "bad", "downstream"),
          If(c.service \notin {"", "running", "down", "restarting", "unknown"}, "service state")>>)

ProbeError(p) ==
  First(<<If(p.verdict \notin {"pass", "fail"}, "verdict"), If(p.failures < 0 \/ p.coldP50 < 0, "counters"),
          If(p.vantage = "bad", "vantage")>>)

ParamError(p) ==
  First(<<If(~p.valid, "param"), If(p.reserved, "reserved"), If(~p.kept, "not kept"), If(SensitiveText(p.text), "sensitive")>>)

\* LineCatalogueTemplate.Validate: head is the first check of its own fields
\* that fails, a param is [reserved, kept, valid, text].
TemplateError(t) ==
  First(<<t.head, If(Len(t.params) > MaxParams, "params")>>
        \o [i \in DOMAIN t.params |-> ParamError(t.params[i])]
        \o <<If(~t.dropped, "dropped")>>)

\* LineCatalogueRow.validateFields.
FieldsError(row) ==
  First([i \in DOMAIN FieldChecks |-> If(FieldChecks[i] \in row.bad, FieldChecks[i])]
        \o <<ChainError(row.chain)>>
        \o [i \in DOMAIN row.probe |-> ProbeError(row.probe[i])]
        \o [i \in DOMAIN row.usage |-> If(~row.usage[i].id \/ row.usage[i].bytes < 0, "usage")]
        \o [i \in DOMAIN row.template |-> TemplateError(row.template[i])]
        \o <<ExtraError(row.extra)>>)

\* ValidateTrustingEncoding: raw is the length of the caller's encoding, 0 for
\* none, and then the row is encoded as Validate does.
RowError(row, raw) ==
  First(<<FieldsError(row), If((IF raw = 0 THEN row.encoded ELSE raw) > MaxRowBytes, "size")>>)
=============================================================================
