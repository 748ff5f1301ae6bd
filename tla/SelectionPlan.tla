--------------------------- MODULE SelectionPlan ---------------------------
(***************************************************************************)
(* Selection plans (model/selection_plan.go): their validation, with and   *)
(* without the pass over every node it may be spared, the clones the core  *)
(* excludes and the count of placeholders in a document.                   *)
(*                                                                         *)
(* A plan is [kind, document, nodes, selection, policy, chain, deep,       *)
(* bytes, encoded]; deep says that its encoding nests further than         *)
(* strictjson scans, bytes is the length of the document it is read from,  *)
(* encoded that of what json.Marshal makes of it.  A raw JSON value (a     *)
(* node's object, a step's arguments) is [open, json, repeats]: whether it *)
(* opens an object, is JSON at all, and repeats a key.  A placeholder is   *)
(* [at, line, field, whole]: the field it is listed under, the line and    *)
(* field it names, and whether it is well formed.  Text is valid UTF-8.    *)
(***************************************************************************)
EXTENDS Checks, Sequences, FiniteSets, SequencesExt

CONSTANTS
  MaxNodes,     \* MaxSubscriptionRecordNodes
  MaxClones,    \* MaxPlanClonesPerLine
  MaxFailures,  \* MaxBindProbeConsecutiveFailures
  MaxSteps,     \* MaxResponseChainSteps
  MaxChain,     \* MaxResponseChainBytes
  MaxPlan       \* MaxSelectionPlanBytes

-----------------------------------------------------------------------------
\* isJSONObject, and opensObject for a value already known to be well formed.
IsJSONObject(raw) == raw.open /\ raw.json
OpensObject(raw) == raw.open

\* PlanSelection.Validate: a selection is [version, lines], version its validity.
SelectionError(s) ==
  First(<<If(~s.version, "version"), If(Len(s.lines) > MaxNodes, "lines")>>
        \o [i \in DOMAIN s.lines |->
              IF s.lines[i] = "bad" THEN "line_uuid" ELSE If(\E j \in 1..(i - 1) : s.lines[j] = s.lines[i], "line twice")])

\* BindPolicy.Validate: -1 is an absent rule.
PolicyError(p) ==
  First(<<If(p.failures # -1 /\ p.failures \notin 1..MaxFailures, "failures"), If(p.bytes # -1 /\ p.bytes <= 0, "bytes")>>)

\* ValidateResponseChain: a step is [source, name, arguments, bytes, encoded],
\* with name its validity, bytes what it adds to the total and encoded what it
\* adds once json.Marshal has written its arguments: without their white space
\* and with <, > and & escaped.
ChainBytes(steps, i) == FoldLeft(+, 0, [j \in 1..i |-> steps[j].bytes])

StepError(steps, i) ==
  First(<<If(~steps[i].source, "source"), If(~steps[i].name, "name"),
          If(steps[i].arguments # {} /\ ~\A a \in steps[i].arguments : IsJSONObject(a), "arguments"),
          If(ChainBytes(steps, i) > MaxChain, "chain size")>>)

ChainFits(steps) == \A i \in DOMAIN steps : ~(ChainBytes(steps, i) > MaxChain)

ChainError(steps) ==
  IF Len(steps) > MaxSteps THEN "steps" ELSE First([i \in DOMAIN steps |-> StepError(steps, i)])

\* SelectionPlanNode.validate, with ParsePlanPlaceholder.
NodeError(n, wellFormed) ==
  First(<<If(~(IF wellFormed THEN OpensObject(n.node) ELSE IsJSONObject(n.node)), "node"),
          If(n.provider /\ (n.line # "" \/ n.placeholders # {}), "provider"),
          If(~n.provider /\ n.line = "" /\ n.placeholders # {}, "placeholders"),
          If(~n.provider /\ n.line = "bad", "line_uuid"),
          If(~n.provider /\ \E p \in n.placeholders : ~p.whole \/ p.line # n.line \/ p.field # p.at, "placeholder")>>)

\* SelectionPlan.validate, of a node and of the plan.
PlanNodeError(p, i, keysChecked) ==
  First(<<NodeError(p.nodes[i], keysChecked),
          If(~keysChecked /\ p.nodes[i].node.repeats, "duplicate"),
          If(p.kind = "document" /\ p.nodes[i].provider, "fleet only")>>)

Validate(p, keysChecked) ==
  First(<<If(p.kind \notin {"nodes", "document"}, "kind"),
          If(p.kind = "nodes" /\ p.document, "document"),
          If(p.kind = "document" /\ ~p.document, "no document"),
          If(Len(p.nodes) > MaxNodes, "nodes")>>
        \o [i \in DOMAIN p.nodes |-> PlanNodeError(p, i, keysChecked)]
        \o [i \in DOMAIN p.selection |-> SelectionError(p.selection[i])]
        \o [i \in DOMAIN p.policy |-> PolicyError(p.policy[i])]
        \o <<ChainError(p.chain)>>)

-----------------------------------------------------------------------------
(***************************************************************************)
(* Encoded plans.                                                          *)
(***************************************************************************)
Raws(p) ==
  {p.nodes[i].node : i \in DOMAIN p.nodes} \cup UNION {p.chain[i].arguments : i \in DOMAIN p.chain}

\* json.Marshal refuses a RawMessage that is not JSON.
Encodable(p) == \A r \in Raws(p) : r.json

\* Mutant of RawValid: only the nodes' own top level is looked at.
RawShallow(p) == ~p.deep

\* strictjson.Valid of the plan's encoding.
RawValid(p) == ~p.deep /\ Encodable(p) /\ \A r \in Raws(p) : ~r.repeats

\* ValidateTrustingEncoding, of the plan's own encoding.
ValidateTrustingEncoding(p) == IF RawValid(p) THEN Validate(p, TRUE) ELSE Validate(p, FALSE)

\* The plan that is read from json.Marshal's encoding of a plan.
ChainWritten(steps) == [i \in DOMAIN steps |-> [steps[i] EXCEPT !.bytes = steps[i].encoded]]
MarshalPlan(p) == [p EXCEPT !.bytes = p.encoded, !.chain = ChainWritten(p.chain)]

\* EncodeSelectionPlan: at most one plan, as a document.
EncodeSelectionPlan(p) ==
  IF Validate(p, FALSE) # OK THEN <<>> ELSE IF p.encoded > MaxPlan THEN <<>> ELSE <<MarshalPlan(p)>>

\* DecodeSelectionPlan: the size, rejectDuplicateJSONFields at any depth,
\* whichever way it is found, then validate(true).
DecodeSelectionPlan(p) ==
  IF p.bytes = 0 \/ p.bytes > MaxPlan THEN "size"
  ELSE IF \E r \in Raws(p) : r.repeats THEN "duplicate" ELSE Validate(p, TRUE)

\* A plan that one side encodes and the other decodes.
Sent(p) == [i \in DOMAIN EncodeSelectionPlan(p) |-> DecodeSelectionPlan(EncodeSelectionPlan(p)[i])]

-----------------------------------------------------------------------------
Excess(count) == count > MaxClones

\* ExcessClones: seen counts the nodes of each line as they come.
ExcessClones(nodes) ==
  LET lines == {nodes[i].line : i \in DOMAIN nodes}
      Upto[i \in 0..Len(nodes)] ==
        IF i = 0 THEN [seen |-> [l \in lines |-> 0], out |-> {}]
        ELSE LET done == Upto[i - 1]
                 line == nodes[i].line
             IN IF line = "" THEN done
                ELSE [seen |-> [done.seen EXCEPT ![line] = @ + 1],
                      out |-> IF Excess(done.seen[line] + 1) THEN done.out \cup {i} ELSE done.out]
  IN Upto[Len(nodes)].out

\* Where CountPlanPlaceholders goes on after the prefix at i.
Rest(i, matched) == IF matched THEN i + 2 ELSE i + 1

\* CountPlanPlaceholders: a document is a sequence of pieces, "prefix", the
\* body of a placeholder, or other text.
CountPlanPlaceholders(text, body) ==
  LET n == Len(text)
      From[i \in 1..(n + 2)] ==
        IF i > n THEN 0
        ELSE IF text[i] # "prefix" THEN From[i + 1]
        ELSE LET match == i < n /\ text[i + 1] \notin {"prefix", "text"}
             IN (IF match /\ text[i + 1] = body THEN 1 ELSE 0) + From[Rest(i, match)]
  IN From[1]
=============================================================================
