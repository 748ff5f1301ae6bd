---------------------------- MODULE MCValidation ----------------------------
(***************************************************************************)
(* Validation over the inputs of PureInputs.                               *)
(***************************************************************************)
EXTENDS Validation, PureInputs

MCDefault == [f \in Fields |-> IF f = Calls THEN 1 ELSE 2]
MCHostMax == [f \in Fields |-> 3]
MCOwnDefaults == {MCDefault, [f \in Fields |-> 4], [f \in Fields |-> 0]}

\* Factors of 1, 1.5 and 2; the other thresholds from 1 to 10.
MCLo == [f \in RuleFields |-> IF f \in {LossFactor, LatencyFactor} THEN 100 ELSE 10]
MCDef == [f \in RuleFields |-> IF f \in {LossFactor, LatencyFactor} THEN 150 ELSE 50]
MCHi == [f \in RuleFields |-> IF f \in {LossFactor, LatencyFactor} THEN 200 ELSE 100]

RuleNumbers(f) == {0, NaN, Lo[f] - 1, Lo[f], Def[f] - 6, Def[f] - 5, Def[f] + 4, Hi[f], Hi[f] + 1}

Rules ==
  {<<>>} \cup {<<r>> : r \in {x \in [RuleFields -> UNION {RuleNumbers(f) : f \in RuleFields}] :
                                \A f \in RuleFields : x[f] \in RuleNumbers(f)}}

MCInputs(kind) ==
  CASE kind = "document" -> {Documents(shape) : shape \in {"invoke", "host_response", "call", "plan", "convert"}}
    [] kind = "literal" -> {UpTo(Literal!Units, 3)}
    [] kind = "plan" -> {Plans}
    [] kind = "clones" -> {Clones}
    [] kind = "text" -> {Texts}
    [] kind = "convert" -> {Converts}
    [] kind = "result" -> {Results}
    [] kind = "select" -> {SelectorUses}
    [] kind = "row" -> {CatalogueRows}
    [] kind = "characters" -> {Characters}
    [] kind = "budget" -> {BudgetDocs}
    [] kind = "contract" -> {Contracts}
    [] kind = "rule" -> {Rules}
    [] kind = "status" -> {StatusLists}
    [] kind = "targets" -> {TargetPairs}
    [] kind = "values" -> {ValuePairs}
    [] kind = "address" -> {Dest!Addresses}
    [] kind = "header" -> {Headers(Dest!Addresses)}
    [] kind = "manifest" -> {ManifestDocs}
=============================================================================
