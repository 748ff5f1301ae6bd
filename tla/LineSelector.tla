---------------------------- MODULE LineSelector ----------------------------
(***************************************************************************)
(* Catalogue selectors (model/line_catalogue.go): which fields a selector  *)
(* sets, which of them a core evaluates, and whether a row matches.        *)
(*                                                                         *)
(* A selector gives each list field a set of values, "line_uuids" a        *)
(* sequence and each window a sequence of at most one number.  A text is   *)
(* <<letters, case>>; folding forgets the case.  A row is a record of its  *)
(* fields; geo, exit, renewal and probe are sequences of at most one.      *)
(***************************************************************************)
EXTENDS Integers, Sequences, FiniteSets, Functions

CONSTANTS
  MaxLines,    \* MaxSubscriptionRecordNodes
  MaxValues,   \* MaxLineCatalogueSelectorValues
  MaxDays,     \* MaxLineCatalogueRenewalDays
  MaxHours     \* MaxLineCatalogueProbeHours

GeoFields == {"countries", "regions"}
FoldFields == {"protocols", "transports", "service_states"}
AnyFields == {"node_tags", "group_ids"}
ListFields == GeoFields \cup FoldFields \cup AnyFields \cup {"chain_roles"}
Days == "renewal_within_days"
Hours == "probe_passed_within_hours"

\* LineCatalogueSelectorFields.
SelectorFields == ListFields \cup {"line_uuids", Days, Hours}

Unset(f) == IF f \in ListFields THEN {} ELSE <<>>

\* LineCatalogueSelector.Validate: a value is valid unless its letters are "".
Validates(sel) ==
  /\ Len(sel["line_uuids"]) <= MaxLines
  /\ \A i, j \in DOMAIN sel["line_uuids"] : sel["line_uuids"][i] # "bad" /\ (i # j => sel["line_uuids"][i] # sel["line_uuids"][j])
  /\ \A f \in ListFields : Cardinality(sel[f]) <= MaxValues /\ \A v \in sel[f] : v[1] # ""
  /\ \A v \in sel["chain_roles"] : v[1] \in {"single", "entry", "relay", "exit"}
  /\ \A i \in DOMAIN sel[Days] : sel[Days][i] \in 0..MaxDays
  /\ \A i \in DOMAIN sel[Hours] : sel[Hours][i] \in 1..MaxHours

\* Mutant of Fields: a window of zero counts as unset.
FieldsByValue(sel) == {f \in SelectorFields : sel[f] # Unset(f) /\ (f \in {Days, Hours} => sel[f] # <<0>>)}

\* LineCatalogueSelector.Fields.
Fields(sel) == {f \in SelectorFields : sel[f] # Unset(f)}

\* LineCatalogueSelector.UnsupportedFields.
UnsupportedFields(sel, advertised) == Fields(sel) \ advertised

-----------------------------------------------------------------------------
\* lineCatalogueHasFold, lineCatalogueAny.
HasFold(values, value) == value[1] # "" /\ \E v \in values : v[1] = value[1]
AnyOf(wanted, have) == wanted \cap have # {}

EffectiveGeo(row) == IF row.unresolved THEN <<>> ELSE IF row.exit # <<>> THEN row.exit ELSE row.geo

\* LineCatalogueSelectorMatches: row has a value, or a set of values, under the
\* name of every list field but the geo ones.
Matches(row, sel, now) ==
  LET geo == EffectiveGeo(row)
  IN /\ \A f \in GeoFields : sel[f] # {} => geo # <<>> /\ HasFold(sel[f], geo[1][f])
     /\ \A f \in FoldFields : sel[f] # {} => HasFold(sel[f], row[f])
     /\ sel["chain_roles"] # {} => row["chain_roles"] \in sel["chain_roles"]
     /\ \A f \in AnyFields : sel[f] # {} => AnyOf(sel[f], row[f])
     /\ sel[Days] # <<>> => row.renewal # <<>> /\ row.renewal[1] <= now + sel[Days][1]
     /\ sel[Hours] # <<>> => row.probe # <<>> /\ row.probe[1].pass /\ row.probe[1].at >= now - sel[Hours][1]

\* The rows that are in a set, in their order.
Kept(rows, set) ==
  LET Upto[i \in 0..Len(rows)] ==
        IF i = 0 THEN <<>> ELSE IF rows[i] \in set THEN Append(Upto[i - 1], rows[i]) ELSE Upto[i - 1]
  IN Upto[Len(rows)]

\* The rows of some lines, in the order of the lines.
Listed(rows, lines) ==
  LET Upto[i \in 0..Len(lines)] ==
        IF i = 0 THEN <<>> ELSE Upto[i - 1] \o Kept(rows, {r \in Range(rows) : r.line = lines[i]})
  IN Upto[Len(lines)]

\* What the callers of Matches do with the line list: those lines, in its order.
Selected(rows, sel, now) ==
  Kept(IF sel["line_uuids"] = <<>> THEN rows ELSE Listed(rows, sel["line_uuids"]),
       {r \in Range(rows) : Matches(r, sel, now)})

\* A selector cut down to some fields.
Only(sel, fields) == [f \in SelectorFields |-> IF f \in fields THEN sel[f] ELSE Unset(f)]

\* A plugin pushes what the core advertises and runs the rest itself.
Pushed(rows, sel, advertised, now) ==
  LET rest == UnsupportedFields(sel, advertised)
  IN Selected(Selected(rows, Only(sel, Fields(sel) \ rest), now), Only(sel, rest), now)

\* A country or a region selects nothing of a chain whose exit is not known.
ExitUnknown(row, sel) == row.unresolved /\ \E f \in GeoFields : sel[f] # {}
=============================================================================
