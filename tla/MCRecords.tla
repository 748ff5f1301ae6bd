------------------------------ MODULE MCRecords ------------------------------
(***************************************************************************)
(* Four values that live longer than the call that checks them, each by    *)
(* itself (part says which one takes steps).                               *)
(*                                                                         *)
(* "share": three binaries; a required struct all of them have, an         *)
(* optional one the second adds, each with a member added one version      *)
(* later, and a field of the first and of the third version.  "snapshot":  *)
(* every document over two manifests and bodies and lengths on both sides  *)
(* of the bounds, its members spelled in one or two ways.  "schedule": a   *)
(* day of three hours of four minutes: every one or two items around the   *)
(* bounds as the minutes, every single item as the hours, every day or     *)
(* every other day, run for a whole cycle and one day more.  "page": all   *)
(* pages of at most two rows whose lengths lie around the bounds, and one  *)
(* row too many.                                                           *)
(***************************************************************************)
EXTENDS ShareRecord, SnapshotRecord, CronSchedule, CataloguePage

VARIABLE part  \* which of them it is

MCMembers == [source |-> {"kind", "identity_id"}, icon |-> {"url", "fit"}, remark |-> {"text"}, later |-> {"text"}]
MCSince == [source |-> 1, icon |-> 2, remark |-> 1, later |-> 3]
MCMemberSince ==
  [source |-> [kind |-> 1, identity_id |-> 2], icon |-> [url |-> 2, fit |-> 3], remark |-> [text |-> 1], later |-> [text |-> 3]]

\* A raw at the bound, one whose escapes fill the document, one over the bound
\* and the same sealed; a document of the last is full with its provenance.
MCBodies ==
  {[bytes |-> 2, escaped |-> 2, sealed |-> FALSE], [bytes |-> 2, escaped |-> 6, sealed |-> FALSE],
   [bytes |-> 3, escaped |-> 3, sealed |-> FALSE], [bytes |-> 3, escaped |-> 3, sealed |-> TRUE]}
MCMemberBytes(x) == 1

-----------------------------------------------------------------------------
Junk == [kind |-> "junk", a |-> 0, b |-> 0, step |-> -1]

MCItems ==
  {[kind |-> "star", a |-> 0, b |-> 0, step |-> s] : s \in {-1, 0, 2, 3}}
  \cup {[kind |-> "range", a |-> a, b |-> b, step |-> s] : a \in {0, 1, 2}, b \in {1, 3, 4}, s \in {-1, 2}}
  \cup {[kind |-> "value", a |-> a, b |-> 0, step |-> -1] : a \in 0..4}
  \cup {[kind |-> "value", a |-> 1, b |-> 0, step |-> 2], Junk}

MCMinuteFields == {{x, y} : x, y \in MCItems}
MCHourFields == {{x} : x \in MCItems}
MCDaySets == {{0, 1}, {0}}

\* Lengths on both sides of MaxRow - Growth and MaxRow.
AnyRows ==
  {[line |-> l, fields |-> TRUE, bytes |-> b, encoded |-> n, plain |-> p] :
     l \in {1, 2}, b \in 4..6, n \in 3..7, p \in BOOLEAN}
  \cup {[line |-> 1, fields |-> FALSE, bytes |-> 4, encoded |-> 4, plain |-> TRUE]}

MCRows == {r \in AnyRows : r.plain => r.encoded <= r.bytes + Growth}

RowSeqs ==
  UNION {[1..k -> Rows] : k \in 0..MaxRows}
  \cup {[i \in 1..(MaxRows + 1) |-> r] : r \in Rows}

Received(rows) == FoldFunction(+, 0, [i \in DOMAIN rows |-> rows[i].bytes]) + (IF rows = <<>> THEN 0 ELSE Len(rows) - 1)

\* The envelope arrives as it encodes, or with one byte of white space more.
MCPages ==
  {[rows |-> rows, head |-> h, bytes |-> Received(rows) + h + w, named |-> TRUE, onePass |-> o] :
     rows \in RowSeqs, h \in {2, 3}, w \in {0, 1}, o \in BOOLEAN}
  \cup {[rows |-> <<>>, head |-> 2, bytes |-> 2, named |-> FALSE, onePass |-> o] : o \in BOOLEAN}

-----------------------------------------------------------------------------
NoDocument == stored = CHOOSE d \in Documents : TRUE
NoSchedule == cron = [minutes |-> {Junk}, hours |-> {Junk}, days |-> {0}]
NoPage == page = [rows |-> <<>>, head |-> 2, bytes |-> 2, named |-> FALSE, onePass |-> TRUE]

MCInit ==
  \/ /\ part = "share" /\ NoDocument /\ NoSchedule /\ NoPage
     /\ Init /\ ScheduleInit /\ PageInit /\ ShareInit
  \/ /\ part = "snapshot" /\ version = 1 /\ NoSchedule /\ NoPage
     /\ ShareInit /\ ScheduleInit /\ PageInit /\ Init
  \/ /\ part = "schedule" /\ version = 1 /\ NoDocument /\ NoPage
     /\ ShareInit /\ Init /\ PageInit /\ ScheduleInit
  \/ /\ part = "page" /\ version = 1 /\ NoDocument /\ NoSchedule
     /\ ShareInit /\ Init /\ ScheduleInit /\ PageInit

MCNext ==
  \/ part = "share" /\ ShareNext /\ UNCHANGED <<part, vars, scheduleVars, pageVars>>
  \/ part = "snapshot" /\ Next /\ UNCHANGED <<part, shareVars, scheduleVars, pageVars>>
  \/ part = "schedule" /\ ScheduleNext /\ UNCHANGED <<part, shareVars, vars, pageVars>>
  \/ part = "page" /\ PageNext /\ UNCHANGED <<part, shareVars, vars, scheduleVars>>

MCSpec == MCInit /\ [][MCNext]_<<part, shareVars, vars, scheduleVars, pageVars>>
=============================================================================
