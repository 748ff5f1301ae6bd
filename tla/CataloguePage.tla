--------------------------- MODULE CataloguePage ---------------------------
(***************************************************************************)
(* A received line catalogue page (model/line_catalogue.go): how           *)
(* ReadLineCataloguePage sizes its rows and ReceivedLineCataloguePage.     *)
(* Validate bounds it without encoding every row again, next to what       *)
(* LineCatalogueResponse.Validate says of the same page.                   *)
(*                                                                         *)
(* A row is its line, whether its fields are valid, its length as          *)
(* received, the length encoding/json gives it, and whether its bytes pass *)
(* rowReencodesWithinGrowth, which promises that the second is at most the *)
(* first plus Growth.  A page is its rows, the length of its envelope as   *)
(* encoded, its length as received, whether its version, cursor and names  *)
(* are valid, and whether strictjson reads it in one pass.                 *)
(***************************************************************************)
EXTENDS Integers, Sequences

CONSTANTS
  Rows,     \* the rows that may arrive
  Pages,    \* the pages that may arrive
  MaxRows,  \* MaxLineCataloguePageRows
  MaxRow,   \* MaxLineCatalogueRowBytes
  MaxPage,  \* MaxLineCataloguePageBytes
  Growth    \* maxReceivedRowGrowth

\* rowReencodesWithinGrowth and maxReceivedRowGrowth, as
\* TestReceivedRowGrowsAtMostTheBound holds them.
ASSUME PageAssumption ==
  /\ MaxRows \in Nat /\ MaxRow \in Nat /\ MaxPage \in Nat /\ Growth \in Nat
  /\ \A r \in Rows : /\ r.bytes \in Nat /\ r.encoded \in Nat
                     /\ r.plain => r.encoded <= r.bytes + Growth
  /\ \A p \in Pages : /\ p.rows \in Seq(Rows) /\ p.head \in Nat /\ p.bytes \in Nat
                      /\ p.named \in BOOLEAN /\ p.onePass \in BOOLEAN

VARIABLES
  page,         \* the page that arrived
  rowBytes,     \* the length of each row as received, <<>> on the slow path
  rowCanonical, \* its encoded length, or -1 when it was not measured
  unread,       \* the rows eachIndex has not decoded yet
  at,           \* how far Validate is: "read", the next row, or "done"
  total,        \* rowBytes of validatePage: the sizes added up so far
  exact,        \* every size added was an encoded length
  verdict       \* what Validate returned

pageVars == <<page, rowBytes, rowCanonical, unread, at, total, exact, verdict>>

Reading == 0

PageInit ==
  /\ page \in Pages
  /\ unread = IF page.onePass THEN DOMAIN page.rows ELSE {}
  /\ rowBytes = IF page.onePass THEN [i \in DOMAIN page.rows |-> 0] ELSE <<>>
  /\ rowCanonical = rowBytes
  /\ at = Reading /\ total = 0 /\ exact = TRUE /\ verdict = "none"

-----------------------------------------------------------------------------
(***************************************************************************)
(* readLineCataloguePageFast: the rows decode in any order.                *)
(***************************************************************************)
\* rowReencodesWithinGrowth.
WithinGrowth(r) == r.plain

\* Mutant of Measured: rows near the bound are trusted.
MeasuredIfRough(r) == ~WithinGrowth(r)

\* A row is encoded when Growth could take it over the bound, or does not
\* bound how far it grows.
Measured(r) == r.bytes + Growth > MaxRow \/ ~WithinGrowth(r)

ReadRow(i) ==
  /\ i \in unread
  /\ rowBytes' = [rowBytes EXCEPT ![i] = page.rows[i].bytes]
  /\ rowCanonical' = [rowCanonical EXCEPT ![i] =
       IF Measured(page.rows[i]) THEN page.rows[i].encoded ELSE -1]
  /\ unread' = unread \ {i}
  /\ UNCHANGED <<page, at, total, exact, verdict>>

-----------------------------------------------------------------------------
(***************************************************************************)
(* validatePage, for the two ways of sizing rows and page.                 *)
(***************************************************************************)
Sized == Len(rowBytes) = Len(page.rows)

Commas(rows) == IF rows = <<>> THEN 0 ELSE Len(rows) - 1

\* The running totals of a sequence of sizes.
Totals(sizes) ==
  LET upTo[k \in 0..Len(sizes)] == IF k = 0 THEN 0 ELSE upTo[k - 1] + sizes[k]
  IN upTo

Sizes(rows) == [i \in 1..Len(rows) |-> rows[i].encoded]

EncodedSize(p) == p.head + Totals(Sizes(p.rows))[Len(p.rows)] + Commas(p.rows)

Begin ==
  /\ at = Reading /\ unread = {} /\ verdict = "none"
  /\ IF page.named /\ Len(page.rows) <= MaxRows
     THEN at' = 1 /\ UNCHANGED verdict
     ELSE verdict' = "page" /\ UNCHANGED at
  /\ UNCHANGED <<page, rowBytes, rowCanonical, unread, total, exact>>

\* What the row is held to, and what it adds to the page.
Bounded(i) ==
  CASE ~Sized -> page.rows[i].encoded
    [] Sized /\ rowCanonical[i] >= 0 ->
         IF rowBytes[i] > rowCanonical[i] THEN rowBytes[i] ELSE rowCanonical[i]
    [] OTHER -> rowBytes[i]

Added(i) ==
  CASE ~Sized -> page.rows[i].encoded
    [] Sized /\ rowCanonical[i] >= 0 -> rowCanonical[i]
    [] OTHER -> rowBytes[i] + Growth

Listed(i) == \E j \in 1..(i - 1) : page.rows[j].line = page.rows[i].line

RowVerdict(i, size) ==
  CASE ~page.rows[i].fields -> "fields"
    [] page.rows[i].fields /\ size > MaxRow -> "row_size"
    [] OTHER -> IF Listed(i) THEN "twice" ELSE "none"

ValidateRow ==
  /\ verdict = "none" /\ at \in DOMAIN page.rows
  /\ verdict' = RowVerdict(at, Bounded(at))
  /\ total' = total + Added(at)
  /\ exact' = (exact /\ (Sized => rowCanonical[at] >= 0))
  /\ at' = at + 1
  /\ UNCHANGED <<page, rowBytes, rowCanonical, unread>>

\* The encoded size; a page that may only be over the bound by Growth has its
\* remaining rows encoded.
PageSize ==
  LET size == page.head + total + Commas(page.rows)
  IN IF size > MaxPage /\ ~exact THEN EncodedSize(page) ELSE size

\* A sized page is held to the bound as received too.
PageHeld(size) == size <= MaxPage /\ (Sized => page.bytes <= MaxPage)

ValidatePage ==
  /\ verdict = "none" /\ at = Len(page.rows) + 1
  /\ verdict' = IF PageHeld(PageSize) THEN "ok" ELSE "page_size"
  /\ UNCHANGED <<page, rowBytes, rowCanonical, unread, at, total, exact>>

PageNext == Begin \/ ValidateRow \/ ValidatePage \/ \E i \in DOMAIN page.rows : ReadRow(i)

PageSpec == PageInit /\ [][PageNext]_pageVars

-----------------------------------------------------------------------------
\* The type invariant: an unmeasured row is marked -1 and never enters the sum.
PageTypeOK ==
  /\ unread \subseteq DOMAIN page.rows
  /\ Len(rowBytes) = Len(rowCanonical)
  /\ \A i \in DOMAIN rowBytes : rowBytes[i] >= 0 /\ rowCanonical[i] >= -1
  /\ at \in 0..(Len(page.rows) + 1)
  /\ total \in Nat /\ exact \in BOOLEAN
  /\ verdict \in {"none", "ok", "page", "fields", "row_size", "twice", "page_size"}

\* What LineCatalogueResponse.Validate says: every row encoded, rows in order.
Response(p) ==
  LET Bad(i) == RowVerdict(i, p.rows[i].encoded)
      bad == {i \in DOMAIN p.rows : Bad(i) # "none"}
  IN CASE ~p.named \/ Len(p.rows) > MaxRows -> "page"
       [] p.named /\ Len(p.rows) <= MaxRows /\ bad # {} -> Bad(CHOOSE i \in bad : \A j \in bad : i <= j)
       [] OTHER -> IF EncodedSize(p) <= MaxPage THEN "ok" ELSE "page_size"

(***************************************************************************)
(* A page is accepted exactly when every row and the page are within their *)
(* bounds both as received and as encoded, although most rows are never    *)
(* encoded (ReceivedLineCataloguePage.Validate: "each row and the page are *)
(* held to their bounds both as they arrived ... and as encoding/json      *)
(* encodes them").                                                         *)
(***************************************************************************)
AcceptedExactly ==
  verdict # "none" /\ Sized =>
    (verdict = "ok" <=>
       /\ Response(page) = "ok"
       /\ page.bytes <= MaxPage
       /\ \A i \in DOMAIN page.rows : page.rows[i].bytes <= MaxRow)

\* What json.Marshal wrote.
CoreEncoded ==
  /\ page.bytes = EncodedSize(page)
  /\ \A i \in DOMAIN page.rows : page.rows[i].bytes = page.rows[i].encoded

(***************************************************************************)
(* Of a page the core encoded, whose bytes are its own encoding, and of a  *)
(* page read without sizes, the verdict and its words are those of         *)
(* LineCatalogueResponse.Validate.                                         *)
(***************************************************************************)
SameVerdict ==
  verdict # "none" /\ (CoreEncoded \/ ~Sized) => verdict = Response(page)

\* A sized page is accepted exactly when it is within its bounds as received
\* and as encoded; of a page the core encoded the verdict, word for word, is
\* LineCatalogueResponse.Validate's (ReceivedLineCataloguePage.Validate).
PageVerdict == AcceptedExactly /\ SameVerdict
=============================================================================
