---------------------------- MODULE ShareRecord ----------------------------
(***************************************************************************)
(* A stored SubscriptionShare (model/subscription_share.go) read, edited   *)
(* and written back by binaries of different schema versions: a newer one  *)
(* adds fields, and members to the structs inside (ShareSource,            *)
(* ShareIcon), and a rollback runs an older one over its records.  Extra   *)
(* keeps the fields a binary does not know; nothing keeps the members of a *)
(* field it does know.                                                     *)
(*                                                                         *)
(* A JSON object is a function from the fields it carries to their         *)
(* members, and those are a function from names to values; a field that is *)
(* no struct has one member.  Zero is the zero value, which an omitempty   *)
(* name leaves out.  An icon that is nil and one whose members are all     *)
(* zero are one: ShareIcon.Validate refuses the second.  The store holds   *)
(* records this code wrote, so that names are spelled as their tags.       *)
(***************************************************************************)
EXTENDS Naturals, FiniteSets, Functions

CONSTANTS
  Fields,       \* JSON names of any version
  Members,      \* Members[f]: the members of field f in any version
  Required,     \* the names without omitempty, of fields and of members
  Versions,     \* the binaries, 1 the oldest
  Since,        \* Since[f]: the first version whose share has f
  MemberSince,  \* MemberSince[f][m]: the first version whose f has m
  Values,
  Zero

ASSUME ShareAssumption ==
  /\ Versions \subseteq Nat \ {0}
  /\ Since \in [Fields -> Nat]
  /\ DOMAIN Members = Fields /\ DOMAIN MemberSince = Fields
  /\ \A f \in Fields : MemberSince[f] \in [Members[f] -> Nat]
  /\ Zero \notin Values

VARIABLES
  version,  \* the binary that runs
  record,   \* the record on disk
  share,    \* the decoded share, or NoShare
  latest,   \* history: the value last saved for each member
  edited,   \* history: the members edited since the record was loaded or saved
  dropped   \* history: the members a binary without them has rewritten the field of

shareVars == <<version, record, share, latest, edited, dropped>>

NoShare == [known |-> <<>>, extra |-> <<>>]

\* The struct's own fields, and the members of the struct inside one.
StructFields(v) == {f \in Fields : Since[f] <= v}
StructMembers(v, f) == {m \in Members[f] : MemberSince[f][m] <= v}

\* The members of its own fields a binary does not know.
Paths == UNION {{f} \X Members[f] : f \in Fields}
Unread(v) == {p \in Paths : Since[p[1]] <= v /\ MemberSince[p[1]][p[2]] > v}

\* Mutant of KnownFields: a new field is not added to the list.
KnownFieldsBehind(v) == {f \in Fields : Since[f] < v \/ v = 1}

\* subscriptionShareKnownFields.
KnownFields(v) == {f \in Fields : Since[f] <= v}

Get(object, f, m) == IF f \in DOMAIN object /\ m \in DOMAIN object[f] THEN object[f][m] ELSE Zero

-----------------------------------------------------------------------------
\* UnmarshalJSON: the named fields, each with the members its struct has, and
\* every other field in Extra.
UnmarshalShare(object) ==
  [known |-> [f \in StructFields(version) |-> [m \in StructMembers(version, f) |-> Get(object, f, m)]],
   extra |-> Restrict(object, DOMAIN object \ KnownFields(version))]

\* encoding/json on the struct, and on the structs inside it.
Encoded(known) ==
  LET Kept(f) == {m \in DOMAIN known[f] : m \in Required \/ known[f][m] # Zero}
      there == {f \in DOMAIN known : f \in Required \/ \E m \in DOMAIN known[f] : known[f][m] # Zero}
  IN [f \in there |-> Restrict(known[f], Kept(f))]

\* MarshalJSON: an Extra entry never takes the place of a field of the struct
\* or of a known field that was left out.
MarshalShare(sx) ==
  LET base == Encoded(sx.known)
      kept == {f \in DOMAIN sx.extra : f \notin DOMAIN base /\ f \notin KnownFields(version)}
  IN [f \in DOMAIN base \cup kept |-> IF f \in DOMAIN base THEN base[f] ELSE sx.extra[f]]

\* A share that was just made.
ShareInit ==
  /\ version \in Versions
  /\ latest = [f \in Fields |-> [m \in Members[f] |-> Zero]]
  /\ record = Encoded([f \in StructFields(version) |-> [m \in StructMembers(version, f) |-> Zero]])
  /\ share = NoShare
  /\ edited = {}
  /\ dropped = {}

-----------------------------------------------------------------------------
LoadShare ==
  /\ share = NoShare
  /\ share' = UnmarshalShare(record)
  /\ edited' = {}
  /\ UNCHANGED <<version, record, latest, dropped>>

\* The core edits a member, clearing it too.
Edit(f, m, value) ==
  /\ share # NoShare /\ f \in DOMAIN share.known /\ m \in DOMAIN share.known[f]
  /\ share' = [share EXCEPT !.known[f][m] = value]
  /\ edited' = edited \cup {<<f, m>>}
  /\ UNCHANGED <<version, record, latest, dropped>>

SaveShare ==
  /\ share # NoShare
  /\ record' = MarshalShare(share)
  /\ latest' = [f \in Fields |-> [m \in Members[f] |-> IF <<f, m>> \in edited THEN share.known[f][m] ELSE latest[f][m]]]
  /\ dropped' = (dropped \ edited) \cup Unread(version)
  /\ edited' = {}
  /\ UNCHANGED <<version, share>>

\* The process ends, a record it has not saved is lost, and another version runs.
Restart(v) ==
  /\ version' = v
  /\ share' = NoShare
  /\ edited' = {}
  /\ UNCHANGED <<record, latest, dropped>>

ShareNext ==
  \/ LoadShare \/ SaveShare
  \/ \E f \in Fields : \E m \in Members[f], value \in Values \cup {Zero} : Edit(f, m, value)
  \/ \E v \in Versions : Restart(v)

ShareSpec == ShareInit /\ [][ShareNext]_shareVars

-----------------------------------------------------------------------------
(***************************************************************************)
(* Through any sequence of upgrades, rollbacks and edits the stored record *)
(* has the last saved value of every member of every field, but for the    *)
(* members of a struct that was since rewritten by a binary whose struct   *)
(* lacks them ("ShareSource keeps no unknown fields"), and those are gone: *)
(* a field such a binary does not know is whole, and no cleared or edited  *)
(* value comes back from Extra or through a binary that did not read it    *)
(* (UnmarshalJSON, MarshalJSON, ShareSource, ShareIcon).                   *)
(***************************************************************************)
LostOnlyNested ==
  \A f \in Fields : \A m \in Members[f] :
    Get(record, f, m) = IF <<f, m>> \in dropped THEN Zero ELSE latest[f][m]
=============================================================================
