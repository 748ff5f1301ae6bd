SPECIFICATION MCSpec
CONSTANTS
  Fields = {"source", "icon", "remark", "later"}
  Members <- MCMembers
  Required = {"source", "kind", "url", "text"}
  Versions = {1, 2, 3}
  Since <- MCSince
  MemberSince <- MCMemberSince
  Values = {"a"}
  Zero = "zero"
  Manifests = {m1, m2}
  Damaged = damaged
  Missing = missing
  Bodies <- MCBodies
  DocumentLengths = {6, 7}
  EnvelopeBytes = 1
  MemberBytes <- MCMemberBytes
  MaxRaw = 2
  MaxDocument = 6
  MinuteFields <- MCMinuteFields
  HourFields <- MCHourFields
  DaySets <- MCDaySets
  MinuteHi = 3
  HourHi = 2
  Days = 2
  MinInterval = 3
  Rows <- MCRows
  Pages <- MCPages
  MaxRows = 2
  MaxRow = 5
  MaxPage = 13
  Growth = 1
INVARIANTS LostOnlyNested ReadBack Truthful IntervalExact PageVerdict
CHECK_DEADLOCK FALSE
