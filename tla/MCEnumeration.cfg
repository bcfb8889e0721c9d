SPECIFICATION MCSpec
CONSTANTS
  MaxNode = 1
  a1 = a1
  v1 = v1
  Address = {a1}
  Version = {v1}
  VersionOf <- MCVersionOf
  Temporary = {e1, e2}
  Gateway = {e1, e2, g1, g2}
  PagesHeard <- MCPages
  File = "taptap.json"
  Tmp = "taptap.tmp"
  Absent = Absent
  Torn = Torn
  NoEnumeration = NoEnumeration
  NoVersion = NoVersion
  MaxFaults = 2
  MaxFailures = 1
  MaxPages = 2
  MaxEvents = 2
INVARIANTS
  ObserverTypeOK
  WritesAtomically
  StateIsSaved
PROPERTIES
  DurableSpec
  HeardEnumerationIsLearned
  NothingIsLearnedHalfway
  NetworkIsLearned
