SPECIFICATION Spec
CONSTANTS
  Callers = {"one", "two"}
  Ids = {"x", "y"}
  Contents <- MCContents
  Specs <- MCSpecs
  Quoted <- MCQuoted
  Clean <- MCClean
  SpecIds = {1, 2, 3}
  LegacyVersions = {2}
  Unset = Unset
CHECK_DEADLOCK FALSE
INVARIANTS ReadsBackWhatWasSeen KindsNeverMixed AckedIsStored
PROPERTIES RecordedImmutable LegacyUntouched
