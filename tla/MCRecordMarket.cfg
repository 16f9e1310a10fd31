SPECIFICATION Spec
CONSTANTS
  Procs = {p1, p2}
  Payloads = {"early", "both", "huge"}
  Specs <- MCSpecs
  Quoted <- MCQuoted
  Clean <- MCClean
  LegacyVersions = {2}
  Unset = Unset
  Oversized = {"huge"}
  MaxAttempts = 2
INVARIANTS FetchesDisjoint FirstSeenIsFirst
PROPERTIES ArchiveSpec ProgramsEnd
