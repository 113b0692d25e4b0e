SPECIFICATION FairSpec
CONSTANTS
  Names <- MCNames
  Programs <- SupportedPrograms
  MaxFrames = 5
  MaxOut = 60
INVARIANTS TypeOK HiddenWhileOnStack OwnNameIsHidden ScanResumesBehindName OutputIsStandard
PROPERTIES ArgumentStaysInside ExpansionEnds
