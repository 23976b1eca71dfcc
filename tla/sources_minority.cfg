SPECIFICATION Spec
CONSTANTS
  NoTime = NoTime
  BadTime = BadTime
  FarTime = FarTime
  Unknown = Unknown
  Stray = Stray
  None = None
  NoSchema = NoSchema
  Torn = Torn
  Registered <- MCRegistered
  DetectFloor = 60
  LayoutSample = 2
  RawSample = 2
  RawShare = 50
  SampleSize = 4
  MatchFloor = 50
  SourceShare = 80
  MaxSubshapes = 3
  Inputs <- MinorityInputs
  Configs <- MCConfigs
  MaxRetries = 2
  MaxIngests = 2
INVARIANT
  OneLineDoesNotWin
