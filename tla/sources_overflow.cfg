SPECIFICATION Surviving
CONSTANTS
  NoTime = NoTime
  BadTime = BadTime
  FarTime = FarTime
  Unknown = Unknown
  Stray = Stray
  None = None
  NoSchema = NoSchema
  Torn = Torn
  Registered <- MCRegistered
  DetectFloor = 60
  LayoutSample = 2
  RawSample = 2
  RawShare = 50
  SampleSize = 2
  MatchFloor = 50
  SourceShare = 80
  MaxSubshapes = 3
  Inputs <- FarInputs
  Configs <- MCConfigs
  MaxRetries = 2
  MaxIngests = 2
PROPERTY
  MalformedInputIsSkipped
