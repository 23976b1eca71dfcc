SPECIFICATION Spec
CONSTANTS
  s1 = s1
  s2 = s2
  NoSecret = NoSecret
  Sources <- MCSources
  Briefs <- MCBriefs
  Configs <- MCConfigs
  ChunkSize = 3
  BatchSize = 2
  MinParallel = 2
  CommitInterval = 2
  MaxClusters = 2
  FewClusters = 1
  Candidates = {1, 2}
  MaxIngests = 2
INVARIANTS
  CountsMatchText
  TemplatesAddUp
  VaultMatchesText
  EvictionsAreExact
PROPERTIES
  FillsOneLog
  IngestEnds
