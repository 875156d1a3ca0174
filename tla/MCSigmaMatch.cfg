SPECIFICATION Spec
CONSTANTS
  HashSize = 5
  Chunk = 4
  GenMax = 2
  NoVal = NoVal
  MaxInt = 60
  Regex <- MCRegex
  CondStackMax = 2
  MaxClauses = 3
  NoTeddy = NoTeddy
  Artifacts <- ArtSound
  Events <- MCEvents
  MaxHitsOf = {2}
  NoCall = NoCall
  NoDb = NoDb
  Unresolved = Unresolved
  MinBucket = 2
  MaxRoute = 16
INVARIANTS
  TypeOK
  StampsBehind
  NeedleStampsBehind
  MemoIsEvent
  NeedlesExact
  CandidatesExact
  PruneIsSound
PROPERTY
  MatchesSpec
