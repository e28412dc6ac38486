SPECIFICATION Spec
CONSTANTS
  NameSeq <- MCNames
  Begins <- MCBegins
  MaxDepth = 2
  Matching = {"x"}
  FirstTrees <- MCFirstTrees
  Paths <- MCPaths
  Blobs <- MCBlobs
  Secret = "secret"
  Filters <- MCFilters
  Caps = {0, 1, 2, 99}
  Contexts = {0, 1, 3}
  MaxSnaps = 4
INVARIANTS DiffExplains FilterKeepsAskedFor HunksFit GrepIsFirstHits BlameTrue
PROPERTIES EditsAreFlat PrunesOnItsPath
CHECK_DEADLOCK FALSE
