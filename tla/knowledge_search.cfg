CONSTANTS
  d1 = d1  d2 = d2  d3 = d3  n1 = n1  none = none
  e1 = e1  e2 = e2  tag = tag  c1 = c1  c2 = c2
  Parts = {"index", "community", "graph", "search"}
  Docs = {d1}
  Notes = {n1}
  Tasks = {e1, e2}
  Updaters = {c1}
  ConfigOverlaps = FALSE
  MaxChanges = 1
  MaxTasks = 3
  MaxWrites = 1
  MaxCrashes = 1
  IndexedDocs = {d1, d2}
  Builders = {c1, c2}
  BuildKinds <- AllKinds
  AloneKinds = {"graph"}
  MaxBuilds = 4
  MaxDeaths = 1
  Papers = {d1, d2}
  ChunksOf <- PaperChunks
  Names = {1, 2, 3}
  Extractions <- SixExtractions
  Confident = 50
  GroupCap = 1
  WholeCap = 2
  Locators <- FourLocators
  AssetOf <- LocatorAsset
  Ordinal <- LocatorOrdinal
  Documents = {d1, d2}
  NoAsset = none
  Scorings <- TwoScorings
  Boost <- TitleBoost
  Mentions <- EntityMentions
  Nameable = {e1}
  Related <- EntityNeighbours
  Labels <- TagAssets
  Communities <- SummaryChunks
  Noise = {2}
  Governances <- ThreeGovernances
  Postgres = TRUE
  Limit = 2
  MaxVariants = 2
  CandidateCap = 8
  RouteCap = 2
  TopKMinimum = 1
  TopKMaximum = 3
  ScoreGap = 1200
  SourceCoverage = 2
  MaxEdits = 1
SPECIFICATION MCSpec
CHECK_DEADLOCK FALSE
INVARIANTS ServedIndexComplete NoStrandedDocument GraphConsistent CommunitiesCoverGraph CitedWasCitable RoutesAgree GovernedOrder
PROPERTIES BuildingSettles RebuildRestoresCoverage GraphSettles
