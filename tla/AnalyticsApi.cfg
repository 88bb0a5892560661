SPECIFICATION Spec
CONSTANTS
  None = None
  NotXml = NotXml
  Raises = Raises
  Anchors = {12, 24, 36}
  MinMembers = 2
  Threshold = 1
  AdeckFiles <- MCAdeckFiles
  ImpactFiles <- MCImpactFiles
  TrackFiles <- MCTrackFiles
  Entries <- MCEntries
  Counties <- MCCounties
  GtwoFiles <- MCGtwoFiles
  ShapeFiles <- MCShapeFiles
  ReplayWinds <- MCReplayWinds
  Completions <- MCCompletions
  Invalid = Invalid
  NotFound = NotFound
  Conflict = Conflict
  TooLarge = TooLarge
  BadGateway = BadGateway
  Unavailable = Unavailable
  Every = Every
  UsBox <- MCUsBox
  StateOf <- MCStateOf
  FormulaRmax = 25
  Materiality = 250
  MinEmployment = 50
  Archives <- MCArchives
  LiveTracks <- MCLiveTracks
  Caps <- MCCaps
  Shapes <- MCShapes
  GeoOf <- MCGeoOf
  FactSets <- MCFactSets
  LossFiles <- MCLossFiles
  TivFiles <- MCTivFiles
  Book <- MCBook
  CurveFiles <- MCCurveFiles
  Prior <- MCPrior
  CurveIds <- MCCurveIds
  Indices <- MCIndices
  AdjustmentLists <- MCAdjustmentLists
  Evidence <- MCEvidence
  Curves <- MCCurves
  Pins <- MCPins
  MinTail = 4
  MinPath = 5
  MinStress = 3
  FullTrack = 6
  StressWindows <- MCStress
  Annualise <- MCAnnualise
  Catalog <- MCCatalog
  Spy = 4
  FundSets <- MCFundSets
  DrawLists <- MCDrawLists
  Requests <- MCRequests
  OwnBooks <- MCOwnBooks
  HistoryStarts <- MCHistoryStarts
  Programmes <- MCProgrammes
  Chains <- MCChains
  Industry <- MCIndustry
  Geometry <- MCGeometry
  MaxRows = 22
  GroupPayloads <- MCGroupPayloads
  Targets <- MCTargets
  ViewRequests <- MCViewRequests
  Pivots <- MCPivots
  Loads <- MCLoads
  ExportLoads <- MCExportLoads
  Towers <- MCTowers
  Scenarios <- MCScenarios
  NotCsv = NotCsv
  MaxPolygons = 2
  MaxZones = 3
  MaxVertices = 20
  MaxWork = 90
  World <- MCWorld
  PointsPerCounty = 2
  Scatter <- MCScatter
  IndexStep = 4
  Resolution = 20
  FirmsSources <- MCFirmsSources
  FirmsMaxDays = 30
  FirmsWindowDays = 5
  ClusterCells = 2
  HeatShapeCap = 2
  HeatPointCap = 24
  FloodEvents = {"Flood Warning", "Flood Watch"}
  TropicalEvents = {"Hurricane Warning", "Hurricane Watch"}
  WatchRank <- MCWatchRank
  EsriLimit = 4
  MaxBbox = 100
  LocationBooks <- MCLocationBooks
  PolygonLists <- MCPolygonLists
  FireRequests <- MCFireRequests
  FireFeeds <- MCFireFeeds
  AlertFeeds <- MCAlertFeeds
  InundationAnswers <- MCInundationAnswers
  Boxes <- MCBoxes
  GridFiles <- MCGridFiles
  Synthetic <- MCSynthetic
  OnLand <- MCOnLand
  RelevantEvents = {"Flood Warning", "Flood Watch", "Hurricane Warning", "Hurricane Watch"}
INVARIANT EnvelopeHoldsTheMembers
INVARIANT ImpactFollowsTheDrawnTrack
INVARIANT CoreIsSweptBetweenFixes
INVARIANT EveryLossIsAccountedFor
INVARIANT FitIsTheIsotonicOne
INVARIANT BooksObeyTheirLimits
INVARIANT FrontierIsUndominated
INVARIANT DealShareIsAShare
INVARIANT ExportTabsAgree
INVARIANT EveryLocationCountsOnce
INVARIANT FootprintsAreTheirCells
INVARIANT GapsAreTold
