\* Every library call on small inputs, a captured stream of more than
\* twice its limit, and calls of models within a budget.
SPECIFICATION MCSpec
CONSTANTS
  None = None
  Nobody = Nobody
  NoSize = NoSize
  Dimensions = {"hook", "completion", "visual_independence"}
  HookObjectives = {}
  Markers = {}
  MinimumPart = 2
  DefaultPart = 8
  AbsolutePart = 12
  MaximumGap = 1
  MaximumDisplay = 4
  SourceTolerance = 1
  Structural = {"definition", "mechanism", "example"}
  EnoughTime = 6
  WeakWords = 3
  EnoughWords = 5
  LeastSelected = 1
  LongestCue = 4
  FastChinese = 2
  FastEnglish = 4
  ClusterGap = 2
  Margin = 5
  LeastClip = 8
  MostClip = 60
  ContextGap = 1
  Lookback = 15
  DuplicateGap = 1
  TargetHeights <- MCTargetHeights
  Inputs <- MCInputs
  Sayings <- MCSayings
  SportsSayings <- MCSportsSayings
  Providers = {"detector", "sports_text"}
  SubtitleSpecs <- MCSubtitleSpecs
  Hosts <- MCHosts
  Frames <- MCFrames
  Resolutions <- MCResolutions
  Layouts <- MCLayouts
  Bytes = {0, 1}
  HeadLimit = 1
  TailLimit = 2
  Marker = 1
  MaxBytes = 9
  BaseTiers <- MCBaseTiers
  Mandatory = {"semantic_conflict"}
  OtherReasons = {"low_confidence"}
  Unlimited = Unlimited
  Budgets <- MCBudgets
  MostCalls = 2
INVARIANTS TextIsExact SpansKeepTheText WindowsAreWhole NewTypesFirst PlansAreValid
  ShownWasChecked EveryCueIsShown SubjectStaysInside SubtitleStaysInSafeArea
  MomentIsShownWhole LatestResultTakenBack CallsKeepTheLimits
CHECK_DEADLOCK FALSE
