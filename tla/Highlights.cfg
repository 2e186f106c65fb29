\* One host with one or two tasks and one or two bundles of proposals.
SPECIFICATION Spec
CONSTANTS
  Dimensions = {"hook", "clarity", "completion", "visual_independence"}
  None = None
  MinimumPart = 2
  DefaultPart = 8
  AbsolutePart = 16
  HookObjectives = {"hook", "three_second_hook"}
  Markers <- MCMarkers
  Asks <- MCAsks
  Bundles <- MCBundles
  Offered <- MCOffered
  IdBefore <- MCIdBefore
INVARIANTS SelectedFitTogether HostDecides ReasonsAreTrue PlanHasTheLengthsAsked PlanKeepsTheChoice PartsAreSound
CHECK_DEADLOCK FALSE
