SPECIFICATION Spec
CONSTANTS
  Margin = 1
  TextWidth = 2
  FontSize = 2
  Dirs = {"d", "e"}
  Stems <- MCStems
  BatesStem <- MCBatesStem
  SplitStems <- MCSplitStems
  FitFirst = 1
  FitNext = 2
  InitialFiles <- MCInitialFiles
  Outputs <- MCOutputs
  PageArgs <- MCPageArgs
  RangeArgs <- MCRangeArgs
  OffsetArgs <- MCOffsetArgs
  BoxArgs <- MCBoxArgs
  SizeArgs <- MCSizeArgs
  PositionArgs <- MCPositionArgs
  EntryArgs <- MCEntryArgs
  LabelArgs <- MCLabelArgs
  MaxCalls = 2
CHECK_DEADLOCK FALSE
INVARIANTS
  TypeOK
  PageAlgebra
  BatchRunsOn
  CropsStayInside
  MarksOnPage
  TargetsExist
  NavigationReadsBack
  ComparisonsSound
