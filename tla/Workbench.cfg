SPECIFICATION Spec
CONSTANTS
  Terms = {"name", "word"}
  Untitled = "untitled"
  Tool = "pypdf"
  None = None
  Names = {"a", "b"}
  Passwords = {"p", "q"}
  Sizes = {1, 2}
  Initial <- MCInitial
  MaxCalls = 2
  PageNums <- MCPageNums
  FieldLists <- MCFieldLists
  Fills <- MCFills
  Templates <- MCTemplates
  Pictures <- MCPictures
INVARIANTS
  IInv
  RedactedGone
  SignatureCoversDrawing
  ReadsBack
PROPERTY PagesSurvive
CHECK_DEADLOCK FALSE
