CONSTANTS
  Types <- MCTypes
  Models <- MCModels
  MaxExpectations = 3
  MaxModels = 3
  MaxItems = 4
  MaxSize = 2
  MaxPage = 3
SPECIFICATION Spec
INVARIANTS
  PlainRowsScanBack
  PreloadedRowsScanBack
  RelationsComeBack
  PagesCountEveryItem
\* A test ends when its expectations are answered.
CHECK_DEADLOCK FALSE
