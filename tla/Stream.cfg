SPECIFICATION StreamSpec
CONSTANTS
  Indexes = {0, 1}
  NoText = NoText
  MaxText <- TextPerChoice
  MaxPiece = 2
INVARIANTS ShownIsClean ContextIsWhole SnapshotsAgree TagMeansMarker
CHECK_DEADLOCK FALSE
