CONSTANTS
  Names = {a}
  Lens = {3, 9}
SPECIFICATION FairRtSpec
INVARIANTS
  TextInOrder
  FlushedText
PROPERTIES
  OnlyText
  TextShown
