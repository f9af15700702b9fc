CONSTANTS
  Names = {a}
  Lens = {64}
SPECIFICATION RtSpec
INVARIANT FullMessage
