SPECIFICATION FairSpec
CONSTANTS
  FrameSlices = 2
  MaxChunks = 3
  MaxStarts = 2
INVARIANTS SessionConsistent FreshFramesAreFlagged
PROPERTIES ImplementsExclusiveSink ClosedChannelGoesQuiet FlushEnds StopReturns
CHECK_DEADLOCK FALSE
