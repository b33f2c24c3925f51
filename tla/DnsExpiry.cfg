SPECIFICATION SessionSpec
CONSTANTS
  SeqSpace = 8
  ChunkSize = 2
  MaxOutboundBytes = 2
  MaxReorderFrames = 1
  Window = 2
  PollNumbers = {0}
  Reach = 2
  Streams <- Short
  MaxExpiries = 1
CHECK_DEADLOCK FALSE
INVARIANT DownstreamIntact
