SPECIFICATION FairSpec
CONSTANTS
  Streams = {"raw", "framed"}
  MaxBytes = 16
  Controls = {8}
  MaxFrames = 2
  MaxPayload = 1
  MaxWrites = 1
INVARIANT TypeOK
INVARIANT CleanOutput
INVARIANT RawOutput
PROPERTY KillEnds
CHECK_DEADLOCK FALSE
