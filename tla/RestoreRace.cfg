SPECIFICATION Spec
CONSTANTS
  Workers = {w1, w2}
  Categories = {c1}
  v1 = v1
  v2 = v2
  Videos = {v1, v2}
  Queues <- Overlaps
  MaxTracks = 2
  Missing = {}
  None = None
  MaxPlaylists = 2
  MaxRestores = 3
  MaxFaults = 1
  MaxEdits = 1
  MaxTime = 0
  VerifyTTL = 0
  FlushBatch = 2
  PageSize = 1
  MaxPages = 1
  MaxRetries = 0
  Validate = FALSE
  Dedupe = FALSE
  Fallback = FALSE
INVARIANT MirrorSound
INVARIANT DoneIsMirrored
INVARIANT CopiesBounded
PROPERTY ImplementsFindOrCreate
SYMMETRY Symmetry
CHECK_DEADLOCK FALSE
