SPECIFICATION PromptSpec
CONSTANTS
  Workers = {w1}
  Categories = {c1}
  v1 = v1
  v2 = v2
  Videos = {v1, v2}
  Queues <- One
  MaxTracks = 1
  Missing = {}
  None = None
  MaxPlaylists = 2
  MaxRestores = 3
  MaxFaults = 0
  MaxEdits = 0
  MaxTime = 2
  VerifyTTL = 1
  FlushBatch = 2
  PageSize = 1
  MaxPages = 1
  MaxRetries = 0
  Validate = FALSE
  Dedupe = FALSE
  Fallback = FALSE
INVARIANT VerifiedWithinTTL
SYMMETRY Symmetry
CHECK_DEADLOCK FALSE
