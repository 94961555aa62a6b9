SPECIFICATION Spec
CONSTANTS
  Workers = {w1}
  Categories = {c1, c2}
  v1 = v1
  v2 = v2
  Videos = {v1, v2}
  Queues <- Repeated
  MaxTracks = 3
  Missing = {v2}
  None = None
  MaxPlaylists = 4
  MaxRestores = 2
  MaxFaults = 1
  MaxEdits = 1
  MaxTime = 2
  VerifyTTL = 1
  FlushBatch = 1
  PageSize = 1
  MaxPages = 1
  MaxRetries = 1
  Validate = TRUE
  Dedupe = TRUE
  Fallback = TRUE
INVARIANT TypeOK
INVARIANT TracksAccounted
INVARIANT PlaylistsHome
INVARIANT AnswerIsMapped
INVARIANT CreationsBounded
INVARIANT BilledOnce
SYMMETRY Symmetry
CHECK_DEADLOCK FALSE
