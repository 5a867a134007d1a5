SPECIFICATION PartsSpec
CONSTANTS
  Channels = {"foo", "bar"}
  Playlists <- SomePlaylists
  Names <- TheirNames
  Long <- TheirLongNames
  MaxLoads = 3
  Ids = {"foo", "bar"}
  Players = {"mpv"}
  MaxFavs = 2
  MaxRuns = 3
  Guards = {g1, g2, g3}
  StreamIds = {"s1", "s2"}
  Processes = {"p1", "p2"}
  MaxFailures = 3
  Durations <- SomeDurations
  Target = 2000
  Window = 3
  MaxSegments = 4
  Size = 4
  Chunks = {1, 2, 5}
  MaxBytes = 7
  MaxWaits = 2
  MaxCrashes = 2
INVARIANTS HandlesClosed ListPlays WindowReachable ResourcesSound ParsedSound BufferCoversTwelve UnreadIntact EndMeansAllRead
PROPERTIES LoadReturns FavoritesSurvive ImplementsChannel WriteReturns
CHECK_DEADLOCK FALSE
