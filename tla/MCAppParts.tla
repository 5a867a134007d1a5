------------------------------ MODULE MCAppParts ------------------------------
(* The parts of the program that share no state with the streams or with each  *)
(* other: a behaviour is one of MemoryMapRing, ChannelTab, Desktop,            *)
(* StreamResources or PlaylistTiming, and the variables of the others stay as  *)
(* they are.  The variables of MemoryMapRing are declared there.               *)
EXTENDS SamplePlaylists, MemoryMapRing

CONSTANTS
  Channels, Playlists, Names, Long, MaxLoads,  \* ChannelTab
  Ids, Players, MaxFavs, MaxRuns,              \* Desktop
  Guards, StreamIds, Processes, MaxFailures,   \* StreamResources
  Durations, Target, Window, MaxSegments       \* PlaylistTiming

\* A number that was not readable, and one that does not divide twelve seconds.
SomeDurations == {-1, 1700}

VARIABLES
  text, channel, urls, listed, original, watchOn, playing, at, layer, phase,
  handles, result, served, loads,
  favorites, box, file, unwritten, saving, handed, whole, settings, ini, dialog,
  hidden, made, icon, refused, running, runs,
  guard, jobs, member, process, failures, active, alive, spared,
  stream, closed, numbered, segments, target, sequence, live, cuts,
  part   \* the one that moves

C == INSTANCE ChannelTab
D == INSTANCE Desktop WITH given <- handed
R == INSTANCE StreamResources
P == INSTANCE PlaylistTiming

ASSUME PartAssumptions == C!ChannelTabAssumption /\ R!ResourceAssumption /\ P!TimingAssumption

channelTab == << text, channel, urls, listed, original, watchOn, playing, at, layer, phase,
                 handles, result, served, loads >>
desktop == << favorites, box, file, unwritten, saving, handed, whole, settings, ini, dialog,
              hidden, made, icon, refused, running, runs >>
resources == << guard, jobs, member, process, failures, active, alive, spared >>
playlist == << stream, closed, numbered, segments, target, sequence, live, cuts >>
map == << header, data, mutex, writing, reading, written, crashes >>
partsVars == << channelTab, desktop, resources, playlist, map, part >>

PartsInit ==
  /\ C!Init /\ D!Init /\ R!Init /\ P!Init /\ Init
  /\ part \in {"channel", "desktop", "resources", "playlist", "map"}

Moves(p) == part = p /\ UNCHANGED part
Loading == Moves("channel") /\ C!LoadStep /\ UNCHANGED << desktop, resources, playlist, map >>
Writing == Moves("map") /\ WriterStep /\ UNCHANGED << channelTab, desktop, resources, playlist >>

PartsNext ==
  \/ Moves("channel") /\ C!Next /\ UNCHANGED << desktop, resources, playlist, map >>
  \/ Moves("desktop") /\ D!Next /\ UNCHANGED << channelTab, resources, playlist, map >>
  \/ Moves("resources") /\ R!Next /\ UNCHANGED << channelTab, desktop, playlist, map >>
  \/ Moves("playlist") /\ P!Next /\ UNCHANGED << channelTab, desktop, resources, map >>
  \/ Moves("map") /\ Next /\ UNCHANGED << channelTab, desktop, resources, playlist >>

PartsSpec ==
  PartsInit /\ [][PartsNext]_partsVars /\ WF_partsVars(Loading) /\ WF_partsVars(Writing)

\* No WinHTTP handle stays open behind a request, whichever call of it failed.
HandlesClosed == C!HandlesClosed

\* Every entry of the list leads to a URL, and Watch plays the one it shows.
ListPlays == C!ListPlays

\* LoadChannel returns the window's thread, unless a cut or odd answer ends it.
LoadReturns == C!LoadReturns

\* A start brings back the favourites of the last save, as far as it came.
FavoritesSurvive == D!FavoritesSurvive

\* The hidden window can be got back, unless the shell refused or lost its icon.
WindowReachable == D!WindowReachable

\* Dead processes are spared a bounded number of times, streams not overcounted.
ResourcesSound == R!ResourcesSound

\* Segments have the stream's number and discontinuity, the first one a mark too
\* where discontinuities gone by are counted; their start times add up.
ParsedSound == P!ParsedSound

\* The recommended buffer holds twelve seconds, or is the largest allowed.
BufferCoversTwelve == P!BufferCoversTwelve
==============================================================================
