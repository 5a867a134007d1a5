# Tardsplaya in TLA+

Tardsplaya is a Windows program that watches Twitch streams: it downloads the
segments of an HLS playlist and feeds them to a media player, one tab and one
stream per channel.  This directory holds a formal model of it: TLA+ modules
translated from the C++ source in `src/`, TLC configurations that check them on
small instances, and theorems checked by TLAPS.

## 1. Inventory

| component | source | state | operations |
|---|---|---|---|
| byte queue (tx-queue) | `tx-queue-impl.inl`, `tx_queue_wrapper.h` | ring storage, `head_`, `tail_`, per-transaction private and cached indices | write/read transaction: begin, write/read, invalidate, commit in the destructor |
| segment queue `TxQueueIPC` | `tx_queue_ipc.cpp` 44-279 | the byte queue, `produced_/consumed_/dropped_count_`, `end_of_stream_` | `ProduceSegment`, `ConsumeSegment`, `SignalEndOfStream`, `IsQueueNearFull` |
| player pipe `NamedPipeManager` | `tx_queue_ipc.cpp` 282-460 | stdin pipe, player process handle | `WriteToPlayer`, `IsPlayerRunning`, `Cleanup`, process creation |
| stream manager `TxQueueStreamManager` | `tx_queue_ipc.cpp` 463-763 | two threads, `should_stop_`, `streaming_active_`, `seen_urls` | `Initialize`, `StartStreaming`, `StopStreaming`, producer and consumer loops |
| stream thread | `stream_thread.cpp` | captured references to the tab's flags | monitor loop, statistics, auto-stop message; also two older modes |
| tab manager | `Tardsplaya.cpp` | `g_streams`, per tab `streamThread`, `cancelToken`, `userRequestedStop`, `playerProcess` | open, watch, stop, close one, close all, auto-stop message, timer |
| transport router | `tsduck_transport_router.cpp` | `TSBuffer`, fetcher and router threads, statistics | `StartRouting`, `StopRouting`, `AddPacket`, `GetNextPacket`, HLS to TS conversion |
| HLS pipe | `stream_pipe.cpp` | segment buffer, dynamic buffer sizes, `g_active_streams` | downloader and feeder threads of `BufferAndPipeStreamToPlayer` |
| memory map | `stream_memory_map.cpp` | shared header and ring, named mutex | `WriteData`, `ReadData`, `SignalStreamEnd`, `WaitForSpace`, `Close` |
| resource manager | `stream_resource_manager.cpp` | per-stream jobs, processes and failure counts, `active_streams_` | create and clean up resources, assign a process, health check, load heuristics |
| channel of a tab | `Tardsplaya.cpp`, `twitch_api.cpp`, `playlist_parser.cpp`, `json_minimal.h`, `tlsclient/tlsclient.cpp` | channel name, `qualities`, `qualityToUrl`, `standardToOriginalQuality`, Watch button | `LoadChannel` with its HTTP requests and fallbacks, `RefreshQualities`, the choice of a quality |
| favourites, settings, tray | `favorites.cpp`, `Tardsplaya.cpp` | `g_favorites` and its file, settings and their INI file, `g_trayIconCreated` | add, delete, save, load; settings dialog; minimize and restore |
| media playlist parser | `tsduck_hls_wrapper.cpp` | last parse result, target duration, sequence, live flag | parse, timing, buffer-size heuristics |
| TLS client | `tlsclient/tlsclient_source.cpp` | socket, handshake state, keys, sequence numbers, transcript, receive buffers | `open`, `send`, `recv`, `close` |
| the rest | `chunked_decode.h`, `urlencode.cpp`, `tlsclient/*.c` | none | text conversions, cryptographic primitives |

How they interact.  The user-interface thread owns the tabs.  *Watch* resets a
tab's flags and starts a stream thread that keeps **references** to the tab's
`cancelToken`, `userRequestedStop`, `chunkCount` and `playerProcess`.  The
stream thread creates a `TxQueueStreamManager`, which launches the player and
two workers.  The producer polls the playlist and writes each new segment to
the byte queue in one transaction; the consumer waits for an initial buffer,
takes segments out and writes them to the player's stdin.  The stream thread
looks at the statistics once a second and leaves its loop when the tab's
`cancelToken` is set or the player has exited; it then joins the workers,
terminates the player and posts an auto-stop message that names the tab by its
index.  *Stop* sets the flags and joins the stream thread **on the
user-interface thread**.  A timer looks at each tab's `playerProcess`.
Lines for the log go two ways: `log_callback` posts them to the window, while
`AddDebugLog`, with the setting *Verbose debug* on, writes to the log list from
whatever thread calls it, which waits for the user-interface thread to answer.

What makes each part correct:

- byte queue: unread bytes are never overwritten, a transaction is visible as a
  whole or not at all, bytes come out once and in order;
- segment queue and stream manager: segments are delivered in playlist order,
  none twice and none after the end marker; the counters account for all of
  them; both workers have ended before what they use is destroyed;
- stream thread: it ends after a cancel and after the exit of the player, and
  tells the window so exactly once unless the user stopped it;
- tab manager: a running stream has a tab that shows it and can stop it, no
  joinable thread is overwritten or destroyed, messages and flags reach the
  stream they are meant for, and the user interface returns to its loop;
- HLS pipe: every segment taken up is in one place, the buffer keeps to its
  maximum, what is buffered at the end is played, the stream counter is given
  back;
- transport router: no packet is sent twice or dropped while there is flow
  control, frame statistics report real losses only, both threads are joined;
- memory map: the reader sees what was written, once and in order, and the end
  of the stream, also when a process dies with the mutex;
- resource manager: it never counts more streams than hold resources, and a dead
  process is called healthy a bounded number of times;
- channel of a tab: what the list shows is what Watch plays, loading ends whatever
  the network does and wherever an answer breaks off, no handle is left open;
- favourites, settings, tray: a crash may shorten the list but not change it, and
  the hidden window can be got back;
- media playlist parser: a segment keeps its number and its discontinuity from one
  playlist to the next, start times add up, the buffer holds twelve seconds;
- TLS client: both ends derive the same keys from the same messages, `recv` returns
  what the server wrote, once, in order and per connection, and calls return.

Not all of this is met by the code; sections 3 and 5 say where it is not.

What is hard: two threads share the ring without a lock and trust cached
indices; a transaction must be all or nothing; counters of different threads
are combined; requests, the queue and the pipe may fail or block at any point;
there are four threads to be brought to an end in the right order, from either
side, and the thread that waits for that end may be one they wait for; processes
die with a mutex held or a file half written; handshake messages arrive grouped
and in pieces while keys and sequence numbers change; and references and indices
into the vector of tabs outlive the layout they were taken from.  PROJECT.json
lists each of these places with its line.

## 2. Modules

| module | models | stands on |
|---|---|---|
| `TxChannel` | what the byte queue promises: a bounded FIFO of bytes with atomic batches | - |
| `TxQueue` | the byte queue, step by step | implements `TxChannel` (`ImplementsChannel`) |
| `TxQueueProofs` | its theorems | `TxQueue`, TLAPS |
| `StreamDelivery` | what a stream promises the viewer: segments in playlist order, each at most once, none after the end | - |
| `StreamLife` | a stream thread as its tab sees it | - |
| `TxQueueStream` | one stream: producer, consumer, stream thread, user interface, player, server | implements `StreamDelivery` and `StreamLife`; uses what `TxQueue` shows |
| `TxQueueStreamProofs` | its theorems | `TxQueueStream`, TLAPS |
| `TabManager` | the tabs, the message loop and many stream threads | each thread behaves as `StreamLife` allows |
| `TabManagerProofs` | its theorems | `TabManager`, TLAPS |
| `HlsPipe` | one stream in HLS mode: downloader, feeder, stream thread, player, server | on its own |
| `HlsPipeProofs` | its theorems | `HlsPipe`, TLAPS |
| `TransportRouter` | one stream in transport-stream mode: fetcher, router thread, `TSBuffer`, stream thread, player, server | on its own |
| `TransportRouterProofs` | its theorems | `TransportRouter`, TLAPS |
| `MemoryMapRing` | the shared-memory ring between two processes | implements `TxChannel` |
| `DataLemmas` | lemmas on masked positions, sequences, folds, slices of a stream and least elements, used by the proof modules | TLAPS |
| `TlsByteStream` | what a connection promises the caller of `recv` | - |
| `TlsClient` | `tls_client` and `tls_cipher` against servers that keep to the course the client expects, and others that do not | implements `TlsByteStream` |
| `TlsClientProofs` | its theorems | `TlsClient`, TLAPS |
| `ChannelTab` | one tab from the channel's name to the chosen URL | `SamplePlaylists` gives its runs' playlists |
| `Desktop` | favourites, settings and tray icon over starts and crashes | - |
| `StreamResources` | the resource manager and its guards | - |
| `PlaylistTiming` | the media playlist parser over a moving window | - |
| `MCAppParts` | the last four and `MemoryMapRing` in one run, each on its own | - |
| `AppPartsProofs` | theorems about the ring, favourites, qualities, requests, playlist, resources and tray icon | `MCAppParts`, TLAPS |

The three layers are connected by refinement rather than by one large product:
`TxQueue` implements an atomic channel, which is why `TxQueueStream` may treat
a transaction as one step on a sequence of segments; `TxQueueStream` implements
`StreamLife`, which is the life cycle `TabManager` gives each of its threads.
`HlsPipe` and `TransportRouter` are the program's two older ways to run a
stream; a stream thread uses exactly one of the three, so the modules share no
state.  `WatchStream` always selects the first.

### TxQueue

One producer and one consumer, each inside a transaction object.  `wtx.at` and
`rtx.at` are the private `tail_` and `head_` of the transaction, `seen` its
cached copy of the other side's index.  Positions are absolute byte counts; the
code's indices are `Ix(p) = p % Cap`, and every computation of the code
(`AvailableSpace`, `AvailableData`, the two `memcpy` parts of `CopyIn` and
`CopyOut`) uses the masked value only.  Each byte carries a fresh stamp, so that
a byte that is lost, torn, repeated or read too early is told apart.

Memory model: the solution builds for Win32 and x64 only.  There, stores of one
core become visible in program order, so an index value that is loaded implies
the data written before it; what remains is that a load may return an old value.
`headStores` and `tailStores` hold the values that may still be returned: the
model lets a load pick any of them, and afterwards nothing older.

`sent` and `rcvd` are histories.  `MaxBytes` bounds the bytes copied in a run.

### TxQueueStream

Program counters are named after what comes next: `fetch`, `next`, `download`,
`count`, `signal` for the producer (lines 556-649), `loop`, `read`,
`empty`, `count`, `write`, `failed` for the consumer (651-734), and for the
stream thread `init`, `check`, `report`, `stop`, `joinProducer`,
`joinConsumer`, `destroy`, `notify`, `post`.  The points where the code reads shared
state are separate steps: the queue and `end_of_stream_`, the two flags of
`StopStream`.  The numbers that are only displayed are left out.

Data is abstracted to what the properties need: a segment is its number, with a
size so that the queue can overflow; sequence numbers, checksums and the
discontinuity flag change nothing but log lines.  Any HTTP request may fail.
The server publishes segments in order and lists the last `Window` of them; that
real playlists do not reorder segments is an assumption about the server.  The
player may pause, resume, close its stdin or exit at any time.

Debug output.  `AddDebugLog` (`Tardsplaya.cpp` 263-266) calls `AddLog`, whose
`ListView_` macros (243-247) are `SendMessage` to a control of the user-interface
thread: a call of another thread returns when that thread next takes messages.  As
long as it is in its message loop that is a delay like any other.  In `StopStream`
it is not, until the join has returned: `AddDebugLog(thread)` puts a thread at one
of its debug lines (`AtAddDebugLog`) into `logging`, and from then on the thread
makes no step and cannot be joined.  `Verbose` says whether the setting may be on; it
may be switched at any time, so a thread may also pass its lines.  `Hung` is the state
in which the user-interface thread joins while a thread of the stream waits for it:
the liveness properties are about everything else, and `NeverHung`, that it does not
come to that, does not hold (section 5).

### TabManager

A `StreamTab` occupies a slot of `g_streams`; `threads[t].slot` is the slot
whose members the thread captured, 0 when that storage has been freed.  Moving
tabs (`Erase`, the move assignment of lines 85-118) moves `streamThread`,
`isStreaming` and the flags, but neither the captured references nor the index
in a thread.  Reading through a reference that dangles, or into a slot that has
been destroyed, may return either value.  `terminated` becomes true where the
C++ runtime calls `std::terminate`.  The order in which Windows delivers posted
messages, input and timers is part of the model (`Idle`): a click is only
handled when no posted message waits.  `strayed` records that a tab was moved while
its stream was running, by closing an earlier tab or by growing the vector; the
promises about messages and flags are made as long as that has not happened
(section 5 says what happens then).

A stream thread has a debug line at the beginning or the end of each phase, and
while it stops it joins workers that have some, so `AddDebugLog(t)` may hold any live
thread that the user-interface thread does not answer: not while that is in the
`join` of a stop or of `CloseAllTabs`.  Back in the loop it answers all.  `Hung` is as in
`TxQueueStream`; only the thread that is being joined counts.

### HlsPipe

`main` is the stream thread inside `BufferAndPipeStreamToPlayer`
(`stream_pipe.cpp` 640-1391) and after it (`stream_thread.cpp` 173-190);
`downloader` and `feeder` are records with a program counter and the locals that
survive a step.  Each critical section of `buffer_mutex` is one step, except the
feeder's emergency pause, which sleeps with the mutex held (`pause`): steps that
need the mutex wait for `BufferFree`.  The size of the buffer, which both threads
read under one lock and use under none or another, is a local (`size`), so every
stale use of it is there.  Time is abstracted: the timer of the full buffer, once
started, may or may not have expired.  `WriteFileWithTimeout` passes an
`OVERLAPPED` for an anonymous pipe, whose writes are synchronous: the timeout
never fires, and a write to a full pipe waits for the player.  The recommended
buffer size comes from a static that all streams share, so each refresh may
choose any of `Targets`.  `delivered`, `missed`, `cleared` and `skipped` are
histories.

### TransportRouter

`main` is the thread that owns the router object (`stream_thread.cpp` 207-337),
`fetcher` and `router` the router's two threads.  The loops look at two flags,
`routing` and the tab's cancel token, together `Over`; a thread that has passed
that test works on what it found although the flags may have changed
(`RequestPlaylist`, `KeepRouting`).  The buffer is a sequence of packets, each
with its place in the stream and the frame number it was given; all packets
start a frame, the densest case for the frame statistics.  `Flaky` bounds the
segments whose download may fail, `terminated` becomes true where joinable
threads are destroyed.  Only the low-latency mode is modelled, which is what the
one caller selects (`stream_thread.cpp` 231); so is `skip_old_segments`.  The
fallback parser `ParseHLSPlaylist` is used only when the first one finds no
segment, and finds none then: it is part of `PollEmpty`.  Not modelled: the
player's handle that the stream thread copies to its tab, and what is inside a
packet.  A server may count the discontinuities that have left its playlist at the
head of it, and the code reads that line as a discontinuity in the list
(`PlaylistTiming`): so once one was published, any poll may find one.

Verbose debug output is off in `HlsPipe` and `TransportRouter`: with it on, their
threads wait for the user-interface thread as those of `TxQueueStream` do.

### MemoryMapRing

The header, the bytes and the named mutex are shared by a writing process and a
reading process, which may die at any point and be replaced (`OpenAsReader`).
Byte `i` of the stream is the number `i`.  Each critical section is split where
it matters: bytes are copied (`WriteCopy`, `ReadCopy`), then the position is moved
and the lock released (`WritePublish`, `ReadTake`).  The mutex is recursive; when
its owner dies the next wait returns `WAIT_ABANDONED`, which `AcquireLock` reports
as a failure although the mutex is then owned (`kept`).  `IsStreamEnded` looks
without the lock.  `data_available` and `sequence_number` are written and never
read by the code, so they are left out.  A second `CreateAsWriter` on a name that
is still mapped, which would zero a header in use, is outside the model.

### TlsClient and TlsByteStream

`cl` is the object: handshake state index, keys, both sequence numbers, transcript,
receive buffers.  The server is external: it speaks TLS 1.2 or 1.3, puts one or
more whole handshake messages into a record, may send tickets, warnings, a fatal
alert or `close_notify`, may end or reset the connection at any point.  A record
on the wire is two units, so that `::recv` returns parts of it.  Cryptography is
symbolic: a key is `<< side, epoch, transcript >>`, a record opens only with its key and
its number.  `send_packet` looks at the link it is given: the hello of `open` is sent on
the connection just made.

The client knows one course of the handshake, that of its two tables
(`tlsclient_source.cpp` 902-914), and a server that follows the protocol may take
another.  `ServerMay` names what a server may do besides; `course` becomes `"other"` when
one has done so:

| `ServerMay` | what the server does | what the client makes of it |
|---|---|---|
| `ccs` | no ChangeCipherSpec in TLS 1.3, which an empty session id (line 982) permits, or one at another place | line 910 requires it, lines 1285-1286 fail |
| `retry` | HelloRetryRequest, for a cookie: the client has a share for every group it names | a ServerHello without a key share, line 1160 |
| `certRequest` | CertificateRequest | not in the tables, line 1286 |
| `fragment` | a Certificate that goes on in the next record | line 1279 does not look how long the record is; the rest is a message out of turn |
| `keyUpdate` | KeyUpdate | ignored, the next record does not open |
| `padding` | padded records in TLS 1.3 | line 1272 takes the padding for the type, the bytes are dropped |
| `warning` | warning alerts in TLS 1.2 | line 1266 does not decrypt them; taken for `close_notify`, or the numbers differ from then on |

`NothingRejected`, that transcripts, key changes and sequence resets agree at both
ends, is therefore a statement about servers of the usual course, and says so.  For
the others `EveryServerAccepted` is violated (section 5); that `recv` is a byte stream
and that calls return is checked with the first five of them too.  Simplified: the bytes
of a cookie, which `on_server_hello` would read as further extensions (1138-1156),
lead to the same error; the client hashes what lies behind a record it takes to be
longer than it is, which may also end the program; a HelloRequest of TLS 1.2 and padded
handshake records are left out and would be a wrong state like `certRequest`.

### ChannelTab, Desktop, StreamResources, PlaylistTiming

`ChannelTab`: `at` is the request `LoadChannel` has come to, `layer` who makes it
(WinHTTP or the fallback of `tlsclient.cpp`), `phase` how far it is.  A body can
break off behind a line or within one, and the code takes what it has for the whole:
`WinHttpQueryDataAvailable` is assumed to report no data when it fails, as its
result is not looked at.  `have` counts half lines; of a URL that breaks off a shorter
one is left (`Torn`), of another line nothing that counts, as no URL follows it.
Names of qualities are tuples, so that the substring tests of
`StandardizeQualityName` are arithmetic on them.

What the JSON parser makes of a body is in `Parsed`.  In an array it makes no step at
a word it does not know (`json_minimal.h` 95-100): the array grows until memory is used
up, which `GetModernAccessToken` catches and `GetAccessToken` does not.  In a string that
breaks off it steps over the terminating zero (line 59, or line 54 behind an escape)
and reads on behind the body, to any result or to a fault.  Where that ends the program, `at` is
`"lost"` (`ParserFails`).  `Replies` holds well-formed answers, answers that break off and one
that is no JSON but begins like an array.

*Watch* copies the chosen entry into `wchar_t qual[64]` (`Tardsplaya.cpp` 877-879)
whatever its length.  Entries of more than 63 characters, in practice those that stand for
a URL without a name, are the constant `Long`: with them the program ends, or
nothing is started (`WatchLong`).  It is assumed that the first 63 characters of such
an entry are not themselves another entry.

`Desktop`: the file of favourites is a mark and a sequence of names.  A name
carries the byte order marks that were read as part of it.  `Crash` may come
between two writes and tear a name.  `SaveFavorites` may fail to open the file,
which nobody notices.

`StreamResources`: each call holds the one mutex, so it is one step; guards are
made, given a process, checked and destroyed in any order, and may share an id.

`PlaylistTiming`: the server adds segments and the playlist window moves; the one
parser object reads any window at any time.  Durations are milliseconds, one of
them not a number.  The head of a playlist may name its type, and counts the
discontinuities gone by (`EXT-X-DISCONTINUITY-SEQUENCE`) whenever one has left the
window, or earlier if the server likes (`Heads`); `numbered` remembers whether the last one
did.  The parser knows a tag by what it begins with (`tsduck_hls_wrapper.cpp` 54), so it
takes that line for a discontinuity of the first segment; `ParsedSound` says that this is
the only false mark, `MarksAreReal` that there is none (section 5).

## 3. Runs

| run | question | instance |
|---|---|---|
| `ring_safety` | do interleaved transactions keep bytes whole, ordered and unread bytes intact? | 4-byte ring, transfers of 1 to 3 bytes: every relation of indices, including wrap-around in the middle of a transfer and several writes per transaction |
| `stream` | is delivery in order, are all segments accounted for, do workers end before what they use, does a stream behave as `StreamLife`, does it end after a stop and after the exit of the player, are queued segments taken? | 3 segments of different size, a playlist window of 2 so that segments scroll away, a queue of 8 bytes that holds two of them, a pipe of one, an initial buffer of 2, two errors to give up, verbose debug on or off: 508 303 states |
| `tabs` | whatever the user does with tabs: is a running stream always shown, is an idle tab free of joinable threads, do auto-stop messages reach their own stream, do Stop and Close All return, does a dead player free its tab? | 3 tabs at once, 4 ever opened, 2 reserved (so that the vector reallocates), 2 streams, verbose debug on or off: 975 630 states |
| `hls` | is every segment in one place, does the buffer keep to its maximum, is it played out at the end, does the stream end? | 3 segments, a window and a maximum of 2 (so that the buffer is found full, cleared and refilled), a target of 1 or 2, one write retry, one poll error to give up |
| `router_safety` | does flow control prevent drops, is no packet sent twice, do only failed segments come late, are frame numbers right? | 5 segments of a packet, a window of 4 of which 2 are taken, so that old ones are skipped and a failed one is tried again, a list of 3 processed segments that is cut, a buffer of 8 that drops from 4 on, watermarks 4 and 1, no discontinuity: 2 470 368 states |
| `router_liveness` | do a cancel, a dead player and the end of the fetcher end the stream thread or the program? | 2 segments of 2 packets, a discontinuity at the second |
| `tls` | do keys, numbers and transcripts agree, is `recv` a byte stream, do `open` and `recv` return? | 2 connections in turn (so that leftovers of the first would show), 3 units of data, reads of 1 and 3 units, at most 3 units per `::recv` so that records are cut and joined, the buffer moved down above 2, servers that leave the usual course in five ways: 213 568 states |
| `app_parts` | loading a channel: does the list play what it shows, are handles closed, does it return unless an answer is cut or no JSON?  Do favourites survive crashes?  Can the window be got back?  Are resources counted?  Does the parser agree with the stream?  The shared ring: is no published byte lost or read twice whoever dies, is the end seen only when all is read, does `WriteData` return? | 2 channels, 3 loads over playlists with names, resolutions, neither, and names of one standard form, one URL too long for Watch, and bodies that break off anywhere; 2 favourites, 3 starts; 3 guards, 2 ids and 2 processes, 3 failures for 10; 4 segments, a window of 3; a ring of 4 bytes, transfers of 1, 2 and 5 (so that a write waits for room and wraps around), 7 bytes, two turns of waiting, two deaths: 431 139 states |
| `stop_hangs`, `close_tab_terminates`, `router_end_terminates`, `router_sends_twice` | statements of the documentation the code does not meet, see section 5 | as small as shows it |

The five parts of `app_parts` share no state with each other or with a stream.  `part`
says which of them a behaviour is about; there is no interleaving between them to
be checked.

Deadlock checking is off in every run: the rings stop at their byte bound, a
stream and a connection come to their end, the tabs stop when the bounds on
windows and streams are used up, and loads, starts and segments are bounded.

Fairness.  `ThreadFairness` and `WF_vars(UiSteps)` say that a thread of the
program that can take a step eventually does; Windows schedules all of them.
Nothing is assumed of the user, the server or requests.  `LivePlayerSpec` adds
that the player, as long as it lives, does not leave a full pipe unread for
ever.  Without that assumption Stop does hang (`stop_hangs`), so the liveness
runs show exactly what the code delivers with a responsive player.  A line of
debug output that waits for the user-interface thread is no matter of fairness: both
threads wait for each other, and the properties name that state (`Hung`).  In
`TabManager` the same assumption is weak fairness of `Unstick` and strong
fairness of the stream thread, whose clean-up is enabled again and again.
`FairSpec` of `HlsPipe` and `TransportRouter` is weak fairness of each thread
and of a player that runs and has something to read; who gets a mutex is left
open, and requests may fail for ever as far as the error bounds allow.
`MemoryMapRing` assumes fairness of the writing thread only: the reader may stop
with the mutex.  `TlsClient` assumes that the calling thread runs, that the server
answers what it has received and that it ends each connection at some time:
`open` has no time limit, so without that it may wait for ever.  `ChannelTab`
assumes that a request goes on or fails, which WinHTTP's own time limits give.

The bounds of `HlsPipe` and `TransportRouter` are small values of the constants
of the code (a window of 2 to 4 segments for 15, a buffer of 2 segments for 30,
of 8 packets for 15000) that keep their relations: a window larger than what is
kept of it, a low mark, a high mark below the mark at which packets are dropped,
a list of processed segments no shorter than the segments kept.  Every action of
both modules fires in these runs.

Each checked property has a mutant of a mapped definition that violates it in
the run's own configuration (`mutants` in PROJECT.json; the mutated definitions
stand before the originals and are marked `mutant`).

## 4. Proofs

Eight modules hold theorems.  Each states what it proves for every value of the
constants that the module's assumption allows, and each property below is also
checked by the run of its module, on a small instance.

| theorem | property | module |
|---|---|---|
| `UnreadStaysIntact`, `ProducerNeverLaps`, `ReaderSeesPublishedBytes` | `UnreadIntact`, `NeverLaps`, `ReadsPublished` | `TxQueueProofs` |
| `RingImplementsChannel` | `ImplementsChannel` | `TxQueueProofs` |
| `PublishedStayIntact`, `OneCopyAtATime`, `EndIsReadUp`, `MapImplementsChannel` | `UnreadIntact`, -, `EndMeansAllRead`, `ImplementsChannel` | `AppPartsProofs` |
| `StreamSound`, `StreamImplementsDelivery`, `StreamImplementsLife` | `Sound`, `ImplementsDelivery`, `ImplementsLife` | `TxQueueStreamProofs` |
| `TabsSound`, `AutoStopNeverHitsAnother` | `Sound`, `AutoStopHitsOwner` | `TabManagerProofs` |
| `HlsSound`, `OnlySkippedAreOvertaken`, `NothingLeftBehind`, `BufferBounded` | `Sound`, `OvertakesOnlySkipped`, `DrainedAtEnd`, `PushesBounded` | `HlsPipeProofs` |
| `FlowControlHolds`, `NoFrameMissing` | `NoDropWhileRouting`, `FramesAgree` | `TransportRouterProofs` |
| `RouterSound`, `OnlyRefetchedOvertakes` | `Sound`, `OvertakesOnlyRefetched` | `TransportRouterProofs` |
| `ResourcesStaySound`, `HiddenWindowIsReachable`, `HandlesStayClosed` | `ResourcesSound`, `WindowReachable`, `HandlesClosed` | `AppPartsProofs` |
| `ListAlwaysPlays`, `FavoritesComeBack` | `ListPlays`, `FavoritesSurvive` | `AppPartsProofs` |
| `ParsedStaysSound`, `BufferAlwaysCovers` | `ParsedSound`, `BufferCoversTwelve` | `AppPartsProofs` |
| `NeitherEndRejects`, `ClientIsStream` | `NothingRejected`, `ImplementsStream` | `TlsClientProofs` |

None of these invariants is inductive alone.  The inductive ones are defined with
the modules (section "An inductive invariant" of each) or, where only a proof needs
them, with the proofs; TLC has checked each of the larger ones on the bounds of its
run, except `TlsInv`, which names a chain of records by a quantifier without a bound
and so cannot be evaluated.  A proof has a lemma per action, or per group of actions that leave the same
part of the state alone, and one theorem that puts them together.

### The two rings

`TxQueueProofs`: the only assumption is `TxQueueAssumption` (a capacity of at least
one, sizes that are natural numbers).  That the capacity is a power of two enters
in one place: `Ix(p)` is written `p % Cap` where the code masks with
`capacity_ - 1`.  That a write does not destroy an unread byte needs to know that
the head it computes with, however old, leaves `wtx.at - seen < Cap`; that this
stays true needs to know that every value still loadable is within `Cap` of `tail`
(`Loadable`); that a read returns published bytes needs the contents of the cells,
which needs the first fact.  `RingInv` is the conjunction of these parts.
Arithmetic lemmas relate masked indices to positions within `Cap` of each other.
In the refinement `WriteEnd` maps to a send, `ReadEnd` to a receive, everything
else to a stutter.

The shared ring, in `AppPartsProofs`: the only assumption is `RingAssumption` (a ring of at least
two bytes, calls of at least one byte).  The invariant `MapInv` says of every moment

- where the header's positions stand in the stream (`Positions`).  They are masked,
  so the distance between them tells the amount of data only because one cell
  stays free: lemma `HeaderCounts`, which needs the bound in `UnreadIntact`;
- what a process between its copy and its release has copied (`Copying`).  Lemma
  `CellBehind` shows that the two-part copy of `WriteData` reaches exactly the
  cells behind the write position, so bytes copied and never published, because
  the process died, lay in free cells;
- who owns the mutex (`MutexHeld`): a process that has copied owns it, so no other
  process can copy before it publishes or dies.  A process that was given the
  mutex abandoned believes it does not have it and never gives it back; the
  others are then kept out, which costs progress and not bytes;
- that nothing is written after the end was signalled (`Ending`), so that
  `IsStreamEnded` may look at flag and positions without the lock.

The steps that move neither bytes nor positions are dealt with together
(`StillKeeps`); the copy, the publication, the two halves of `ReadData` and the
reader's last look have a lemma each.  `WritePublish` maps to a send, `ReadTake`
to a receive, everything else to a stutter.

### The stream

`TxQueueStreamProofs`, from `TxQueueStreamAssumption` (positive sizes and bounds).
`StreamInv` adds to `Sound`

- `Phases`: how far the three threads have come with each other, and that the
  producer has ended when the marker is queued or taken;
- `Ordered`: what is delivered comes before what was taken last, and that before
  what is queued;
- `SeenFirst`: whatever is on its way was entered in `seen_urls`, and a segment to
  be downloaded is the newest that was;
- `PassedBy`: a segment older than one that was seen, and itself not seen, has left
  the playlist.  Order of delivery needs this: a playlist lists nothing older than
  what has been seen, because a poll takes up all it lists and the window only
  moves forward.  The exception is a stop, after which a listed segment may be left;
- `CountsBounded`: what was produced was seen, so the counter has a bound.

`Phases` and `Sound` also say which threads can be waiting in `AddDebugLog`: a joined
worker is not.  The theorems hold whether verbose debug may be on or not.

Conservation of segments is arithmetic on two counters, the queue's length, the
marker and the set of lost segments, each changed by another thread at another
moment; each step is an equation of its own.  The refinement of `StreamLife` is a
case per phase; it is what allows `TabManager` to use the life cycle in place of
the stream.

### The tabs

`TabManagerProofs`, from `TabManagerAssumption` (at least one tab and one window).
`TabInv` adds to `Sound`

- `UiInTab`: the tab the user-interface thread works on exists, and `CloseAllTabs`
  leaves no thread behind it;
- `Owned`: as long as no running tab was moved, the index a running stream captured
  is the index of the tab that holds its thread;
- `PostedByOwner`: the same of a posted message, unless its tab was stopped since.

The hard cases are the moves: closing a tab shifts all later ones, and growing the
vector moves every one.  `strayed` is set exactly when that hits a running
stream, and the promises about indices end there.

### HLS mode

`HlsPipeProofs`, from `HlsPipeAssumption` (positive bounds, at least one target).
`Line` is everything on its way to the player, in the order of arrival: delivered,
in the feeder's hand, in the buffer.  `HlsInv` says that

- no segment is in line twice, and one that is overtaken had been passed over
  (`LineUp`), with the counterpart of `PassedBy` for segments passed over by a full
  buffer;
- whatever was taken up is in line, missed, cleared or about to be pushed
  (`SegmentsConserved`, by cardinalities);
- the buffer has only become smaller since its size was read (`RoomToPush`): the
  downloader alone pushes, so the value read under one lock is still good under the
  next, although it is old;
- why a feeder has ended (`FeedsInTurn`), from which `NothingLeftBehind` follows.

### Transport-stream mode

`TransportRouterProofs`, in four layers.

- `BaseInvariant`: types, phases, what both threads have in hand, and `RoomToAdd`,
  the counterpart of `RoomToPush`.  `RouterThreadsJoined` follows.
- `FlowControlHolds` needs one fact about the numbers, `MarkBelowHalf`: the high mark
  is at most half of `MaxPackets`, at which `AddPacket` begins to throw away.  In the
  code that is 60 % of 5400 against half of 15000.
- `NoFrameMissing` rests on `FramesInLine`: until a discontinuity, packet `i` in line
  has frame number `i`, and the number the router thread compares with is that of
  the last packet it has stored.
- `RouterSound` and `OnlyRefetchedOvertakes` rest on `LineInv`, the hardest of all.  The
  list of processed segments is cut at its front by one entry after a download; a
  segment that is cut off while the playlist still shows it could be taken up again.
  That this does not happen has to be counted.  A segment is `Recent` while a list
  may still take it up: only the newest `MaxSegments` of a playlist are.
  `Remembered` bounds how far a recent segment is from the end of the list of
  processed ones: at most `MaxSegments`, and two more for each recent segment that
  was entered after it (itself, and one segment skipped once more because it had
  been cut off), less what is missing before it.  At most `2 * MaxSegments - 1`
  segments are that near to each other, so when a recent segment joins a list of
  `5 * MaxSegments - 4` others or more, the oldest of them is not recent, and the cut does no harm
  (`OldestIsNotRecent`, `EndSegmentRemembers`).  `Listing` says that the list at
  hand runs on to the newest segment, and counts what a list may still show and is
  not remembered; `LineUp` says of all packets on their way what the properties say
  of the delivered ones.

  The two theorems assume `RemembersEnough`, `Remember >= 5 * MaxSegments - 4`.  In the
  code that is 10 against 6.  The bound is sufficient, not necessary: the
  run uses 3 and 2, so that the list is cut within its five segments, and both
  properties and `LineInv` hold there too.

  All of it is said until the playlist shows a discontinuity.  Then the buffer is
  cleared, the numbers begin anew and, as `router_sends_twice` shows, the
  list of processed segments is no protection any more.

### The other parts

`AppPartsProofs` proves about `PartsSpec`, the specification of `app_parts`, from
the assumptions of its parts.

- `ResourcesInv`: a spared check is a recorded failure of the stream of the process,
  and a process that runs has none, so the bound on failures bounds the checks; the
  count moves with the set of jobs, in finite sets of any size.
- `TrayInv`: the flag that `CreateTrayIcon` trusts is set exactly while the window is
  hidden, so each hiding asks the shell anew.
- `CallInv`: a handle exists during a request only.
- `FavoritesInv`: while a save is being written, what the file holds and what has
  still to be written are together the list that was handed over, so a crash leaves
  a beginning of it, with the name being written whole or torn.  That what comes
  back is shorter and in order needs that reading the names of a list, a fold, is
  reading those of its first part and then those of the rest.
- `ListInv`: the URLs are those of the lines read last, the last of which may have broken
  off, each under the name its lines give it; only that last one can be torn; each
  name of the list has a name it came from, of which it is the standard form, and
  that one has a URL.  The fold over the lines of the playlist is
  followed line by line (`MasterRead`): which URL belongs to which name after `k` lines.
- `PlaylistInv`: what the parser keeps between two lines is well formed, and after
  `k` segments of a window it has read exactly those (`HasRead`), numbers and
  discontinuities included, with the mark that `EXT-X-DISCONTINUITY-SEQUENCE` leaves
  on the first; the segments' start times are sums of the durations
  before them.  `BufferCoversTwelve` rests on the sum of durations against the number of
  segments that `CalculateOptimalBufferSize` chooses.

Folds over sequences of any length appear in these parts.  The library's induction
theorems cannot be instantiated here, so `DataLemmas` reasons about a set of natural
numbers: if it misses some number up to `n` it misses a least one (`LeastExists`), which
contradicts the step.  `Folded(f, base, seq)` is the value of such a fold with the step as a
function; lemmas say what it is for no elements, for one more and for a split, and
the models' `FoldLeft`s are shown equal to it.

### TLS

`TlsClientProofs` assumes `TlsAssumption` only: `ServerMay` is any set of the options of
section 2.  What it proves is said of the time during which `course = "usual"`: no
server has yet sent anything but one of the two sequences of handshake messages in
the client's tables, each message whole within a record, and records without padding, a
KeyUpdate or, in TLS 1.2, a warning.  This is less than TLS allows a server, and
`EveryServerAccepted` shows that none of it can be dropped.  `TlsInvariant` is `[](course =
"usual" => TlsInv)`, `NeitherEndRejects` is `[]NothingRejected`, and `ClientIsStream` is about
behaviours in which `course` stays usual.  Within that there are any number of
connections with one object, of units, requests and read sizes, any grouping of
messages, any pieces, an end or a reset at any point.

The invariant `TlsInv` says that the object is closed, or that one can name

- the position `x` the client has come to: handshake messages heard, sealed records
  since the keys changed, units received.  It fixes the state counter, whether
  encryption is on, the keys, the number of the next record and, until the
  handshake is over, the transcript (`ClientAt`, `ClientKeys`);
- the position `z` of the server, which fixes the same for the other end (`ServerAt`).
  Both transcripts are beginnings of one sequence, so both ends derive equal keys;
- a chain of records on the wire that leads from `x` to `z` (`Leads`): each was
  sealed with the key and the number of the position it starts from.  The units in
  `recv_buf` and on the network are these records, possibly without the first half of
  the first, which is how a `::recv` of any size is followed;
- how many records `a` of the client the server has taken.  What the client sends is
  determined by version and connection (`Answers`): what is on its way is the slice of it
  from `a` to what the client's position calls for;
- how many units `g` recv has returned: `got` is the first `g` units of the stream, the
  channel holds the rest up to those of `x`, and `readed` is the part of them that
  `read_channel` has not yet moved out (`Holds`).

Each message of the handshake has a lemma for the client (`HearsHello` to
`HearsFinished13`) and each record of the client one for the server (`TakesExchange12`
to `TakesRequest13`).  `process_recv` folds over records and each record over its
messages; both folds go step by step along the chain (`MessagesInTurn`, `RecordsHeard`).
TLS 1.3's order of Finished, key change and sequence reset is `HearsFinished13`: the
application keys cover the transcript without the client's Finished, which is sent with
the handshake key before the numbers start again.

In the refinement `ServerData` maps to a write, `RecvReturn` to a read (or a stutter
when it has nothing), the `recv` that finds `close_notify` and nothing unread to the
end of the stream: then `x` is the server's last position and `g` has reached it
(`ReadToTheEnd`).

### What is only model-checked

- Liveness, and everything that rests on `ENABLED`: `StreamStops`, `QueuedIsTaken`,
  `UiReturns`, `PlayerExitFreesTab`, `OpenReturns`, `RecvReturns`, `LoadReturns`,
  `WriteReturns`.
- `TypeOK` of `TlsClient`, which no run lists: `TlsInv` says more of every state.
- `ImplementsStream` of `TlsClient` with servers that have left the usual course in one of
  the five ways of the run.  With padded records and with warnings of TLS 1.2 it is not
  claimed; section 5 shows what fails.

Every invariant and every safety property of a passing run is stated by a theorem, with
this restriction.

## 5. Where the code and its documentation differ

Kept as runs that must be violated:

| run | what happens |
|---|---|
| `stop_hangs` | Stop blocks the user interface while a paused player leaves the pipe full |
| `close_tab_terminates` | closing a tab with a running stream ends the program |
| `router_end_terminates` | a thread of the router that clears `routing_active_` itself (end of the playlist, too many failures, no player) makes `StopRouting` return without joining; destroying the threads ends the program |
| `router_sends_twice` | older segments that are skipped are appended to the list of processed segments without a limit, and the list is cut at its front, by one entry, after a download.  After a discontinuity has left the playlist they stand behind the segment just sent; the next cut takes that one off, and it is downloaded and sent again |

More statements are in the modules as definitions and are violated in the same
way; to see one, put it in place of the properties of the named configuration:

| definition | configuration | what happens |
|---|---|---|
| `LossesCounted` | `MCTxQueueStream` | a segment that does not fit the queue is reported and counted as produced |
| `NearFullSeen` | `MCTxQueueStream` with `MCWideSegBytes`, `Cap = 16` | the near-full test divides segments by bytes; with the real sizes (8 MB) it needs more than seven million waiting segments |
| `EndReachesConsumer` | `MCTxQueueStream` | the consumer waits for ever when the producer gives up before the initial buffer is filled |
| `NeverHung`, and `StopReturns` with a player that reads | `MCTxQueueStream` | with verbose debug on ("Debug: Enable verbose debug logging in settings", `TX_QUEUE_IMPLEMENTATION.md` line 185) a worker or the stream thread writes to the log list while the user-interface thread joins it, and both wait for ever; "post message to main thread for thread-safe logging" (`Tardsplaya.cpp` line 932) is true of `log_callback` only |
| `NeverHung` | `MCTabManager` | the same for Stop, an auto-stop message, the timer and Close All |
| `StreamEndNoticed` | `MCTxQueueStream` | `streaming_active_` is cleared by `StopStreaming` only, so the stream thread does not notice that both workers have ended |
| `ThreadEndNoticed` | `MCTxQueueStream` | a stream thread that cannot start returns without a message; the tab stays "streaming" |
| `NoAutoStopAfterStop` | `MCTxQueueStream` | the stream thread finishes between the two flags of `StopStream` and reports an auto-stop |
| `UiReturns` without `~strayed` | `MCTabManager` | closing an idle tab to the left of a streaming one makes Stop wait for ever |
| `AutoStopHitsOwner` without `strayed` | `MCTabManager` | after a tab was closed, an auto-stop message stops another tab's stream |
| `ReferencesValid` | `MCTabManager` | opening more tabs than were reserved moves them under running threads |
| `TimerSeesOwnPlayer` | `MCTabManager` | the timer sees the closed handle of the last player and stops the stream just started |
| `UiReturns` | `MCTabManager` with `FairSpec` | the time limit on the join in `CloseAllTabs` does not bound the wait |
| `InOrder` | `MCHlsPipe` | a segment passed over because the buffer is full is fetched on a later refresh, after its successors ("Skip the wait and try downloading again", `stream_pipe.cpp` line 1042) |
| `CountAlwaysReturned` | `MCHlsPipe` | the early return at line 687 leaves `g_active_streams` incremented |
| `ChunkCountNatural` | `MCHlsPipe` | a buffer cleared and refilled between two locks makes `buffer_size - segments_to_feed.size()` wrap |
| `EmptyWaitsEnd` | `MCHlsPipe` | the wait for the initial buffer does not end when the downloader has ended |
| `PlayerExitEnds` | `MCHlsPipe` | the checks for a dead player are commented out, and the downloader goes on |
| `NoFalseDrop` | `MCTransportRouterLive` | the router thread holds a packet from before a discontinuity while the fetcher resets the frame numbers ("to prevent false drop alerts", `tsduck_transport_router.cpp` line 858) |
| `DrainedAtEnd` | `MCTransportRouterLive` | the end of the playlist clears `routing_active_` at once, and buffered packets are never sent |
| `SendFailureStops` | `MCTransportRouterLive` | a player that dies while a packet is sent ends the router thread only; the fetcher waits for room and the stream thread monitors on |
| `EveryServerAccepted` | `MCTlsClient`, also with any one element of its `ServerMay`, or with `Offers = {"tls12"}` and `ServerMay = {"warning"}` | a server that follows the protocol but not the client's tables is rejected, see section 2 |
| `ImplementsStream` | `MCTlsClient` with `ServerMay = {"padding"}` | the bytes of a padded record are dropped without an error |
| `CloseNotifyIsSent` | `MCTlsClient` with `Offers = {"tls12"}`, `ServerMay = {"warning"}` | alerts are not decrypted before their code is looked at, so any sealed alert of a TLS 1.2 server is taken for `close_notify` (`tlsclient_source.cpp` line 1266) |
| `LoadAlwaysReturns` | `MCAppParts`, in module `ChannelTab` | an answer about the token that breaks off in a string, or an array the parser cannot read, ends the program |
| `WatchReturns` | `MCAppParts`, in module `ChannelTab` | an entry of more than 63 characters overwrites what lies behind `qual` |
| `MarksAreReal` | `MCAppParts`, in module `PlaylistTiming` | a discontinuity that has left the playlist marks the first segment of it ("New field for discontinuity detection", `tx_queue_ipc.h` line 32), as `EXT-X-DISCONTINUITY-SEQUENCE` begins like `EXT-X-DISCONTINUITY` (`tsduck_hls_wrapper.cpp` line 54) |
| `FallbackDelivers` | `MCAppParts`, in module `ChannelTab` | `README.md` lines 67 and 79 promise a TLS fallback when WinHTTP fails, but `get_http_body` looks for an empty line that a body from WinHTTP does not have and returns nothing |
| `NamesUnmarked` | `MCAppParts`, in module `Desktop` | the byte order mark the program writes is read back as part of the first name (`favorites.h` line 5: "one channel name per line"), and one more is added by each start |

Also seen: the documentation gives an initial buffer of 5 segments where the
code has 8 (`tx_queue_ipc.cpp` line 658), and "Write operation with retry logic"
(`TX_QUEUE_IMPLEMENTATION.md` line 26) where `WriteToPlayer` writes once.

## 6. Not modelled, and the plan

Not modelled:

- cryptographic primitives (`ecc.c`, `sha2.c`, `gcm.c`, `chacha20.c`), which are
  symbolic in `TlsClient`, and the vendored copies of tx-queue;
- code that nothing calls: `StreamHttpServer`, `FetchTwitchStreamQualities` and its
  parser, the other modes of the transport router;
- verbose debug output in the two older stream modes, in which it can hang Stop as it
  does in the first;
- what keeps no state a property could depend on: window layout, tab switching,
  the log beyond who waits for it, the delays and load figures of the resource
  manager, chunk decoding and URL encoding, the contents of transport packets, the displayed counts;
- process creation and HTTP beyond success, failure and a body that breaks off;
- the tests, which were read as documentation.

`MemoryMapRing`, `StreamResources`, `TlsClient` and the two older stream modes model
code that no command of the window reaches today.

Next:

1. What holds of `TransportRouter` after a discontinuity: frames are numbered from
   one again within each part of the stream, and how often a segment can be sent again.
2. Verbose debug output in `HlsPipe` and `TransportRouter`.
3. A TLS server that does not follow the protocol, of which only safety of the client's
   own state could be asked.
