------------------------------ MODULE ChannelTab ------------------------------
(* One tab of the window from the channel's name to the stream: LoadChannel    *)
(* asks Twitch for an access token and a master playlist, RefreshQualities     *)
(* fills the list, WatchStream resolves the chosen entry to a URL. All of it   *)
(* runs on the window's thread; what interleaves is the network.               *)
(*                                                                             *)
(* A quality's name is a tuple: << "p", lines, fps >> for "720p60", << "x",    *)
(* width, height >> for "1280x720", << "audio" >>, << "unknown" >>, << "url",  *)
(* u >> for a URL in place of a name, anything else << "other", n >>. A URL is  *)
(* << id, "whole" >>, or << id, "torn" >> when the line broke off within it.    *)
EXTENDS Integers, SequencesExt

CONSTANTS Channels,   \* ids of the channels that can be typed
          Playlists,  \* the playlists usher can answer with: sequences of lines
          Names,      \* the quality names in them, in the order of std::wstring
          Long,       \* those of more than 63 characters, each unlike the others in the first 63
          MaxLoads    \* bound: clicks on Load

\* What the constants must be; the module that instantiates this one assumes it.
ChannelTabAssumption ==
  /\ MaxLoads \in Nat /\ Names \in Seq(ToSet(Names))
  /\ \A p \in Playlists : /\ p \in Seq(ToSet(p))
                          /\ \A i \in DOMAIN p : /\ p[i].kind \in {"inf", "url", "tag"}
                                                 /\ p[i].kind = "url" => p[i].url[2] = "whole"

VARIABLES
  text,      \* the text box: [id, junk, upper], "" for the empty id
  channel,   \* tab.channel
  urls,      \* tab.qualityToUrl
  listed,    \* the list box, in standard names
  original,  \* tab.standardToOriginalQuality
  watchOn,   \* hWatchBtn is enabled
  playing,   \* << >>, or the standard name and the URL of the stream that runs
  at,        \* the request LoadChannel has come to, or "lost": the program has ended
  layer,     \* who makes it: "winhttp" or the fallback "tls"
  phase,     \* "open", "read" or "returned"
  handles,   \* open WinHTTP handles, oldest first
  result,    \* what was read: [reply, have], have counting half lines or half bodies
  served,    \* the lines the list was last filled from, as they came
  loads

tab == << text, channel, urls, listed, original, watchOn, playing, served >>
call == << at, layer, phase, handles, result >>
vars == << tab, call, loads >>

(* ------------------------------ the network ------------------------------ *)

Kinds == << "session", "connect", "request" >>

\* What the endpoints answer. The bodies hold no empty line; "noise" is no JSON
\* but begins like an array.
Tokens == {"token", "null", "missing", "errors", "noise"}
Replies(e) == IF e = "playlist" THEN Playlists ELSE {<< t >> : t \in Tokens}
Pieces(e, r) == IF e = "playlist" THEN 2 * Len(r) ELSE 2
Nothing == [reply |-> << >>, have |-> 0]

\* One handle after the other; on a failure those already open are closed.
OpenHandle ==
  /\ at # "idle" /\ phase = "open" /\ Len(handles) < Len(Kinds)
  /\ handles' = Append(handles, Kinds[Len(handles) + 1])
  /\ UNCHANGED << tab, at, layer, phase, result, loads >>

\* Mutant: only the newest handle is closed.
OpenFailsLeaky ==
  /\ at # "idle" /\ phase = "open" /\ Len(handles) < Len(Kinds)
  /\ handles' = IF handles = << >> THEN << >> ELSE Front(handles)
  /\ phase' = "returned" /\ result' = Nothing
  /\ UNCHANGED << tab, at, layer, loads >>

OpenFails ==
  /\ at # "idle" /\ phase = "open" /\ Len(handles) < Len(Kinds)
  /\ handles' = << >> /\ phase' = "returned" /\ result' = Nothing
  /\ UNCHANGED << tab, at, layer, loads >>

SendRequest ==
  /\ phase = "open" /\ Len(handles) = Len(Kinds)
  /\ \E r \in Replies(at) : result' = [reply |-> r, have |-> 0]
  /\ phase' = "read"
  /\ UNCHANGED << tab, at, layer, handles, loads >>

SendFails ==
  /\ phase = "open" /\ Len(handles) = Len(Kinds)
  /\ handles' = << >> /\ phase' = "returned" /\ result' = Nothing
  /\ UNCHANGED << tab, at, layer, loads >>

\* Mutant: what is read stays available, the loop never sees its end.
ReadDataAgain ==
  /\ phase = "read"
  /\ result' = [result EXCEPT !.have = IF @ < Pieces(at, result.reply) THEN @ + 1 ELSE @ - 1]
  /\ UNCHANGED << tab, at, layer, phase, handles, loads >>

ReadData ==
  /\ phase = "read" /\ result.have < Pieces(at, result.reply)
  /\ result' = [result EXCEPT !.have = @ + 1]
  /\ UNCHANGED << tab, at, layer, phase, handles, loads >>

\* get_http_body: what follows the first empty line. Only HttpPost puts a status
\* line in front of a body; WinHTTP has taken the headers off already.
get_http_body(r, status) == IF status THEN r ELSE Nothing

\* The loop ends at the end of the body or, with what it has, when the
\* connection is lost: the two cannot be told apart, WinHttpQueryDataAvailable
\* finding nothing in both cases. A body without a byte is "".
ReadEnd ==
  /\ phase = "read"
  /\ LET r == IF result.have = 0 THEN Nothing ELSE result
     IN  result' = IF layer = "tls" THEN get_http_body(r, at = "modern") ELSE r
  /\ handles' = << >> /\ phase' = "returned"
  /\ UNCHANGED << tab, at, layer, loads >>

(* ------------------------------ the requests ----------------------------- *)

Ask(e, l) == at' = e /\ layer' = l /\ phase' = "open" /\ handles' = << >> /\ result' = Nothing
EndLoad == Ask("idle", "winhttp")

\* What the JSON parser makes of a body. At a word it does not know an array
\* grows, with no step forward, until there is no memory. In a string that breaks
\* off it goes on behind the end of the body, to any result or to a fault.
Parsed(r) ==
  CASE r.have = 1 -> (Tokens \ {"noise"}) \cup {"none", "endless", "fault"}
    [] r.have # 1 /\ r.reply[1] = "noise" -> {"endless"}
    [] OTHER -> {r.reply[1]}

\* GetModernAccessToken: a missing member reads as null, and null is OFFLINE; it
\* catches what is thrown.
ModernVerdicts(r) ==
  IF r = Nothing THEN {"failed"}
  ELSE {CASE j = "token" -> "token" [] j \in {"null", "missing"} -> "offline"
          [] j = "fault" -> "lost" [] OTHER -> "failed" : j \in Parsed(r)}

\* GetAccessToken does not.
LegacyVerdicts(r) ==
  {CASE j = "token" -> "token" [] j \in {"endless", "fault"} -> "lost"
     [] OTHER -> "failed" : j \in Parsed(r)}

\* HttpGet: with no byte from WinHTTP the TLS client is asked.
FallBack ==
  /\ phase = "returned" /\ at \in {"gql", "api", "playlist"}
  /\ layer = "winhttp" /\ result = Nothing
  /\ Ask(at, "tls")
  /\ UNCHANGED << tab, loads >>

\* GetAccessToken: an answer that the channel is offline ends the search; api is
\* asked only if gql gave no byte at all.
TryLegacy ==
  /\ phase = "returned"
  /\ \/ at = "modern" /\ "failed" \in ModernVerdicts(result) /\ Ask("gql", "winhttp")
     \/ at = "gql" /\ layer = "tls" /\ result = Nothing /\ Ask("api", "winhttp")
  /\ UNCHANGED << tab, loads >>

GotToken ==
  /\ phase = "returned"
  /\ \/ at = "modern" /\ "token" \in ModernVerdicts(result)
     \/ at \in {"gql", "api"} /\ result # Nothing /\ "token" \in LegacyVerdicts(result)
  /\ Ask("playlist", "winhttp")
  /\ UNCHANGED << tab, loads >>

\* LoadChannel gives up; the list of an earlier load stays, and so does Watch.
NoToken ==
  /\ phase = "returned"
  /\ \/ at = "modern" /\ "offline" \in ModernVerdicts(result)
     \/ at \in {"gql", "api"} /\ result # Nothing /\ "failed" \in LegacyVerdicts(result)
     \/ at = "api" /\ layer = "tls" /\ result = Nothing
  /\ EndLoad
  /\ UNCHANGED << tab, loads >>

\* The program ends in the parser, or by what it throws.
ParserFails ==
  /\ phase = "returned"
  /\ \/ at = "modern" /\ "lost" \in ModernVerdicts(result)
     \/ at \in {"gql", "api"} /\ result # Nothing /\ "lost" \in LegacyVerdicts(result)
  /\ at' = "lost"
  /\ UNCHANGED << tab, layer, phase, handles, result, loads >>

NoPlaylist ==
  /\ phase = "returned" /\ at = "playlist" /\ layer = "tls" /\ result = Nothing
  /\ EndLoad
  /\ UNCHANGED << tab, loads >>

(* ------------------------------- playlists ------------------------------- *)

NoName == << >>
Unknown == << "unknown" >>

\* What is left of a line that breaks off: of a URL a shorter one; with any other
\* line nothing can come of it, no URL being behind it.
Torn(line) ==
  IF line.kind = "url" THEN [line EXCEPT !.url = << @[1], "torn" >>] ELSE [line EXCEPT !.kind = "tag"]

LinesRead(r) ==
  [i \in 1 .. (r.have + 1) \div 2 |-> IF 2 * i <= r.have THEN r.reply[i] ELSE Torn(r.reply[i])]

Label(line) ==
  CASE line.name # NoName -> line.name
    [] line.name = NoName /\ line.res # NoName -> line.res
    [] OTHER -> Unknown

\* Mutant: the name is not reset behind the URL it belongs to.
ParseLineSticky(s, line) ==
  CASE line.kind = "inf" -> [s EXCEPT !.name = Label(line)]
    [] line.kind = "url" ->
         [s EXCEPT !.found = Append(s.found, [name |-> IF s.name = NoName THEN << "url", line.url >>
                                                       ELSE s.name,
                                              url |-> line.url])]
    [] OTHER -> s

\* ParseM3U8MasterPlaylist: a URL takes the name of the information line before
\* it, or its own; a playlist of segments yields one entry per segment.
ParseLine(s, line) ==
  CASE line.kind = "inf" ->
         [s EXCEPT !.name = Label(line)]
    [] line.kind = "url" ->
         [name |-> NoName,
          found |-> Append(s.found, [name |-> IF s.name = NoName THEN << "url", line.url >> ELSE s.name,
                                     url |-> line.url])]
    [] OTHER -> s

ParseM3U8MasterPlaylist(lines) ==
  FoldLeft(ParseLine, [name |-> NoName, found |-> << >>], lines).found

\* ParsePlaylist: of two entries with one name the later wins. The parsers it
\* falls back on look for the URLs whose absence makes it fall back on them.
ParsePlaylist(lines) ==
  LET found == ParseM3U8MasterPlaylist(lines)
      last(n) == CHOOSE i \in DOMAIN found :
                   found[i].name = n /\ \A j \in i + 1 .. Len(found) : found[j].name # n
  IN  [n \in {found[i].name : i \in DOMAIN found} |-> found[last(n)].url]

Audio == << "audio" >>
Order == << <<"p", 1080, 60>>, <<"p", 720, 60>>, <<"p", 720, 0>>, <<"p", 480, 0>>,
            <<"p", 360, 0>>, <<"p", 160, 0>>, Audio >>

\* StandardizeQualityName looks for "720p" and the like anywhere in the name, so
\* that 2160p is 160p; a resolution counts by its height.
StandardizeQualityName(q) ==
  CASE q[1] \in {"audio", "unknown"} -> Audio
    [] q[1] = "p" /\ q[2] % 10000 = 1080 /\ q[3] = 60 -> << "p", 1080, 60 >>
    [] q[1] = "p" /\ q[2] % 1000 = 720 -> << "p", 720, IF q[3] = 60 THEN 60 ELSE 0 >>
    [] q[1] = "p" /\ q[2] % 1000 \in {480, 360, 160} -> << "p", q[2] % 1000, 0 >>
    [] q[1] = "x" /\ q[3] >= 1080 -> << "p", 1080, 60 >>
    [] q[1] = "x" /\ q[3] \in 160 .. 1079 ->
         << "p", CHOOSE h \in {720, 480, 360, 160} :
                   h <= q[3] /\ \A k \in {720, 480, 360, 160} : k <= q[3] => k <= h, 0 >>
    [] q[1] = "x" /\ q[3] < 160 -> Audio
    [] OTHER -> q

\* The elements of seq that are in set.
Keep(seq, set) == FoldLeft(LAMBDA s, x : IF x \in set THEN Append(s, x) ELSE s, << >>, seq)

\* SortQualities: the known names from the best to the worst, then the others.
SortQualities(quals) ==
  LET std == [i \in DOMAIN quals |-> StandardizeQualityName(quals[i])]
      known == Keep(Order, ToSet(std))
      add(s, q) == IF Contains(s, q) THEN s ELSE Append(s, q)
  IN  FoldLeft(add, known, std)

\* RefreshQualities: of two names with one standard form the later is kept.
StandardToOriginal(quals) ==
  LET std(i) == StandardizeQualityName(quals[i])
      last(s) == CHOOSE i \in DOMAIN quals :
                   std(i) = s /\ \A j \in i + 1 .. Len(quals) : std(j) # s
  IN  [s \in {std(i) : i \in DOMAIN quals} |-> quals[last(s)]]

\* Mutant: standardToOriginalQuality is not cleared before it is filled.
GotPlaylistStaleNames ==
  /\ phase = "returned" /\ at = "playlist" /\ result # Nothing
  /\ served' = LinesRead(result)
  /\ \E found \in {ParsePlaylist(served')} : \E quals \in {Keep(Names, DOMAIN found)} :
       /\ urls' = found /\ listed' = SortQualities(quals)
       /\ original' = original @@ StandardToOriginal(quals)
       /\ watchOn' = (quals # << >>)
  /\ EndLoad
  /\ UNCHANGED << text, channel, playing, loads >>

\* The list is filled from what was read, cut short or not, in a line or between
\* two; without a quality Watch is disabled.
GotPlaylist ==
  /\ phase = "returned" /\ at = "playlist" /\ result # Nothing
  /\ served' = LinesRead(result)
  /\ \E found \in {ParsePlaylist(served')} : \E quals \in {Keep(Names, DOMAIN found)} :
       /\ urls' = found /\ listed' = SortQualities(quals)
       /\ original' = StandardToOriginal(quals)
       /\ watchOn' = (quals # << >>)
  /\ EndLoad
  /\ UNCHANGED << text, channel, playing, loads >>

(* -------------------------------- the tab -------------------------------- *)

\* The text box is disabled while a stream runs, and so are Load and the list.
TypeChannel(t) ==
  /\ at = "idle" /\ playing = << >> /\ text' = t
  /\ UNCHANGED << channel, urls, listed, original, watchOn, playing, served, call, loads >>

\* LoadChannel up to its first request: what is not a letter, a digit or "_" is
\* removed, from the text box too; the requests use the name in lower case.
LoadChannel ==
  /\ at = "idle" /\ playing = << >> /\ loads < MaxLoads
  /\ text.id # "" \/ text.junk
  /\ text' = [text EXCEPT !.junk = FALSE]
  /\ loads' = loads + 1
  /\ IF text.id = "" THEN UNCHANGED << channel, call >>
                     ELSE channel' = text' /\ Ask("modern", "tls")
  /\ UNCHANGED << urls, listed, original, watchOn, playing, served >>

\* WatchStream copies the chosen name into 64 characters. One that does not fit
\* overwrites what lies behind them: the program ends, or nothing happens, there
\* being no URL under the first 63.
WatchLong(i) ==
  /\ at = "idle" /\ watchOn /\ playing = << >> /\ i \in DOMAIN listed /\ listed[i] \in Long
  /\ at' = "lost" /\ phase' = "returned"
  /\ UNCHANGED << tab, layer, handles, result, loads >>

\* A name that fits leads back to the playlist's own name, or to itself if there
\* is none, and that to its URL; without a URL nothing is started.
WatchStream(i) ==
  /\ at = "idle" /\ watchOn /\ playing = << >> /\ i \in DOMAIN listed /\ listed[i] \notin Long
  /\ LET s == listed[i]
         q == IF s \in DOMAIN original THEN original[s] ELSE s
     IN  q \in DOMAIN urls /\ playing' = << s, urls[q] >>
  /\ watchOn' = FALSE
  /\ UNCHANGED << text, channel, urls, listed, original, served, call, loads >>

StopStream ==
  /\ playing # << >> /\ playing' = << >> /\ watchOn' = TRUE
  /\ UNCHANGED << text, channel, urls, listed, original, served, call, loads >>

Texts == [id : Channels \cup {""}, junk : BOOLEAN, upper : BOOLEAN]

CallStep == OpenHandle \/ OpenFails \/ SendRequest \/ SendFails \/ ReadData \/ ReadEnd
LoadStep ==
  CallStep \/ FallBack \/ TryLegacy \/ GotToken \/ NoToken \/ ParserFails \/ NoPlaylist \/ GotPlaylist

Next ==
  \/ OpenHandle \/ OpenFails \/ SendRequest \/ SendFails \/ ReadData \/ ReadEnd
  \/ FallBack \/ TryLegacy \/ GotToken \/ NoToken \/ ParserFails \/ NoPlaylist \/ GotPlaylist
  \/ LoadChannel \/ StopStream
  \/ \E t \in Texts : TypeChannel(t)
  \/ \E i \in DOMAIN listed : WatchStream(i) \/ WatchLong(i)

Init ==
  /\ text = [id |-> "", junk |-> FALSE, upper |-> FALSE] /\ channel = text
  /\ urls = << >> /\ listed = << >> /\ original = << >> /\ served = << >>
  /\ watchOn = FALSE /\ playing = << >> /\ loads = 0
  /\ at = "idle" /\ layer = "winhttp" /\ phase = "open" /\ handles = << >> /\ result = Nothing

\* A request ends by its last byte, by an error or by WinHTTP's own time limits.
Spec == Init /\ [][Next]_vars /\ WF_vars(LoadStep)

(* ------------------------------ properties ------------------------------- *)

\* No WinHTTP handle stays open behind a request, whichever call of it failed.
HandlesClosed == at = "idle" \/ phase = "returned" => handles = << >>

\* The name of the URL in line i, read off the playlist directly: that of the
\* information line with only tags between the two.
NameOf(lines, i) ==
  LET before == {j \in 1 .. i - 1 : lines[j].kind # "tag"}
      j == CHOOSE k \in before : \A m \in before : m <= k
  IN  IF before # {} /\ lines[j].kind = "inf" THEN Label(lines[j]) ELSE << "url", lines[i].url >>

\* A stream that runs plays a URL the last playlist gave under a name that the
\* chosen entry of the list stands for, although list, names and URLs are kept
\* in three places and filled by sorting, renaming and merging. Only in the last
\* line read can it be part of a URL.
WatchPlaysChoice ==
  playing # << >> =>
    \E i \in DOMAIN served :
      /\ served[i].kind = "url" /\ served[i].url = playing[2]
      /\ playing[2][2] = "whole" \/ i = Len(served)
      /\ StandardizeQualityName(NameOf(served, i)) = playing[1]

\* Every entry of the list leads to a URL, after any sequence of loads: Watch
\* finds it by an entry that fits into its 64 characters.
ListResolves ==
  \A i \in DOMAIN listed : listed[i] \in DOMAIN original /\ original[listed[i]] \in DOMAIN urls

\* The list of qualities does what it shows.
ListPlays == WatchPlaysChoice /\ ListResolves

\* LoadChannel returns the window's thread whatever the network does, unless the
\* answer about the token broke off or holds an array the parser cannot read:
\* then, and only then, the program can end instead.
LoadReturns ==
  at \notin {"idle", "lost"} ~>
    \/ at = "idle"
    \/ at = "lost" /\ (result.have = 1 \/ result.reply = << "noise" >>)

\* It would always return if the parser could read any body. It does not hold.
LoadAlwaysReturns == at # "idle" ~> at = "idle"

\* Watch would never end the program if names fitted the buffer. It does not hold.
WatchReturns == [][at = "idle" => at' # "lost"]_vars

\* README.md says the TLS client takes over when WinHTTP fails: a body that the
\* fallback has received reaches the caller of HttpGet.
FallbackDelivers ==
  [][ReadEnd /\ layer = "tls" /\ at # "modern" /\ result.have > 0 => result' # Nothing]_vars
==============================================================================
