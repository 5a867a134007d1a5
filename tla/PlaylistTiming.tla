---------------------------- MODULE PlaylistTiming ----------------------------
(* tsduck_hls::PlaylistParser and BufferingOptimizer: one parser reads the     *)
(* playlist of a live stream again and again while segments come in at its end *)
(* and leave at its front. Durations are in milliseconds, Bad for an EXTINF    *)
(* that is not a number.                                                       *)
EXTENDS Integers, SequencesExt

CONSTANTS Durations,   \* of the segments
          Target,      \* EXT-X-TARGETDURATION
          Window,      \* segments in a playlist
          MaxSegments  \* bound: segments of the stream

\* What the constants must be; the module that instantiates this one assumes it.
TimingAssumption ==
  /\ Durations \subseteq Nat \cup {-1} /\ Target \in Nat
  /\ Window \in Nat \ {0} /\ MaxSegments \in Nat

Bad == -1

VARIABLES
  stream,      \* the stream's segments so far: [duration, cut]
  closed,      \* the stream has ended
  numbered,    \* history: the playlist read last counted discontinuities gone by
  segments,    \* segments_
  target,      \* target_duration_
  sequence,    \* media_sequence_
  live,        \* is_live_
  cuts         \* has_discontinuities_

parser == << segments, target, sequence, live, cuts >>
vars == << stream, closed, numbered, parser >>

(* ------------------------------ the server ------------------------------- *)

Produce(d, cut) ==
  /\ ~closed /\ Len(stream) < MaxSegments
  /\ stream' = Append(stream, [duration |-> d, cut |-> cut])
  /\ UNCHANGED << closed, numbered, parser >>

End ==
  /\ ~closed /\ closed' = TRUE
  /\ UNCHANGED << stream, numbered, parser >>

Tag(t, v) == [tag |-> t, value |-> v]

\* What may stand in the head of a playlist from segment first on, counted from 0.
\* EXT-X-DISCONTINUITY-SEQUENCE must, once a discontinuity has left the window;
\* it comes before the first segment.  Nothing leaves an EVENT, and VOD is closed.
Heads(first) ==
  { h \in [early : BOOLEAN, numbered : BOOLEAN, type : {"none", "EVENT", "VOD"}] :
      /\ (\E i \in 1 .. first : stream[i].cut) => h.numbered
      /\ h.type # "none" => first = 0
      /\ h.type = "VOD" => closed }

\* The playlist that starts with segment first; the target duration stands
\* before or behind the segments.
Playlist(first, h) ==
  LET last == IF first + Window < Len(stream) THEN first + Window ELSE Len(stream)
      lines(i) == (IF stream[i].cut THEN << Tag("DISCONTINUITY", 0) >> ELSE << >>)
                  \o << Tag("EXTINF", stream[i].duration), Tag("url", i - 1) >>
      targetLine == << Tag("TARGETDURATION", Target) >>
      gone == << Tag("DISCONTINUITY-SEQUENCE", 0) >>   \* the number is not read
      body == FlattenSeq([i \in 1 .. last - first |-> lines(first + i)])
  IN  (IF h.early THEN targetLine ELSE << >>) \o << Tag("MEDIA-SEQUENCE", first) >>
      \o (IF h.type = "none" THEN << >> ELSE << Tag("PLAYLIST-TYPE", h.type) >>)
      \o (IF h.numbered THEN gone ELSE << >>) \o body
      \o (IF h.early THEN << >> ELSE targetLine) \o (IF closed THEN << Tag("ENDLIST", 0) >> ELSE << >>)

(* ------------------------------ the parser ------------------------------- *)

Fresh == [duration |-> 0, declared |-> 0, cut |-> FALSE, timed |-> FALSE]

\* ParseInfoLine: a duration that is not a number becomes the target duration as
\* far as it is known; target_duration of the segment stays 0.
ParseInfoLine(s, d) ==
  [s EXCEPT !.next = [duration |-> IF d = Bad THEN s.target ELSE d, timed |-> TRUE,
                      declared |-> IF d = Bad THEN @.declared ELSE d, cut |-> @.cut]]

\* Mutant: the segment after it inherits its tags.
ParseUrlKeeping(s, u) ==
  IF ~s.next.timed THEN s
  ELSE [s EXCEPT !.found = Append(@, [url |-> u, number |-> s.sequence + Len(s.found),
                                      duration |-> s.next.duration, declared |-> s.next.declared,
                                      cut |-> s.next.cut]),
                 !.next = [@ EXCEPT !.timed = FALSE]]

\* A URL counts only behind an EXTINF; its number follows from its place.
ParseUrl(s, u) ==
  IF ~s.next.timed THEN s
  ELSE [s EXCEPT !.found = Append(@, [url |-> u, number |-> s.sequence + Len(s.found),
                                      duration |-> s.next.duration, declared |-> s.next.declared,
                                      cut |-> s.next.cut]),
                 !.next = Fresh]

\* A line is known by what it begins with, so EXT-X-DISCONTINUITY-SEQUENCE, which
\* begins with EXT-X-DISCONTINUITY, marks the next segment too.
ParseLine(s, line) ==
  CASE line.tag = "EXTINF" -> ParseInfoLine(s, line.value)
    [] line.tag = "TARGETDURATION" -> [s EXCEPT !.target = line.value]
    [] line.tag = "MEDIA-SEQUENCE" -> [s EXCEPT !.sequence = line.value]
    [] line.tag = "ENDLIST" -> [s EXCEPT !.live = FALSE]
    [] line.tag = "PLAYLIST-TYPE" -> [s EXCEPT !.live = line.value # "VOD"]
    [] line.tag \in {"DISCONTINUITY", "DISCONTINUITY-SEQUENCE"} ->
         [s EXCEPT !.cuts = TRUE, !.next.cut = TRUE]
    [] line.tag = "url" -> ParseUrl(s, line.value)

\* CalculatePreciseTiming: a segment starts when those before it have played;
\* where the EXTINF could be read it counts again.
CalculatePreciseTiming(found) ==
  LET precise(x) == IF x.declared > 0 THEN x.declared ELSE x.duration
      start[i \in 0 .. Len(found)] == IF i < 2 THEN 0 ELSE start[i - 1] + precise(found[i - 1])
  IN  [i \in DOMAIN found |-> [url |-> found[i].url, number |-> found[i].number,
                               declared |-> found[i].declared, cut |-> found[i].cut,
                               duration |-> precise(found[i]), start |-> start[i]]]

\* ParsePlaylist forgets the segments and the discontinuities of the last call;
\* target duration, sequence and live flag stay until a tag changes them.
ParsePlaylist(first, h) ==
  /\ first \in 0 .. Len(stream) /\ first + Window >= Len(stream) /\ h \in Heads(first)
  /\ LET s == FoldLeft(ParseLine, [found |-> << >>, next |-> Fresh, target |-> target,
                                   sequence |-> sequence, live |-> live, cuts |-> FALSE],
                       Playlist(first, h))
     IN  /\ segments' = CalculatePreciseTiming(s.found)
         /\ target' = s.target /\ sequence' = s.sequence /\ live' = s.live /\ cuts' = s.cuts
  /\ numbered' = h.numbered
  /\ UNCHANGED << stream, closed >>

(* -------------------------- BufferingOptimizer --------------------------- *)

Declared == FoldLeft(LAMBDA a, x : a + x.declared, 0, segments)

\* Mutant: the quotient is rounded down.
CalculateOptimalBufferSizeFloor ==
  LET total == Declared
      want == (12000 * Len(segments)) \div total
      limit == IF want < 15 THEN want ELSE 15
  IN  IF segments = << >> THEN 8 ELSE IF total = 0 THEN 6 ELSE IF limit > 6 THEN limit ELSE 6

\* CalculateOptimalBufferSize: twelve seconds of segments of the average length,
\* at least 6 and at most 15. With no readable duration the quotient is infinite
\* and its conversion to int is undefined; the builds yield INT_MIN, hence 6.
CalculateOptimalBufferSize ==
  LET total == Declared
      want == (12000 * Len(segments) + total - 1) \div total
      limit == IF want < 15 THEN want ELSE 15
  IN  IF segments = << >> THEN 8 ELSE IF total = 0 THEN 6 ELSE IF limit > 6 THEN limit ELSE 6

Next ==
  \/ \E d \in Durations, cut \in BOOLEAN : Produce(d, cut)
  \/ End
  \/ \E first \in 0 .. Len(stream) : \E h \in Heads(first) : ParsePlaylist(first, h)

Init ==
  /\ stream = << >> /\ closed = FALSE /\ numbered = FALSE
  /\ segments = << >> /\ target = 0 /\ sequence = 0 /\ live = FALSE /\ cuts = FALSE

Spec == Init /\ [][Next]_vars

(* ------------------------------ properties ------------------------------- *)

\* A segment has the stream's number in every playlist it is in, and is marked
\* with a discontinuity if the stream has one there, whatever the parser read
\* before.  The first of a playlist, and no other, is also marked when the playlist
\* counts the discontinuities that have left it.
SegmentsAgree ==
  \A i \in DOMAIN segments :
    LET x == segments[i]
    IN  /\ x.number = x.url
        /\ x.cut = (stream[x.url + 1].cut \/ (i = 1 /\ numbered))

\* A segment is expected to start when all those before it have been played, by
\* the durations the parser hands out.
StartsAddUp ==
  \A i \in DOMAIN segments :
    segments[i].start = FoldLeft(LAMBDA a, x : a + x.duration, 0, SubSeq(segments, 1, i - 1))

\* What the parser hands out agrees with the stream and with itself.
ParsedSound == SegmentsAgree /\ StartsAddUp

\* The recommended buffer holds twelve seconds of the playlist's segments, if
\* their durations could be read and fifteen segments are enough for it.
BufferCoversTwelve ==
  LET total == Declared
  IN  total > 0 => \/ CalculateOptimalBufferSize * total >= 12000 * Len(segments)
                   \/ CalculateOptimalBufferSize = 15

(* --------------------------- what does not hold -------------------------- *)

\* "New field for discontinuity detection": only a segment with a discontinuity
\* is marked.  Violated by the first of a playlist with EXT-X-DISCONTINUITY-SEQUENCE.
MarksAreReal ==
  \A i \in DOMAIN segments : segments[i].cut => stream[segments[i].url + 1].cut
==============================================================================
