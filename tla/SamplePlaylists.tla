---------------------------- MODULE SamplePlaylists ----------------------------
(* Master playlists for the runs of ChannelTab.                                *)
EXTENDS Integers

Missing == << >>   \* ChannelTab's NoName

Inf(name, res) == [kind |-> "inf", name |-> name, res |-> res, url |-> ""]
Url(u) == [kind |-> "url", name |-> Missing, res |-> Missing, url |-> << u, "whole" >>]
Tag == [kind |-> "tag", name |-> Missing, res |-> Missing, url |-> ""]

\* A playlist with names, one with resolutions or nothing, a playlist of
\* segments behind a named stream, two names of one standard form.
SomePlaylists ==
  { << Tag, Inf(<<"p", 720, 60>>, Missing), Url("a"), Inf(<<"p", 720, 30>>, Missing), Url("b") >>,
    << Tag, Inf(Missing, <<"x", 1280, 720>>), Tag, Url("c"), Inf(Missing, Missing), Url("d") >>,
    << Tag, Inf(<<"p", 480, 30>>, Missing), Url("e"), Url("f"), Url("j") >>,
    << Inf(<<"p", 160, 30>>, Missing), Url("g"), Inf(<<"p", 2160, 60>>, Missing), Url("h"),
       Inf(<<"p", 1440, 60>>, Missing), Url("i") >> }

\* In the order of the strings "1280x720", "1440p60", "160p30", "2160p60", ...
TheirNames ==
  << <<"x", 1280, 720>>, <<"p", 1440, 60>>, <<"p", 160, 30>>, <<"p", 2160, 60>>, <<"p", 480, 30>>,
     <<"p", 720, 30>>, <<"p", 720, 60>>, <<"url", <<"f", "torn">> >>, <<"url", <<"f", "whole">> >>,
     <<"url", <<"j", "torn">> >>, <<"url", <<"j", "whole">> >>, <<"unknown">> >>

\* The URL of j is long, the rest of it may fit when the line breaks off.
TheirLongNames == { <<"url", <<"j", "whole">> >> }
==============================================================================
