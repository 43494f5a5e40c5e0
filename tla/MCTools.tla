------------------------------ MODULE MCTools -------------------------------
(* Instances of Tools for TLC. *)
EXTENDS Tools, EncoderSchemas, TLC

CONSTANTS a, b, g, s, t1, t2, p1, p2, f1, f2

TwoThreads == {t1, t2}
TwoProcesses == {p1, p2}
TwoFiles == {f1, f2}

Symmetry == Permutations(TwoThreads) \cup Permutations(TwoProcesses) \cup Permutations(TwoFiles)

-----------------------------------------------------------------------------
(* Documents with groups, and positions that leave gaps. *)
Item(id, source, order) == [id |-> id, source |-> source, order |-> order, items |-> <<>>]
ItemGroup(id, order, items) ==
    [id |-> id, source |-> "group", order |-> order, items |-> items]
Saved(id, plugin, needs, secret) == [id |-> id, plugin |-> plugin, file |-> needs, redacted |-> secret]
SavedSource(id, plugin, needs, secret, with) ==
    [id |-> id, plugin |-> plugin, file |-> needs, redacted |-> secret, filters |-> with]
ThreeSources ==
    << SavedSource("a", "image", "logo", FALSE,
                   <<Saved("f", "crop", "none", TRUE), Saved("h", "mask", "shape", FALSE)>>),
       SavedSource("b", "camera", "none", TRUE, <<>>),
       SavedSource("c", "media", "clip", TRUE, <<Saved("i", "crop", "none", FALSE)>>) >>
TwoDocuments ==
    { [sources |-> ThreeSources,
       nodes |-> << Item(1, "a", 0),
                    ItemGroup(2, 1, <<Item(3, "b", 0), Item(4, "a", 1), Item(5, "c", 2)>>),
                    Item(6, "b", 2), Item(7, "c", 3), Item(8, "a", 4) >>],
      [sources |-> ThreeSources,
       nodes |-> << ItemGroup(1, 0, <<>>), Item(2, "b", 1),
                    ItemGroup(3, 2, <<Item(4, "c", 2), Item(5, "b", 5), Item(6, "c", 7)>>) >>] }

(* Encoders of OBS: another codec, software, hidden, and two in hardware. *)
EncoderType(codec, hardware, hidden) ==
    [codec |-> codec, hardware |-> hardware, hidden |-> hidden]
FiveEncoders ==
    << EncoderType("av1", TRUE, FALSE), EncoderType("h264", FALSE, FALSE),
       EncoderType("h264", TRUE, TRUE), EncoderType("h264", TRUE, FALSE),
       EncoderType("h264", TRUE, FALSE) >>
Muxed == {"encoded", "video", "audio"}
ThreeOutputTypes ==
    { [codecs |-> {}, flags |-> Muxed], [codecs |-> {"av1"}, flags |-> Muxed],
      [codecs |-> {}, flags |-> {"encoded", "video"}] }

FourVersions == {<<31, 1, 0>>, <<32, 0, 0>>, <<32, 0, 1>>, <<32, 1, 0>>}

TwoItems == {a, b}
OneGroup == {g}
OneSource == {s}
TwoStates == {0, 7}
PluginTypes == {"image", "camera", "media", "crop", "mask"}
Pinned == <<32, 0, 0>>
NotInstalled == <<0, 0, 0>>
OtherFile == {"plugin"}
=============================================================================
