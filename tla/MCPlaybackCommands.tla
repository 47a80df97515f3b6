-------------------------- MODULE MCPlaybackCommands --------------------------
(***************************************************************************)
(* PlaybackCommands for TLC: three titles, whose ids are 12, 2 and 3, and  *)
(* a list that starts at its second title.                                 *)
(***************************************************************************)
EXTENDS PlaybackCommands, TLC

Film    == <<1, 2>>
Episode == <<2>>
Trailer == <<3>>

\* The same index is the second subtitle of one and the first of another.
MCStreams ==
    Film    :> <<"Video", "Audio", "Subtitle", "Subtitle">> @@
    Episode :> <<"Video", "Audio", "Audio", "Subtitle">> @@
    Trailer :> <<"Video", "Audio">>

MCRequests == {
    RequestOf(<<Film>>, TRUE, FALSE, 0, 1, 1, 3),
    RequestOf(<<Film, Trailer>>, TRUE, FALSE, 1, 0, 2, -1),
    ObservedRequest(Episode, 1, 2, 3)}

MCCommands ==
    {[kind |-> "Audio", index |-> 2], [kind |-> "Subtitle", index |-> 2],
     [kind |-> "Subtitle", index |-> -1]}

===============================================================================
