------------------------ MODULE MCPlaybackApplication ------------------------
(***************************************************************************)
(* PlaybackApplication for TLC.                                            *)
(***************************************************************************)
EXTENDS PlaybackApplication, TLC

\* Requests of one thread are alike before they are made, and so are items.
Symmetry == Permutations(WsRequests) \cup Permutations(Items)

===============================================================================
