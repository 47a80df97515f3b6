------------------------------ MODULE MCPathTest ------------------------------
(***************************************************************************)
(* PathTest for TLC: paths of which one folder's name begins with          *)
(* another's, and mappings with slashes at one end or both, with           *)
(* backslashes, of nothing, and with paths that one another's mappings     *)
(* apply to.                                                               *)
(***************************************************************************)
EXTENDS PathTest

MCTokens == {"/", "\\", "test", "media", "film", "s", "nas", "old", "x", "a"}

Slash  == <<"/">>
Film   == <<"/", "media", "/", "film">>
Films  == Film \o <<"s">>
Win    == <<"\\", "\\", "media", "\\", "film">>
Share  == <<"/", "nas", "/", "film">>
Deep   == <<"/", "nas", "/", "media", "/", "film">>
Root   == <<"/", "nas">>

To(emby, oppo) == [emby |-> emby, oppo |-> oppo]

MCPaths == {
    Film \o <<"/", "a">>,
    Films \o <<"/", "x", "/", "a">>,
    Film \o Film \o <<"/", "a">>,
    Win \o <<"\\", "x", "\\", "a">>}

MCMappingLists == {
    <<To(Film, Share)>>,
    <<To(Film \o Slash, Share)>>,
    <<To(Film \o Slash, Share \o Slash), To(Win, Share)>>,
    <<To(Win, <<"\\">> \o Share)>>,
    <<To(Film, Root)>>,
    <<To(Film, Deep), To(Films, Share)>>,
    <<To(Films, Deep), To(Film, Share)>>,
    <<To(Slash, Slash)>>,
    <<To(<<>>, Slash), To(Film, Share)>>,
    <<To(Film, Share), To(Root, <<"/", "old">>)>>}

===============================================================================
