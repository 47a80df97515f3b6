---------------------------- MODULE MediaLocation -----------------------------
(***************************************************************************)
(* From the path of an item at Emby to the share, the folder and the file  *)
(* on the network that the player is told of.                              *)
(*                                                                         *)
(* Playback and the test of a path in the web page each have their own     *)
(* rule.  A path is a sequence of tokens: separators, and pieces of names, *)
(* so that one name can begin with another.                                *)
(***************************************************************************)
EXTENDS Integers, Sequences, FiniteSetsExt, SequencesExt

CONSTANTS
    Tokens,       \* separators, and pieces of names
    NoLocation    \* what is returned when the code raises

Text  == Seq(Tokens)
Place == [server : Text, folder : Text, file : Text]

Mapping    == [emby : Text, oppo : Text]
Separators == {"/", "\\"}

ASSUME TokensAssumption == {"/", "\\", "test"} \subseteq Tokens
ASSUME NoLocationAssumption == NoLocation \notin Place

Begins(text, old, i) ==
    i + Len(old) - 1 <= Len(text) /\ SubSeq(text, i, i + Len(old) - 1) = old

\* What becomes of a text from each of its places on.
Rewritten(text, old, new) ==
    LET from[i \in 1..Len(text) + 1] ==
            IF i = Len(text) + 1 THEN <<>>
            ELSE IF Begins(text, old, i) THEN new \o from[i + Len(old)]
            ELSE <<text[i]>> \o from[i + 1]
    IN  from

\* str.replace: from the left, every occurrence, wherever in the path it is.  Nothing
\* occurs before every token, and at the end.
Replaced(text, old, new) ==
    IF old = <<>> THEN FlattenSeq([i \in 1..Len(text) |-> Append(new, text[i])]) \o new
    ELSE Rewritten(text, old, new)[1]

\* _normalize_path_separators, normalize_config_path.
Normalized(path) ==
    LET single == Replaced(path, <<"\\", "\\">>, <<"\\">>)
    IN  [i \in 1..Len(single) |-> IF single[i] = "\\" THEN "/" ELSE single[i]]

Names(path)   == {i \in 1..Len(path) : path[i] # "/"}
Slashes(path) == {i \in 1..Len(path) : path[i] = "/"}

\* rstrip("/"), and strip("/").
Cut(path) == IF Names(path) = {} THEN <<>> ELSE SubSeq(path, 1, Max(Names(path)))

Stripped(path) ==
    IF Names(path) = {} THEN <<>>
    ELSE SubSeq(path, Min(Names(path)), Max(Names(path)))

\* split("/"), and join of the parts in the middle: the folder is what stands between
\* the first slash and the last.
Split(path) ==
    LET slashes == Slashes(path)
    IN  IF \E i, j \in slashes : i < j
        THEN [server |-> SubSeq(path, 1, Min(slashes) - 1),
              folder |-> SubSeq(path, Min(slashes) + 1, Max(slashes) - 1),
              file   |-> SubSeq(path, Max(slashes) + 1, Len(path))]
        ELSE NoLocation

\* _parse_player_media_file_location; server and file of a stripped path have names.
Location(path) ==
    LET location == Split(Stripped(path))
    IN  IF location = NoLocation \/ location.folder = <<>> THEN NoLocation ELSE location

-------------------------------------------------------------------------------
\* _apply_path_mappings: each mapping in turn, on what the ones before have made.
Stages(path, mappings) ==
    LET after[n \in 0..Len(mappings)] ==
            IF n = 0 THEN path
            ELSE Replaced(after[n - 1], mappings[n].emby, mappings[n].oppo)
    IN  after

Mapped(path, mappings) == Stages(path, mappings)[Len(mappings)]

\* Mutant: the separators are normalized before the paths are mapped.
PlayedNormalizedFirst(path, mappings) == Location(Mapped(Normalized(path), mappings))

\* resolve_player_media_file_location, what is played.
PlayedLocation(path, mappings) == Location(Normalized(Mapped(path, mappings)))

\* get_mount_path of the file test.mkv below the path of one mapping: its prefix,
\* without the slashes at its end, is exchanged.
TestedLocation(mapping) ==
    LET emby == Normalized(mapping.emby)
        oppo == Normalized(mapping.oppo)
    IN  IF emby = <<>> \/ oppo \in {<<>>, <<"/">>} THEN NoLocation
        ELSE Split(Stripped(Cut(oppo) \o <<"/", "test">>))

-------------------------------------------------------------------------------
(***************************************************************************)
(* Where the two rules are meant to agree.                                 *)
(***************************************************************************)
Occurs(text, old) == \E i \in 1..Len(text) + 1 : Begins(text, old, i)

\* A path lies in the folder of a mapping, as the test takes it, and is written
\* with the separators of the mapping.
InFolder(path, mapping) ==
    /\ IsPrefix(mapping.emby, path)
    /\ IsPrefix(Append(Cut(Normalized(mapping.emby)), "/"), Normalized(path))

\* The two paths of a mapping both end with a slash, or neither does.
EndsAlike(mapping) ==
    (Last(Normalized(mapping.emby)) = "/") = (Last(Normalized(mapping.oppo)) = "/")

\* What the path becomes by one mapping.
Remainder(path, mapping) == SubSeq(path, Len(mapping.emby) + 1, Len(path))
Exchanged(path, mapping) == mapping.oppo \o Remainder(path, mapping)

\* No mapping has anything to replace but mapping i the beginning of the path.
Alone(path, i, mappings) ==
    /\ ~Occurs(Remainder(path, mappings[i]), mappings[i].emby)
    /\ \A j \in DOMAIN mappings :
        /\ j < i => ~Occurs(path, mappings[j].emby)
        /\ j > i => ~Occurs(Exchanged(path, mappings[i]), mappings[j].emby)

Plain(path, i, mappings) ==
    /\ InFolder(path, mappings[i])
    /\ EndsAlike(mappings[i])
    /\ Alone(path, i, mappings)

\* One folder is, or lies in, the other.
Within(folder, outer) == folder = outer \/ IsPrefix(Append(outer, "/"), folder)

===============================================================================
