--------------------------- MODULE PlaybackRequest ----------------------------
(***************************************************************************)
(* The item of a play request, as its three readers find it.               *)
(*                                                                         *)
(* A request comes as the data of a Play message, of the form of the web   *)
(* page, or is built from a snapshot of the monitored session.  It names a *)
(* list of ids, as texts or as numbers, or a single id, and where in the   *)
(* list to start.  An id is written here as the sequence of its digits: a  *)
(* slice of a text is the text of another id.                              *)
(***************************************************************************)
EXTENDS Integers, Sequences

CONSTANT
    Raised       \* what a reader returns that raises

\* A request names one id at least, and each id has a digit.
Request ==
    [ids : Seq(Seq(Nat) \ {<<>>}) \ {<<>>}, list : BOOLEAN, numeric : BOOLEAN, start : Nat,
     position : Nat, Audio : Int, Subtitle : Int]

RequestOf(ids, list, numeric, start, position, audio, subtitle) ==
    [ids |-> ids, list |-> list, numeric |-> numeric, start |-> start,
     position |-> position, Audio |-> audio, Subtitle |-> subtitle]

\* The request that is built from a snapshot: one number, in a list.
ObservedRequest(id, position, audio, subtitle) ==
    RequestOf(<<id>>, TRUE, TRUE, 0, position, audio, subtitle)

\* parse_playback_request_payload, for what is played: the first id of the list,
\* whose text is then cut by the start index.  A number has no length, and the
\* first of a text is its first character.
ParsedItem(request) ==
    LET first == IF request.list THEN request.ids[1]
                                 ELSE SubSeq(request.ids[1], 1, 1)
        cut   == SubSeq(first, request.start + 1, Len(first))
    IN  IF request.numeric /\ (request.start > 0 \/ ~request.list)
        THEN Raised
        ELSE IF request.start \in 1..Len(first) - 1 THEN cut ELSE first

\* _selected_media_library_item_id, for what Emby is told.
ReportedItem(request) ==
    IF request.list /\ request.start \in 1..Len(request.ids) - 1
    THEN request.ids[request.start + 1]
    ELSE request.ids[1]

\* playback_request_media_item_id, for what counts as the same request.
ComparedItem(request) ==
    IF request.list /\ request.start \in 0..Len(request.ids) - 1
    THEN request.ids[request.start + 1]
    ELSE request.ids[1]

IsSameItem(current, next) == ComparedItem(current) = ComparedItem(next)

\* A list that is to be played from its head: the three readers agree on it.
FromTheHead(request) == request.list /\ request.start = 0

===============================================================================
