--------------------------- MODULE PlaybackCommands ---------------------------
(***************************************************************************)
(* Commands of Emby beside the startup of a playback.                      *)
(*                                                                         *)
(* The thread of a playback reads its request, starts the player, seeks    *)
(* and selects the audio and the subtitle track; the WebSocket thread      *)
(* handles the commands that select tracks, and notes each in the request  *)
(* of the session, whichever that is by then.  Neither takes a lock.  Both *)
(* turn the index of a stream into the player's number of a track, and     *)
(* both select a subtitle in a loop that looks, sets and looks again.      *)
(*                                                                         *)
(* One playback at a time: what overlapping ones do is the subject of      *)
(* PlaybackApplication.  A request may come from the thread of the web     *)
(* server at any time, so that the WebSocket thread, when it waits with a  *)
(* request of its own, does nothing that is not also allowed here.  A      *)
(* title has one media source, and no file that stands for another.        *)
(***************************************************************************)
EXTENDS Integers, Sequences, FiniteSets

CONSTANTS
    Streams,        \* for each id of the library, the types of its streams, in order
    Requests,       \* what may be asked for: a request, its start and its tracks
    Commands,       \* the selections Emby may send: a kind and the index of a stream
    MaxAttempts,    \* of a subtitle selection: 10 in the code
    MaxPlaybacks, MaxCommands, MaxViewer,   \* how many of each are looked at
    Raised, None

Kinds   == {"Audio", "Subtitle"}
Workers == {"startup", "command"}
Library == DOMAIN Streams

INSTANCE PlaybackRequest

ASSUME BoundsAssumption ==
    /\ MaxAttempts \in Nat \ {0}
    /\ {MaxPlaybacks, MaxCommands, MaxViewer} \subseteq Nat
ASSUME EmbyAssumption ==
    /\ Requests \subseteq Request
    /\ Commands \subseteq [kind : Kinds, index : Int]
    /\ Library \subseteq Seq(Nat)
    /\ Streams \in [Library -> Seq({"Video", "Audio", "Subtitle"})]

VARIABLES
    playstate, current,     \* of the Emby session; current is its currentdata
    waiting,                \* a request that was accepted and is not begun
    pc,                     \* where the playback thread and the WebSocket thread are
    task,                   \* what each of them is about
    number, attempts,       \* of the selection each of them makes
    player,                 \* what the player plays, from where, with which tracks
    embyState,              \* emby_state: whether the last callback raised
    \* what the properties look back at; it decides nothing but bounds:
    playbacks, commands, choices,   \* how many have begun, come and been made
    asked,                  \* the request the playback has begun with, as noted in since
    stray,                  \* whether a command for an earlier one was noted in it
    sought,                 \* where Emby last asked the player to go, and nobody since
    setter                  \* the playback whose command selected each track last, or 0

session == <<playstate, current>>
thread  == <<pc, task, number, attempts>>
history == <<playbacks, commands, choices, asked, stray, sought, setter>>
vars    == <<session, waiting, thread, player, embyState, history>>

NoTask  == [item |-> None, kind |-> "Audio", start |-> 0,
            index |-> [k \in Kinds |-> 0], began |-> 0]
Stopped == [item |-> None, position |-> 0, Audio |-> 1, Subtitle |-> 0]

Item   == {None} \cup Seq(Nat)
Task   == [item : Item, kind : Kinds, start : Nat, index : [Kinds -> Int], began : Nat]
Player == [item : Item, position : Nat, Audio : Nat, Subtitle : Nat]

TypeOK ==
    /\ playstate \in {"Free", "Loading", "Playing"}
    /\ current \in {None} \cup Request /\ asked \in {None} \cup Request
    /\ waiting \in {None} \cup Requests
    /\ pc \in [Workers -> {"none", "parse", "start", "seek", "resolve", "select", "look",
                           "set", "playing", "note"}]
    /\ task \in [Workers -> Task]
    /\ number \in [Workers -> Nat]
    /\ attempts \in [Workers -> 0..MaxAttempts]
    /\ player \in Player
    /\ embyState \in {"Message Arrived", "Ws::Error"}
    /\ playbacks \in Nat /\ commands \in Nat /\ choices \in Nat
    /\ stray \in BOOLEAN /\ sought \in {None} \cup Nat
    /\ setter \in [Kinds -> Nat]

Init ==
    /\ playstate = "Free" /\ current = None
    /\ waiting = None
    /\ pc = [w \in Workers |-> "none"]
    /\ task = [w \in Workers |-> NoTask]
    /\ number = [w \in Workers |-> 0]
    /\ attempts = [w \in Workers |-> 0]
    /\ player = Stopped
    /\ embyState = "Message Arrived"
    /\ playbacks = 0 /\ commands = 0 /\ choices = 0
    /\ asked = None /\ stray = FALSE /\ sought = None
    /\ setter = [k \in Kinds |-> 0]

(***************************************************************************)
(* The request, and its thread up to the start of the player.              *)
(***************************************************************************)
\* Mutant: a request is compared with the last one, whatever became of it.
RefusedForGood(r) == current # None /\ IsSameItem(current, r)

Refused(r) ==
    /\ playstate # "Free"
    /\ current # None
    /\ IsSameItem(current, r)

Ask(r) ==
    /\ waiting = None /\ playbacks < MaxPlaybacks
    /\ ~Refused(r)
    /\ waiting' = r
    /\ UNCHANGED <<session, thread, player, embyState, history>>

\* Mutant: the tracks chosen before are carried over.
CurrentWithTracks(r) ==
    IF current = None THEN r ELSE [r EXCEPT !.Subtitle = current.Subtitle]

\* The request becomes the session's own: later notes are written into it.
Current(r) == r

Begin ==
    /\ waiting # None /\ pc["startup"] = "none"
    /\ playstate' = "Loading" /\ current' = Current(waiting)
    /\ pc' = [pc EXCEPT !["startup"] = "parse"]
    /\ playbacks' = playbacks + 1
    /\ asked' = waiting /\ stray' = FALSE
    /\ waiting' = None
    /\ UNCHANGED <<task, number, attempts, player, embyState, commands, choices, sought,
                   setter>>

\* The thread reads what the request has become.
Parse ==
    /\ pc["startup"] = "parse"
    /\ ParsedItem(current) \in Library
    /\ pc' = [pc EXCEPT !["startup"] = "start"]
    /\ task' = [task EXCEPT !["startup"] =
        [item |-> ParsedItem(current), kind |-> "Audio", start |-> current.position,
         index |-> [k \in Kinds |-> current[k]], began |-> 0]]
    /\ UNCHANGED <<session, waiting, number, attempts, player, embyState, history>>

Quits(w) ==
    /\ pc' = [pc EXCEPT ![w] = "none"]
    /\ task' = [task EXCEPT ![w] = NoTask]
    /\ UNCHANGED <<number, attempts>>

\* The thread dies with its exception: the session stays as it is, Loading.
ParseRaises ==
    /\ pc["startup"] = "parse"
    /\ Quits("startup")
    /\ UNCHANGED <<session, waiting, player, embyState, history>>

\* The player does not start, or Emby cannot be told: the player is stopped.
StartFails ==
    /\ pc["startup"] \in {"start", "seek"}
    /\ Quits("startup")
    /\ playstate' = "Free"
    /\ player' = Stopped
    /\ sought' = None
    /\ UNCHANGED <<current, waiting, embyState, playbacks, commands, choices, asked, stray,
                   setter>>

StartSucceeds ==
    /\ pc["startup"] = "start"
    /\ pc' = [pc EXCEPT !["startup"] = "seek"]
    /\ player' = [Stopped EXCEPT !.item = task["startup"].item]
    /\ setter' = [k \in Kinds |-> 0]
    /\ UNCHANGED <<session, waiting, task, number, attempts, embyState, playbacks, commands,
                   choices, asked, stray, sought>>

\* A result that says the seek failed is looked at by nobody.
Seek ==
    /\ pc["startup"] = "seek"
    /\ player' \in {player, [player EXCEPT !.position = task["startup"].start]}
    /\ sought' = None
    /\ pc' = [pc EXCEPT !["startup"] = "resolve"]
    /\ UNCHANGED <<session, waiting, task, number, attempts, embyState, playbacks, commands,
                   choices, asked, stray, setter>>

(***************************************************************************)
(* The selection of a track, by either thread.                             *)
(***************************************************************************)
Default == [Audio |-> 1, Subtitle |-> 0]

\* get_xnoppo_audio_index, get_xnoppo_subs_index: the place among the streams of
\* one type.
Number(item, kind, index) ==
    LET streams == Streams[item]
    IN  IF index \in 0..Len(streams) - 1 /\ streams[index + 1] = kind
        THEN Cardinality({i \in 1..index + 1 : streams[i] = kind})
        ELSE Default[kind]

Index(w) == task[w].index[task[w].kind]
Off(w)   == task[w].kind = "Subtitle" /\ Index(w) < 0

\* The number of the track that is to be selected.
Wanted(w) == IF Off(w) THEN 0 ELSE Number(task[w].item, task[w].kind, Index(w))

\* What follows a selection, whatever came of it.
After(w) ==
    IF w = "command" THEN "note" ELSE IF task[w].kind = "Audio" THEN "resolve" ELSE "playing"

Done(w) ==
    /\ pc' = [pc EXCEPT ![w] = After(w)]
    /\ task' = IF After(w) = "resolve" THEN [task EXCEPT ![w].kind = "Subtitle"] ELSE task
    /\ number' = [number EXCEPT ![w] = 0]
    /\ attempts' = [attempts EXCEPT ![w] = 0]
    /\ playstate' = IF After(w) = "playing" THEN "Playing" ELSE playstate

\* A startup leaves subtitles that are off alone, a command turns them off.
Resolve(w) ==
    /\ pc[w] = "resolve"
    /\ task[w].item \in Library \/ Off(w)
    /\ ~(w = "startup" /\ Off(w))
    /\ pc' = [pc EXCEPT ![w] = IF task[w].kind = "Audio" THEN "select" ELSE "look"]
    /\ number' = [number EXCEPT ![w] = Wanted(w)]
    /\ UNCHANGED <<session, waiting, task, attempts, player, embyState, history>>

LeaveOff ==
    /\ pc["startup"] = "resolve" /\ Off("startup")
    /\ Done("startup")
    /\ UNCHANGED <<current, waiting, player, embyState, history>>

\* The startup goes on without the track; a command is given up in on_error.
ResolveRaises(w) ==
    /\ pc[w] = "resolve" /\ ~Off(w)
    /\ \/ /\ w = "startup" /\ Done(w)
          /\ UNCHANGED embyState
       \/ /\ w = "command" /\ Quits(w)
          /\ embyState' = "Ws::Error"
          /\ UNCHANGED playstate
    /\ UNCHANGED <<current, waiting, player, history>>

Showing(kind, n) == [player EXCEPT ![kind] = n]

\* The player takes the number it is sent, or makes nothing of it.
Send(w, kind) ==
    /\ \/ /\ player.item # None
          /\ player' = Showing(kind, number[w])
          /\ setter' = [setter EXCEPT ![kind] = IF w = "command" THEN task[w].began ELSE 0]
       \/ /\ setter' = [setter EXCEPT ![kind] = 0]
          /\ UNCHANGED player
    /\ UNCHANGED <<current, waiting, embyState, playbacks, commands, choices, asked, stray,
                   sought>>

SelectAudio(w) ==
    /\ pc[w] = "select"
    /\ Send(w, "Audio")
    /\ Done(w)

Settled(w) ==
    player.Subtitle = number[w] \/ attempts[w] = MaxAttempts

\* Mutant: the attempts are not counted.
NotCounted(n) == n

Counted(n) == n + 1

LookAgain(w) ==
    /\ pc[w] = "look"
    /\ ~Settled(w)
    /\ pc' = [pc EXCEPT ![w] = "set"]
    /\ UNCHANGED <<session, waiting, task, number, attempts, player, embyState, history>>

\* The track is found selected, or the attempts are used up.
LookEnds(w) ==
    /\ pc[w] = "look"
    /\ Settled(w)
    /\ Done(w)
    /\ UNCHANGED <<current, waiting, player, embyState, history>>

\* The menu cannot be read, or the command raises: the selection failed.  A command
\* is noted all the same.
SelectionRaises(w) ==
    /\ pc[w] \in {"look", "set"}
    /\ Done(w)
    /\ setter' = IF w = "command" THEN [setter EXCEPT !["Subtitle"] = 0] ELSE setter
    /\ UNCHANGED <<current, waiting, player, embyState, playbacks, commands, choices, asked,
                   stray, sought>>

SetSubtitle(w) ==
    /\ pc[w] = "set"
    /\ Send(w, "Subtitle")
    /\ pc' = [pc EXCEPT ![w] = "look"]
    /\ attempts' = [attempts EXCEPT ![w] = Counted(@)]
    /\ UNCHANGED <<playstate, task, number>>

Select(w) ==
    \/ Resolve(w)
    \/ w = "startup" /\ LeaveOff
    \/ ResolveRaises(w)
    \/ SelectAudio(w)
    \/ LookAgain(w)
    \/ LookEnds(w)
    \/ SelectionRaises(w)
    \/ SetSubtitle(w)

(***************************************************************************)
(* Messages of Emby, on the WebSocket thread.                              *)
(***************************************************************************)
\* Mutant: the item Emby is told of.
CurrentReported == IF current = None THEN Raised ELSE ReportedItem(current)

\* The item a command is about: what is played for the same request.
CurrentItem == IF current = None THEN Raised ELSE ParsedItem(current)

Arrives ==
    /\ pc["command"] = "none" /\ commands < MaxCommands
    /\ commands' = commands + 1
    /\ UNCHANGED <<session, waiting, number, attempts, playbacks, choices, asked, stray,
                   setter>>

\* Whether something is played is not looked at.
GeneralCommand(c) ==
    /\ Arrives
    /\ \/ /\ CurrentItem = Raised
          /\ embyState' = "Ws::Error"
          /\ UNCHANGED <<pc, task>>
       \/ /\ CurrentItem # Raised
          /\ embyState' = "Message Arrived"
          /\ pc' = [pc EXCEPT !["command"] = "resolve"]
          /\ task' = [task EXCEPT !["command"] =
                [item |-> CurrentItem, kind |-> c.kind, start |-> 0,
                 index |-> [k \in Kinds |-> c.index], began |-> playbacks]]
    /\ UNCHANGED <<player, sought>>

Noted(request) == [request EXCEPT ![task["command"].kind] = Index("command")]

\* The index is noted in the request that is the session's by now.
Note ==
    LET late   == task["command"].began # playbacks
        unread == pc["startup"] = "parse"
    IN  /\ pc["command"] = "note"
        /\ current' = Noted(current)
        /\ Quits("command")
        /\ stray' = (stray \/ (late /\ unread))
        /\ asked' = IF unread /\ ~late THEN Noted(asked) ELSE asked
        /\ setter' = IF late THEN [setter EXCEPT ![task["command"].kind] = 0] ELSE setter
        /\ UNCHANGED <<playstate, waiting, player, embyState, playbacks, commands, choices,
                       sought>>

\* Where Emby may ask the player to go.
Places == {3}

\* _playstate calls a method its handler does not have: nothing is done.
Playstate ==
    /\ Arrives
    /\ embyState' = "Ws::Error"
    /\ \E place \in Places : sought' = IF player.item # None THEN place ELSE sought
    /\ UNCHANGED <<pc, task, player>>

(***************************************************************************)
(* The viewer, at the player.                                              *)
(***************************************************************************)
ViewerSelects ==
    /\ player.item # None /\ choices < MaxViewer
    /\ \E k \in Kinds, n \in {0, 2} :
        /\ player' = Showing(k, n)
        /\ setter' = [setter EXCEPT ![k] = 0]
    /\ choices' = choices + 1
    /\ UNCHANGED <<session, waiting, thread, embyState, playbacks, commands, asked, stray,
                   sought>>

ViewerSeeks ==
    /\ player.item # None /\ choices < MaxViewer
    /\ player' = [player EXCEPT !.position = 2]
    /\ sought' = None
    /\ choices' = choices + 1
    /\ UNCHANGED <<session, waiting, thread, embyState, playbacks, commands, asked, stray,
                   setter>>

\* The playback ends, by itself, at the player or for a replacement.
PlaybackEnds ==
    /\ pc["startup"] = "playing"
    /\ Quits("startup")
    /\ playstate' = "Free"
    /\ player' = Stopped
    /\ sought' = None
    /\ UNCHANGED <<current, waiting, embyState, playbacks, commands, choices, asked, stray,
                   setter>>

Startup == Begin \/ Parse \/ ParseRaises \/ StartFails \/ StartSucceeds \/ Seek
Handler == Note \/ Playstate \/ \E c \in Commands : GeneralCommand(c)
Viewer  == ViewerSelects \/ ViewerSeeks \/ PlaybackEnds

Next ==
    \/ \E r \in Requests : Ask(r)
    \/ Startup
    \/ \E w \in Workers : Select(w)
    \/ Handler
    \/ Viewer

Spec == Init /\ [][Next]_vars

\* Both threads go on; every call they make returns, as it must for them to.
Fairness ==
    /\ WF_vars(Startup \/ Select("startup"))
    /\ WF_vars(Select("command") \/ Note)

FairSpec == Spec /\ Fairness

(***************************************************************************)
(* What holds.                                                             *)
(***************************************************************************)
\* A startup selects the tracks of its own request, or those chosen since it was
\* made; only a command that was under way for an earlier playback, and is noted
\* before the thread reads the request, can put others there (application.py,
\* 231-242, and the notes of handle_general_command).
StartupSelectsWhatWasAsked ==
    pc["startup"] \notin {"none", "parse"} /\ ~stray =>
        \A k \in Kinds : task["startup"].index[k] = asked[k]

\* What the session has noted is what the player shows, counted among the streams of
\* what it plays, when a command for this playback was the last to select the track
\* and the player obeyed: the note is written after the selection, by another thread
\* than the startup's, without a lock (handle_general_command).
NotedIsSelected ==
    \A k \in Kinds :
        (/\ pc["command"] = "none" /\ player.item # None
         /\ setter[k] # 0 /\ setter[k] = playbacks)
        => player[k] = IF k = "Subtitle" /\ current[k] < 0 THEN 0
                       ELSE Number(player.item, k, current[k])

\* A request is refused as a duplicate only while the bridge starts or plays that
\* very item, for lists played from their head; one exception is a thread that
\* died reading its request, which leaves the session Loading (is_same_media_item_request,
\* _is_duplicate_request).
RefusedIsUnderWay ==
    \A r \in Requests :
        (/\ Refused(r) /\ FromTheHead(r) /\ FromTheHead(current)
         /\ ~(playstate = "Loading" /\ pc["startup"] = "none"))
        => /\ pc["startup"] # "none"
           /\ ParsedItem(current) = ParsedItem(r)

\* A selection ends, whoever else selects: two loops that undo each other's work
\* stop after their attempts, and the startup goes on to play (select_subtitle_track).
SelectionsEnd ==
    \A w \in Workers : pc[w] = "resolve" ~> pc[w] \in {"none", "playing"}

(***************************************************************************)
(* What the documents say.                                                 *)
(***************************************************************************)
\* CHANGELOG.md: "Fixed remote seek from Emby mobile/web clients so relative seek
\* changes OPPO position": the player goes where Emby asks it to, unless the startup
\* or the viewer moves it afterwards.
SeekIsFollowed ==
    pc["startup"] = "playing" /\ sought # None => player.position = sought

-------------------------------------------------------------------------------
(***************************************************************************)
(* The inductive invariant of module PlaybackCommands_proofs.              *)
(***************************************************************************)
Begun == pc["startup"] # "none"
Read  == pc["startup"] \notin {"none", "parse"}

\* What each thread does, and to which track.
ThreadFacts ==
    /\ pc["startup"] # "note"
    /\ pc["command"] \notin {"parse", "start", "seek", "playing"}
    /\ \A w \in Workers :
        /\ pc[w] = "select" => task[w].kind = "Audio"
        /\ pc[w] \in {"look", "set"} => task[w].kind = "Subtitle"
        /\ pc[w] = "set" => attempts[w] < MaxAttempts
    /\ Begun => current \in Request /\ asked \in Request
    /\ pc["command"] # "none" => current \in Request
    /\ playstate = "Playing" => pc["startup"] = "playing"

\* The request of the session, apart from its tracks, is the one the thread has begun
\* with, or will read; so is what the player plays.
ItemFacts ==
    /\ pc["startup"] = "parse" => current.position = asked.position
    /\ Read => /\ task["startup"].item = ParsedItem(current)
               /\ task["startup"].start = asked.position
    /\ player.item = IF pc["startup"] \in {"none", "parse", "start"} THEN None
                     ELSE task["startup"].item

\* What is noted before the thread reads the request is asked for, or stray.
AskedFacts ==
    pc["startup"] = "parse" /\ ~stray =>
        \A k \in Kinds : current[k] = asked[k]

\* The item a command of this playback counts in, and the number it sends.
CommandFacts ==
    /\ task["command"].began <= playbacks
    /\ pc["command"] # "none" /\ task["command"].began = playbacks
           => task["command"].item = ParsedItem(current)
    /\ pc["command"] \in {"select", "look", "set"} => number["command"] = Wanted("command")
    /\ pc["command"] \notin {"look", "set"} => attempts["command"] = 0

\* Whose selection it was that the player shows: when it is a command's for this
\* playback, the player shows track n.
Shows(k, n) ==
    player.item # None /\ setter[k] # 0 /\ setter[k] = playbacks => player[k] = n

\* The track the session has noted, counted in what the player plays.
NotedTrack(k) ==
    IF k = "Subtitle" /\ current[k] < 0 THEN 0 ELSE Number(player.item, k, current[k])

\* The player shows what is noted, or what the command is about to note.
SetterFacts ==
    /\ \A k \in Kinds :
        /\ setter[k] <= playbacks
        /\ pc["command"] \in {"none", "resolve"} \/ task["command"].kind # k
               => Shows(k, NotedTrack(k))
    /\ pc["command"] = "note" /\ task["command"].began = playbacks =>
           Shows(task["command"].kind, Wanted("command"))
    /\ /\ pc["command"] \in {"look", "set"} /\ attempts["command"] > 0
       /\ task["command"].began = playbacks
       => Shows("Subtitle", number["command"])

IInv ==
    /\ TypeOK
    /\ ThreadFacts
    /\ ItemFacts
    /\ AskedFacts
    /\ StartupSelectsWhatWasAsked
    /\ CommandFacts
    /\ SetterFacts

===============================================================================
