------------------------------- MODULE PathTest -------------------------------
(***************************************************************************)
(* A startup on the OPPO player, and the web page that uses the same       *)
(* player: the test of a path, and the navigation of the network.          *)
(*                                                                         *)
(* The thread of the web server does not look at what the bridge plays.    *)
(* To test a path it ejects what there is, waits until the player lists    *)
(* the devices of the network, mounts the folder and, with Autoscript,     *)
(* unmounts it again: a share that a startup has mounted may be gone       *)
(* before it is played from, and what it has begun may be stopped.         *)
(***************************************************************************)
EXTENDS OppoStartup, MediaLocation

CONSTANTS
    Paths,          \* of items, as Emby knows them
    MappingLists,   \* the mappings of a configuration, in order
    None

\* A path of an item is the path of a file: it ends with a name.
ASSUME PathsAssumption ==
    /\ \A path \in Paths : path \in Text \ {<<>>} /\ Last(path) \notin Separators
    /\ MappingLists \subseteq Seq(Mapping)

VARIABLES
    located,        \* the item and the mappings a startup is about to use
    test,           \* the thread of the web server
    seen,           \* whether its list of the devices has any
    listed          \* the player: it lists devices

web == <<located, test, seen, listed>>
allVars == <<vars, web>>

Mappings == UNION {Range(list) : list \in MappingLists}
Located  == [path : Paths, mappings : MappingLists]

WebTypeOK ==
    /\ TypeOK
    /\ located \in Located \cup {None}
    /\ test \in [pc : {"idle", "probe", "list", "eject", "wait", "login", "mount", "unmount"},
                answer : {"none", "invalid", "FAILED", "FAILURE", "OK", "raised"}]
    /\ {seen, listed} \subseteq BOOLEAN

WebInit ==
    /\ Init
    /\ located = None
    /\ test = [pc |-> "idle", answer |-> "none"]
    /\ seen = FALSE
    /\ listed \in BOOLEAN

(***************************************************************************)
(* The startup: which location it finds decides whether it goes on.        *)
(***************************************************************************)
LocateIt ==
    /\ located # None
    /\ IF PlayedLocation(located.path, located.mappings) = NoLocation
       THEN LocateRaises
       ELSE Locate \/ LocateRaises
    /\ located' = None
    /\ UNCHANGED <<test, seen, listed>>

ProbeForItem ==
    /\ ProbeSucceeds
    /\ located' \in Located
    /\ UNCHANGED <<test, seen, listed>>

Startup ==
    \/ ProbeForItem
    \/ LocateIt
    \/ /\ \/ ProbeFails \/ Notify \/ GiveUpApi \/ Raise
          \/ Connect \/ MountNamesPath \/ MountFails \/ PlayAccepted \/ PlayFails
          \/ PollActive \/ PollInactive \/ NotifyWaiting \/ DeadlinePasses
       /\ UNCHANGED web

(***************************************************************************)
(* test_path_configuration and navigate_folder.                            *)
(***************************************************************************)
startup == <<pc, bridge, history, located>>

Goes(where)   == test' = [pc |-> where, answer |-> "none"]
Answers(what) == test' = [pc |-> "idle", answer |-> what]

StartTest(mapping) ==
    /\ test.pc = "idle"
    /\ IF TestedLocation(mapping) = NoLocation
       THEN Answers("invalid")
       ELSE Goes("probe")
    /\ UNCHANGED <<startup, player, seen, listed>>

\* check_socket, with probes and notifications of its own.
TestProbes ==
    /\ test.pc = "probe"
    /\ api' \in {api, TRUE}
    /\ \/ api' /\ Goes("list")
       \/ Answers("FAILED")
    /\ UNCHANGED <<startup, mounted, pending, plays, command, seen, listed>>

\* The list is read before the eject key is sent.
ReadList ==
    /\ test.pc = "list"
    /\ seen' = listed
    /\ Goes("eject")
    /\ UNCHANGED <<startup, player, listed>>

\* The player obeys the key, or not.
Eject ==
    /\ test.pc = "eject"
    /\ \/ plays' = "nothing" /\ pending' = FALSE
       \/ UNCHANGED <<plays, pending>>
    /\ Goes("wait")
    /\ UNCHANGED <<startup, api, mounted, command, seen, listed>>

\* Mutant: the loop goes on with the list it has.
ReadListInVain ==
    /\ test.pc = "wait" /\ ~seen
    /\ seen' = FALSE
    /\ UNCHANGED <<startup, player, test, listed>>

\* There is no limit to this loop.
ReadListAgain ==
    /\ test.pc = "wait" /\ ~seen
    /\ seen' = listed
    /\ UNCHANGED <<startup, player, test, listed>>

DevicesSeen ==
    /\ test.pc = "wait" /\ seen
    /\ Goes("login")
    /\ UNCHANGED <<startup, player, seen, listed>>

Login ==
    /\ test.pc = "login"
    /\ Goes("mount")
    /\ UNCHANGED <<startup, player, seen, listed>>

\* The folder may be the one a startup uses, or take its place at the player.
Mounts == mounted' \in BOOLEAN /\ UNCHANGED <<api, pending, plays, command>>
Unmounts == mounted' \in {mounted, FALSE} /\ UNCHANGED <<api, pending, plays, command>>

MountTested ==
    /\ test.pc = "mount"
    /\ Mounts
    /\ \/ Goes("unmount")
       \/ \E what \in {"OK", "FAILURE"} : Answers(what)
    /\ UNCHANGED <<startup, seen, listed>>

\* unmount_oppo_path, with Autoscript only; what comes of it is not looked at.
UnmountTested ==
    /\ test.pc = "unmount"
    /\ Unmounts
    /\ Answers("OK")
    /\ UNCHANGED <<startup, seen, listed>>

\* A call to the player raises: the request of the web page fails.
TestRaises ==
    /\ test.pc \notin {"idle", "probe"}
    /\ IF test.pc = "mount" THEN Mounts ELSE UNCHANGED player
    /\ Answers("raised")
    /\ UNCHANGED <<startup, seen, listed>>

NavigateFolder ==
    /\ test.pc = "idle"
    /\ Mounts
    /\ UNCHANGED <<startup, test, seen, listed>>

TestGoesOn ==
    \/ TestProbes \/ ReadList \/ Eject \/ ReadListAgain \/ DevicesSeen \/ Login
    \/ MountTested \/ UnmountTested

Test == TestGoesOn \/ TestRaises

Asks == NavigateFolder \/ \E mapping \in Mappings : StartTest(mapping)

\* Devices of the network come and go.
DevicesChange == listed' = ~listed /\ UNCHANGED <<vars, located, test, seen>>

Others == (PlayerLoads \/ PlayerBegins \/ ViewerActs) /\ UNCHANGED web

WebNext == Startup \/ Test \/ Asks \/ DevicesChange \/ Others

WebSpec == WebInit /\ [][WebNext]_allVars

\* As for a startup alone; of the test, the steps at these places have no timeout.
\* The list that its loop reads has none either: it is taken to arrive, as the
\* question is whether the loop ends.
TestUntimed == {"list", "eject", "login"}

WebFairSpec ==
    /\ WebSpec
    /\ WF_allVars(pc \notin Untimed /\ Startup)
    /\ WF_allVars(test.pc \notin TestUntimed /\ TestGoesOn)

-------------------------------------------------------------------------------
\* An item below the path of a mapping is played from the server and the folder
\* which the test of that mapping mounts, where nothing but the beginning of its
\* path is replaced and both ends of the mapping are written alike
\* (resolve_player_media_file_location, get_mount_path).
TestedFolderIsPlayed ==
    pc = "locate" =>
        \A i \in DOMAIN located.mappings :
            LET tested == TestedLocation(located.mappings[i])
                played == PlayedLocation(located.path, located.mappings)
            IN  tested # NoLocation /\ Plain(located.path, i, located.mappings) =>
                    /\ played # NoLocation
                    /\ played.server = tested.server
                    /\ Within(played.folder, tested.folder)

\* The test of a path, which holds the only thread of the web server, ends if the
\* player goes on to list devices, and the calls without a timeout return: there is
\* no other end to its loop (test_mount_path).
PathTestEnds ==
    /\ \A p \in TestUntimed : []<>(test.pc # p)
    /\ <>[]listed
    => (test.pc # "idle" ~> test.pc = "idle")

-------------------------------------------------------------------------------
(***************************************************************************)
(* What the proofs in module PathTest_proofs rest on.                      *)
(***************************************************************************)

\* There is an attempt left for another probe.
AttemptFacts == pc \in {"probe", "notify"} => attempts < MaxAttempts

\* Only a share that did not mount is waited for without a play request.
CommandFacts ==
    /\ pc \in {"wait", "callback"} => reconciling \/ command = "play"
    /\ verdict = "timed_out" => command = "play"

\* What has played is remembered.
HistoryFacts ==
    /\ plays = "item" => begun
    /\ plays = "other" => foreign
    /\ verdict = "started" => begun \/ foreign

\* Whoever is about to look for the location has an item.
LocatedFacts == pc = "locate" => located \in Located

IInv == WebTypeOK /\ AttemptFacts /\ CommandFacts /\ HistoryFacts /\ LocatedFacts

===============================================================================
