----------------------------- MODULE OppoStartup -----------------------------
(***************************************************************************)
(* How an item is started on the OPPO player: its control API is woken up  *)
(* (OppoControlApiActivator), then the share of the item is mounted, the   *)
(* item played and the player polled until it is active                    *)
(* (OppoMediaControlPlayback.start_playback).                              *)
(*                                                                         *)
(* The player takes its time: what it was asked to play begins later, or   *)
(* never, and a request whose answer is lost may have been obeyed.  The    *)
(* verdict is all that module PlaybackOrchestration sees of this.          *)
(***************************************************************************)
EXTENDS Naturals, PlaybackTypes

CONSTANTS
    MaxAttempts,   \* probes of the control API, each with a notification
    MaxPolls       \* polls of the state that fit into the startup timeout

ASSUME BoundsAssumption == MaxAttempts \in Nat /\ MaxPolls \in Nat

VARIABLES
    pc,            \* the call that is about to be made
    attempts,      \* notifications sent
    optical,       \* the item is an optical image
    reconciling,   \* the wait is that for an optical image that did not mount
    polls,         \* polls of the state made
    verdict,       \* the result, as the orchestrator judges it
    api,           \* the player: its control API accepts connections
    mounted,       \* the player: the share is mounted
    pending,       \* the player: it has been made to play, and has not begun
    plays,         \* the player: what it plays
    command,       \* the last command the player received
    begun,         \* history: the item has played
    foreign,       \* history: something else has played
    lostProbe      \* history: the last probe of an open API failed

bridge == <<attempts, optical, reconciling, polls, verdict>>
player == <<api, mounted, pending, plays, command>>
history == <<begun, foreign, lostProbe>>
vars == <<pc, bridge, player, history>>

TypeOK ==
    /\ pc \in {"probe", "notify", "last_probe", "locate", "connect", "mount", "play",
               "wait", "callback", "ended"}
    /\ attempts \in 0..MaxAttempts
    /\ {optical, reconciling, api, mounted, pending} \subseteq BOOLEAN
    /\ polls \in 0..MaxPolls
    /\ verdict \in {"none", "unavailable", "raised"} \cup StartVerdicts
    /\ plays \in {"nothing", "other", "loading", "item"}
    /\ command \in {"none", "play"}
    /\ {begun, foreign, lostProbe} \subseteq BOOLEAN

Init ==
    /\ pc = IF MaxAttempts = 0 THEN "last_probe" ELSE "probe"
    /\ attempts = 0
    /\ optical \in BOOLEAN
    /\ reconciling = FALSE
    /\ polls = 0
    /\ verdict = "none"
    /\ api \in BOOLEAN
    /\ mounted \in BOOLEAN
    /\ pending = FALSE
    /\ plays \in {"nothing", "other"}
    /\ command = "none"
    /\ begun = FALSE
    /\ foreign = (plays = "other")
    /\ lostProbe = FALSE

-------------------------------------------------------------------------------
(***************************************************************************)
(* ensure_control_api_available.                                           *)
(***************************************************************************)

\* A connection to a closed port fails, and one to an open port may.
ProbeSucceeds ==
    /\ pc \in {"probe", "last_probe"}
    /\ api
    /\ pc' = "locate"
    /\ lostProbe' = FALSE
    /\ UNCHANGED <<bridge, player, begun, foreign>>

ProbeFails ==
    /\ pc = "probe"
    /\ pc' = "notify"
    /\ lostProbe' = api
    /\ UNCHANGED <<bridge, player, begun, foreign>>

\* A mutant: the loop ends without the last probe.
NotifyAndGiveUp ==
    /\ pc = "notify"
    /\ attempts' = attempts + 1
    /\ api' \in {api, TRUE}
    /\ IF attempts' < MaxAttempts
       THEN pc' = "probe" /\ UNCHANGED verdict
       ELSE pc' = "ended" /\ verdict' = "unavailable"
    /\ UNCHANGED <<optical, reconciling, polls, mounted, pending, plays,
                   command, history>>

\* The notification may be lost; a player that gets it opens its API within
\* the second that follows.
Notify ==
    /\ pc = "notify"
    /\ attempts' = attempts + 1
    /\ api' \in {api, TRUE}
    /\ pc' = IF attempts' < MaxAttempts THEN "probe" ELSE "last_probe"
    /\ UNCHANGED <<optical, reconciling, polls, verdict, mounted, pending, plays,
                   command, history>>

GiveUpApi ==
    /\ pc = "last_probe"
    /\ pc' = "ended"
    /\ verdict' = "unavailable"
    /\ lostProbe' = api
    /\ UNCHANGED <<attempts, optical, reconciling, polls, player, begun, foreign>>

-------------------------------------------------------------------------------
(***************************************************************************)
(* start_playback, and before it the location of the item.                 *)
(***************************************************************************)

End(result) ==
    /\ pc' = "ended"
    /\ verdict' = result

\* prepare_legacy_playback_startup asks Emby for the item and locates its file.
Locate ==
    /\ pc = "locate"
    /\ pc' = "connect"
    /\ UNCHANGED <<bridge, player, history>>

\* Emby does not answer, or the path has no location: the thread of the playback
\* ends, with no result for anyone to recover from.
LocateRaises ==
    /\ pc = "locate"
    /\ End("raised")
    /\ UNCHANGED <<attempts, optical, reconciling, polls, player, history>>

\* What the player makes of a mount request that names no path: it may have
\* mounted the share, and of an optical image it may go on to play it.
MountEffect ==
    /\ mounted' \in {mounted, TRUE}
    /\ pending' \in {FALSE, optical /\ mounted'}
    /\ UNCHANGED <<api, plays, command>>

\* What it makes of a play request without a good answer.
PlayEffect ==
    /\ command' \in {command, "play"}
    /\ pending' = (command' = "play")
    /\ UNCHANGED <<api, mounted, plays>>

\* Whatever raises, an unreadable answer or the callback too, is taken for a
\* failed mount.
Raise ==
    /\ pc \in {"connect", "mount", "play", "callback"}
    /\ End("not_mounted")
    /\ CASE pc = "mount" -> MountEffect
         [] pc = "play"  -> PlayEffect
         [] OTHER        -> UNCHANGED player
    /\ UNCHANGED <<attempts, optical, reconciling, polls, history>>

\* sign_in, get_device_list and the login at the server.
Connect ==
    /\ pc = "connect"
    /\ pc' = "mount"
    /\ UNCHANGED <<bridge, player, history>>

\* Only a mount that names its path leads to a play request.
MountNamesPath ==
    /\ pc = "mount"
    /\ mounted' = TRUE
    /\ pc' = "play"
    /\ UNCHANGED <<attempts, optical, reconciling, polls, verdict, api, pending, plays, command, history>>

\* The mount is refused, not answered in time, or answered without a path: the
\* empty answer that an NFS mount may give is a success that names none.
MountFails ==
    /\ pc = "mount"
    /\ MountEffect
    /\ reconciling' = optical
    /\ IF optical
       THEN pc' = "wait" /\ UNCHANGED verdict
       ELSE End("not_mounted")
    /\ UNCHANGED <<attempts, optical, polls, history>>

\* A mutant: a play request that was not answered is taken for accepted.
PlayFailsUnseen ==
    /\ pc = "play"
    /\ PlayEffect
    /\ pc' = "wait"
    /\ UNCHANGED <<bridge, history>>

\* A request that is not answered in time is taken for one that was refused.
PlayFails ==
    /\ pc = "play"
    /\ PlayEffect
    /\ End("rejected")
    /\ UNCHANGED <<attempts, optical, reconciling, polls, history>>

PlayAccepted ==
    /\ pc = "play"
    /\ command' = "play"
    /\ pending' = TRUE
    /\ pc' = "wait"
    /\ UNCHANGED <<bridge, api, mounted, plays, history>>

-------------------------------------------------------------------------------
(***************************************************************************)
(* wait_until_oppo_reports_active_playback, after the play request or, for *)
(* an optical image, after the mount that failed.                          *)
(***************************************************************************)

Category ==
    CASE plays = "nothing" -> "IDLE"
      [] plays = "loading" -> "TRANSITION"
      [] OTHER             -> "ACTIVE"

\* A probe may be answered by nothing.
Polled == {Category, "UNKNOWN"}

\* A mutant: a player in transition is taken for one that plays.
PollTransition ==
    /\ pc = "wait"
    /\ polls < MaxPolls
    /\ Polled \cap {"ACTIVE", "TRANSITION"} # {}
    /\ End("started")
    /\ UNCHANGED <<attempts, optical, reconciling, polls, player, history>>

PollActive ==
    /\ pc = "wait"
    /\ polls < MaxPolls
    /\ "ACTIVE" \in Polled
    /\ End("started")
    /\ UNCHANGED <<attempts, optical, reconciling, polls, player, history>>

\* A mutant: the time a poll takes is not counted.
PollInactiveForever ==
    /\ pc = "wait"
    /\ polls < MaxPolls
    /\ Polled \ {"ACTIVE"} # {}
    /\ pc' = "callback"
    /\ UNCHANGED <<bridge, player, history>>

PollInactive ==
    /\ pc = "wait"
    /\ polls < MaxPolls
    /\ Polled \ {"ACTIVE"} # {}
    /\ polls' = polls + 1
    /\ pc' = "callback"
    /\ UNCHANGED <<attempts, optical, reconciling, verdict, player, history>>

\* on_playback_waiting: a message to the viewer, by way of Emby.
NotifyWaiting ==
    /\ pc = "callback"
    /\ pc' = "wait"
    /\ UNCHANGED <<bridge, player, history>>

\* The deadline may pass after fewer polls, when they are slow.
DeadlinePasses ==
    /\ pc = "wait"
    /\ IF reconciling THEN End("not_mounted") ELSE End("timed_out")
    /\ UNCHANGED <<attempts, optical, reconciling, polls, player, history>>

-------------------------------------------------------------------------------
(***************************************************************************)
(* The player, and whoever else uses it.                                   *)
(***************************************************************************)

PlayerMoves(what) ==
    /\ plays' = what
    /\ begun' = (begun \/ what = "item")
    /\ foreign' = (foreign \/ what = "other")
    /\ UNCHANGED <<pc, bridge, api, mounted, command, lostProbe>>

PlayerLoads ==
    /\ pc # "ended"
    /\ pending
    /\ pending' = FALSE
    /\ PlayerMoves("loading")

PlayerBegins ==
    /\ pc # "ended"
    /\ plays = "loading"
    /\ UNCHANGED pending
    /\ \E what \in {"item", "nothing"} :
        /\ what = "item" => mounted
        /\ PlayerMoves(what)

ViewerActs ==
    /\ pc # "ended"
    /\ UNCHANGED pending
    /\ \E what \in {"other", "nothing"} : PlayerMoves(what)

Activate == ProbeSucceeds \/ ProbeFails \/ Notify \/ GiveUpApi

StartPlayback ==
    \/ Locate \/ LocateRaises \/ Raise \/ Connect \/ MountNamesPath \/ MountFails \/ PlayAccepted \/ PlayFails
    \/ PollActive \/ PollInactive \/ NotifyWaiting \/ DeadlinePasses

Next ==
    \/ Activate \/ StartPlayback
    \/ PlayerLoads \/ PlayerBegins \/ ViewerActs

Spec == Init /\ [][Next]_vars

\* The calls at these steps have no timeout: those to Emby, sign_in and the device
\* list, and the message of the callback.  The mount, the play request and the probes do.
Untimed == {"locate", "connect", "callback"}

FairSpec == Spec /\ WF_vars(pc \notin Untimed /\ (Activate \/ StartPlayback))

-------------------------------------------------------------------------------
\* A player is given up as unavailable only while its control API is closed, also
\* after the last notification, or when the last probe was lost on the way
\* (ensure_control_api_available).
OpenApiIsUsed ==
    [][verdict' = "unavailable" /\ verdict' # verdict => ~api' \/ lostProbe']_vars

\* What the verdict says of the play request is what the orchestrated playback
\* assumes when it decides what to recover from.
VerdictFitsCommand ==
    verdict \in StartVerdicts => command \in StartCommands(verdict, "none")

\* A start is announced only if the player has begun the item, unless it was
\* playing something else in the meantime: it is active then, too.
StartedIsTheItem == verdict = "started" /\ ~foreign => begun

\* However slowly the player starts, the startup ends, if the calls without a
\* timeout return.
StartupEnds ==
    (\A p \in Untimed : []<>(pc # p)) => <>(pc = "ended")

===============================================================================
