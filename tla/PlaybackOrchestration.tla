------------------------ MODULE PlaybackOrchestration ------------------------
(***************************************************************************)
(* One run of PlaybackOrchestrator.play_until_stopped: the outputs are     *)
(* switched to the player, the player is started, the startup is           *)
(* completed, the playback is monitored until it stops and is then         *)
(* finished; a phase that fails is followed by error recovery.  Every      *)
(* command to a device may fail, with or without its effect.               *)
(*                                                                         *)
(* The run shares one thing with another thread: the event that says that  *)
(* a replacement is waiting for it, which the run reads late.              *)
(***************************************************************************)
EXTENDS Naturals, PlaybackTypes

CONSTANTS
    Apps,                \* applications of the television, the HDMI input aside
    Hdmi,                \* the input of the television the player is on
    NoApp,               \* no application is known
    NormalPolls,         \* polls to confirm an idle player ...
    ReplacementPolls     \* ... and when a replacement waits for it

ASSUME AppsAssumption == Hdmi \notin Apps /\ NoApp \notin Apps /\ Hdmi # NoApp
ASSUME PollsAssumption == NormalPolls \in Nat /\ ReplacementPolls \in Nat

VARIABLES
    pc,          \* the step the run is about to take
    request,     \* what is enabled, and the preserved return application
    startup,     \* the startup result
    monitoring,  \* the monitoring result
    finish,      \* the finish request and result
    recovery,    \* the error recovery result
    replacing,   \* the event: a replacement waits for this run to end
    server,      \* the session of this playback at Emby
    command,     \* the last command the player may have obeyed
    screen,      \* what the television shows
    audio        \* what the receiver plays

results == <<startup, monitoring, finish, recovery>>
room == <<server, command, screen, audio>>
vars == <<pc, request, results, replacing, room>>

StartupPc == {"read_app", "switch_tv", "power_av", "switch_av", "start_oppo",
              "complete"}
FinishPc == {"resolve_polls", "close", "confirm", "report_stop", "return_tv",
             "restore_av"}
RecoveryPc == {"recover_player", "recover_tv", "recover_av"}
Pcs == StartupPc \cup {"monitor", "resolve_outputs"} \cup FinishPc
         \cup RecoveryPc \cup {"done"}

Screens == Apps \cup {Hdmi}
Recalled == Screens \cup {NoApp}
StartResults == {"pending"} \cup StartVerdicts

Requests == [tv : BOOLEAN, av : BOOLEAN, input : BOOLEAN,
             override : Apps \cup {NoApp}]

NoFinish == [restore |-> FALSE, polls |-> 0, category |-> "UNKNOWN",
             idle |-> "pending", tv |-> "pending", av |-> "pending"]

TypeOK ==
    /\ pc \in Pcs
    /\ request \in Requests
    /\ startup \in [previous : Recalled, tv : Results, power : Results,
                    input : Results, oppo : StartResults]
    /\ monitoring \in MonitoringResults \cup {NoMonitoring}
    /\ finish \in [restore : BOOLEAN, polls : Nat, category : Categories,
                   idle : Results, tv : Results, av : Results]
    /\ recovery \in [player : Results, tv : Results, av : Results]
    /\ replacing \in BOOLEAN
    /\ server \in {"idle", "playing", "stopped"}
    /\ command \in {"none", "play", "stop"}
    /\ screen \in Screens
    /\ audio \in {"tv", "player"}

Init ==
    /\ pc = "read_app"
    /\ request \in Requests
    /\ startup = [previous |-> NoApp, tv |-> "pending", power |-> "pending",
                  input |-> "pending", oppo |-> "pending"]
    /\ monitoring = NoMonitoring
    /\ finish = NoFinish
    /\ recovery = [player |-> "pending", tv |-> "pending", av |-> "pending"]
    /\ replacing = FALSE
    /\ server = "idle"
    /\ command = "none"
    /\ screen \in Screens
    /\ audio \in {"tv", "player"}

-------------------------------------------------------------------------------
(***************************************************************************)
(* The results, as the code judges them.                                   *)
(***************************************************************************)

\* A television that was not switched makes the switch unsuccessful, also when
\* it was skipped; a skipped receiver does not.
OutputsSwitched(s) ==
    s.tv = "success" /\ s.power # "failed" /\ s.input # "failed"

StartupSuccessful(s) == OutputsSwitched(s) /\ s.oppo = "started"

\* The result of the finish phase exists once its last step has returned.
FinishReturned == finish.av # "pending"

\* A mutant: a player that was never seen idle does not spoil the finish.
FinishSuccessfulUnconfirmed(f) == "failed" \notin {f.tv, f.av}

FinishSuccessful(f) == "failed" \notin {f.idle, f.tv, f.av}

Successful ==
    /\ StartupSuccessful(startup)
    /\ monitoring # NoMonitoring
    /\ FinishReturned
    /\ FinishSuccessful(finish)

-------------------------------------------------------------------------------
(***************************************************************************)
(* Startup: the outputs first, then the player, whatever became of them.   *)
(***************************************************************************)

\* A preserved application wins over the one the television shows, and that
\* one may be unreadable.
ReadCurrentApp ==
    /\ pc = "read_app"
    /\ \E app \in IF request.override # NoApp
                  THEN {request.override} ELSE {screen, NoApp} :
          startup' = [startup EXCEPT !.previous = app]
    /\ pc' = "switch_tv"
    /\ UNCHANGED <<request, monitoring, finish, recovery, replacing, room>>

\* Without the television on the player's input the receiver is left alone.
SwitchTv ==
    /\ pc = "switch_tv"
    /\ \E r \in CommandResults(request.tv) :
          /\ screen' \in Effect(r, screen, Hdmi)
          /\ IF r = "success"
             THEN /\ startup' = [startup EXCEPT !.tv = r]
                  /\ pc' = "power_av"
             ELSE /\ startup' = [startup EXCEPT !.tv = r, !.power = "skipped",
                                                !.input = "skipped"]
                  /\ pc' = "start_oppo"
    /\ UNCHANGED <<request, monitoring, finish, recovery, replacing,
                   server, command, audio>>

PowerOnAv ==
    /\ pc = "power_av"
    /\ \E r \in CommandResults(request.av) :
          startup' = [startup EXCEPT !.power = r]
    /\ pc' = "switch_av"
    /\ UNCHANGED <<request, monitoring, finish, recovery, replacing, room>>

\* A receiver that did not power on fails here without being asked.
SwitchAv ==
    /\ pc = "switch_av"
    /\ IF request.av /\ request.input /\ startup.power # "success"
       THEN /\ startup' = [startup EXCEPT !.input = "failed"]
            /\ UNCHANGED audio
       ELSE \E r \in CommandResults(request.av /\ request.input) :
               /\ startup' = [startup EXCEPT !.input = r]
               /\ audio' \in Effect(r, audio, "player")
    /\ pc' = "start_oppo"
    /\ UNCHANGED <<request, monitoring, finish, recovery, replacing,
                   server, command, screen>>

\* A mutant: the outputs that were not switched are overlooked.
StartOppoOverOutputs ==
    /\ pc = "start_oppo"
    /\ \E r \in StartVerdicts :
          /\ startup' = [startup EXCEPT !.oppo = r]
          /\ command' \in StartCommands(r, command)
          /\ pc' = IF r = "started" THEN "complete" ELSE "recover_player"
    /\ UNCHANGED <<request, monitoring, finish, recovery, replacing,
                   server, screen, audio>>

\* Sign in, mount, play and wait for active playback: module OppoStartup.
StartOppo ==
    /\ pc = "start_oppo"
    /\ \E r \in StartVerdicts :
          /\ startup' = [startup EXCEPT !.oppo = r]
          /\ command' \in StartCommands(r, command)
    /\ pc' = IF StartupSuccessful(startup') THEN "complete" ELSE "recover_player"
    /\ UNCHANGED <<request, monitoring, finish, recovery, replacing,
                   server, screen, audio>>

\* Emby is told that the playback started, then the position and the tracks
\* are set; only the report can raise, and Emby may have received it.
CompleteStartup ==
    /\ pc = "complete"
    /\ \/ server' = "playing" /\ pc' = "monitor"
       \/ server' \in {server, "playing"} /\ pc' = "recover_player"
    /\ UNCHANGED <<request, results, replacing, command, screen, audio>>

-------------------------------------------------------------------------------
(***************************************************************************)
(* During playback.  How monitoring comes to its result is the subject of  *)
(* module DuringPlayback.                                                  *)
(***************************************************************************)

MonitorUntilStopped ==
    /\ pc = "monitor"
    /\ \/ monitoring' \in MonitoringResults /\ pc' = "resolve_outputs"
       \/ UNCHANGED monitoring /\ pc' = "recover_player"
    /\ UNCHANGED <<request, startup, finish, recovery, replacing, room>>

-------------------------------------------------------------------------------
(***************************************************************************)
(* Finish.  The event is read twice, and may change in between.            *)
(***************************************************************************)

ResolveOutputs ==
    /\ pc = "resolve_outputs"
    /\ finish' = [finish EXCEPT !.restore = ~replacing,
                                !.category = monitoring.category]
    /\ pc' = "resolve_polls"
    /\ UNCHANGED <<request, startup, monitoring, recovery, replacing, room>>

\* A mutant: the outputs are returned before the player is settled.
ResolvePollsOutputsFirst ==
    /\ pc = "resolve_polls"
    /\ finish' = [finish EXCEPT
                    !.polls = IF replacing THEN ReplacementPolls ELSE NormalPolls]
    /\ pc' = "return_tv"
    /\ UNCHANGED <<request, startup, monitoring, recovery, replacing, room>>

ResolvePolls ==
    /\ pc = "resolve_polls"
    /\ finish' = [finish EXCEPT
                    !.polls = IF replacing THEN ReplacementPolls ELSE NormalPolls]
    /\ pc' = "close"
    /\ UNCHANGED <<request, startup, monitoring, recovery, replacing, room>>

\* A media that ended by position while the player still plays is closed; a
\* close that failed is the verdict on the player.
ClosePlayer ==
    /\ pc = "close"
    /\ \E r \in CommandResults(/\ monitoring.reason = "natural_end"
                               /\ finish.category = "ACTIVE") :
          /\ command' \in Effect(r, command, "stop")
          /\ IF r = "failed"
             THEN /\ finish' = [finish EXCEPT !.idle = "failed"]
                  /\ pc' = "report_stop"
             ELSE /\ UNCHANGED finish
                  /\ pc' = "confirm"
    /\ UNCHANGED <<request, startup, monitoring, recovery, replacing,
                   server, screen, audio>>

\* An idle player needs no poll.
ConfirmAlreadyIdle ==
    /\ pc = "confirm"
    /\ finish.category = "IDLE"
    /\ finish' = [finish EXCEPT !.idle = "success"]
    /\ pc' = "report_stop"
    /\ UNCHANGED <<request, startup, monitoring, recovery, replacing, room>>

\* A mutant: the polls are not counted down.
PollIdleForever ==
    /\ pc = "confirm"
    /\ finish.category # "IDLE"
    /\ finish.polls > 0
    /\ \E category \in Categories : finish' = [finish EXCEPT !.category = category]
    /\ UNCHANGED <<pc, request, startup, monitoring, recovery, replacing, room>>

PollIdle ==
    /\ pc = "confirm"
    /\ finish.category # "IDLE"
    /\ finish.polls > 0
    /\ \/ \E category \in Categories :
             /\ finish' = [finish EXCEPT !.polls = @ - 1, !.category = category]
             /\ UNCHANGED pc
       \/ /\ finish' = [finish EXCEPT !.idle = "failed"]
          /\ pc' = "report_stop"
    /\ UNCHANGED <<request, startup, monitoring, recovery, replacing, room>>

\* A mutant: a player that does not settle makes the stop report superfluous.
GiveUpIdleSilently ==
    /\ pc = "confirm"
    /\ finish.category # "IDLE"
    /\ finish.polls = 0
    /\ finish' = [finish EXCEPT !.idle = "failed"]
    /\ pc' = "return_tv"
    /\ UNCHANGED <<request, startup, monitoring, recovery, replacing, room>>

GiveUpIdle ==
    /\ pc = "confirm"
    /\ finish.category # "IDLE"
    /\ finish.polls = 0
    /\ finish' = [finish EXCEPT !.idle = "failed"]
    /\ pc' = "report_stop"
    /\ UNCHANGED <<request, startup, monitoring, recovery, replacing, room>>

\* A report that raises ends the finish phase: no output is restored by it.
ReportStopped ==
    /\ pc = "report_stop"
    /\ \/ server' = "stopped" /\ pc' = "return_tv"
       \/ server' \in {server, "stopped"} /\ pc' = "recover_player"
    /\ UNCHANGED <<request, results, replacing, command, screen, audio>>

\* Where the television goes back to when it is told to return to an app: with
\* no app known, to whatever it recalls.
ReturnTargets(app) == IF app = NoApp THEN Screens ELSE {app}

ReturnTv ==
    /\ pc = "return_tv"
    /\ \E r \in CommandResults(finish.restore /\ request.tv),
          app \in ReturnTargets(startup.previous) :
          /\ finish' = [finish EXCEPT !.tv = r]
          /\ screen' \in Effect(r, screen, app)
    /\ pc' = "restore_av"
    /\ UNCHANGED <<request, startup, monitoring, recovery, replacing,
                   server, command, audio>>

\* A mutant: a finish that failed is not recovered from.
RestoreAvUnrecovered ==
    /\ pc = "restore_av"
    /\ \E r \in CommandResults(finish.restore /\ request.av) :
          /\ finish' = [finish EXCEPT !.av = r]
          /\ audio' \in Effect(r, audio, "tv")
    /\ pc' = "done"
    /\ UNCHANGED <<request, startup, monitoring, recovery, replacing,
                   server, command, screen>>

RestoreAv ==
    /\ pc = "restore_av"
    /\ \E r \in CommandResults(finish.restore /\ request.av) :
          /\ finish' = [finish EXCEPT !.av = r]
          /\ audio' \in Effect(r, audio, "tv")
    /\ pc' = IF FinishSuccessful(finish') THEN "done" ELSE "recover_player"
    /\ UNCHANGED <<request, startup, monitoring, recovery, replacing,
                   server, command, screen>>

-------------------------------------------------------------------------------
(***************************************************************************)
(* Error recovery: it restores the outputs the request enables, whether or *)
(* not a replacement is waiting.                                           *)
(***************************************************************************)

\* A mutant: the outputs are given up when the player cannot be stopped.
RecoverPlayerOrGiveUp ==
    /\ pc = "recover_player"
    /\ \E r \in CommandResults(TRUE) :
          /\ recovery' = [recovery EXCEPT !.player = r]
          /\ command' \in Effect(r, command, "stop")
          /\ pc' = IF r = "failed" THEN "done" ELSE "recover_tv"
    /\ UNCHANGED <<request, startup, monitoring, finish, replacing,
                   server, screen, audio>>

RecoverPlayer ==
    /\ pc = "recover_player"
    /\ \E r \in CommandResults(TRUE) :
          /\ recovery' = [recovery EXCEPT !.player = r]
          /\ command' \in Effect(r, command, "stop")
    /\ pc' = "recover_tv"
    /\ UNCHANGED <<request, startup, monitoring, finish, replacing,
                   server, screen, audio>>

RecoverTv ==
    /\ pc = "recover_tv"
    /\ \E r \in CommandResults(request.tv),
          app \in ReturnTargets(startup.previous) :
          /\ recovery' = [recovery EXCEPT !.tv = r]
          /\ screen' \in Effect(r, screen, app)
    /\ pc' = "recover_av"
    /\ UNCHANGED <<request, startup, monitoring, finish, replacing,
                   server, command, audio>>

RecoverAv ==
    /\ pc = "recover_av"
    /\ \E r \in CommandResults(request.av) :
          /\ recovery' = [recovery EXCEPT !.av = r]
          /\ audio' \in Effect(r, audio, "tv")
    /\ pc' = "done"
    /\ UNCHANGED <<request, startup, monitoring, finish, replacing,
                   server, command, screen>>

-------------------------------------------------------------------------------
(***************************************************************************)
(* The replacing thread, seen from this run: it sets the event before it   *)
(* stops the player, and clears it early only if that stop raised.         *)
(***************************************************************************)

RequestReplacement ==
    /\ pc # "done"
    /\ ~replacing
    /\ replacing' = TRUE
    /\ UNCHANGED <<pc, request, results, room>>

WithdrawReplacement ==
    /\ pc # "done"
    /\ replacing
    /\ replacing' = FALSE
    /\ UNCHANGED <<pc, request, results, room>>

Start ==
    \/ ReadCurrentApp \/ SwitchTv \/ PowerOnAv \/ SwitchAv \/ StartOppo
    \/ CompleteStartup

FinishPlayback ==
    \/ ResolveOutputs \/ ResolvePolls \/ ClosePlayer \/ ConfirmAlreadyIdle
    \/ PollIdle \/ GiveUpIdle \/ ReportStopped \/ ReturnTv \/ RestoreAv

Recover == RecoverPlayer \/ RecoverTv \/ RecoverAv

Next ==
    \/ Start \/ MonitorUntilStopped \/ FinishPlayback \/ Recover
    \/ RequestReplacement \/ WithdrawReplacement

Spec == Init /\ [][Next]_vars

\* The steps that make a call without a timeout: to Emby, to the HTTP interface
\* of the player, or to a television that is connected.  It may never return.
UntimedPc == {"read_app", "switch_tv", "start_oppo", "complete", "close",
              "report_stop", "return_tv", "recover_player", "recover_tv"}

\* Every other step returns or raises in time.  Nothing says that a playback
\* ever stops, so monitoring is not fair either.
Fairness == WF_vars(pc \notin UntimedPc /\ (Start \/ FinishPlayback \/ Recover))

FairSpec == Spec /\ Fairness

-------------------------------------------------------------------------------
(***************************************************************************)
(* What the run must guarantee.                                            *)
(***************************************************************************)

\* The screen and the sound are back where the run found them.  With no
\* application recalled the television decides for itself.
TvReturned == startup.previous # NoApp => screen = startup.previous

\* A run that ends successfully saw the player idle and told Emby; either it
\* gave the outputs back, or it left both on the player, so that the picture
\* does not flicker between an item and its replacement.
CleanEndIsSettled ==
    pc = "done" /\ Successful =>
        /\ finish.category = "IDLE"
        /\ server = "stopped"
        /\ finish.restore => TvReturned /\ (request.av => audio = "tv")
        /\ ~finish.restore =>
              /\ screen = Hdmi
              /\ request.av /\ request.input => audio = "player"

\* A run that ends any other way, in whatever phase it failed and with or
\* without a replacement waiting, has stopped the player and given back the
\* outputs, as far as the devices obeyed the recovery.
FailedEndIsRecovered ==
    pc = "done" /\ ~Successful =>
        /\ recovery.player = "success" => command = "stop"
        /\ recovery.tv = "success" => TvReturned
        /\ recovery.av = "success" => audio = "tv"
        /\ "pending" \notin {recovery.player, recovery.tv, recovery.av}

\* Emby believes that an ended playback still plays only if monitoring or the
\* stop report itself failed; and it never hears of a stop it had no start for.
ServerHearsTheEnd ==
    /\ pc = "done" /\ server = "playing" =>
          monitoring = NoMonitoring \/ ~FinishReturned
    /\ server = "stopped" => monitoring # NoMonitoring

\* While Emby has a playback that has not failed, the room is on the player:
\* the outputs are given back only after the player was settled (found idle,
\* or given up on) or told to stop.
OutputsFollowThePlayer ==
    [][ \/ screen = Hdmi /\ screen' # Hdmi
        \/ audio = "player" /\ audio' = "tv"
       => finish.idle # "pending" \/ recovery.player # "pending" ]_vars

CallsReturn == \A p \in UntimedPc : []<>(pc # p)

\* Whatever fails, a run that has left monitoring, or never came to it, ends,
\* unless a call without a timeout never returns.
RunsConclude == CallsReturn => (pc # "monitor" ~> pc \in {"monitor", "done"})

\* The part of the run the abstract specification sees.
Phase ==
    CASE pc \in StartupPc -> "starting"
      [] pc \in {"monitor", "resolve_outputs"} -> "playing"
      [] pc \in FinishPc -> "finishing"
      [] pc \in RecoveryPc -> "recovering"
      [] pc = "done" -> IF Successful THEN "clean" ELSE "failed"

Kept ==
    /\ ~finish.restore
    /\ \/ pc \in FinishPc
       \/ pc = "done" /\ Successful

\* The run keeps the promise the application service relies on.
Promise == INSTANCE PlaybackPromise WITH phase <- Phase, kept <- Kept

PromiseKept == Promise!Spec /\ (CallsReturn => Promise!Fairness)

\* README: the bridge "switches TV / AV inputs when configured".  A startup in
\* which every enabled device obeyed and the player started is successful.
ObeyedStartupSucceeds ==
    /\ startup.oppo = "started"
    /\ "failed" \notin {startup.tv, startup.power, startup.input}
    => StartupSuccessful(startup)

-------------------------------------------------------------------------------
(***************************************************************************)
(* The inductive invariant behind the safety properties: what each stretch *)
(* of the run has established for the next one.                            *)
(***************************************************************************)

BeforeFinish == StartupPc \cup {"monitor", "resolve_outputs"}
Untouched == {"pending", "skipped"}

\* What startup leaves behind, and that only a successful one is completed.
StartupFacts ==
    /\ startup.tv = "success" => request.tv
    /\ pc \notin {"read_app", "switch_tv", "power_av", "switch_av"}
         /\ startup.tv = "success" /\ request.av /\ request.input
       => startup.input \in {"success", "failed"}
    /\ pc \in {"complete", "monitor", "resolve_outputs"} \cup FinishPc
       => StartupSuccessful(startup)

\* The outputs stay on the player until the run itself moves them back.
OutputFacts ==
    /\ startup.tv = "success" /\ finish.tv \in Untouched
         /\ recovery.tv = "pending"
       => screen = Hdmi
    /\ startup.input = "success" /\ finish.av \in Untouched
         /\ recovery.av = "pending"
       => audio = "player"
    /\ finish.tv = "success" /\ recovery.tv = "pending" => TvReturned
    /\ finish.av = "success" /\ recovery.av = "pending" => audio = "tv"
    /\ recovery.player = "success" => command = "stop"
    /\ recovery.tv = "success" => TvReturned
    /\ recovery.av = "success" => audio = "tv"

\* The finish phase is taken step by step, after monitoring.
FinishFacts ==
    /\ pc \in StartupPc \cup {"monitor"} => monitoring = NoMonitoring
    /\ pc \in FinishPc \cup {"resolve_outputs"} => monitoring # NoMonitoring
    /\ pc \in BeforeFinish \cup {"resolve_polls", "close", "confirm"}
       => finish.idle = "pending"
    /\ pc \in (BeforeFinish \cup FinishPc) \ {"restore_av"}
       => finish.tv = "pending"
    /\ pc \in BeforeFinish \cup FinishPc => finish.av = "pending"
    /\ pc \in {"report_stop", "return_tv", "restore_av"}
       => finish.idle # "pending"
    /\ finish.idle # "skipped"
    /\ finish.idle = "success" => finish.category = "IDLE"
    /\ pc = "restore_av" =>
          finish.tv \in CommandResults(finish.restore /\ request.tv)
    /\ FinishReturned =>
          /\ finish.idle # "pending"
          /\ finish.tv \in CommandResults(finish.restore /\ request.tv)
          /\ finish.av \in CommandResults(finish.restore /\ request.av)

\* Emby hears of a stop only from a run that was monitored.
ServerFacts ==
    /\ server = "stopped" => monitoring # NoMonitoring
    /\ pc \in {"return_tv", "restore_av"} \/ FinishReturned => server = "stopped"

\* Recovery is run exactly by the runs that are not successful.
RecoveryFacts ==
    /\ pc \in RecoveryPc => ~Successful
    /\ \/ pc \in BeforeFinish \cup FinishPc \cup {"recover_player"}
       \/ pc = "done" /\ Successful
      => recovery = [player |-> "pending", tv |-> "pending", av |-> "pending"]
    /\ pc = "recover_tv" =>
          /\ recovery.player # "pending"
          /\ recovery.tv = "pending" /\ recovery.av = "pending"
    /\ pc = "recover_av" =>
          /\ recovery.player # "pending" /\ recovery.tv # "pending"
          /\ recovery.av = "pending"
    /\ pc = "done" /\ ~Successful =>
          "pending" \notin {recovery.player, recovery.tv, recovery.av}

IInv ==
    /\ TypeOK
    /\ StartupFacts
    /\ OutputFacts
    /\ FinishFacts
    /\ ServerFacts
    /\ RecoveryFacts

===============================================================================
