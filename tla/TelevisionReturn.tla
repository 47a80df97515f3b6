--------------------------- MODULE TelevisionReturn ---------------------------
(***************************************************************************)
(* What the television shows when playbacks are over.                      *)
(*                                                                         *)
(* Three places remember the application to return to.  The startup result *)
(* of a playback holds what the television showed before it was switched   *)
(* (previous); the LG adapter notes what it found when it switched         *)
(* (recalled: current_LG of the configuration, gone with the next reload); *)
(* and the application service keeps the first of a row of playbacks that  *)
(* replace each other (preserved), because the later ones find the input   *)
(* of the player there.  A row of such playbacks is called a flow.         *)
(*                                                                         *)
(* One flow after the other: playbacks that overlap are the subject of     *)
(* PlaybackApplication.                                                    *)
(***************************************************************************)

CONSTANTS
    Apps,        \* applications of the television
    Emby,        \* EMBY_APP_ID
    HdmiInputs,  \* its inputs, which it names like applications (com.webos.app.hdmi*)
    Hdmi,        \* the player's input
    NoApp        \* no application is known

ASSUME AppsAssumption ==
    /\ Emby \in Apps
    /\ Hdmi \in HdmiInputs
    /\ Apps \cap HdmiInputs = {}
    /\ NoApp \notin Apps \cup HdmiInputs

VARIABLES
    pc,          \* where the playback is
    on,          \* the television is on, and can be connected to
    screen,      \* what it shows, or will show when it is on again
    recalled,    \* config["current_LG"]
    preserved,   \* _playback_return_tv_app_id
    replacing,   \* _replacement_requested
    previous,    \* previous_tv_app_id of the startup result
    restore,     \* restore_outputs_on_finish, as the finish phase resolved it
    finished,    \* there is a finish result
    clean,       \* the result of the playback is successful
    flow         \* history of the flow, see Flows

television == <<on, screen, recalled>>
playback == <<previous, restore, finished, clean>>
vars == <<pc, television, preserved, replacing, playback, flow>>

Screens == Apps \cup HdmiInputs

\* origin: what the television showed when the flow began; awake: it was on
\* then; fresh: nothing was preserved then; replaced: a playback of the flow
\* replaced another; obeyed: every command has had its effect since, every
\* question was answered, and nobody else changed what the television shows.
Flows == [origin : Screens, awake : BOOLEAN, fresh : BOOLEAN,
          replaced : BOOLEAN, obeyed : BOOLEAN]

TypeOK ==
    /\ pc \in {"idle", "read", "switch", "play", "resolve", "finish", "recover",
               "remember", "clear", "reload"}
    /\ screen \in Screens
    /\ {recalled, previous} \subseteq Screens \cup {NoApp}
    /\ preserved \in Apps \cup {NoApp}
    /\ {on, replacing, restore, finished, clean} \subseteq BOOLEAN
    /\ flow \in Flows

Init ==
    /\ pc = "idle"
    /\ on \in BOOLEAN
    /\ screen \in Screens
    /\ recalled = NoApp
    /\ preserved = NoApp
    /\ replacing = FALSE
    /\ previous = NoApp
    /\ restore = TRUE
    /\ finished = FALSE
    /\ clean = TRUE
    /\ flow = [origin |-> screen, awake |-> on, fresh |-> TRUE,
               replaced |-> FALSE, obeyed |-> TRUE]

ObeyedIf(condition) == flow' = [flow EXCEPT !.obeyed = @ /\ condition]

-------------------------------------------------------------------------------
(* The viewer, and the requests of the replacement thread.                  *)

ViewerOpens(app) ==
    /\ on
    /\ screen' = app
    /\ ObeyedIf(FALSE)
    /\ UNCHANGED <<pc, on, recalled, preserved, replacing, playback>>

ViewerSwitchesPower ==
    /\ on' = ~on
    /\ ObeyedIf(FALSE)
    /\ UNCHANGED <<pc, screen, recalled, preserved, replacing, playback>>

StartPlayback ==
    /\ finished' = FALSE
    /\ previous' = NoApp
    /\ pc' = "read"
    /\ UNCHANGED <<television, preserved, restore, clean>>

NewFlow ==
    /\ pc = "idle"
    /\ ~replacing
    /\ StartPlayback
    /\ flow' = [origin |-> screen, awake |-> on, fresh |-> preserved = NoApp,
                replaced |-> FALSE, obeyed |-> TRUE]
    /\ UNCHANGED replacing

RequestReplacement ==
    /\ pc # "idle"
    /\ replacing' = TRUE
    /\ UNCHANGED <<pc, television, preserved, playback, flow>>

\* Stopping the active playback raised; there will be no replacement.
WithdrawReplacement ==
    /\ replacing
    /\ replacing' = FALSE
    /\ ObeyedIf(FALSE)
    /\ UNCHANGED <<pc, television, preserved, playback>>

\* The active playback has been joined; a failed one is not replaced.
ReplaceJoined ==
    /\ pc = "idle"
    /\ replacing
    /\ replacing' = FALSE
    /\ IF clean
       THEN StartPlayback /\ flow' = [flow EXCEPT !.replaced = TRUE]
       ELSE UNCHANGED <<pc, television, preserved, playback, flow>>

-------------------------------------------------------------------------------
(* Startup.                                                                 *)

\* The OPPO cannot be reached, and the thread ends with a reload; or preparing
\* the playback raised.  The outputs stay as they are.
PrepareFails ==
    /\ pc = "read"
    /\ pc' = "idle"
    /\ clean' \in BOOLEAN
    /\ recalled' \in {recalled, NoApp}
    /\ ObeyedIf(FALSE)
    /\ UNCHANGED <<on, screen, preserved, replacing, previous, restore, finished>>

\* The adapter does not wake a television to ask it.
Shown == IF on THEN {screen, NoApp} ELSE {NoApp}

ReadCurrentApp ==
    /\ pc = "read"
    /\ previous' \in IF preserved # NoApp THEN {preserved} ELSE Shown
    /\ ObeyedIf(on => previous' # NoApp)
    /\ pc' = "switch"
    /\ UNCHANGED <<television, preserved, replacing, restore, finished, clean>>

\* What the adapter finds first is remembered if the television tells it.  The
\* input counts as switched when set_input returned, confirmed or not.
SwitchToHdmi ==
    /\ pc = "switch"
    /\ on' = TRUE
    /\ recalled' \in {screen, recalled}
    /\ screen' \in {Hdmi, screen}
    /\ ObeyedIf(recalled' = screen /\ screen' = Hdmi)
    /\ pc' = "play"
    /\ UNCHANGED <<preserved, replacing, playback>>

\* The television does not come up within the time to wake it, or the
\* connection breaks before set_input has returned: the startup has failed,
\* whatever the player does.
SwitchFails ==
    /\ pc = "switch"
    /\ on' \in {on, TRUE}
    /\ recalled' \in {recalled} \cup (IF on' THEN {screen} ELSE {})
    /\ screen' \in {screen} \cup (IF on' THEN {Hdmi} ELSE {})
    /\ ObeyedIf(FALSE)
    /\ pc' = "recover"
    /\ clean' = FALSE
    /\ UNCHANGED <<preserved, replacing, previous, restore, finished>>

\* A player that does not start, and a monitoring that raises, lead to the
\* recovery.
PlaybackFails ==
    /\ pc = "play"
    /\ clean' = FALSE
    /\ pc' = "recover"
    /\ UNCHANGED <<television, preserved, replacing, previous, restore, finished, flow>>

PlaybackStops ==
    /\ pc = "play"
    /\ pc' = "resolve"
    /\ UNCHANGED <<television, preserved, replacing, playback, flow>>

-------------------------------------------------------------------------------
(* Finish and recovery.                                                     *)

Resolve ==
    /\ pc = "resolve"
    /\ restore' = ~replacing
    /\ pc' = "finish"
    /\ UNCHANGED <<television, preserved, replacing, previous, finished, clean, flow>>

Target ==
    IF previous # NoApp THEN previous
    ELSE IF recalled # NoApp THEN recalled ELSE Emby

\* return_to_app: a known application overwrites the noted one; a television
\* that is off is not woken.
ReturnToApp(succeeds) ==
    /\ succeeds => on
    /\ recalled' = IF previous # NoApp THEN previous ELSE recalled
    /\ screen' \in IF on THEN {Target, screen} ELSE {screen}
    /\ ObeyedIf(succeeds /\ screen' = Target)
    /\ UNCHANGED on

\* The finish phase, whose other steps may fail too, or raise.
Finish ==
    /\ pc = "finish"
    /\ finished' = TRUE
    /\ \E succeeds \in BOOLEAN :
          /\ IF restore
             THEN ReturnToApp(succeeds)
             ELSE succeeds /\ UNCHANGED <<television, flow>>
          /\ clean' \in {FALSE, succeeds}
    /\ pc' = IF clean' THEN "remember" ELSE "recover"
    /\ UNCHANGED <<preserved, replacing, previous, restore>>

FinishRaises ==
    /\ pc = "finish"
    /\ clean' = FALSE
    /\ pc' = "recover"
    /\ UNCHANGED <<television, preserved, replacing, previous, restore, finished, flow>>

Recover ==
    /\ pc = "recover"
    /\ \E succeeds \in BOOLEAN : ReturnToApp(succeeds)
    /\ pc' = "remember"
    /\ UNCHANGED <<preserved, replacing, playback>>

-------------------------------------------------------------------------------
(* The application service, after play_until_stopped.                       *)

\* No input is preserved (_is_lg_hdmi_app_id), not even one that is not the player's.
Remember ==
    /\ pc = "remember"
    /\ preserved' = IF previous \in HdmiInputs \cup {NoApp} THEN preserved ELSE previous
    /\ pc' = "clear"
    /\ UNCHANGED <<television, replacing, playback, flow>>

\* Mutant: every playback that came to a finish clears what is preserved.
ClearFinished ==
    /\ pc = "clear"
    /\ preserved' = IF finished THEN NoApp ELSE preserved
    /\ pc' = "reload"
    /\ UNCHANGED <<television, replacing, playback, flow>>

Clear ==
    /\ pc = "clear"
    /\ preserved' = IF ~replacing /\ finished THEN NoApp ELSE preserved
    /\ pc' = "reload"
    /\ UNCHANGED <<television, replacing, playback, flow>>

\* The configuration is read again, without what the adapter noted in it.
ReloadConfig ==
    /\ pc = "reload"
    /\ recalled' = NoApp
    /\ pc' = "idle"
    /\ UNCHANGED <<on, screen, preserved, replacing, playback, flow>>

\* Looking at the result, powering down or reloading raises, and the thread ends;
\* the result that a replacement then finds may be an older one.
RunRaises ==
    /\ pc \in {"remember", "reload"}
    /\ pc' = "idle"
    /\ clean' \in BOOLEAN
    /\ ObeyedIf(FALSE)
    /\ UNCHANGED <<television, preserved, replacing, previous, restore, finished>>

Next ==
    \/ \E app \in Screens : ViewerOpens(app)
    \/ ViewerSwitchesPower
    \/ NewFlow
    \/ RequestReplacement
    \/ WithdrawReplacement
    \/ ReplaceJoined
    \/ PrepareFails
    \/ ReadCurrentApp
    \/ SwitchToHdmi
    \/ SwitchFails
    \/ PlaybackFails
    \/ PlaybackStops
    \/ Resolve
    \/ Finish
    \/ FinishRaises
    \/ Recover
    \/ Remember
    \/ Clear
    \/ ReloadConfig
    \/ RunRaises

Spec == Init /\ [][Next]_vars

-------------------------------------------------------------------------------
(* Properties.                                                              *)

FlowIsOver == pc = "idle" /\ ~replacing

\* The flows that come back.
Returning ==
    /\ flow.obeyed
    /\ flow.fresh
    /\ flow.replaced => flow.awake /\ flow.origin \in Apps \cup {Hdmi}

IsBack == screen = flow.origin

\* After a flow in which the television obeyed, it shows what it showed before,
\* however many playbacks replaced each other, whichever of them failed and
\* whenever the replacements were asked for: if nothing was preserved from an
\* older flow, and no playback was replaced, or the flow began with the television
\* on and showing an application or the player.  A flow of several playbacks that
\* began on another input ends on the player: inputs are not preserved
\* (_remember_playback_return_tv_app_id, _clear_..._after_final_finish).
FlowReturns == FlowIsOver /\ Returning => IsBack

-------------------------------------------------------------------------------
(***************************************************************************)
(* The inductive invariant of module OutputDevices_proofs.                 *)
(***************************************************************************)

Switched == {"play", "resolve", "finish", "recover"}
Over     == {"remember", "clear", "reload", "idle"}

\* What is remembered of such a flow is where it began; a television that was off
\* then is remembered by the adapter alone.
RememberedFacts ==
    /\ flow.awake => on
    /\ pc \in {"read", "switch"} /\ ~flow.awake => ~on
    /\ preserved \in {NoApp, flow.origin}
    /\ ~flow.awake => preserved = NoApp
    /\ pc \in {"switch", "remember"} \cup Switched =>
           previous = IF flow.awake THEN flow.origin ELSE NoApp
    /\ pc \in Switched /\ ~flow.awake => recalled = flow.origin

\* It shows the player, or is back; it is left on the player only for a
\* replacement that will come, and then what is preserved tells where to return.
ScreenFacts ==
    /\ pc \in {"play", "resolve", "finish"} => screen = Hdmi
    /\ ~IsBack => screen = Hdmi
    /\ pc = "finish" /\ ~restore => replacing
    /\ pc \in {"read", "switch"} /\ ~IsBack => flow.replaced /\ preserved = flow.origin
    /\ pc \in Over /\ ~IsBack => replacing /\ clean
    /\ pc \in Over \ {"remember"} /\ ~IsBack /\ flow.awake =>
           preserved = flow.origin \/ flow.origin \in HdmiInputs

IInv == TypeOK /\ (Returning => RememberedFacts /\ ScreenFacts)

===============================================================================
