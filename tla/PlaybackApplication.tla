------------------------- MODULE PlaybackApplication -------------------------
(***************************************************************************)
(* PlaybackApplicationService: the threads behind a request to play.  The  *)
(* WebSocket thread and the HTTP server's thread call request_playback;    *)
(* each request may become a replacement thread, which stops the active    *)
(* playback and waits for it, and a playback thread, which runs one        *)
(* orchestrated playback.  A request names its three threads' states here. *)
(*                                                                         *)
(* What a playback does to the room is module PlaybackOrchestration; here  *)
(* it goes through the phases of PlaybackPromise.                          *)
(***************************************************************************)
EXTENDS Naturals, FiniteSets

CONSTANTS
    WsRequests,     \* requests served by the WebSocket thread
    HttpRequests,   \* requests served by the HTTP server's thread
    Items,          \* media items
    None            \* no thread, no item

ASSUME RequestsAssumption ==
    WsRequests \cap HttpRequests = {} /\ None \notin WsRequests \cup HttpRequests
ASSUME ItemsAssumption == None \notin Items

Requests == WsRequests \cup HttpRequests

VARIABLES
    playstate,    \* the session's playstate
    currentdata,  \* the item of the session's currentdata
    item,         \* the item of a request
    call,         \* where the call of request_playback stands
    replacer,     \* where the replacement thread of a request stands
    run,          \* where the playback thread of a request stands
    phase,        \* the phase of its orchestrated playback
    kept,         \* it leaves the outputs on the player
    outputs,      \* where the television and the receiver are, see Places
    old,          \* the playback thread a replacement thread found active
    active,       \* _active_thread
    replacement,  \* _replacement_thread
    requested,    \* _replacement_requested
    lastResult,   \* _last_playback_result
    latest,       \* history: the playback thread that became active last
    outdated,     \* history: the playbacks whose result is not the last one any more
    overlapped    \* history: a playback thread was created while others worked

playback == <<run, phase, kept, outputs>>
service == <<active, replacement, requested, lastResult, latest, outdated>>
vars == <<playstate, currentdata, item, call, replacer, playback, old, service,
          overlapped>>

CallPc == {"unasked", "wait", "decide", "start", "replace", "launch_run",
           "launch_replacer", "answered"}
ReplacerLive == {"read_active", "request_stop", "stop", "join", "judge",
                 "create_run", "launch_run"}
ReplacerEnd == {"stop_raised", "skipped", "replaced"}
RunLive == {"begin", "prepare", "orchestrate", "return", "unwind_returned",
            "unwind_raised"}
RunEnd == {"returned", "raised"}
Phases == {"starting", "playing", "finishing", "recovering", "clean", "failed"}

\* Not on the player; on it; on it still, after a recovery that could not return them.
Places == {"home", "player", "left"}

TypeOK ==
    /\ playstate \in {"Free", "Loading", "Playing"}
    /\ currentdata \in Items \cup {None}
    /\ item \in [Requests -> Items \cup {None}]
    /\ call \in [Requests -> CallPc]
    /\ replacer \in [Requests -> {"none", "created"} \cup ReplacerLive \cup ReplacerEnd]
    /\ run \in [Requests -> {"none", "created"} \cup RunLive \cup RunEnd]
    /\ phase \in [Requests -> Phases]
    /\ kept \in [Requests -> BOOLEAN]
    /\ outputs \in Places
    /\ old \in [Requests -> Requests \cup {None}]
    /\ active \in Requests \cup {None}
    /\ replacement \in Requests \cup {None}
    /\ requested \in BOOLEAN
    /\ lastResult \in {"none", "clean", "failed"}
    /\ latest \in Requests \cup {None}
    /\ outdated \subseteq Requests
    /\ overlapped \in BOOLEAN

Init ==
    /\ playstate = "Free"
    /\ currentdata = None
    /\ item = [q \in Requests |-> None]
    /\ call = [q \in Requests |-> "unasked"]
    /\ replacer = [q \in Requests |-> "none"]
    /\ run = [q \in Requests |-> "none"]
    /\ phase = [q \in Requests |-> "starting"]
    /\ kept = [q \in Requests |-> FALSE]
    /\ outputs = "home"
    /\ old = [q \in Requests |-> None]
    /\ active = None
    /\ replacement = None
    /\ requested = FALSE
    /\ lastResult = "none"
    /\ latest = None
    /\ outdated = {}
    /\ overlapped = FALSE

-------------------------------------------------------------------------------
(***************************************************************************)
(* request_playback, in the thread of the caller.                          *)
(***************************************************************************)

\* The requests that the thread serving q serves: one after the other.
SameCaller(q) == IF q \in WsRequests THEN WsRequests ELSE HttpRequests

\* A thread object exists before it is alive.
ReplacerAlive(q) == q # None /\ replacer[q] \in ReplacerLive
RunAlive(q) == q # None /\ run[q] \in RunLive

\* A request for the item that is being loaded or played is answered at once.
Ask(q) ==
    /\ call[q] = "unasked"
    /\ \A other \in SameCaller(q) : call[other] \in {"unasked", "answered"}
    /\ \E i \in Items :
          /\ item' = [item EXCEPT ![q] = i]
          /\ call' = [call EXCEPT ![q] =
                        IF playstate # "Free" /\ currentdata = i
                        THEN "answered" ELSE "wait"]
    /\ UNCHANGED <<playstate, currentdata, replacer, playback, old, service,
                   overlapped>>

\* The caller waits while a playback loads, but not for ever: after a minute
\* it goes on, whatever is loading.
LoadingSettles(q) ==
    /\ call[q] = "wait"
    /\ playstate # "Loading"
    /\ call' = [call EXCEPT ![q] = "decide"]
    /\ UNCHANGED <<playstate, currentdata, item, replacer, playback, old, service,
                   overlapped>>

WaitTimesOut(q) ==
    /\ call[q] = "wait"
    /\ playstate = "Loading"
    /\ call' = [call EXCEPT ![q] = "decide"]
    /\ UNCHANGED <<playstate, currentdata, item, replacer, playback, old, service,
                   overlapped>>

Decide(q) ==
    /\ call[q] = "decide"
    /\ call' = [call EXCEPT ![q] =
                  IF playstate = "Playing" THEN "replace" ELSE "start"]
    /\ UNCHANGED <<playstate, currentdata, item, replacer, playback, old, service,
                   overlapped>>

OthersWork(q) ==
    \/ \E r \in Requests : run[r] \in {"created"} \cup RunLive
    \/ \E r \in Requests \ {q} : replacer[r] \in {"created"} \cup ReplacerLive

\* start, and the last lines of _run_replace: the thread object becomes the
\* active one under the lock ...
CreateRun(q) ==
    /\ run' = [run EXCEPT ![q] = "created"]
    /\ active' = q
    /\ latest' = q
    /\ overlapped' = (overlapped \/ OthersWork(q))
    /\ UNCHANGED <<phase, kept, outputs, replacement, requested, lastResult, outdated>>

\* ... and is started after it.
LaunchRun(q) ==
    /\ run' = [run EXCEPT ![q] = "begin"]
    /\ UNCHANGED <<phase, kept, outputs>>

Start(q) ==
    /\ call[q] = "start"
    /\ CreateRun(q)
    /\ call' = [call EXCEPT ![q] = "launch_run"]
    /\ UNCHANGED <<playstate, currentdata, item, replacer, old>>

StartLaunch(q) ==
    /\ call[q] = "launch_run"
    /\ LaunchRun(q)
    /\ call' = [call EXCEPT ![q] = "answered"]
    /\ UNCHANGED <<playstate, currentdata, item, replacer, old, service, overlapped>>

Replace(q) ==
    /\ call[q] = "replace"
    /\ ~ReplacerAlive(replacement)
    /\ replacer' = [replacer EXCEPT ![q] = "created"]
    /\ replacement' = q
    /\ call' = [call EXCEPT ![q] = "launch_replacer"]
    /\ UNCHANGED <<playstate, currentdata, item, playback, old, active, requested,
                   lastResult, latest, outdated, overlapped>>

RejectReplace(q) ==
    /\ call[q] = "replace"
    /\ ReplacerAlive(replacement)
    /\ call' = [call EXCEPT ![q] = "answered"]
    /\ UNCHANGED <<playstate, currentdata, item, replacer, playback, old, service,
                   overlapped>>

ReplaceLaunch(q) ==
    /\ call[q] = "launch_replacer"
    /\ replacer' = [replacer EXCEPT ![q] = "read_active"]
    /\ call' = [call EXCEPT ![q] = "answered"]
    /\ UNCHANGED <<playstate, currentdata, item, playback, old, service, overlapped>>

-------------------------------------------------------------------------------
(***************************************************************************)
(* _run_replace, in the replacement thread.                                *)
(***************************************************************************)

GoTo(q, step) ==
    /\ replacer' = [replacer EXCEPT ![q] = step]
    /\ UNCHANGED <<playstate, currentdata, item, call>>

ReadActive(q) ==
    /\ replacer[q] = "read_active"
    /\ IF RunAlive(active)
       THEN old' = [old EXCEPT ![q] = active] /\ GoTo(q, "request_stop")
       ELSE UNCHANGED old /\ GoTo(q, "create_run")
    /\ UNCHANGED <<playback, service, overlapped>>

RequestStop(q) ==
    /\ replacer[q] = "request_stop"
    /\ requested' = TRUE
    /\ GoTo(q, "stop")
    /\ UNCHANGED <<playback, old, active, replacement, lastResult, latest, outdated,
                   overlapped>>

\* STP ends what the player plays, and is lost on a playback that still starts:
\* the playback may stop after it, as it may stop at any time.
StopActive(q) ==
    /\ replacer[q] = "stop"
    /\ GoTo(q, "join")
    /\ UNCHANGED <<playback, old, service, overlapped>>

\* A mutant: the event is cleared only when the stop did not raise.
StopRaisesEventSet(q) ==
    /\ replacer[q] = "stop"
    /\ GoTo(q, "stop_raised")
    /\ UNCHANGED <<playback, old, service, overlapped>>

\* The exception ends the thread, after the event is cleared.
StopRaises(q) ==
    /\ replacer[q] = "stop"
    /\ requested' = FALSE
    /\ GoTo(q, "stop_raised")
    /\ UNCHANGED <<playback, old, active, replacement, lastResult, latest, outdated,
                   overlapped>>

\* A mutant: the event is left set for the playback that follows.
JoinEventSet(q) ==
    /\ replacer[q] = "join"
    /\ ~RunAlive(old[q])
    /\ GoTo(q, "judge")
    /\ UNCHANGED <<playback, old, service, overlapped>>

Join(q) ==
    /\ replacer[q] = "join"
    /\ ~RunAlive(old[q])
    /\ requested' = FALSE
    /\ GoTo(q, "judge")
    /\ UNCHANGED <<playback, old, active, replacement, lastResult, latest, outdated,
                   overlapped>>

\* A mutant: the result of the replaced playback does not matter.
JudgeNothing(q) ==
    /\ replacer[q] = "judge"
    /\ GoTo(q, "create_run")
    /\ UNCHANGED <<playback, old, service, overlapped>>

\* The result judged is the last one any playback returned.
Judge(q) ==
    /\ replacer[q] = "judge"
    /\ GoTo(q, IF lastResult = "failed" THEN "skipped" ELSE "create_run")
    /\ UNCHANGED <<playback, old, service, overlapped>>

ReplacerCreateRun(q) ==
    /\ replacer[q] = "create_run"
    /\ CreateRun(q)
    /\ GoTo(q, "launch_run")
    /\ UNCHANGED old

ReplacerLaunchRun(q) ==
    /\ replacer[q] = "launch_run"
    /\ LaunchRun(q)
    /\ GoTo(q, "replaced")
    /\ UNCHANGED <<old, service, overlapped>>

-------------------------------------------------------------------------------
(***************************************************************************)
(* _run_start, in the playback thread.                                     *)
(***************************************************************************)

Elsewhere == <<item, call, replacer, old>>

Begin(q) ==
    /\ run[q] = "begin"
    /\ run' = [run EXCEPT ![q] = "prepare"]
    /\ playstate' = "Loading"
    /\ currentdata' = item[q]
    /\ UNCHANGED <<Elsewhere, phase, kept, outputs, service, overlapped>>

\* The payload is parsed, the control API activated, the source client stopped
\* and the media path resolved.
Prepare(q) ==
    /\ run[q] = "prepare"
    /\ run' = [run EXCEPT ![q] = "orchestrate"]
    /\ UNCHANGED <<Elsewhere, playstate, currentdata, phase, kept, outputs, service,
                   overlapped>>

HasResult(q) == run[q] \in {"unwind_returned", "returned"}

\* What a playback hands over takes the place of every result before it.
HandOver(result) ==
    /\ lastResult' = result
    /\ outdated' = {r \in Requests : HasResult(r)}

\* Without the control API the playback is given up, and there is no result.
ControlApiUnavailable(q) ==
    /\ run[q] = "prepare"
    /\ run' = [run EXCEPT ![q] = "unwind_returned"]
    /\ playstate' = "Free"
    /\ HandOver("none")
    /\ UNCHANGED <<Elsewhere, currentdata, phase, kept, outputs, active, replacement,
                   requested, latest, overlapped>>

\* Nothing on the way catches an exception of the preparation, or of the
\* message and the power commands after the orchestrated playback.
RunRaises(q) ==
    /\ \/ run[q] = "prepare"
       \/ run[q] = "orchestrate" /\ phase[q] \in {"clean", "failed"}
    /\ run' = [run EXCEPT ![q] = "unwind_raised"]
    /\ UNCHANGED <<Elsewhere, playstate, currentdata, phase, kept, outputs, service,
                   overlapped>>

Moves(q, from, to) ==
    /\ run[q] = "orchestrate"
    /\ phase[q] \in from
    /\ phase' = [phase EXCEPT ![q] = to]
    /\ UNCHANGED <<Elsewhere, run, currentdata, service, overlapped>>

PlaybackBegins(q) ==
    /\ Moves(q, {"starting"}, "playing")
    /\ playstate' = "Playing"
    /\ outputs' = "player"
    /\ UNCHANGED kept

\* Whether the outputs are returned is asked when the player has stopped.
PlaybackStops(q) ==
    /\ Moves(q, {"playing"}, "finishing")
    /\ kept' = [kept EXCEPT ![q] = requested]
    /\ UNCHANGED <<playstate, outputs>>

\* A startup may have switched the outputs before it failed.
PlaybackFails(q) ==
    /\ Moves(q, {"starting", "playing", "finishing"}, "recovering")
    /\ kept' = [kept EXCEPT ![q] = FALSE]
    /\ outputs' \in {outputs} \cup (IF phase[q] = "starting" THEN {"player"} ELSE {})
    /\ UNCHANGED playstate

\* A playback that ends cleanly has returned the outputs, unless it keeps them; a
\* recovery that returns them may fail in that.
PlaybackEnds(q) ==
    /\ \/ /\ Moves(q, {"finishing"}, "clean")
          /\ outputs' = IF kept[q] THEN outputs ELSE "home"
       \/ /\ Moves(q, {"recovering"}, "failed")
          /\ \/ outputs' = "home"
             \/ outputs # "home" /\ outputs' = "left"
    /\ UNCHANGED <<playstate, kept>>

\* A mutant: the session of a playback that failed is not reset.
ResetIfClean(q) ==
    /\ run[q] = "orchestrate"
    /\ phase[q] \in {"clean", "failed"}
    /\ run' = [run EXCEPT ![q] = "return"]
    /\ playstate' = IF phase[q] = "clean" THEN "Free" ELSE playstate
    /\ UNCHANGED <<Elsewhere, currentdata, phase, kept, outputs, service,
                   overlapped>>

\* The session is reset before the result is handed over.
Reset(q) ==
    /\ run[q] = "orchestrate"
    /\ phase[q] \in {"clean", "failed"}
    /\ run' = [run EXCEPT ![q] = "return"]
    /\ playstate' = "Free"
    /\ UNCHANGED <<Elsewhere, currentdata, phase, kept, outputs, service, overlapped>>

Return(q) ==
    /\ run[q] = "return"
    /\ run' = [run EXCEPT ![q] = "unwind_returned"]
    /\ HandOver(phase[q])
    /\ UNCHANGED <<Elsewhere, playstate, currentdata, phase, kept, outputs, active,
                   replacement, requested, latest, overlapped>>

\* A mutant: the thread that ends does not ask whether it is the active one.
UnwindUnasked(q) ==
    /\ run[q] \in {"unwind_returned", "unwind_raised"}
    /\ run' = [run EXCEPT ![q] =
                 IF run[q] = "unwind_returned" THEN "returned" ELSE "raised"]
    /\ active' = None
    /\ UNCHANGED <<Elsewhere, playstate, currentdata, phase, kept, outputs,
                   replacement, requested, lastResult, latest, outdated, overlapped>>

\* The configuration is reloaded, or not, and the thread ends; it may not be
\* the active one any more.
Unwind(q) ==
    /\ run[q] \in {"unwind_returned", "unwind_raised"}
    /\ run' = [run EXCEPT ![q] =
                 IF run[q] = "unwind_returned" THEN "returned" ELSE "raised"]
    /\ active' = IF active = q THEN None ELSE active
    /\ UNCHANGED <<Elsewhere, playstate, currentdata, phase, kept, outputs,
                   replacement, requested, lastResult, latest, outdated, overlapped>>

-------------------------------------------------------------------------------
Caller(q) ==
    \/ LoadingSettles(q) \/ WaitTimesOut(q) \/ Decide(q) \/ Start(q)
    \/ StartLaunch(q) \/ Replace(q) \/ RejectReplace(q) \/ ReplaceLaunch(q)

Replacer(q) ==
    \/ ReadActive(q) \/ RequestStop(q) \/ StopActive(q) \/ StopRaises(q)
    \/ Join(q) \/ Judge(q) \/ ReplacerCreateRun(q) \/ ReplacerLaunchRun(q)

PlaybackLeaves(q) == PlaybackStops(q) \/ PlaybackFails(q)

Playback(q) ==
    \/ Begin(q) \/ Prepare(q) \/ ControlApiUnavailable(q) \/ RunRaises(q)
    \/ PlaybackBegins(q) \/ PlaybackLeaves(q) \/ PlaybackEnds(q) \/ Reset(q)
    \/ Return(q) \/ Unwind(q)

Next == \E q \in Requests : Ask(q) \/ Caller(q) \/ Replacer(q) \/ Playback(q)

Spec == Init /\ [][Next]_vars

-------------------------------------------------------------------------------
(***************************************************************************)
(* What the service guarantees however its threads interleave.             *)
(***************************************************************************)

\* No thread of a request is at work, and no playback thread is about to be.
Quiet ==
    \A q \in Requests :
        /\ call[q] \in {"unasked", "answered"}
        /\ replacer[q] \notin {"created"} \cup ReplacerLive
        /\ run[q] \notin {"created"} \cup RunLive

NothingRaised == \A q \in Requests : run[q] # "raised"

\* The event that keeps the outputs on the player is set only while a
\* replacement thread is about to stop, or waits for, a playback: it does not
\* leak into the playbacks to come when that stop raises.
EventHasAnOwner ==
    requested => \E q \in Requests : replacer[q] \in {"stop", "join"}

\* The thread that a replacement has to stop is the one that became active
\* last, from its creation to its end: a thread that ends late does not take
\* the place from its successor.
ActiveIsTheLatest ==
    active = IF latest # None /\ run[latest] \notin RunEnd THEN latest ELSE None

\* When all is quiet and no playback thread was ended by an exception, the
\* session is free for the next request, whatever overlapped before.
QuietIsFree == Quiet /\ NothingRaised => playstate = "Free"

\* The failure of a playback that was stopped for a replacement is overlooked only
\* if playbacks overlapped, and another one handed over its result, or gave up,
\* between the failed one's result and the look at it; or if the failed one was
\* ended by an exception.
FailureIsSeldomOverlooked ==
    \A q \in Requests :
        /\ replacer[q] = "create_run" /\ old[q] # None
        /\ run[old[q]] = "returned" /\ phase[old[q]] = "failed"
        => overlapped /\ old[q] \in outdated

\* When all is quiet no outputs are on the player, except those that a recovery
\* tried to return and could not: however often they were kept for a replacement,
\* and whichever playback came of it, as long as no playback thread was created
\* while another thread still worked, and every stop and every playback was
\* carried through.
OutputsComeHome ==
    /\ Quiet /\ ~overlapped /\ NothingRaised
    /\ \A q \in Requests : replacer[q] # "stop_raised"
    /\ \A q \in Requests : run[q] = "returned" => phase[q] \in {"clean", "failed"}
    => outputs # "player"

-------------------------------------------------------------------------------
(***************************************************************************)
(* What the documents say of it.                                           *)
(***************************************************************************)

\* README: active playback is replaced "without remounting over an
\* already-playing OPPO session".
NoStartOverAPlayingSession ==
    \A q, r \in Requests :
        /\ run[q] = "orchestrate" /\ phase[q] = "starting"
        /\ run[r] = "orchestrate" /\ phase[r] = "playing"
        => q = r

-------------------------------------------------------------------------------
(***************************************************************************)
(* The inductive invariant of module PlaybackApplication_proofs.           *)
(***************************************************************************)

\* A request goes one way: it creates one playback thread at most, in its call or in
\* its replacement thread.
BeforeRun == {"read_active", "request_stop", "stop", "join", "judge", "create_run"}

ThreadFacts ==
    \A q \in Requests :
        /\ call[q] \notin {"launch_replacer", "answered"} => replacer[q] = "none"
        /\ call[q] = "launch_replacer" => replacer[q] = "created"
        /\ call[q] = "launch_run" \/ replacer[q] = "launch_run" => run[q] = "created"
        /\ call[q] \notin {"launch_run", "answered"} \/ replacer[q] \in BeforeRun
               => run[q] = "none"
        /\ run[q] \in {"none", "created", "begin", "prepare"} => phase[q] = "starting"
        /\ run[q] = "return" => phase[q] \in {"clean", "failed"}

\* A session that is not free has a thread that will reset it, or raised.
SessionFacts ==
    playstate # "Free" =>
        \E q \in Requests : run[q] \in {"prepare", "orchestrate", "unwind_raised", "raised"}

\* A failure is the last result until another thread hands over its own.
ResultFacts ==
    /\ \A o \in outdated : HasResult(o)
    /\ \A o \in Requests : HasResult(o) /\ phase[o] = "failed" =>
           lastResult = "failed" \/ o \in outdated

\* A thread that has waited for a playback knows that it has ended.
WaitFacts ==
    \A q \in Requests :
        /\ replacer[q] \in {"none", "created", "read_active"} => old[q] = None
        /\ replacer[q] \in {"request_stop", "stop", "join"} =>
               old[q] # None /\ run[old[q]] \in RunLive \cup RunEnd
        /\ replacer[q] \in {"judge", "create_run", "launch_run", "replaced"} =>
               old[q] = None \/ run[old[q]] \in RunEnd

\* Without overlaps only the playback created last is at work, its result is not
\* outdated, and the thread that waits waits for it.
LatestFacts ==
    /\ \A q \in Requests : run[q] \in {"created"} \cup RunLive => q = latest
    /\ latest \notin outdated
    /\ \A q \in Requests :
           replacer[q] \in {"request_stop", "stop", "join", "judge"} => old[q] = latest

\* The runs OutputsComeHome speaks of.
Undisturbed ==
    /\ ~overlapped
    /\ \A q \in Requests :
           /\ run[q] \notin {"unwind_raised", "raised"}
           /\ replacer[q] # "stop_raised"
           /\ HasResult(q) => phase[q] \in {"clean", "failed"}

\* A playback, or a thread that is going to create one, which will return the outputs.
WillReturn(q) ==
    \/ run[q] \in {"created", "begin", "prepare"}
    \/ run[q] = "orchestrate" /\ phase[q] \notin {"clean", "failed"}
    \/ replacer[q] \in {"stop", "join"} /\ old[q] # None /\ phase[old[q]] = "clean"
    \/ replacer[q] = "judge" /\ lastResult = "clean"
    \/ replacer[q] \in {"create_run", "launch_run"}

\* The last result is that of the latest playback, and outputs are kept only for a
\* thread that waits for the playback that keeps them.
OutputFacts ==
    /\ \A q \in Requests : HasResult(q) /\ q = latest => lastResult = phase[q]
    /\ \A q \in Requests : run[q] = "orchestrate" /\ phase[q] = "finishing" /\ kept[q] =>
           \E r \in Requests : replacer[r] \in {"stop", "join"} /\ old[r] = q
    /\ outputs = "player" => \E q \in Requests : WillReturn(q)

IInv ==
    /\ TypeOK
    /\ ThreadFacts
    /\ SessionFacts
    /\ ResultFacts
    /\ WaitFacts
    /\ FailureIsSeldomOverlooked
    /\ ~overlapped => LatestFacts
    /\ Undisturbed => OutputFacts
    /\ EventHasAnOwner
    /\ ActiveIsTheLatest

===============================================================================
