# Home Cinema Bridge, modelled in TLA+

The bridge watches an Emby server.  When a client it monitors starts an item,
or a remote client asks for one, it takes the playback over: it switches the
television and the AV receiver to an OPPO player, mounts the share the item is
on, plays it there, reports progress to Emby, and gives the room back when the
item ends.  It is a small program around slow and unreliable devices: every
command is a network call that may be lost, carried out without an answer, or
answered late, and the interesting behaviour is what remains when some of them
fail while several threads pull at the same playback.

## Inventory

Paths are below `src/`; `hcb/` stands for `src/src/home_cinema_bridge/`.

| Component | State | Operations | What makes it correct |
|---|---|---|---|
| Application service, `hcb/playback/application.py` | the active and the replacement thread, the event `_replacement_requested`, `_last_playback_result`, the preserved return application; it writes `playstate` and `currentdata` of the Emby session | `request_playback`, `start`, `replace`, and the bodies of the two kinds of threads | one playback at a time, replaced only after it ended; the session is free when nothing is at work; no outputs are forgotten on the player; a chain of playbacks returns to where the first one began |
| Orchestrator, `hcb/playback/orchestrator.py`, `startup/`, `finish/`, `error_handling.py` | the results of the phases of one playback | `play_until_stopped` | a playback that ends well is settled, one that fails is recovered from, and Emby hears of both |
| Monitor, `hcb/playback/during/` | four counters, the last position | `monitor_until_stopped` | it ends when the playback ends and not before, keeps the position, reports in time |
| Progress publisher, `hcb/media_servers/emby/playback.py` | the last position it reported | `started`, `progress`, `stopped` | progress is neither flooded nor starved |
| Emby WebSocket client, `lib/Emby_ws.py` | `MonitoredState`, the configuration | messages `Sessions`, `Play`, `Playstate`, `GeneralCommand` | each viewing is handed over once, and in order |
| Command handler, `hcb/media_servers/emby/playback_command_handler.py` | none (it changes `currentdata`) | play, tracks, and keys and seeks that no message reaches | a note in the session is what the player shows; commands reach the playback they are meant for |
| Item selection, `hcb/media_servers/emby/session_events.py`, `playback_request.py` | none | three readers of a play request | they find the same item |
| OPPO start, `hcb/devices/oppo/media_control_playback.py`, `playback_state_waiter.py` | none | sign in, mount, play, wait for active playback, select tracks | the verdict is right about the player |
| Control API activation, `lib/devices/oppo/control_api_activation.py` | none | probe and notify in turn | bounded, and honest about the last probe |
| LG television, `hcb/devices/tv/adapters/lg.py` | the recalled application | wake, switch to HDMI, confirm, return | returns to where the viewer was |
| AV receivers, `hcb/devices/av/` | none | power, input, TV audio; a retrier that confirms the input | the input survives ARC redirection |
| Configuration, `lib/config_manager.py`, `hcb/web/runtime_config.py` | the public and the secret file, the copy of the Emby client | load, save, migrate, reload | no value is lost, no password stays public, what is used was saved |
| Media location, `hcb/playback/media_location.py`, `hcb/web/path_config.py` | none | maps a server path to a share: the mappings are applied one after the other, each replacing its path wherever it occurs | what is played is in the folder the test of its mapping has mounted |
| Web server, `xnoppo_web.py`, `hcb/web/` | the configuration | forms, the test of a path, `/start_movie`, restart | one request at a time, each of which ends |
| Clients, `hcb/network/`, `lib/devices/oppo/control_api_client.py`, `lib/Emby_http.py`, `hcb/media_servers/emby/client.py` | none | I/O | a timeout is an empty answer, a reset raises |

They interact so.  The WebSocket thread and the thread of the HTTP server (a
plain `HTTPServer`: one request after the other) call `request_playback`; that
call creates a *playback thread*, or a *replacement thread* which stops the
active playback, joins its thread and creates the next one.  The playback
thread runs the orchestrator, which calls the devices and Emby, and reloads the
configuration when it ends.  The WebSocket thread also
selects tracks on the player, and the HTTP thread mounts and ejects on it to
test a path, without looking at what the playback thread does.  What the
threads share is `playstate` and `currentdata` (no lock), the configuration (no
lock), the two thread attributes (under `_thread_lock`), the event, the last
result (no lock), and the player.

Hard to test, and what the properties aim at: requests that decide on a
`playstate` their rival is about to change; a thread object that exists and is
not alive yet; a result that is another playback's; a stop that is lost or
raises; a failure in any step of startup, finish or recovery, with or without
the command's effect; play requests that time out and are obeyed; probes that
are not answered; seeks during the confirmation of an end; snapshots that are
read a minute late; a receiver that is redirected while it is watched; files
that are torn by a crash; notes that are written into the request of another
playback.  `PROJECT.json` lists each at its line, under "hazards".

## Modules

```
PlaybackTypes               categories, command results, results of monitoring
  PlaybackOrchestration     one run of play_until_stopped
  DuringPlayback            the loop inside its monitoring phase
  OppoStartup               the start of the player inside its startup phase
    PathTest                the same, beside the web page that uses the player
PlaybackPromise             what one playback promises   (abstract)
PlaybackApplication         requests and threads; a playback has the phases of PlaybackPromise
TelevisionReturn            the application to return to, over a chain of playbacks
MonitoredSession            snapshots of the sessions, and the hand-over
PlaybackRequest             the three readers of a play request   (operators)
  PlaybackCommands          track selection beside the startup of a playback
MediaLocation               paths and mappings   (operators)
  PathTest                  uses it to decide what is played and what is tested
ConfigStore                 the two files and the copy in use
AvInput                     power-on, switching and watching of a receiver
MC...                       constants, symmetry and compositions for TLC
..._proofs                  the theorems: OutputDevices_proofs is about TelevisionReturn and
                            AvInput, PathTest_proofs about PathTest and MediaLocation, and
                            each other one about the module of its name
```

The detailed modules meet at interfaces. `MonitoringResults` of `PlaybackTypes`
is what monitoring may return: `PlaybackOrchestration` lets its monitoring step
return any of it, and `DuringPlayback!LoopFacts`, a part of the invariant that
is proved of the loop, says that it returns nothing else. `StartVerdicts` and
`StartCommands` are what the start of the player may end with:
`PlaybackOrchestration!StartOppo` returns any of it, and `VerdictFitsCommand`
of `OppoStartup` and `PathTest` shows that `start_playback` returns nothing
else. `PlaybackPromise` is what a playback does as its thread sees it:
`PlaybackOrchestration` implements it (`PromiseKept`; its safety part is the
theorem `Refinement`), and the playbacks of `PlaybackApplication` are built of
its steps, with the outputs beside them: a clean end has them where
`CleanEndIsSettled` says, and a failed one may have left them on the player, as
`FailedEndIsRecovered` allows.

**PlaybackOrchestration.**  `pc` is the next call of `play_until_stopped`; there
is one action per call to a device or to Emby, in the order of the code,
with the early returns as jumps of `pc`.  `startup`, `monitoring`, `finish` and
`recovery` are the result objects; `"pending"` marks a field no statement has
assigned.  `screen`, `audio`, `command` and `server` are the room: what the
television shows, what the receiver plays, the last command the player may have
obeyed, and Emby's session.  A command that reports success has taken effect
(the one assumption about devices); one that failed may have (`Effect`).  The
run reads the event twice (`ResolveOutputs`, `ResolvePolls`), and the other
thread may set or clear it before, between and after.

**DuringPlayback.**  `pc` is the next call of the loop; `player` is the device,
which may change between any two calls.  A poll of a second counts 1; position
0 stands for every answer that is not a valid position.  `Report` is
`_report_progress` with the publisher's own throttle.  `seen` and `overdue` are
history variables of the properties.

**PlaybackApplication.**  A request names the three things that may come of it:
the call (`call`), its replacement thread (`replacer`) and its playback thread
(`run`).  Each value of these variables is a point between two statements where
another thread can act: reading `playstate` and acting upon it are two steps,
creating a thread object under the lock and starting it are two steps.  Thread
objects are alive from their start to their last statement.  The orchestrated
playback is collapsed to `phase` and `kept`, its effect on both outputs to
`outputs`: not on the player, on it, or left on it by a recovery that could not
return them.  `latest`, `outdated` and `overlapped` are history variables:
`outdated` holds the playbacks whose result has been overwritten since.

**TelevisionReturn.**  Three places remember where to return: the startup
result (`previous`), `current_LG` in the configuration (`recalled`, gone with
the next reload) and `_playback_return_tv_app_id` (`preserved`).  A *flow* is a
row of playbacks that replace each other; `flow` records where it began and
whether the television has obeyed since.  The television names its inputs like
applications, and the service preserves none of them: `HdmiInputs` has the
player's and others.  The viewer may change what is shown or the power at any
time, and every step of a playback may fail.

**MonitoredSession.**  The client plays what it likes; Emby's snapshots of it
queue up in `inbox` and are read one after the other by `_check_state`, whose
calls are the values of `pc`.  `MonitoredState` is a title, so two items of one
title are not told apart, and it is forgotten by an exception: each of these
is in the model.  `bridge` is the session as the playback threads change it,
beside this thread.

**PlaybackCommands.**  There are two workers: `"startup"` is a playback thread
from the reading of its request to the selection of both tracks, `"command"` is
the WebSocket thread in a `GeneralCommand`.  `pc[w]` is the next call of worker
w, `task[w]` what it has read before, `number[w]` and `attempts[w]` the selection
it makes; `current` is the `currentdata` of the session.  Selecting, looking
whether it is selected, and writing the note into `current` are steps of their
own.
The index of a stream becomes a number of a track by counting the streams of
one type (`Number`).  Which item a request names is taken from
`PlaybackRequest`, where an id is a sequence of digits, because one reader
slices the text of an id where the other takes an element of a list.

**OppoStartup** and **PathTest.**  `pc` is the next call of the activator and of
`start_playback`; `api`, `mounted`, `pending`, `plays` and `command` are the
player, which begins late or never what it was asked to play, and which may
obey a request whose answer is lost.  `PathTest` adds the thread of the web
page (`test`), which ejects, waits, mounts and unmounts on the same player, and
the item and mappings the startup is about to use (`located`): whether the
startup goes on depends on `MediaLocation`.  Paths are sequences of tokens,
separators and pieces of names (`Tokens`), so that a name can begin with another.
`Rewritten` is `str.replace`, `Stages` the loop over the mappings.

**ConfigStore.**  Opening a file for writing and completing it are two steps;
the file is torn in between, and stays so if the process ends or the write
fails.  The web thread boots, loads, saves and checks; a reload of a playback
thread reads in one step and assigns in another.

**AvInput.**  `power_on` and `change_hdmi` of the Denon and Marantz adapters
with the retrier, in half seconds; the television redirects the receiver
whenever it likes, and any query may go unanswered.  `MCOutputDevices` puts it
beside `TelevisionReturn`, with which it shares no state, so that one run checks
both.

## Runs

| Run | Question | Bounds and why they are enough |
|---|---|---|
| `orchestration` | does every ending leave the room, the player and Emby as it should, whichever commands failed; does the run implement `PlaybackPromise`, and end; is `IInv` an invariant | two applications besides HDMI (the one the viewer was in, and another); 1 and 2 polls, so that zero, one and several polls remain at some point and the two limits differ |
| `orchestration_tv` (violation) | is a startup in which everything obeyed successful | as above |
| `during` | is monitoring right about the end, the position and the reports; does it end | media of 4 seconds with an overrun of 1, both confirmations take 2 polls, reports every 3 polls and 2 seconds: the counters start, reset and reach their limits in every order, and the two throttles differ |
| `during_probe` (violation) | is a probe without an answer ignored | as above |
| `application` | is the service's shared state consistent however the threads interleave | three requests, two of the WebSocket thread and one of the HTTP thread: a playback, a replacement of it, and a third that gets in between; two items, so that a request may or may not be a duplicate; the items are interchangeable, hence the symmetry |
| `application_race` (violation) | is an active playback never started over | one request per caller |
| `monitored` | is each viewing handed over once and in order, is it handed over at all, is silence noticed | two titles, one of an active library and one of another, of two items each; two viewings; two snapshots on their way, so that a late one and a current one follow each other |
| `output_devices` | does a flow return to where it began; is a receiver settled when it counts as such, is a redirection undone | Emby and one other application, the player's input and another; the number of playbacks is not bounded; the delays and counts of the code, six polls to settle, one redirection more than there are retries; one device moves, the other rests |
| `oppo_startup` | does the verdict of a startup fit the player, beside the test of a path; is an item played from the folder that was tested; do both threads end | two attempts and two polls, so that a first and a last one differ; four paths and ten lists of mappings: folders one of whose names begins with the other's, slashes at one end or both, backslashes, a path that occurs twice, an empty path, mappings that apply to each other's result |
| `config_store` | is the password kept and private, is what was saved used | three settings, two of which are the two forms of the same; two passwords, so that an old one can come back |
| `commands` | are the right tracks selected and noted, is a duplicate refused only for what is under way, does a selection end | three titles whose ids are slices of each other and whose streams differ in order; two playbacks, two commands and one key of the viewer; two attempts |
| `commands_seek` (violation) | does the player go where Emby asks it to | as above; one place to go to, other than where playbacks begin |

`CHECK_DEADLOCK FALSE` is set everywhere: each of these systems has an end, by
its nature or by a bound, after which no step is possible.

The bounds by name: `MaxViewings` and `MaxInbox` (MonitoredSession),
`SettlePolls`, `Redirects` and `Horizon` (AvInput), `MaxPlaybacks`,
`MaxCommands` and `MaxViewer` (PlaybackCommands), `MaxPolls` (OppoStartup: what
fits into the startup timeout).  `MaxAttempts` and the counts of
`DuringPlayback` and `AvInput` are parameters of the code.  The proofs hold for
every value of all of them.

### Fairness

Threads are scheduled, and the calls that have a timeout return.  Many have
none: the control API client passes a timeout for mounts, play requests and
probes, and not for its other calls; Emby's client and the television's never
do.  The steps that make such a call are named, and not fair: `UntimedPc`
(PlaybackOrchestration), `Untimed` (DuringPlayback, OppoStartup), `TestUntimed`
(PathTest).  The liveness properties say that a run, a monitoring, a startup
or a test ends *if these calls return*.  (The loop of the path test reads a list
without a timeout, too; there it is taken to arrive, because the question is
whether the loop ends.  Its fairness leaves out `TestRaises`, so that it is not
an exception that ends it.)  Nothing makes a playback end either, so
`MonitorUntilStopped` is not fair in `PlaybackOrchestration`, and no liveness is
stated of `PlaybackApplication`: a replacement joins a playback that may start
long and that nothing need stop.  (Its threads cannot wait in a circle: the one
join is of a replacement thread for a playback thread, which waits for none.)

In `MonitoredSession` the thread runs (`ThreadRuns`: its one wait is bounded by
a minute) and Emby serves (`EmbyServes`: it goes on sending snapshots, and a
query that is repeated for ever does not fail for ever).  In `PlaybackCommands`
both threads go on; the loops that select a subtitle are bounded by a count,
and this count is the reason why they end.

### What the passing runs show, in words

*Orchestration.*  A run that ends successfully has seen the player idle, told
Emby, and has both outputs on the same side (`CleanEndIsSettled`); every other
run has gone through every step of the recovery, whichever of them failed
(`FailedEndIsRecovered`); Emby is left with a running session only if
monitoring or the stop report raised (`ServerHearsTheEnd`); the outputs never
leave a player that was not settled or told to stop
(`OutputsFollowThePlayer`).

*Monitoring.*  It ends by position only after as many polls in a row at
the end as the code asks for (`NaturalEndIsConfirmed`), never loses a position
to an invalid answer (`PositionNeverLost`), and the two throttles do not starve
each other (`ReportsAreTimely`).

*Service.*  The event never outlives the replacement that set it
(`EventHasAnOwner`); a late thread does not take the place of its successor
(`ActiveIsTheLatest`); a session is freed unless its thread raised
(`QuietIsFree`); a failure is overlooked only if playbacks overlapped and one
of them handed over its result between that of the failed one and the look at
it, or if the failed one raised (`FailureIsSeldomOverlooked`); outputs that were
kept for a replacement come home, or a recovery has tried to return them, if
playbacks did not overlap and nothing raised (`OutputsComeHome`).  A flow in
which the television obeyed ends where it began, unless playbacks replaced each
other and it began with the television off or on an input of another device
(`FlowReturns`).

*Hand-over and commands.*  No viewing is handed over twice or out of order
(`HandedOverInOrder`); one that lasts is handed over unless a title stays
remembered (`WatchedIsHandedOver`), and silence makes the bridge forget
(`SilenceIsNoticed`).  A startup selects the tracks of its request or those
chosen since, unless a command for an earlier playback is noted before the
thread reads it (`StartupSelectsWhatWasAsked`); what is noted is what the
player shows (`NotedIsSelected`); the readers of a request agree on lists that
are played from their head, so that only what is under way is refused
(`RefusedIsUnderWay`).

*Player, paths, receiver, files.*  The control API is used when it is open
(`OpenApiIsUsed`), the verdict fits the command the player may have obeyed
(`VerdictFitsCommand`), a start that is announced has begun unless somebody
else plays (`StartedIsTheItem`).  `TestedFolderIsPlayed` holds for *plain*
items: those of whose path nothing but the beginning is replaced, by a mapping
both ends of which are written alike (`Plain`).
A receiver that counts as settled is
(`SettledIsStable`), and redirections that were seen are undone
(`RedirectIsUndone`).  The password survives unless an interruption falls between
the opening of its only file and the completion of the secrets: in a migration
from the first write on, and in every save, a plain one too, while the secrets
file is rewritten (`PasswordIsKept`); it leaves
the public file (`PublicIsClean`), and the client works with what was saved
(`UsedIsSaved`) in the form the code understands, but for a reload
(`OldOnlyAfterReload`).

The conditions of these properties are where the code promises less than one
might think: each names an ordering or a failure the code does not handle.

## Findings

Each is a run that TLC refutes; `PROJECT.json` quotes the sentences.

1. `orchestration_tv`: with the television disabled every startup is judged
   unsuccessful, and error recovery stops the player that plays.
2. `during_probe`: one status probe without an answer ends the monitoring of a
   player that plays.
3. `application_race`: two requests may start two playbacks over each other.
4. `commands_seek`: the `Playstate` message is passed to a method that does not
   exist, so that no seek of Emby, and no pause or stop, reaches the player.

Met while modelling, and stated by the conditions of properties rather than by
a run:

- A mapping whose Emby path alone ends with a slash passes the test of the web
  page and is played from a wrong folder: the test cuts both ends
  (`path_config.py:57`), playback replaces text as it stands
  (`media_location.py:35`).  A mapping also replaces its path in the middle of
  another, and what an earlier mapping has made; even where the new beginning of
  a path and its rest meet, a later mapping may find its own path.
- The test of a path ejects and mounts on the player while the bridge plays on
  it, and waits for its list of devices in a loop without an end
  (`path_config.py:101`) on the only thread of the web server.
- `reload_config` takes the public file as it is: without the password, and
  with the words `"True"` and `"False"` of older versions, which
  `config["TV"] is True` (`application.py:290`) does not understand.
- Playbacks that replace each other leave the television on the player if it
  was on the input of another device before: the service preserves no input
  (`application.py:430`), and the later playbacks find the player's.
- A list of ids that starts at another than its first is compared by one rule
  and played by another (`playback_request.py:32`).

## Proofs

Every theorem holds for all values of the constants that satisfy the named
assumptions of its module.  Each specification that is proved about has a theorem
`Invariance` (`Spec => []IInv`; `AvInvariance` for `AvInput`) with one step per
action, from which the properties follow; TLC has checked each `IInv` on the
instance of the run before.  None of the properties is inductive by itself; the
parts of `IInv` say what is known at each call in between.  All invariants and
all safety properties of actions that the passing runs check are theorems.

| Module | Theorems | Assumptions | Why the invariant says more than the properties |
|---|---|---|---|
| `PlaybackOrchestration_proofs` | `TypeCorrect`, `Invariance`, `CleanEnd`, `FailedEnd`, `ServerHears`, `OutputsFollow`, `Refinement` | `AppsAssumption`, `PollsAssumption` | the end of a run speaks of what startup did a dozen steps before: `StartupFacts` (only a successful startup is completed), `OutputFacts` (an output that was switched stays until this run moves it), `FinishFacts`, `ServerFacts`, `RecoveryFacts` (exactly the runs that are not successful are recovered from, step by step) |
| `DuringPlayback_proofs` | `EndConfirmed`, `ReportsTimely`, `PositionKept` | `LengthsAssumption`, `PollsAssumption` | `LoopFacts` says which categories each call can see, and that what is returned is among `MonitoringResults`; `EndFacts` that the counted polls are the last positions; `ReportFacts` that what is overdue is counted by the throttle of the loop |
| `PlaybackApplication_proofs` | `EventOwned`, `ActiveLatest`, `QuietFree`, `FailureSeen`, `ComeHome` | `RequestsAssumption`, `ItemsAssumption` | a request goes one way and creates one thread (`ThreadFacts`); a session that is not free has a thread that resets it (`SessionFacts`); a failure stays the last result until another thread hands over its own (`ResultFacts`), and who has waited for a thread knows that it has ended (`WaitFacts`); without overlaps only the playback created last is at work and its result is not outdated (`LatestFacts`), and outputs on the player have a thread that will return them (`OutputFacts`) |
| `OutputDevices_proofs`, television | `Invariance`, `TypeCorrect`, `FlowComesBack` | `AppsAssumption` | `RememberedFacts` says which of the three places remembers the origin at each step (the adapter alone, if the television was off), `ScreenFacts` that the screen stays on the player only for a replacement that will come, and that what is preserved then is the origin |
| `MonitoredSession_proofs` | `TypeCorrect`, `InOrderOnce` | `ItemsAssumption`, `BoundsAssumption` | snapshots arrive in order (`InOrder`), and a title is forgotten only after silence, after which every item is of a later viewing, or before its viewing was handed over (`NotHandedOver`) |
| `PathTest_proofs` | `VerdictFits`, `StartedBegun`, `ApiUsed`, `TestedFolderPlayed` | `BoundsAssumption`, `PathsAssumption`, `TokensAssumption`, `NoLocationAssumption` | `CommandFacts` (only a share that did not mount is waited for without a play request), `HistoryFacts`, `AttemptFacts`; the steps of the web page are stutters of the startup or change its player only; `LocatedFacts` (whoever looks for a location has an item), and then the lemmas about paths |
| `PlaybackCommands_proofs` | `TracksAskedFor`, `NotesAreTrue`, `RefusalsAreDeserved` | `BoundsAssumption`, `EmbyAssumption` | two threads write what the properties compare: `ItemFacts` (request, session and player are about one item, from the reading on), `AskedFacts` (what is noted before the reading is asked for, or stray), `CommandFacts` (a command counts the streams of the item it has read), `SetterFacts` (the player shows what is noted, or what a command is about to note) |
| `ConfigStore_proofs` | `PasswordKept`, `PublicClean`, `SavedUsed`, `OldAfterReload` | `ContentsAssumption` | `PublicFacts` and `SecretFacts` say what is in which file at each statement, `UsedFacts` what the copy in use, and a reload under way, are read from |
| `OutputDevices_proofs`, receiver | `AvInvariance`, `AvTypeCorrect`, `SettledStable`, `RedirectUndone` | `DelaysAssumption`, `CountsAssumption` | `SettleFacts`: the readings that are counted are the last ones, and alike; `RetryFacts`: each retry answers a redirection of its own |

`Refinement` is `PlaybackOrchestration!Spec => Promise!Spec`; its lemma
`PromiseStep` maps every step to a step of `PlaybackPromise` or to a stutter.

`TestedFolderPlayed` is about paths and lists of mappings of any length.  Its
lemmas are on the operators of `MediaLocation`, and the longest of them on
`str.replace`:

- `RewritingExists` and `StagingExists`: the recursive definitions have a
  solution.  The library's induction theorems take an operator as a parameter,
  which the provers cannot instantiate; the lemmas `SetInduction` and
  `DownInduction` say the same of a *set* of numbers, and follow from the
  well-foundedness of the natural numbers.
- `ReplacedConcat`: a text is replaced part by part, if no occurrence lies in
  both parts (`Crosses`).  `ReplacedNothing`, `ReplacedHead`: what does not occur
  is not replaced, and what occurs at the beginning only is exchanged there.
- `MappedAlone`: of the mappings only one does anything, and what it does.
- `NormalizedConcat`, `NormalizedFirst`, `NormalizedLast`, `TextBelow`: the
  separators are normalized part by part too, unless a pair of backslashes is
  torn; a path below a mapping goes on from its folder with one slash.
- `StrippedBehind`, `SplitBehind`, `OneFolder`: what goes on from the folder of
  the test is split into the same server, and a folder in its folder.

The proof found the property stated too widely at first: it had no condition on
what a later mapping finds where the exchanged beginning and the rest of a path
meet, nor on a path that ends with a separator.  TLC refutes it there once such
lists and paths are among its inputs, and `Alone` and `PathsAssumption` now say
so; `MappedAlone` shows that these conditions are enough.

Model-checked only: the liveness properties (`RunsConclude`, `MonitoringEnds`,
`WatchedIsHandedOver`, `SilenceIsNoticed`, `StartupEnds`,
`PathTestEnds`, `SelectionsEnd`) and the fairness part of `PromiseKept`, as the
prover does not reason about fairness and `ENABLED`.  What one definition
computes on one input (the numbers of tracks, the readers of a request) is
checked on the libraries of the runs, and used by the proofs as it is defined.

## Not modelled

- `lib/devices/oppo/network_playback_starter.py`: the older way to start the
  player, with its files that stand for others; only the newer one is modelled.
- I/O: the network clients, the Emby clients, the telnet dialogue of Autoscript,
  the wording and parsing of the player's answers.  The models take from them
  that a timeout is an empty answer, that a reset raises, and which calls have
  no timeout.
- The seeks and remote keys of `handle_playback_state`, which no message
  reaches (finding 4); `PlaybackCommands` has the message and what it asks for.
- The pages of the web server that read and render, its update check, and
  `hcb/devices/oppo/web_control.py`, which passes keys on.  A hazard of it
  without a property: `xnoppo_web.py:89`, where the handler of a first
  configuration raises before the restart that should follow.
- Receivers other than Denon and Marantz: they send one command each, which are
  actions of `PlaybackOrchestration`.
- Tools and tests.

## Plan

That `DuringPlayback` implements the monitoring step of `PlaybackOrchestration`,
as one theorem rather than by a shared type.
