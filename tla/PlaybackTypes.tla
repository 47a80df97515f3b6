---------------------------- MODULE PlaybackTypes ----------------------------
(***************************************************************************)
(* The vocabulary the playback modules share: what the OPPO player reports *)
(* about itself, how a command to a device ends, and how monitoring of an  *)
(* active playback may end.                                                *)
(***************************************************************************)

\* The category of a playback status the player reports (QPL).
Categories == {"ACTIVE", "IDLE", "TRANSITION", "UNKNOWN"}

\* How a command to the player, the television or the AV receiver ends;
\* "pending" says that the command has not been reached.
Results == {"pending", "success", "skipped", "failed"}

\* What a command can end with: it is skipped when its device is disabled.
CommandResults(enabled) ==
    IF enabled THEN {"success", "failed"} ELSE {"skipped"}

\* What the state of a device can be after a command that moves it from old to
\* new: a command that failed may still have been carried out, because only
\* its answer may have been lost.
Effect(result, old, new) ==
    CASE result = "success" -> {new}
      [] result = "failed"  -> {old, new}
      [] OTHER              -> {old}

\* How the start of the player ends, and the last command the player may have
\* obeyed then.  A play request that gets no answer is taken for one the player
\* refused, and any exception on the way for a failed mount; and a player found
\* active after a failed mount is taken for started with no request at all.
StartVerdicts == {"started", "not_mounted", "rejected", "timed_out"}

StartCommands(verdict, command) ==
    IF verdict = "timed_out" THEN {"play"} ELSE {command, "play"}

StopReasons == {"player_idle", "transition_grace_exceeded", "natural_end"}

\* The pairs of a stop reason and a final category that monitoring may return.
MonitoringResults ==
    [reason : {"player_idle"}, category : {"IDLE", "UNKNOWN"}]
        \cup [reason : {"transition_grace_exceeded"},
              category : {"IDLE", "UNKNOWN", "TRANSITION"}]
        \cup [reason : {"natural_end"}, category : {"ACTIVE"}]

NoMonitoring == [reason |-> "none", category |-> "UNKNOWN"]

===============================================================================
