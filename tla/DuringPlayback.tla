---------------------------- MODULE DuringPlayback ----------------------------
(***************************************************************************)
(* monitor_until_stopped, the loop that watches an active playback and     *)
(* decides that it is over: one poll of the player's state and, while it   *)
(* is active, one of its position per round, with the reports of progress  *)
(* to Emby behind two throttles, one in the loop and one in the publisher. *)
(*                                                                         *)
(* The player is free: it moves between any two calls of the loop, in any  *)
(* direction.  Position 0 stands for every answer that is no position.     *)
(***************************************************************************)
EXTENDS Integers, Sequences, PlaybackTypes

CONSTANTS
    Total,              \* length of the media, in seconds
    Overrun,            \* how far past the end the player counts
    MaxTransitionPolls, \* inactive polls before monitoring gives up
    MaxEndPolls,        \* polls that confirm a natural end
    ReportEvery,        \* valid polls (of a second) between reports in the loop
    Advance             \* seconds between reports in the publisher

ASSUME LengthsAssumption ==
    Total \in Nat \ {0} /\ Overrun \in Nat /\ Advance \in Nat \ {0}
ASSUME PollsAssumption ==
    {MaxTransitionPolls, MaxEndPolls, ReportEvery} \subseteq Nat \ {0}

VARIABLES
    pc,              \* the call the loop is about to make
    player,          \* the player: the category it reports and its position
    category,        \* final_state.category
    reason,          \* stop_reason
    transitionPolls,
    endPolls,        \* end_of_media_polls
    sinceReport,     \* seconds_since_progress_report
    last,            \* last_position_seconds
    duration,        \* last_duration_seconds
    reported,        \* what Emby was last told by a progress report, 0 if nothing
    seen,            \* history: the last MaxEndPolls valid positions
    overdue          \* history: valid polls in a row that had Advance seconds to report

loop == <<category, reason, transitionPolls, endPolls, sinceReport, last,
          duration, reported, seen, overdue>>
vars == <<pc, player, loop>>

Ended == {"returned", "raised"}
Positions == 0..(Total + Overrun)
Reported == {"ACTIVE", "IDLE", "TRANSITION"}   \* what a player can be in

TypeOK ==
    /\ pc \in {"first", "poll", "position", "report"} \cup Ended
    /\ player \in [category : Reported, position : Positions]
    /\ category \in Categories
    /\ reason \in StopReasons
    /\ transitionPolls \in 0..MaxTransitionPolls
    /\ endPolls \in 0..MaxEndPolls
    /\ sinceReport \in 0..ReportEvery
    /\ last \in 0..Total
    /\ duration \in {0, Total}
    /\ reported \in 0..Total
    /\ seen \in Seq(1..(Total + Overrun))
    /\ overdue \in Nat

Init ==
    /\ pc = "first"
    /\ player \in [category : Reported, position : Positions]
    /\ category = "UNKNOWN"
    /\ reason = "player_idle"
    /\ transitionPolls = 0
    /\ endPolls = 0
    /\ sinceReport = 0
    /\ last \in 0..Total
    /\ duration = 0
    /\ reported = 0
    /\ seen = <<>>
    /\ overdue = 0

-------------------------------------------------------------------------------
\* A probe that got no answer, or half of one, is an unknown status.
Answers == {player.category, "UNKNOWN"}

\* Every call may raise, and nothing in the loop catches it.
Raise ==
    /\ pc \notin Ended
    /\ pc' = "raised"
    /\ UNCHANGED <<player, loop>>

\* The loop goes on while the player is active or in a transition.
Continue(answer) == answer \in {"ACTIVE", "TRANSITION"}

FirstPoll ==
    /\ pc = "first"
    /\ category' \in Answers
    /\ pc' = IF Continue(category') THEN "poll" ELSE "returned"
    /\ UNCHANGED <<player, reason, transitionPolls, endPolls, sinceReport, last,
                   duration, reported, seen, overdue>>

PollActive ==
    /\ pc = "poll"
    /\ "ACTIVE" \in Answers
    /\ category' = "ACTIVE"
    /\ transitionPolls' = 0
    /\ pc' = "position"
    /\ UNCHANGED <<player, reason, endPolls, sinceReport, last, duration,
                   reported, seen, overdue>>

\* An inactive player is polled again only in a transition, and not for ever.
PollInactive ==
    /\ pc = "poll"
    /\ category' \in Answers \ {"ACTIVE"}
    /\ transitionPolls' = transitionPolls + 1
    /\ IF transitionPolls' >= MaxTransitionPolls
       THEN /\ reason' = "transition_grace_exceeded"
            /\ pc' = "returned"
       ELSE /\ pc' = IF Continue(category') THEN "poll" ELSE "returned"
            /\ UNCHANGED reason
    /\ UNCHANGED <<player, endPolls, sinceReport, last, duration, reported,
                   seen, overdue>>

\* A mutant: an answer without a position is taken for the beginning.
ReadNoPositionAsZero ==
    /\ pc = "position"
    /\ player.position = 0
    /\ last' = 0
    /\ pc' = "poll"
    /\ UNCHANGED <<player, category, reason, transitionPolls, endPolls, sinceReport,
                   duration, reported, seen, overdue>>

\* An invalid position leaves everything as it was.
ReadNoPosition ==
    /\ pc = "position"
    /\ player.position = 0
    /\ pc' = "poll"
    /\ UNCHANGED <<player, loop>>

AtEnd(position) == position >= Total

Normalized(position) == IF AtEnd(position) THEN Total ELSE position

\* The publisher reports a position that is far enough past the last one.
ShouldReport(position) ==
    position > 0 /\ (reported = 0 \/ position - reported >= Advance)

Remember(position) ==
    LET longer == Append(seen, position)
    IN  IF Len(longer) > MaxEndPolls THEN Tail(longer) ELSE longer

\* What every reading of a position does.
TakePosition ==
    /\ pc = "position"
    /\ player.position > 0
    /\ last' = Normalized(player.position)
    /\ duration' = Total
    /\ seen' = Remember(player.position)
    /\ overdue' = IF ShouldReport(last') THEN overdue + 1 ELSE 0
    /\ UNCHANGED <<player, category, transitionPolls, reported>>

EndOfMedia ==
    /\ reason' = "natural_end"
    /\ pc' = "returned"
    /\ UNCHANGED sinceReport

\* Mutants: a position before the end does not reset the count; one at the end
\* does; the report is due one poll too late.
ReadPositionNoReset ==
    /\ TakePosition
    /\ endPolls' = IF AtEnd(player.position) THEN endPolls + 1 ELSE endPolls
    /\ IF endPolls' >= MaxEndPolls
       THEN EndOfMedia
       ELSE /\ sinceReport' = sinceReport + 1
            /\ pc' = IF sinceReport' >= ReportEvery THEN "report" ELSE "poll"
            /\ UNCHANGED reason

ReadPositionEndResets ==
    /\ TakePosition
    /\ endPolls' = IF AtEnd(player.position) THEN 0 ELSE endPolls + 1
    /\ IF endPolls' >= MaxEndPolls
       THEN EndOfMedia
       ELSE /\ sinceReport' = sinceReport + 1
            /\ pc' = IF sinceReport' >= ReportEvery THEN "report" ELSE "poll"
            /\ UNCHANGED reason

ReadPositionReportLate ==
    /\ TakePosition
    /\ endPolls' = IF AtEnd(player.position) THEN endPolls + 1 ELSE 0
    /\ IF endPolls' >= MaxEndPolls
       THEN EndOfMedia
       ELSE /\ sinceReport' = sinceReport + 1
            /\ pc' = IF sinceReport' > ReportEvery THEN "report" ELSE "poll"
            /\ UNCHANGED reason

\* A natural end returns before the time of the next report is counted.
ReadPosition ==
    /\ TakePosition
    /\ endPolls' = IF AtEnd(player.position) THEN endPolls + 1 ELSE 0
    /\ IF endPolls' >= MaxEndPolls
       THEN EndOfMedia
       ELSE /\ sinceReport' = sinceReport + 1
            /\ pc' = IF sinceReport' >= ReportEvery THEN "report" ELSE "poll"
            /\ UNCHANGED reason

\* The loop restarts its count also when the publisher held the report back.
Report ==
    /\ pc = "report"
    /\ IF ShouldReport(last)
       THEN reported' = last /\ overdue' = 0
       ELSE UNCHANGED <<reported, overdue>>
    /\ sinceReport' = 0
    /\ pc' = "poll"
    /\ UNCHANGED <<player, category, reason, transitionPolls, endPolls, last,
                   duration, seen>>

\* The viewer, the remote control and the media itself.
PlayerMoves ==
    /\ pc \notin Ended
    /\ player' \in [category : Reported, position : Positions]
    /\ UNCHANGED <<pc, loop>>

Monitor ==
    \/ FirstPoll \/ PollActive \/ PollInactive \/ ReadNoPosition
    \/ ReadPosition \/ Report \/ Raise

Next == Monitor \/ PlayerMoves

Spec == Init /\ [][Next]_vars

\* The thread runs, and the status probe has a timeout; the calls that read the
\* position and that report it have none.
Untimed == {"position", "report"}

FairSpec == Spec /\ WF_vars(pc \notin Untimed /\ Monitor)

-------------------------------------------------------------------------------
\* A playback is closed as ended only if the last MaxEndPolls positions the
\* player gave were all at the end: seeking back before the last one of them,
\* for however short a time a poll sees it, keeps the playback alive.
NaturalEndIsConfirmed ==
    reason = "natural_end" =>
        /\ Len(seen) = MaxEndPolls
        /\ \A i \in 1..MaxEndPolls : seen[i] >= Total

\* A position once known is never lost to an invalid answer, and what Emby is
\* told does not creep: it moves forward by at least Advance seconds.
PositionNeverLost ==
    [][ /\ last > 0 => last' > 0
        /\ reported' # reported => reported' - reported >= Advance \/ reported = 0
      ]_vars

\* The two throttles do not starve each other: whenever Advance seconds are
\* waiting to be reported, a report comes before ReportEvery more valid polls.
ReportsAreTimely == overdue <= ReportEvery /\ (pc = "poll" => overdue < ReportEvery)

\* A player that stays inactive, or stays at the end of the media, is not
\* monitored for ever, if the calls without a timeout return.
MonitoringEnds ==
    (\A p \in Untimed : []<>(pc # p)) =>
        /\ <>[](player.category # "ACTIVE") => <>(pc \in Ended)
        /\ <>[](player.category = "ACTIVE" /\ player.position >= Total)
             => <>(pc \in Ended)

-------------------------------------------------------------------------------
\* docs/oppo-state-machine.md: "Timeout/reset while probing QPL | No state change |
\* Ignore transient probe failures": an unanswered probe does not end the
\* monitoring of a player that plays.
ProbeFailureIsIgnored ==
    pc = "returned" /\ reason = "player_idle" =>
        ~(category = "UNKNOWN" /\ player.category = "ACTIVE")

-------------------------------------------------------------------------------
(***************************************************************************)
(* The inductive invariant of module DuringPlayback_proofs.                *)
(***************************************************************************)

\* What the loop knows at each of its calls, and what it returns: the pairs of a
\* reason and a category that PlaybackOrchestration expects (MonitoringResults).
LoopFacts ==
    /\ pc = "first" => reason = "player_idle"
    /\ pc = "poll" => category \in {"ACTIVE", "TRANSITION"}
    /\ pc \in {"position", "report"} => category = "ACTIVE"
    /\ pc \notin Ended => reason = "player_idle"
    /\ pc = "poll" => transitionPolls < MaxTransitionPolls
    /\ pc \in {"first", "position", "report"} => transitionPolls = 0
    /\ pc = "returned" => [reason |-> reason, category |-> category] \in MonitoringResults
    /\ duration > 0 => last > 0
    /\ reason = "natural_end" => last = duration

\* The positions that are counted as the end are the last ones the player gave.
EndFacts ==
    /\ pc \notin Ended => endPolls < MaxEndPolls
    /\ reason = "natural_end" => endPolls = MaxEndPolls
    /\ endPolls <= Len(seen) /\ Len(seen) <= MaxEndPolls
    /\ \A i \in DOMAIN seen : i > Len(seen) - endPolls => seen[i] >= Total

\* How long a report has been due is counted by the throttle of the loop.
ReportFacts ==
    /\ pc \in {"first", "poll", "position"} => sinceReport < ReportEvery
    /\ pc \in {"first", "poll", "position", "report"} => overdue <= sinceReport
    /\ ~ShouldReport(last) => overdue = 0
    /\ overdue <= ReportEvery

IInv == TypeOK /\ LoopFacts /\ EndFacts /\ ReportFacts

===============================================================================
