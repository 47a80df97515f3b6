------------------------------- MODULE AvInput --------------------------------
(***************************************************************************)
(* How a Denon or Marantz receiver is brought to the player's input: it is *)
(* powered on, given time to settle, switched, and watched for a few       *)
(* seconds, because the television may redirect it to its own audio (ARC)  *)
(* whenever the HDMI link comes up.                                        *)
(*                                                                         *)
(* Time is counted in half seconds, and only from the command that changes *)
(* the input: elapsed.  A query of the receiver may be answered or not.    *)
(***************************************************************************)
EXTENDS Integers, Sequences, SequencesExt

CONSTANTS
    Delays,       \* observation_delays, in half seconds
    MinStable,    \* min_stable_seconds, in half seconds
    MaxRetries,   \* max_retries
    StableCount,  \* stable_count: equal readings that count as settled
    SettlePolls,  \* bound on the polls of either wait after power-on
    Redirects,    \* bound on redirections by the television
    Horizon       \* how long time is counted, in half seconds

ASSUME DelaysAssumption ==
    /\ Delays \in Seq(Nat) /\ Len(Delays) > 0
    /\ \A i, j \in DOMAIN Delays : i < j => Delays[i] < Delays[j]
    /\ Horizon \in Nat /\ Horizon >= Last(Delays)
ASSUME CountsAssumption ==
    /\ {MinStable, MaxRetries, Redirects} \subseteq Nat
    /\ StableCount \in Nat \ {0, 1}
    /\ SettlePolls \in Nat \ {0}

TvAudio == "tv"                        \* redirected_input, SITV
Inputs == {"player", TvAudio, "other"}
None == "none"                         \* a query without an answer

VARIABLES
    stage,        \* where power_on and change_hdmi are
    target,       \* the configured AV_Input
    input,        \* the input of the receiver
    redirections, \* history: how often the television redirected it
    polls,        \* polls left of the wait after power-on
    lastInput,    \* last_input
    consecutive,
    answers,      \* history: the last StableCount answers while settling
    elapsed,      \* since the first command to change the input
    next,         \* the next observation
    observed,     \* observed_input
    retries,
    unseen        \* history: redirected since the last observation, or it failed

settling == <<polls, lastInput, consecutive, answers>>
watching == <<elapsed, next, observed, retries, unseen>>
avVars == <<stage, target, input, redirections, settling, watching>>

AvTypeOK ==
    /\ stage \in {"power", "responsive", "settle", "settled", "command", "observe",
               "react", "confirm", "done", "raised"}
    /\ {target, input} \subseteq Inputs
    /\ {lastInput, observed} \subseteq Inputs \cup {None}
    /\ redirections \in 0..Redirects
    /\ polls \in 0..SettlePolls
    /\ consecutive \in 0..StableCount
    /\ answers \in Seq(Inputs) /\ Len(answers) <= StableCount
    /\ elapsed \in 0..Horizon
    /\ next \in 1..(Len(Delays) + 1)
    /\ retries \in 0..MaxRetries
    /\ unseen \in BOOLEAN

AvInit ==
    /\ stage = "power"
    /\ target \in {"player", TvAudio}
    /\ input \in Inputs
    /\ redirections = 0
    /\ polls = SettlePolls
    /\ lastInput = None
    /\ consecutive = 0
    /\ answers = << >>
    /\ elapsed = 0
    /\ next = 1
    /\ observed = None
    /\ retries = 0
    /\ unseen = FALSE

Answers == {input, None}

-------------------------------------------------------------------------------
(* The television.                                                          *)

Redirect ==
    /\ redirections < Redirects
    /\ elapsed < Horizon
    /\ input' = TvAudio
    /\ redirections' = redirections + 1
    /\ unseen' = TRUE
    /\ UNCHANGED <<stage, target, settling, elapsed, next, observed, retries>>

-------------------------------------------------------------------------------
(* power_on.                                                                *)

\* A receiver in standby, or one that does not say, is given time to settle;
\* one that is on only has to answer.
PowerOn ==
    /\ stage = "power"
    /\ stage' \in {"responsive", "settle"}
    /\ UNCHANGED <<target, input, redirections, settling, watching>>

PollResponsive ==
    /\ stage = "responsive"
    /\ polls > 0
    /\ polls' = polls - 1
    /\ \E answer \in Answers : stage' = IF answer # None THEN "command" ELSE "responsive"
    /\ UNCHANGED <<target, input, redirections, lastInput, consecutive, answers, watching>>

RememberAnswer(answer) ==
    answers' = IF Len(answers) < StableCount THEN Append(answers, answer)
               ELSE Append(Tail(answers), answer)

\* Mutant: a reading that differs is counted like one that does not.
PollSettleCountingAll ==
    /\ stage = "settle"
    /\ polls > 0
    /\ polls' = polls - 1
    /\ \E answer \in Answers :
          IF answer = None
          THEN UNCHANGED <<lastInput, consecutive, answers>>
          ELSE /\ lastInput' = answer
               /\ consecutive' = consecutive + 1
               /\ RememberAnswer(answer)
    /\ stage' = IF consecutive' >= StableCount THEN "settled" ELSE "settle"
    /\ UNCHANGED <<target, input, redirections, watching>>

\* A query without an answer neither counts nor starts the count again.
PollSettle ==
    /\ stage = "settle"
    /\ polls > 0
    /\ polls' = polls - 1
    /\ \E answer \in Answers :
          IF answer = None
          THEN UNCHANGED <<lastInput, consecutive, answers>>
          ELSE /\ lastInput' = answer
               /\ consecutive' = IF answer = lastInput THEN consecutive + 1 ELSE 1
               /\ RememberAnswer(answer)
    /\ stage' = IF consecutive' >= StableCount THEN "settled" ELSE "settle"
    /\ UNCHANGED <<target, input, redirections, watching>>

Settled ==
    /\ stage = "settled"
    /\ stage' = "command"
    /\ UNCHANGED <<target, input, redirections, settling, watching>>

\* Both waits end after their time, and power_on returns "OK" all the same.
WaitTimesOut ==
    /\ stage \in {"responsive", "settle"}
    /\ polls < SettlePolls
    /\ stage' = "command"
    /\ UNCHANGED <<target, input, redirections, settling, watching>>

-------------------------------------------------------------------------------
(* change_input.                                                            *)

SendInputCommand ==
    /\ stage = "command"
    /\ input' = target
    /\ unseen' = FALSE
    /\ stage' = "observe"
    /\ UNCHANGED <<target, redirections, settling, elapsed, next, observed, retries>>

\* Mutant: the last of the retries is not used.
ShouldRetryShort ==
    /\ observed = TvAudio
    /\ target # TvAudio
    /\ retries + 1 < MaxRetries

ShouldRetry ==
    /\ observed = TvAudio
    /\ target # TvAudio
    /\ retries < MaxRetries

\* The command could not be sent: the exception ends change_input.
SendFails ==
    /\ \/ stage = "power" \/ stage = "command"
       \/ stage = "react" /\ ShouldRetry
    /\ stage' = "raised"
    /\ UNCHANGED <<target, input, redirections, settling, watching>>

\* Time passes up to the next observation, in a slow query or command, and after
\* the last observation.
Tick ==
    /\ elapsed < Horizon
    /\ \/ stage = "observe" /\ elapsed < Delays[next]
       \/ stage \in {"react", "confirm", "done"}
    /\ elapsed' = elapsed + 1
    /\ UNCHANGED <<stage, target, input, redirections, settling, next, observed, retries, unseen>>

Observe ==
    /\ stage = "observe"
    /\ elapsed >= Delays[next]
    /\ observed' \in Answers
    /\ unseen' = (unseen /\ observed' = None)
    /\ stage' = "react"
    /\ UNCHANGED <<target, input, redirections, settling, elapsed, next, retries>>

Reapply ==
    /\ stage = "react"
    /\ ShouldRetry
    /\ input' = target
    /\ retries' = retries + 1
    /\ stage' = "confirm"
    /\ UNCHANGED <<target, redirections, settling, elapsed, next, observed, unseen>>

LeaveAlone ==
    /\ stage = "react"
    /\ ~ShouldRetry
    /\ stage' = "confirm"
    /\ UNCHANGED <<target, input, redirections, settling, watching>>

Stable == observed = target /\ Delays[next] >= MinStable

Confirm ==
    /\ stage = "confirm"
    /\ next' = next + 1
    /\ stage' = IF Stable \/ next = Len(Delays) THEN "done" ELSE "observe"
    /\ UNCHANGED <<target, input, redirections, settling, elapsed, observed, retries, unseen>>

AvNext ==
    \/ Redirect
    \/ PowerOn
    \/ PollResponsive
    \/ PollSettle
    \/ Settled
    \/ WaitTimesOut
    \/ SendInputCommand
    \/ SendFails
    \/ Tick
    \/ Observe
    \/ Reapply
    \/ LeaveAlone
    \/ Confirm

AvSpec == AvInit /\ [][AvNext]_avVars

-------------------------------------------------------------------------------
(* Properties.                                                              *)

\* What counts as settled has been read StableCount times with no other answer
\* in between, unanswered queries aside (wait_until_input_stable).
SettledIsStable ==
    stage = "settled" =>
        Len(answers) = StableCount /\ \A i \in DOMAIN answers : answers[i] = lastInput

\* The television does not win against the retries: if it redirected the receiver
\* no more than MaxRetries times, and not after the last observation that was
\* answered, the receiver ends up at the player's input (AVInputRetrier).
RedirectIsUndone ==
    stage = "done" /\ ~unseen /\ redirections <= MaxRetries => input = target

-------------------------------------------------------------------------------
(***************************************************************************)
(* The inductive invariant of module OutputDevices_proofs.                 *)
(***************************************************************************)

\* The readings that are counted are the last ones, and alike.
SettleFacts ==
    /\ stage \in {"power", "settle"} => consecutive < StableCount
    /\ stage = "settled" => consecutive = StableCount
    /\ consecutive <= Len(answers)
    /\ \A i \in 1..Len(answers) : i > Len(answers) - consecutive => answers[i] = lastInput

Watching == stage \in {"observe", "react", "confirm", "done"}

\* Each retry answers a redirection of its own; what was not undone has not been
\* seen, or is about to be undone.
RetryFacts ==
    /\ stage \in {"observe", "react", "confirm"} => next <= Len(Delays)
    /\ ~Watching /\ stage # "raised" => retries = 0 /\ next = 1
    /\ Watching => input \in {target, TvAudio}
    /\ Watching => retries + (IF input # target THEN 1 ELSE 0) <= redirections
    /\ stage = "react" /\ observed = TvAudio /\ target # TvAudio => input = TvAudio
    /\ stage = "react" /\ ~unseen /\ observed # None => input = observed
    /\ Watching /\ ~unseen /\ redirections <= MaxRetries /\ (stage = "react" => observed = None)
           => input = target

AvIInv == AvTypeOK /\ SettleFacts /\ RetryFacts

===============================================================================
