--------------------- MODULE PlaybackOrchestration_proofs ---------------------
(***************************************************************************)
(* Proofs about PlaybackOrchestration: its inductive invariant, and the    *)
(* safety properties that follow from it.                                  *)
(***************************************************************************)
EXTENDS PlaybackOrchestration, TLAPS

-------------------------------------------------------------------------------
(***************************************************************************)
(* The vocabulary: what a command can end with, and what it can do.        *)
(***************************************************************************)

\* A command that has been reached has a result.
LEMMA CommandResultsTyped ==
    ASSUME NEW enabled \in BOOLEAN, NEW r \in CommandResults(enabled)
    PROVE  /\ r \in Results
           /\ r \in {"success", "skipped", "failed"}
           /\ r = "skipped" <=> ~enabled
BY DEF CommandResults, Results

\* A command moves a device from a state of its own to another, or leaves it.
LEMMA EffectTyped ==
    ASSUME NEW S, NEW old \in S, NEW new \in S,
           NEW r \in {"success", "skipped", "failed"},
           NEW state \in Effect(r, old, new)
    PROVE  /\ state \in S
           /\ state \in {old, new}
           /\ r = "success" => state = new
           /\ r = "skipped" => state = old
BY DEF Effect

\* What monitoring returns ends with a category the player can report.
LEMMA MonitoringTyped ==
    ASSUME NEW m \in MonitoringResults \cup {NoMonitoring}
    PROVE  m.category \in Categories
BY DEF MonitoringResults, NoMonitoring, Categories

-------------------------------------------------------------------------------
(***************************************************************************)
(* Type correctness.                                                       *)
(***************************************************************************)

LEMMA TypingStep ==
    ASSUME TypeOK, [Next]_vars
    PROVE  TypeOK'
<1> USE DEF TypeOK, results, room, Pcs, StartupPc, FinishPc, RecoveryPc
<1>1. ASSUME ReadCurrentApp PROVE TypeOK'
    BY <1>1 DEF ReadCurrentApp, Requests, Recalled, Screens
<1>2. ASSUME SwitchTv PROVE TypeOK'
  <2>1. PICK r \in CommandResults(request.tv) :
           /\ screen' \in Effect(r, screen, Hdmi)
           /\ \/ /\ r = "success"
                 /\ startup' = [startup EXCEPT !.tv = r]
                 /\ pc' = "power_av"
              \/ /\ startup' = [startup EXCEPT !.tv = r, !.power = "skipped",
                                                !.input = "skipped"]
                 /\ pc' = "start_oppo"
    BY <1>2, Zenon DEF SwitchTv
  <2>2. r \in Results /\ r \in {"success", "skipped", "failed"}
    BY CommandResultsTyped DEF Requests
  <2>3. screen' \in Screens
    BY <2>1, <2>2 DEF Effect, Screens
  <2>4. startup' \in [previous : Recalled, tv : Results, power : Results,
                     input : Results, oppo : StartResults]
    BY <2>1, <2>2, ZenonT(60) DEF Results
  <2>5. UNCHANGED <<request, monitoring, finish, recovery, replacing,
                    server, command, audio>>
    BY <1>2 DEF SwitchTv
  <2> QED
    BY <2>1, <2>3, <2>4, <2>5
<1>3. ASSUME PowerOnAv PROVE TypeOK'
    BY <1>3 DEF PowerOnAv, CommandResults, Results
<1>4. ASSUME SwitchAv PROVE TypeOK'
    BY <1>4 DEF SwitchAv, CommandResults, Effect, Results
<1>5. ASSUME StartOppo PROVE TypeOK'
    BY <1>5 DEF StartOppo, StartResults, StartVerdicts, StartCommands
<1>6. ASSUME CompleteStartup PROVE TypeOK'
    BY <1>6 DEF CompleteStartup
<1>7. ASSUME MonitorUntilStopped PROVE TypeOK'
    BY <1>7 DEF MonitorUntilStopped
<1>8. ASSUME ResolveOutputs PROVE TypeOK'
  <2>1. monitoring.category \in Categories
    BY MonitoringTyped
  <2> QED
    BY <1>8, <2>1 DEF ResolveOutputs
<1>9. ASSUME ResolvePolls PROVE TypeOK'
    BY PollsAssumption, <1>9 DEF ResolvePolls
<1>10. ASSUME ClosePlayer PROVE TypeOK'
    BY <1>10 DEF ClosePlayer, CommandResults, Effect, Results
<1>11. ASSUME ConfirmAlreadyIdle PROVE TypeOK'
    BY <1>11 DEF ConfirmAlreadyIdle, Results
<1>12. ASSUME PollIdle PROVE TypeOK'
  <2>1. finish.polls - 1 \in Nat
    <3>1. finish.polls \in Nat
      OBVIOUS
    <3>2. finish.polls > 0
      BY <1>12 DEF PollIdle
    <3> HIDE DEF TypeOK
    <3> QED
      BY <3>1, <3>2
  <2>2. finish' \in [restore : BOOLEAN, polls : Nat, category : Categories,
                    idle : Results, tv : Results, av : Results]
    BY <1>12, <2>1 DEF PollIdle, Results
  <2> QED
    BY <1>12, <2>2 DEF PollIdle
<1>13. ASSUME GiveUpIdle PROVE TypeOK'
    BY <1>13 DEF GiveUpIdle, Results
<1>14. ASSUME ReportStopped PROVE TypeOK'
    BY <1>14 DEF ReportStopped
<1>15. ASSUME ReturnTv PROVE TypeOK'
    BY <1>15 DEF ReturnTv, CommandResults, Effect, Results, ReturnTargets, Screens, Recalled
<1>16. ASSUME RestoreAv PROVE TypeOK'
    BY <1>16 DEF RestoreAv, CommandResults, Effect, Results
<1>17. ASSUME RecoverPlayer PROVE TypeOK'
    BY <1>17 DEF RecoverPlayer, CommandResults, Effect, Results
<1>18. ASSUME RecoverTv PROVE TypeOK'
    BY <1>18 DEF RecoverTv, CommandResults, Effect, Results, ReturnTargets, Screens, Recalled
<1>19. ASSUME RecoverAv PROVE TypeOK'
    BY <1>19 DEF RecoverAv, CommandResults, Effect, Results
<1>20. ASSUME RequestReplacement PROVE TypeOK'
    BY <1>20 DEF RequestReplacement
<1>21. ASSUME WithdrawReplacement PROVE TypeOK'
    BY <1>21 DEF WithdrawReplacement
<1>22. CASE UNCHANGED vars
    BY <1>22 DEF vars
<1> QED
    BY <1>1, <1>2, <1>3, <1>4, <1>5, <1>6, <1>7, <1>8, <1>9, <1>10, <1>11, <1>12, <1>13, <1>14, <1>15, <1>16, <1>17, <1>18, <1>19, <1>20, <1>21, <1>22
    DEF Next, Start, FinishPlayback, Recover

LEMMA InitTyped ==
    ASSUME Init
    PROVE  TypeOK
<1>1. pc \in Pcs /\ request \in Requests /\ screen \in Screens
    BY DEF Init, Pcs, StartupPc
<1>2. startup \in [previous : Recalled, tv : Results, power : Results,
                     input : Results, oppo : StartResults]
    BY DEF Init, Recalled, Results, StartResults
<1>3. finish \in [restore : BOOLEAN, polls : Nat, category : Categories,
                    idle : Results, tv : Results, av : Results]
    BY DEF Init, NoFinish, Categories, Results
<1>4. recovery \in [player : Results, tv : Results, av : Results]
    BY DEF Init, Results
<1> QED
    BY <1>1, <1>2, <1>3, <1>4 DEF Init, TypeOK

\* The run never leaves its states: every result, category and device state is
\* one of those the code knows, for any numbers of applications and polls.
THEOREM TypeCorrect == Spec => []TypeOK
<1>1. Init => TypeOK
    BY InitTyped
<1> QED
    BY <1>1, TypingStep, PTL DEF Spec

-------------------------------------------------------------------------------
(***************************************************************************)
(* The inductive invariant is preserved by every action: one lemma for     *)
(* each, with one step for each part of the invariant.                     *)
(***************************************************************************)

\* Reading the application touches nothing but the startup result.
LEMMA ReadCurrentAppPreserves ==
    ASSUME IInv, ReadCurrentApp, TypeOK'
    PROVE  IInv'
<1>1. StartupFacts'
    BY DEF IInv, FinishPc, ReadCurrentApp, StartupFacts
<1>2. OutputFacts'
    BY DEF IInv, FinishFacts, RecoveryFacts, OutputFacts, ReadCurrentApp, room,
           BeforeFinish, StartupPc
<1>3. FinishFacts'
    BY DEF IInv, BeforeFinish, FinishFacts, FinishPc, FinishReturned,
           ReadCurrentApp, StartupPc
<1>4. ServerFacts'
    BY DEF IInv, FinishReturned, ReadCurrentApp, ServerFacts, room
<1>5. RecoveryFacts'
    BY DEF IInv, BeforeFinish, ReadCurrentApp, RecoveryFacts, RecoveryPc,
           StartupPc
<1> QED
    BY <1>1, <1>2, <1>3, <1>4, <1>5 DEF IInv

\* A television that was switched shows the player; if it was not, the receiver's
\* commands are skipped.
LEMMA SwitchTvPreserves ==
    ASSUME IInv, SwitchTv, TypeOK'
    PROVE  IInv'
<1>1. PICK r \in CommandResults(request.tv) :
         /\ screen' \in Effect(r, screen, Hdmi)
         /\ IF r = "success"
            THEN /\ startup' = [startup EXCEPT !.tv = r]
                 /\ pc' = "power_av"
            ELSE /\ startup' = [startup EXCEPT !.tv = r, !.power = "skipped",
                                               !.input = "skipped"]
                 /\ pc' = "start_oppo"
  BY Zenon DEF SwitchTv
<1>2. UNCHANGED <<request, monitoring, finish, recovery, replacing, server,
                  command, audio>>
  BY DEF SwitchTv
<1>3. ASSUME r = "success" PROVE StartupFacts' /\ OutputFacts'
  <2>1. startup' = [startup EXCEPT !.tv = r] /\ pc' = "power_av" /\ screen' = Hdmi
    BY <1>1, <1>3 DEF Effect
  <2>2. request.tv
    BY <1>1, <1>3 DEF CommandResults
  <2>3. StartupFacts'
    BY <1>2, <1>3, <2>1, <2>2 DEF IInv, TypeOK, StartupFacts, FinishPc
  <2>4. OutputFacts'
    BY <1>2, <2>1 DEF IInv, TypeOK, OutputFacts, FinishFacts, RecoveryFacts,
                      SwitchTv, BeforeFinish, StartupPc
  <2> QED
    BY <2>3, <2>4
<1>4. ASSUME r # "success" PROVE StartupFacts' /\ OutputFacts'
  <2>1. /\ startup'.tv # "success" /\ startup'.input # "success"
        /\ startup'.previous = startup.previous
        /\ pc' = "start_oppo"
    BY <1>1, <1>4 DEF IInv, TypeOK
  <2>2. StartupFacts'
    BY <1>2, <2>1 DEF IInv, StartupFacts, FinishPc
  <2>3. OutputFacts'
    BY <1>2, <2>1 DEF IInv, OutputFacts, FinishFacts, RecoveryFacts, SwitchTv,
                      BeforeFinish, StartupPc
  <2> QED
    BY <2>2, <2>3
<1>5. StartupFacts' /\ OutputFacts'
  BY <1>3, <1>4
<1>6. FinishFacts'
    BY DEF IInv, BeforeFinish, FinishFacts, FinishPc, FinishReturned,
           StartupPc, SwitchTv
<1>7. ServerFacts'
    BY DEF IInv, FinishReturned, ServerFacts, SwitchTv
<1>8. RecoveryFacts'
    BY DEF IInv, BeforeFinish, RecoveryFacts, RecoveryPc, StartupPc, SwitchTv
<1> QED
    BY <1>5, <1>6, <1>7, <1>8 DEF IInv

\* Power is not what the facts about the outputs are about.
LEMMA PowerOnAvPreserves ==
    ASSUME IInv, PowerOnAv, TypeOK'
    PROVE  IInv'
<1>1. StartupFacts'
    BY DEF IInv, FinishPc, PowerOnAv, StartupFacts
<1>2. OutputFacts'
    BY DEF IInv, OutputFacts, PowerOnAv, TvReturned, room
<1>3. FinishFacts'
    BY DEF IInv, BeforeFinish, FinishFacts, FinishPc, FinishReturned,
           PowerOnAv, StartupPc
<1>4. ServerFacts'
    BY DEF IInv, FinishReturned, PowerOnAv, ServerFacts, room
<1>5. RecoveryFacts'
    BY DEF IInv, BeforeFinish, PowerOnAv, RecoveryFacts, RecoveryPc, StartupPc
<1> QED
    BY <1>1, <1>2, <1>3, <1>4, <1>5 DEF IInv

\* A switched receiver plays the player.
LEMMA SwitchAvPreserves ==
    ASSUME IInv, SwitchAv, TypeOK'
    PROVE  IInv'
<1>1. StartupFacts'
    BY DEF IInv, TypeOK, CommandResults, FinishPc, StartupFacts, SwitchAv
<1>2. OutputFacts'
    BY DEF IInv, FinishFacts, RecoveryFacts, TypeOK, Effect, OutputFacts,
           SwitchAv, BeforeFinish, RecoveryPc, Pcs
<1>3. FinishFacts'
    BY DEF IInv, BeforeFinish, FinishFacts, FinishPc, FinishReturned,
           StartupPc, SwitchAv
<1>4. ServerFacts'
    BY DEF IInv, FinishReturned, ServerFacts, SwitchAv
<1>5. RecoveryFacts'
    BY DEF IInv, BeforeFinish, RecoveryFacts, RecoveryPc, StartupPc, SwitchAv
<1> QED
    BY <1>1, <1>2, <1>3, <1>4, <1>5 DEF IInv

\* Only a successful startup is completed; any other one is recovered from.
LEMMA StartOppoPreserves ==
    ASSUME IInv, StartOppo, TypeOK'
    PROVE  IInv'
<1>1. StartupFacts'
    BY DEF IInv, FinishPc, StartOppo, StartupFacts
<1>2. OutputFacts'
    BY DEF IInv, RecoveryFacts, OutputFacts, StartOppo, StartCommands, TvReturned,
           BeforeFinish, StartupPc
<1>3. FinishFacts'
    BY DEF IInv, BeforeFinish, FinishFacts, FinishPc, FinishReturned,
           StartOppo, StartupPc
<1>4. ServerFacts'
    BY DEF IInv, FinishReturned, ServerFacts, StartOppo
<1>5. RecoveryFacts'
    BY DEF IInv, BeforeFinish, RecoveryFacts, RecoveryPc, StartOppo, StartupPc,
           Successful
<1> QED
    BY <1>1, <1>2, <1>3, <1>4, <1>5 DEF IInv

\* The start report is all that a completion changes in the room.
LEMMA CompleteStartupPreserves ==
    ASSUME IInv, CompleteStartup, TypeOK'
    PROVE  IInv'
<1>1. StartupFacts'
    BY DEF IInv, CompleteStartup, StartupFacts, results
<1>2. OutputFacts'
    BY DEF IInv, CompleteStartup, OutputFacts, TvReturned, results
<1>3. FinishFacts'
    BY DEF IInv, BeforeFinish, CompleteStartup, FinishFacts, FinishPc,
           FinishReturned, StartupPc, results
<1>4. ServerFacts'
    BY DEF IInv, FinishFacts, CompleteStartup, FinishReturned, ServerFacts,
           results, StartupPc
<1>5. RecoveryFacts'
    BY DEF IInv, FinishFacts, BeforeFinish, CompleteStartup, RecoveryFacts,
           StartupPc, Successful, results
<1> QED
    BY <1>1, <1>2, <1>3, <1>4, <1>5 DEF IInv

\* A run that is finished has a monitoring result; one that failed has not.
LEMMA MonitorUntilStoppedPreserves ==
    ASSUME IInv, MonitorUntilStopped, TypeOK'
    PROVE  IInv'
<1>1. StartupFacts'
    BY DEF IInv, MonitorUntilStopped, StartupFacts
<1>2. OutputFacts'
    BY DEF IInv, MonitorUntilStopped, OutputFacts, TvReturned, room
<1>3. FinishFacts'
    BY DEF IInv, MonitoringResults, BeforeFinish, FinishFacts, FinishPc,
           FinishReturned, MonitorUntilStopped, NoMonitoring, StartupPc
<1>4. ServerFacts'
    BY DEF IInv, MonitoringResults, FinishReturned, MonitorUntilStopped,
           NoMonitoring, ServerFacts, room
<1>5. RecoveryFacts'
    BY DEF IInv, FinishFacts, BeforeFinish, FinishReturned,
           MonitorUntilStopped, RecoveryFacts, Successful
<1> QED
    BY <1>1, <1>2, <1>3, <1>4, <1>5 DEF IInv

\* The late reads change nothing that was established.
LEMMA ResolveOutputsPreserves ==
    ASSUME IInv, ResolveOutputs, TypeOK'
    PROVE  IInv'
<1>1. StartupFacts'
    BY DEF IInv, ResolveOutputs, StartupFacts
<1>2. OutputFacts'
    BY DEF IInv, OutputFacts, ResolveOutputs, TvReturned, room
<1>3. FinishFacts'
    BY DEF IInv, BeforeFinish, FinishFacts, FinishReturned, ResolveOutputs,
           StartupPc
<1>4. ServerFacts'
    BY DEF IInv, FinishReturned, ResolveOutputs, ServerFacts, room
<1>5. RecoveryFacts'
    BY DEF IInv, BeforeFinish, RecoveryFacts, RecoveryPc, ResolveOutputs
<1> QED
    BY <1>1, <1>2, <1>3, <1>4, <1>5 DEF IInv

\* (the second of them)
LEMMA ResolvePollsPreserves ==
    ASSUME IInv, ResolvePolls, TypeOK'
    PROVE  IInv'
<1>1. StartupFacts'
    BY DEF IInv, FinishPc, ResolvePolls, StartupFacts
<1>2. OutputFacts'
    BY DEF IInv, OutputFacts, ResolvePolls, TvReturned, room
<1>3. FinishFacts'
    BY DEF IInv, FinishFacts, FinishPc, FinishReturned, ResolvePolls, StartupPc
<1>4. ServerFacts'
    BY DEF IInv, FinishReturned, ResolvePolls, ServerFacts, room
<1>5. RecoveryFacts'
    BY DEF IInv, FinishPc, RecoveryFacts, RecoveryPc, ResolvePolls
<1> QED
    BY <1>1, <1>2, <1>3, <1>4, <1>5 DEF IInv

\* A close that failed settles the player as not idle.
LEMMA ClosePlayerPreserves ==
    ASSUME IInv, ClosePlayer, TypeOK'
    PROVE  IInv'
<1>1. StartupFacts'
    BY DEF IInv, ClosePlayer, FinishPc, StartupFacts
<1>2. OutputFacts'
    BY DEF IInv, TypeOK, ClosePlayer, Effect, OutputFacts, TvReturned
<1>3. FinishFacts'
    BY DEF IInv, TypeOK, BeforeFinish, ClosePlayer, FinishFacts, FinishPc,
           FinishReturned, StartupPc
<1>4. ServerFacts'
    BY DEF IInv, TypeOK, ClosePlayer, FinishReturned, ServerFacts
<1>5. RecoveryFacts'
    BY DEF IInv, ClosePlayer, FinishPc, RecoveryFacts, RecoveryPc
<1> QED
    BY <1>1, <1>2, <1>3, <1>4, <1>5 DEF IInv

\* An idle result means an idle category.
LEMMA ConfirmAlreadyIdlePreserves ==
    ASSUME IInv, ConfirmAlreadyIdle, TypeOK'
    PROVE  IInv'
<1>1. StartupFacts'
    BY DEF IInv, ConfirmAlreadyIdle, FinishPc, StartupFacts
<1>2. OutputFacts'
    BY DEF IInv, ConfirmAlreadyIdle, OutputFacts, TvReturned, room
<1>3. FinishFacts'
    BY DEF IInv, BeforeFinish, ConfirmAlreadyIdle, FinishFacts, FinishPc,
           FinishReturned, StartupPc
<1>4. ServerFacts'
    BY DEF IInv, ConfirmAlreadyIdle, FinishReturned, ServerFacts, room
<1>5. RecoveryFacts'
    BY DEF IInv, ConfirmAlreadyIdle, FinishPc, RecoveryFacts, RecoveryPc
<1> QED
    BY <1>1, <1>2, <1>3, <1>4, <1>5 DEF IInv

\* A poll keeps the result pending, or fails it.
LEMMA PollIdlePreserves ==
    ASSUME IInv, PollIdle, TypeOK'
    PROVE  IInv'
<1>1. /\ finish'.tv = finish.tv /\ finish'.av = finish.av
      /\ finish'.restore = finish.restore
      /\ \/ pc' = pc /\ finish'.idle = finish.idle
         \/ pc' = "report_stop" /\ finish'.idle = "failed"
  <2>1. finish.polls \in Nat
    BY DEF IInv, TypeOK
  <2>2. CASE \E category \in Categories :
                /\ finish' = [finish EXCEPT !.polls = finish.polls - 1,
                                            !.category = category]
                /\ UNCHANGED pc
    BY <2>1, <2>2 DEF IInv, TypeOK
  <2>3. CASE finish' = [finish EXCEPT !.idle = "failed"] /\ pc' = "report_stop"
    BY <2>3 DEF IInv, TypeOK
  <2> QED
    BY <2>2, <2>3 DEF PollIdle
<1>2. pc = "confirm"
  BY DEF PollIdle
<1>3. UNCHANGED <<request, startup, monitoring, recovery, replacing, server,
                  command, screen, audio>>
  BY DEF PollIdle, room
<1>4. finish.idle = "pending" /\ finish.tv = "pending" /\ finish.av = "pending"
  BY <1>2 DEF IInv, FinishFacts, FinishPc
<1>5. StartupFacts'
  BY <1>1, <1>2, <1>3 DEF IInv, StartupFacts, FinishPc
<1>6. OutputFacts'
  BY <1>1, <1>3 DEF IInv, OutputFacts, TvReturned
<1>7. FinishFacts'
  BY <1>1, <1>2, <1>3, <1>4
     DEF IInv, FinishFacts, FinishReturned, FinishPc, StartupPc, BeforeFinish
<1>8. ServerFacts'
  BY <1>1, <1>2, <1>3, <1>4 DEF IInv, ServerFacts, FinishReturned
<1>9. RecoveryFacts'
  BY <1>1, <1>2, <1>3
     DEF IInv, RecoveryFacts, RecoveryPc, FinishPc, BeforeFinish, StartupPc
<1> QED
  BY <1>5, <1>6, <1>7, <1>8, <1>9 DEF IInv

\* Without polls left the player is settled as not idle.
LEMMA GiveUpIdlePreserves ==
    ASSUME IInv, GiveUpIdle, TypeOK'
    PROVE  IInv'
<1>1. StartupFacts'
    BY DEF IInv, FinishPc, GiveUpIdle, StartupFacts
<1>2. OutputFacts'
    BY DEF IInv, GiveUpIdle, OutputFacts, TvReturned, room
<1>3. FinishFacts'
    BY DEF IInv, BeforeFinish, FinishFacts, FinishPc, FinishReturned,
           GiveUpIdle, StartupPc
<1>4. ServerFacts'
    BY DEF IInv, FinishReturned, GiveUpIdle, ServerFacts, room
<1>5. RecoveryFacts'
    BY DEF IInv, FinishPc, FinishSuccessful, GiveUpIdle, RecoveryFacts,
           Successful
<1> QED
    BY <1>1, <1>2, <1>3, <1>4, <1>5 DEF IInv

\* The outputs are reached only when Emby has heard of the stop.
LEMMA ReportStoppedPreserves ==
    ASSUME IInv, ReportStopped, TypeOK'
    PROVE  IInv'
<1>1. StartupFacts'
    BY DEF IInv, FinishPc, ReportStopped, StartupFacts, results
<1>2. OutputFacts'
    BY DEF IInv, OutputFacts, ReportStopped, TvReturned, results
<1>3. FinishFacts'
    BY DEF IInv, BeforeFinish, FinishFacts, FinishPc, FinishReturned,
           ReportStopped, StartupPc, results
<1>4. ServerFacts'
    BY DEF IInv, FinishFacts, FinishReturned, ReportStopped, ServerFacts,
           results, FinishPc
<1>5. RecoveryFacts'
    BY DEF IInv, FinishFacts, FinishPc, FinishReturned, RecoveryFacts,
           ReportStopped, Successful, results
<1> QED
    BY <1>1, <1>2, <1>3, <1>4, <1>5 DEF IInv

\* A returned television shows the recalled application.
LEMMA ReturnTvPreserves ==
    ASSUME IInv, ReturnTv, TypeOK'
    PROVE  IInv'
<1>1. StartupFacts'
    BY DEF IInv, FinishPc, ReturnTv, StartupFacts
<1>2. OutputFacts'
    BY DEF IInv, FinishFacts, Effect, OutputFacts, ReturnTargets, ReturnTv,
           TvReturned, Untouched, FinishPc
<1>3. FinishFacts'
    BY DEF IInv, BeforeFinish, FinishFacts, FinishPc, FinishReturned, ReturnTv,
           StartupPc
<1>4. ServerFacts'
    BY DEF IInv, ReturnTv, ServerFacts
<1>5. RecoveryFacts'
    BY DEF IInv, FinishPc, RecoveryFacts, RecoveryPc, ReturnTv
<1> QED
    BY <1>1, <1>2, <1>3, <1>4, <1>5 DEF IInv

\* The last step decides between the clean end and recovery.
LEMMA RestoreAvPreserves ==
    ASSUME IInv, RestoreAv, TypeOK'
    PROVE  IInv'
<1>1. StartupFacts'
    BY DEF IInv, FinishPc, RestoreAv, StartupFacts
<1>2. OutputFacts'
    BY DEF IInv, FinishFacts, Effect, OutputFacts, RestoreAv, TvReturned,
           Untouched, FinishPc
<1>3. FinishFacts'
    BY DEF IInv, BeforeFinish, FinishFacts, FinishPc, RestoreAv, StartupPc
<1>4. ServerFacts'
    BY DEF IInv, RestoreAv, ServerFacts
<1>5. RecoveryFacts'
    BY DEF IInv, StartupFacts, FinishFacts, CommandResults, FinishPc,
           FinishReturned, RecoveryFacts, RecoveryPc, RestoreAv, Successful
<1> QED
    BY <1>1, <1>2, <1>3, <1>4, <1>5 DEF IInv

\* The recovery starts with the player, ...
LEMMA RecoverPlayerPreserves ==
    ASSUME IInv, RecoverPlayer, TypeOK'
    PROVE  IInv'
<1>1. StartupFacts'
    BY DEF IInv, FinishPc, RecoverPlayer, StartupFacts
<1>2. OutputFacts'
    BY DEF IInv, Effect, OutputFacts, RecoverPlayer, TvReturned
<1>3. FinishFacts'
    BY DEF IInv, BeforeFinish, FinishFacts, FinishPc, FinishReturned,
           RecoverPlayer, StartupPc
<1>4. ServerFacts'
    BY DEF IInv, FinishReturned, RecoverPlayer, ServerFacts
<1>5. RecoveryFacts'
    BY DEF IInv, BeforeFinish, CommandResults, FinishPc, FinishReturned,
           RecoverPlayer, RecoveryFacts, RecoveryPc, StartupPc, Successful
<1> QED
    BY <1>1, <1>2, <1>3, <1>4, <1>5 DEF IInv

\* ... goes on with the television, ...
LEMMA RecoverTvPreserves ==
    ASSUME IInv, RecoverTv, TypeOK'
    PROVE  IInv'
<1>1. StartupFacts'
    BY DEF IInv, FinishPc, RecoverTv, StartupFacts
<1>2. OutputFacts'
    BY DEF IInv, CommandResults, Effect, OutputFacts, RecoverTv, ReturnTargets,
           TvReturned
<1>3. FinishFacts'
    BY DEF IInv, BeforeFinish, FinishFacts, FinishPc, FinishReturned,
           RecoverTv, StartupPc
<1>4. ServerFacts'
    BY DEF IInv, FinishReturned, RecoverTv, ServerFacts
<1>5. RecoveryFacts'
    BY DEF IInv, BeforeFinish, CommandResults, FinishPc, FinishReturned,
           RecoverTv, RecoveryFacts, RecoveryPc, StartupPc, Successful
<1> QED
    BY <1>1, <1>2, <1>3, <1>4, <1>5 DEF IInv

\* ... and ends the run with the receiver.
LEMMA RecoverAvPreserves ==
    ASSUME IInv, RecoverAv, TypeOK'
    PROVE  IInv'
<1>1. StartupFacts'
    BY DEF IInv, FinishPc, RecoverAv, StartupFacts
<1>2. OutputFacts'
    BY DEF IInv, CommandResults, Effect, OutputFacts, RecoverAv, TvReturned
<1>3. FinishFacts'
    BY DEF IInv, BeforeFinish, FinishFacts, FinishPc, FinishReturned,
           RecoverAv, StartupPc
<1>4. ServerFacts'
    BY DEF IInv, FinishReturned, RecoverAv, ServerFacts
<1>5. RecoveryFacts'
    BY DEF IInv, BeforeFinish, CommandResults, FinishPc, FinishReturned,
           RecoverAv, RecoveryFacts, RecoveryPc, StartupPc, Successful
<1> QED
    BY <1>1, <1>2, <1>3, <1>4, <1>5 DEF IInv

\* The event is not part of any fact: the run reads it late, and once.
LEMMA RequestReplacementPreserves ==
    ASSUME IInv, RequestReplacement, TypeOK'
    PROVE  IInv'
<1>1. StartupFacts'
    BY DEF IInv, RequestReplacement, StartupFacts, results
<1>2. OutputFacts'
    BY DEF IInv, OutputFacts, RequestReplacement, TvReturned, results, room
<1>3. FinishFacts'
    BY DEF IInv, FinishFacts, FinishReturned, RequestReplacement, results
<1>4. ServerFacts'
    BY DEF IInv, FinishReturned, RequestReplacement, ServerFacts, results, room
<1>5. RecoveryFacts'
    BY DEF IInv, FinishReturned, RecoveryFacts, RequestReplacement, Successful,
           results
<1> QED
    BY <1>1, <1>2, <1>3, <1>4, <1>5 DEF IInv

\* (nor is its withdrawal)
LEMMA WithdrawReplacementPreserves ==
    ASSUME IInv, WithdrawReplacement, TypeOK'
    PROVE  IInv'
<1>1. StartupFacts'
    BY DEF IInv, StartupFacts, WithdrawReplacement, results
<1>2. OutputFacts'
    BY DEF IInv, OutputFacts, TvReturned, WithdrawReplacement, results, room
<1>3. FinishFacts'
    BY DEF IInv, FinishFacts, FinishReturned, WithdrawReplacement, results
<1>4. ServerFacts'
    BY DEF IInv, FinishReturned, ServerFacts, WithdrawReplacement, results,
           room
<1>5. RecoveryFacts'
    BY DEF IInv, FinishReturned, RecoveryFacts, Successful,
           WithdrawReplacement, results
<1> QED
    BY <1>1, <1>2, <1>3, <1>4, <1>5 DEF IInv

LEMMA InductiveStep ==
    ASSUME IInv, [Next]_vars
    PROVE  IInv'
<1>0. TypeOK'
    BY TypingStep DEF IInv
<1>1. ASSUME ReadCurrentApp PROVE IInv'
    BY <1>0, <1>1, ReadCurrentAppPreserves
<1>2. ASSUME SwitchTv PROVE IInv'
    BY <1>0, <1>2, SwitchTvPreserves
<1>3. ASSUME PowerOnAv PROVE IInv'
    BY <1>0, <1>3, PowerOnAvPreserves
<1>4. ASSUME SwitchAv PROVE IInv'
    BY <1>0, <1>4, SwitchAvPreserves
<1>5. ASSUME StartOppo PROVE IInv'
    BY <1>0, <1>5, StartOppoPreserves
<1>6. ASSUME CompleteStartup PROVE IInv'
    BY <1>0, <1>6, CompleteStartupPreserves
<1>7. ASSUME MonitorUntilStopped PROVE IInv'
    BY <1>0, <1>7, MonitorUntilStoppedPreserves
<1>8. ASSUME ResolveOutputs PROVE IInv'
    BY <1>0, <1>8, ResolveOutputsPreserves
<1>9. ASSUME ResolvePolls PROVE IInv'
    BY <1>0, <1>9, ResolvePollsPreserves
<1>10. ASSUME ClosePlayer PROVE IInv'
    BY <1>0, <1>10, ClosePlayerPreserves
<1>11. ASSUME ConfirmAlreadyIdle PROVE IInv'
    BY <1>0, <1>11, ConfirmAlreadyIdlePreserves
<1>12. ASSUME PollIdle PROVE IInv'
    BY <1>0, <1>12, PollIdlePreserves
<1>13. ASSUME GiveUpIdle PROVE IInv'
    BY <1>0, <1>13, GiveUpIdlePreserves
<1>14. ASSUME ReportStopped PROVE IInv'
    BY <1>0, <1>14, ReportStoppedPreserves
<1>15. ASSUME ReturnTv PROVE IInv'
    BY <1>0, <1>15, ReturnTvPreserves
<1>16. ASSUME RestoreAv PROVE IInv'
    BY <1>0, <1>16, RestoreAvPreserves
<1>17. ASSUME RecoverPlayer PROVE IInv'
    BY <1>0, <1>17, RecoverPlayerPreserves
<1>18. ASSUME RecoverTv PROVE IInv'
    BY <1>0, <1>18, RecoverTvPreserves
<1>19. ASSUME RecoverAv PROVE IInv'
    BY <1>0, <1>19, RecoverAvPreserves
<1>20. ASSUME RequestReplacement PROVE IInv'
    BY <1>0, <1>20, RequestReplacementPreserves
<1>21. ASSUME WithdrawReplacement PROVE IInv'
    BY <1>0, <1>21, WithdrawReplacementPreserves
<1>22. CASE UNCHANGED vars
    BY <1>22 DEF vars, results, room, IInv, TypeOK, StartupFacts, OutputFacts,
       FinishFacts, ServerFacts, RecoveryFacts, TvReturned, FinishReturned,
       Successful
<1> QED
    BY <1>1, <1>2, <1>3, <1>4, <1>5, <1>6, <1>7, <1>8, <1>9, <1>10,
       <1>11, <1>12, <1>13, <1>14, <1>15, <1>16, <1>17, <1>18, <1>19,
       <1>20, <1>21, <1>22
    DEF Next, Start, FinishPlayback, Recover

LEMMA InductiveInit == Init => IInv
<1> SUFFICES ASSUME Init PROVE IInv
    OBVIOUS
<1>1. TypeOK
    BY InitTyped
<1>2. StartupFacts
    BY DEF Init, StartupFacts, FinishPc
<1>3. OutputFacts
    BY DEF Init, NoFinish, OutputFacts
<1>4. FinishFacts
    BY DEF Init, NoFinish, FinishFacts, FinishPc, FinishReturned
<1>5. ServerFacts
    BY DEF Init, NoFinish, ServerFacts, FinishReturned
<1>6. RecoveryFacts
    BY DEF Init, RecoveryFacts, RecoveryPc
<1> QED
    BY <1>1, <1>2, <1>3, <1>4, <1>5, <1>6 DEF IInv

\* The facts that the stretches of a run establish for each other hold
\* throughout, whatever fails in it.
THEOREM Invariance == Spec => []IInv
    BY InductiveInit, InductiveStep, PTL DEF Spec

-------------------------------------------------------------------------------
(***************************************************************************)
(* What follows from the inductive invariant.                              *)
(***************************************************************************)

\* A successful run saw the player idle, told Emby, and left both outputs
\* where it decided to leave them: for any devices, failures and replacements.
THEOREM CleanEnd == Spec => []CleanEndIsSettled
<1>1. IInv => CleanEndIsSettled
  <2> SUFFICES ASSUME IInv, pc = "done", Successful
               PROVE  /\ finish.category = "IDLE"
                      /\ server = "stopped"
                      /\ finish.restore => TvReturned /\ (request.av => audio = "tv")
                      /\ ~finish.restore =>
                            /\ screen = Hdmi
                            /\ request.av /\ request.input => audio = "player"
    BY DEF CleanEndIsSettled
  <2>1. /\ startup.tv = "success" /\ startup.input # "failed"
        /\ FinishReturned
        /\ finish.idle # "failed" /\ finish.tv # "failed" /\ finish.av # "failed"
    BY DEF Successful, StartupSuccessful, OutputsSwitched, FinishSuccessful
  <2>2. request.tv
    BY <2>1 DEF IInv, StartupFacts
  <2>3. recovery = [player |-> "pending", tv |-> "pending", av |-> "pending"]
    BY DEF IInv, RecoveryFacts
  <2>4. finish.idle = "success"
    BY <2>1 DEF IInv, TypeOK, Results, FinishFacts
  <2>5. finish.category = "IDLE" /\ server = "stopped"
    BY <2>1, <2>4 DEF IInv, FinishFacts, ServerFacts
  <2>6. ASSUME finish.restore PROVE TvReturned /\ (request.av => audio = "tv")
    BY <2>1, <2>2, <2>3, <2>6
       DEF IInv, FinishFacts, OutputFacts, CommandResults
  <2>7. ASSUME ~finish.restore
        PROVE  screen = Hdmi /\ (request.av /\ request.input => audio = "player")
    <3>1. finish.tv = "skipped" /\ finish.av = "skipped"
      BY <2>1, <2>7 DEF IInv, FinishFacts, CommandResults
    <3>2. request.av /\ request.input => startup.input = "success"
      BY <2>1 DEF IInv, StartupFacts
    <3> QED
      BY <2>1, <2>3, <3>1, <3>2 DEF IInv, OutputFacts, Untouched
  <2> QED
    BY <2>5, <2>6, <2>7
<1> QED
    BY <1>1, Invariance, PTL

\* A run that failed anywhere has stopped the player and given the outputs
\* back, as far as the devices obeyed.
THEOREM FailedEnd == Spec => []FailedEndIsRecovered
<1>1. IInv => FailedEndIsRecovered
    BY DEF IInv, FailedEndIsRecovered, OutputFacts, RecoveryFacts
<1> QED
    BY <1>1, Invariance, PTL

\* Emby hears of the end of every playback whose monitoring and whose stop
\* report went through.
THEOREM ServerHears == Spec => []ServerHearsTheEnd
<1>1. IInv => ServerHearsTheEnd
    BY DEF IInv, ServerHearsTheEnd, ServerFacts
<1> QED
    BY <1>1, Invariance, PTL

\* The outputs leave the player only after it was settled or told to stop.
THEOREM OutputsFollow == Spec => OutputsFollowThePlayer
<1> DEFINE Leaves == \/ screen = Hdmi /\ screen' # Hdmi
                     \/ audio = "player" /\ audio' = "tv"
           Settled == finish.idle # "pending" \/ recovery.player # "pending"
<1>1. ASSUME IInv, [Next]_vars, Leaves PROVE Settled
  <2>1. ASSUME SwitchTv PROVE FALSE
    BY <1>1, <2>1 DEF SwitchTv, CommandResults, Effect
  <2>2. ASSUME SwitchAv PROVE FALSE
    BY <1>1, <2>2 DEF SwitchAv, CommandResults, Effect
  <2>3. ASSUME ReturnTv \/ RestoreAv PROVE Settled
    BY <1>1, <2>3 DEF ReturnTv, RestoreAv, IInv, FinishFacts
  <2>4. ASSUME RecoverTv \/ RecoverAv PROVE Settled
    BY <1>1, <2>4 DEF RecoverTv, RecoverAv, IInv, RecoveryFacts
  <2> QED
    BY <1>1, <2>1, <2>2, <2>3, <2>4
       DEF Next, Start, FinishPlayback, Recover, vars, room, ReadCurrentApp,
           PowerOnAv, StartOppo, CompleteStartup, MonitorUntilStopped,
           ResolveOutputs, ResolvePolls, ClosePlayer, ConfirmAlreadyIdle, PollIdle,
           GiveUpIdle, ReportStopped, RecoverPlayer, RequestReplacement,
           WithdrawReplacement
<1>2. IInv /\ [Next]_vars => [Leaves => Settled]_vars
    BY <1>1
<1> QED
    BY <1>2, Invariance, PTL DEF Spec, OutputsFollowThePlayer

-------------------------------------------------------------------------------
(***************************************************************************)
(* The run implements PlaybackPromise: its steps, seen through Phase and   *)
(* Kept, are steps of the promise or change nothing in it.                 *)
(***************************************************************************)

View(p, k) == Phase = p /\ Kept = k

\* What the abstract specification sees of a run in each stretch of it.
LEMMA Views ==
    TypeOK =>
        /\ pc \in StartupPc => View("starting", FALSE)
        /\ pc \in {"monitor", "resolve_outputs"} => View("playing", FALSE)
        /\ pc \in FinishPc => View("finishing", ~finish.restore)
        /\ pc \in RecoveryPc => View("recovering", FALSE)
        /\ pc = "done" /\ Successful => View("clean", ~finish.restore)
        /\ pc = "done" /\ ~Successful => View("failed", FALSE)
<1> USE DEF View, Kept, StartupPc, FinishPc, RecoveryPc
<1> SUFFICES ASSUME TypeOK
             PROVE  /\ pc \in StartupPc => View("starting", FALSE)
                    /\ pc \in {"monitor", "resolve_outputs"} => View("playing", FALSE)
                    /\ pc \in FinishPc => View("finishing", ~finish.restore)
                    /\ pc \in RecoveryPc => View("recovering", FALSE)
                    /\ pc = "done" /\ Successful => View("clean", ~finish.restore)
                    /\ pc = "done" /\ ~Successful => View("failed", FALSE)
    OBVIOUS
<1>1. pc \in StartupPc => View("starting", FALSE)
    BY DEF Phase
<1>2. pc \in {"monitor", "resolve_outputs"} => View("playing", FALSE)
    BY DEF Phase
<1>3. pc \in FinishPc => View("finishing", ~finish.restore)
    BY DEF Phase
<1>4. pc \in RecoveryPc => View("recovering", FALSE)
    BY DEF Phase
<1>5. pc = "done" /\ Successful => View("clean", ~finish.restore)
    BY DEF Phase
<1>6. pc = "done" /\ ~Successful => View("failed", FALSE)
    BY DEF Phase
<1> QED
    BY <1>1, <1>2, <1>3, <1>4, <1>5, <1>6

LEMMA PromiseStep ==
    ASSUME IInv, IInv', [Next]_vars
    PROVE  [Promise!Next]_(Promise!vars)
<1> USE DEF Promise!Next, Promise!vars, View
<1>1. TypeOK /\ TypeOK'
    BY DEF IInv
<1>2. /\ pc \in StartupPc => View("starting", FALSE)
      /\ pc \in {"monitor", "resolve_outputs"} => View("playing", FALSE)
      /\ pc \in FinishPc => View("finishing", ~finish.restore)
      /\ pc \in RecoveryPc => View("recovering", FALSE)
      /\ pc = "done" /\ Successful => View("clean", ~finish.restore)
      /\ pc = "done" /\ ~Successful => View("failed", FALSE)
    BY <1>1, Views
<1>3. /\ pc' \in StartupPc => View("starting", FALSE)'
      /\ pc' \in {"monitor", "resolve_outputs"} => View("playing", FALSE)'
      /\ pc' \in FinishPc => View("finishing", ~finish.restore)'
      /\ pc' \in RecoveryPc => View("recovering", FALSE)'
      /\ pc' = "done" /\ Successful' => View("clean", ~finish.restore)'
      /\ pc' = "done" /\ ~Successful' => View("failed", FALSE)'
  <2>1. (TypeOK =>
          /\ pc \in StartupPc => View("starting", FALSE)
          /\ pc \in {"monitor", "resolve_outputs"} => View("playing", FALSE)
          /\ pc \in FinishPc => View("finishing", ~finish.restore)
          /\ pc \in RecoveryPc => View("recovering", FALSE)
          /\ pc = "done" /\ Successful => View("clean", ~finish.restore)
          /\ pc = "done" /\ ~Successful => View("failed", FALSE))'
    BY Views, PTL
  <2> QED
    BY <1>1, <2>1 DEF StartupPc, FinishPc, RecoveryPc
<1>4. ASSUME ReadCurrentApp \/ SwitchTv \/ PowerOnAv \/ SwitchAv
      PROVE  UNCHANGED <<Phase, Kept>>
  <2>1. pc \in StartupPc /\ pc' \in StartupPc
    BY <1>4 DEF ReadCurrentApp, SwitchTv, PowerOnAv, SwitchAv, StartupPc
  <2> QED
    BY <1>2, <1>3, <2>1
<1>5. ASSUME StartOppo \/ CompleteStartup
      PROVE  UNCHANGED <<Phase, Kept>> \/ Promise!Begin \/ Promise!Fail
  <2>1. /\ pc \in StartupPc
        /\ pc' \in {"complete", "monitor", "recover_player"}
    BY <1>5 DEF StartOppo, CompleteStartup, StartupPc
  <2> QED
    BY <1>2, <1>3, <2>1 DEF Promise!Begin, Promise!Fail, StartupPc, RecoveryPc
<1>6. ASSUME MonitorUntilStopped
      PROVE  UNCHANGED <<Phase, Kept>> \/ Promise!Fail
  <2>1. pc = "monitor" /\ pc' \in {"resolve_outputs", "recover_player"}
    BY <1>6 DEF MonitorUntilStopped
  <2> QED
    BY <1>2, <1>3, <2>1 DEF Promise!Fail, RecoveryPc
<1>7. ASSUME ResolveOutputs PROVE Promise!Finish
  <2>1. pc = "resolve_outputs" /\ pc' = "resolve_polls"
    BY <1>7 DEF ResolveOutputs
  <2> QED
    BY <1>2, <1>3, <2>1 DEF Promise!Finish, FinishPc
<1>8. ASSUME ResolvePolls \/ ClosePlayer \/ ConfirmAlreadyIdle \/ PollIdle
               \/ GiveUpIdle \/ ReturnTv
      PROVE  UNCHANGED <<Phase, Kept>>
  <2>1. pc \in FinishPc /\ pc' \in FinishPc
    BY <1>8 DEF ResolvePolls, ClosePlayer, ConfirmAlreadyIdle, PollIdle, GiveUpIdle,
                ReturnTv, FinishPc
  <2>2. finish'.restore = finish.restore
    BY <1>1, <1>8 DEF TypeOK, ResolvePolls, ClosePlayer, ConfirmAlreadyIdle, PollIdle,
                      GiveUpIdle, ReturnTv
  <2> QED
    BY <1>2, <1>3, <2>1, <2>2
<1>9. ASSUME ReportStopped PROVE UNCHANGED <<Phase, Kept>> \/ Promise!Fail
  <2>1. pc = "report_stop" /\ pc' \in {"return_tv", "recover_player"}
    BY <1>9 DEF ReportStopped
  <2>2. finish' = finish
    BY <1>9 DEF ReportStopped, results
  <2> QED
    BY <1>2, <1>3, <2>1, <2>2 DEF Promise!Fail, FinishPc, RecoveryPc
<1>10. ASSUME RestoreAv PROVE Promise!EndCleanly \/ Promise!Fail
  <2>1. /\ pc = "restore_av" /\ finish'.restore = finish.restore
        /\ \/ pc' = "done" /\ FinishSuccessful(finish')
           \/ pc' = "recover_player"
    BY <1>1, <1>10 DEF TypeOK, RestoreAv
  <2>2. ASSUME pc' = "done" PROVE Successful'
    <3>1. StartupSuccessful(startup) /\ monitoring # NoMonitoring
      BY <2>1 DEF IInv, StartupFacts, FinishFacts, FinishPc
    <3>2. FinishReturned'
      BY <1>1, <1>10 DEF TypeOK, RestoreAv, FinishReturned, CommandResults
    <3>3. startup' = startup /\ monitoring' = monitoring
      BY <1>10 DEF RestoreAv
    <3> QED
      BY <2>1, <2>2, <3>1, <3>2, <3>3 DEF Successful
  <2> QED
    BY <1>2, <1>3, <2>1, <2>2 DEF Promise!EndCleanly, Promise!Fail, FinishPc, RecoveryPc
<1>11. ASSUME RecoverPlayer \/ RecoverTv PROVE UNCHANGED <<Phase, Kept>>
  <2>1. pc \in RecoveryPc /\ pc' \in RecoveryPc
    BY <1>11 DEF RecoverPlayer, RecoverTv, RecoveryPc
  <2> QED
    BY <1>2, <1>3, <2>1
<1>12. ASSUME RecoverAv PROVE Promise!EndRecovered
  <2>1. pc = "recover_av" /\ pc' = "done"
    BY <1>12 DEF RecoverAv
  <2>2. ~Successful
    BY <2>1 DEF IInv, RecoveryFacts, RecoveryPc
  <2>3. ~Successful'
    BY <1>12, <2>2 DEF RecoverAv, Successful, FinishReturned
  <2> QED
    BY <1>2, <1>3, <2>1, <2>3 DEF Promise!EndRecovered, RecoveryPc
<1>13. ASSUME RequestReplacement \/ WithdrawReplacement \/ UNCHANGED vars
       PROVE  UNCHANGED <<Phase, Kept>>
    BY <1>13 DEF RequestReplacement, WithdrawReplacement, vars, results, Phase, Kept,
                 Successful, FinishReturned
<1> QED
    BY <1>4, <1>5, <1>6, <1>7, <1>8, <1>9, <1>10, <1>11, <1>12, <1>13
    DEF Next, Start, FinishPlayback, Recover

\* Every run goes through the phases the application service relies on, and
\* keeps the outputs only when it may: the safety part of PromiseKept.
THEOREM Refinement == Spec => Promise!Spec
<1>1. Init => Promise!Init
  <2> SUFFICES ASSUME Init PROVE Promise!Init
    OBVIOUS
  <2>1. TypeOK /\ pc \in StartupPc
    BY InitTyped DEF Init, StartupPc
  <2> QED
    BY <2>1, Views DEF View, Promise!Init
<1>2. IInv /\ IInv' /\ [Next]_vars => [Promise!Next]_(Promise!vars)
    BY PromiseStep
<1> QED
    BY <1>1, <1>2, Invariance, PTL DEF Spec, Promise!Spec
===============================================================================
