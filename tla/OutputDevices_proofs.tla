------------------------ MODULE OutputDevices_proofs --------------------------
(***************************************************************************)
(* Proofs about the devices the picture and the sound go to: where the     *)
(* television returns to (TelevisionReturn), for any set of applications   *)
(* and any number of playbacks that replace each other, and how the        *)
(* receiver is brought to the player's input (AvInput), for any delays,    *)
(* numbers of retries and of equal readings, and however often the         *)
(* television redirects it.                                                *)
(*                                                                         *)
(* FlowReturns speaks of the end of a flow.  Its invariant says where the  *)
(* place to return to is remembered while the flow is on                   *)
(* (RememberedFacts: by the startup result, or by the adapter if the       *)
(* television was off), and that the screen is left on the player only for *)
(* a replacement that will come (ScreenFacts).                             *)
(***************************************************************************)
EXTENDS TelevisionReturn, AvInput, SequenceTheorems, TLAPS

-------------------------------------------------------------------------------
(***************************************************************************)
(* TelevisionReturn.                                                       *)
(***************************************************************************)

LEMMA TypingStep == TypeOK /\ [Next]_vars => TypeOK'
<1> SUFFICES ASSUME TypeOK, [Next]_vars PROVE TypeOK'
    OBVIOUS
<1> USE AppsAssumption DEF TypeOK, Screens, Flows, television, playback, ObeyedIf
<1>1. ASSUME NEW app \in Screens, ViewerOpens(app) PROVE TypeOK'
    BY <1>1 DEF ViewerOpens
<1>2. CASE ViewerSwitchesPower
    BY <1>2 DEF ViewerSwitchesPower
<1>3. CASE NewFlow
    BY <1>3 DEF NewFlow, StartPlayback
<1>4. CASE RequestReplacement
    BY <1>4 DEF RequestReplacement
<1>5. CASE WithdrawReplacement
    BY <1>5 DEF WithdrawReplacement
<1>6. CASE ReplaceJoined
    BY <1>6 DEF ReplaceJoined, StartPlayback
<1>7. CASE PrepareFails
    BY <1>7 DEF PrepareFails
<1>8. CASE ReadCurrentApp
    BY <1>8 DEF ReadCurrentApp, Shown
<1>9. CASE SwitchToHdmi
    BY <1>9 DEF SwitchToHdmi
<1>10. CASE SwitchFails
    BY <1>10 DEF SwitchFails
<1>11. CASE PlaybackFails
    BY <1>11 DEF PlaybackFails
<1>12. CASE PlaybackStops
    BY <1>12 DEF PlaybackStops
<1>13. CASE Resolve
    BY <1>13 DEF Resolve
<1>14. CASE Finish
  <2>1. Target \in Screens
    BY DEF Target
  <2> QED
    BY <1>14, <2>1 DEF Finish, ReturnToApp
<1>15. CASE FinishRaises
    BY <1>15 DEF FinishRaises
<1>16. CASE Recover
  <2>1. Target \in Screens
    BY DEF Target
  <2> QED
    BY <1>16, <2>1, ZenonT(60) DEF Recover, ReturnToApp
<1>17. CASE Remember
    BY <1>17 DEF Remember
<1>18. CASE Clear
    BY <1>18 DEF Clear
<1>19. CASE ReloadConfig
    BY <1>19 DEF ReloadConfig
<1>20. CASE RunRaises
    BY <1>20 DEF RunRaises
<1>21. CASE UNCHANGED vars
    BY <1>21 DEF vars
<1> QED
    BY <1>1, <1>2, <1>3, <1>4, <1>5, <1>6, <1>7, <1>8, <1>9, <1>10, <1>11,
       <1>12, <1>13, <1>14, <1>15, <1>16, <1>17, <1>18, <1>19, <1>20, <1>21 DEF Next

\* Where a playback of such a flow returns the television to.
LEMMA ReturnTarget ==
    ASSUME TypeOK, Returning, RememberedFacts, pc \in {"finish", "recover"}
    PROVE  Target = flow.origin
<1>1. flow.origin # NoApp
    BY AppsAssumption DEF TypeOK, Flows, Screens
<1>2. CASE flow.awake
    BY <1>1, <1>2 DEF RememberedFacts, Target, Switched
<1>3. CASE ~flow.awake
    BY <1>1, <1>3 DEF RememberedFacts, Target, Switched
<1> QED
    BY <1>2, <1>3

\* A television that obeyed is back, and what is remembered stays.
LEMMA ReturnEffect ==
    ASSUME TypeOK, Returning => RememberedFacts /\ ScreenFacts, pc \in {"finish", "recover"},
           NEW succeeds \in BOOLEAN, ReturnToApp(succeeds), Returning'
    PROVE  /\ Returning /\ succeeds
           /\ screen' = flow'.origin /\ on' = on
           /\ flow'.origin = flow.origin /\ flow'.awake = flow.awake
           /\ ~flow.awake => recalled' = flow.origin
<1>1. /\ flow.obeyed /\ succeeds /\ screen' = Target /\ on' = on
      /\ flow'.origin = flow.origin /\ flow'.awake = flow.awake
      /\ flow'.fresh = flow.fresh /\ flow'.replaced = flow.replaced
    BY DEF ReturnToApp, ObeyedIf, Returning, TypeOK, Flows
<1>2. Returning
    BY <1>1 DEF Returning
<1>3. ~flow.awake => recalled' = flow.origin
    BY <1>2 DEF ReturnToApp, RememberedFacts, Switched
<1> QED
    BY <1>1, <1>2, <1>3, ReturnTarget

LEMMA ReturningStep ==
    ASSUME TypeOK, Returning => RememberedFacts /\ ScreenFacts, [Next]_vars, Returning'
    PROVE  RememberedFacts' /\ ScreenFacts'
<1> USE DEF television, playback, Switched, Over, IsBack
<1> DEFINE Disobeyed == \/ \E app \in Screens : ViewerOpens(app)
                        \/ ViewerSwitchesPower \/ WithdrawReplacement \/ PrepareFails
                        \/ SwitchFails \/ RunRaises
<1>1. ~Disobeyed
    BY DEF ViewerOpens, ViewerSwitchesPower, WithdrawReplacement, PrepareFails, SwitchFails,
           RunRaises, ObeyedIf, Returning, TypeOK, Flows
<1>2. CASE NewFlow
    BY <1>2, AppsAssumption DEF NewFlow, StartPlayback, Returning, RememberedFacts, ScreenFacts, TypeOK, Flows
<1>3. CASE RequestReplacement
    BY <1>3 DEF RequestReplacement, Returning, RememberedFacts, ScreenFacts
<1>4. CASE ReplaceJoined
  <2>1. pc = "idle" /\ UNCHANGED <<on, screen, recalled, preserved, clean>>
    BY <1>4 DEF ReplaceJoined, StartPlayback
  <2>2. CASE clean
    <3>1. /\ pc' = "read" /\ flow'.replaced
          /\ flow'.origin = flow.origin /\ flow'.awake = flow.awake
          /\ flow'.obeyed = flow.obeyed /\ flow'.fresh = flow.fresh
      BY <1>4, <2>2 DEF ReplaceJoined, StartPlayback, TypeOK, Flows
    <3>2. flow.awake /\ flow.origin \in Apps \cup {Hdmi} /\ Returning
      BY <3>1 DEF Returning
    <3>3. RememberedFacts /\ ScreenFacts
      BY <3>2
    <3>4. ~IsBack => preserved = flow.origin
      BY <2>1, <3>2, <3>3, AppsAssumption DEF ScreenFacts
    <3>5. RememberedFacts'
      BY <2>1, <3>1, <3>2, <3>3 DEF RememberedFacts
    <3>6. ScreenFacts'
      BY <2>1, <3>1, <3>2, <3>3, <3>4 DEF ScreenFacts
    <3> QED
      BY <3>5, <3>6
  <2>3. CASE ~clean
    BY <1>4, <2>3 DEF ReplaceJoined, Returning, RememberedFacts, ScreenFacts
  <2> QED
    BY <2>2, <2>3
<1>5. CASE ReadCurrentApp
  <2>1. /\ pc = "read" /\ pc' = "switch" /\ UNCHANGED <<on, screen, recalled, preserved, replacing>>
        /\ previous' \in IF preserved # NoApp THEN {preserved} ELSE Shown
        /\ flow' = [flow EXCEPT !.obeyed = @ /\ (on => previous' # NoApp)]
    BY <1>5 DEF ReadCurrentApp, ObeyedIf
  <2>2. /\ Returning /\ (on => previous' # NoApp)
        /\ flow'.origin = flow.origin /\ flow'.awake = flow.awake
        /\ flow'.replaced = flow.replaced
    BY <2>1 DEF Returning, TypeOK, Flows
  <2>3. RememberedFacts /\ ScreenFacts
    BY <2>2
  <2>4. flow.origin # NoApp
    BY AppsAssumption DEF TypeOK, Flows, Screens
  <2>5. CASE flow.awake
    <3>1. on /\ previous' = flow.origin
      BY <2>1, <2>2, <2>3, <2>4, <2>5 DEF Shown, RememberedFacts, ScreenFacts
    <3> QED
      BY <2>1, <2>2, <2>3, <2>5, <3>1 DEF RememberedFacts, ScreenFacts
  <2>6. CASE ~flow.awake
    <3>1. ~on /\ ~flow.replaced
      BY <2>1, <2>2, <2>3, <2>6 DEF RememberedFacts, Returning
    <3>2. preserved = NoApp
      BY <2>3, <2>6 DEF RememberedFacts
    <3> QED
      BY <2>1, <2>2, <2>3, <2>6, <3>1, <3>2 DEF Shown, RememberedFacts, ScreenFacts
  <2> QED
    BY <2>5, <2>6
<1>6. CASE SwitchToHdmi
    BY <1>6 DEF SwitchToHdmi, ObeyedIf, Returning, RememberedFacts, ScreenFacts, TypeOK, Flows
<1>7. CASE PlaybackFails
    BY <1>7 DEF PlaybackFails, Returning, RememberedFacts, ScreenFacts
<1>8. CASE PlaybackStops
    BY <1>8 DEF PlaybackStops, Returning, RememberedFacts, ScreenFacts
<1>9. CASE Resolve
    BY <1>9 DEF Resolve, Returning, RememberedFacts, ScreenFacts
<1>10. CASE Finish
  <2>1. PICK succeeds \in BOOLEAN :
            /\ IF restore THEN ReturnToApp(succeeds)
                          ELSE succeeds /\ UNCHANGED <<television, flow>>
            /\ clean' \in {FALSE, succeeds}
    BY <1>10 DEF Finish
  <2>2. /\ pc = "finish" /\ preserved' = preserved /\ previous' = previous
        /\ replacing' = replacing /\ pc' = IF clean' THEN "remember" ELSE "recover"
    BY <1>10 DEF Finish
  <2>3. CASE restore
    <3>1. /\ Returning /\ screen' = flow'.origin /\ on' = on
          /\ flow'.origin = flow.origin /\ flow'.awake = flow.awake
          /\ ~flow.awake => recalled' = flow.origin
      BY <2>1, <2>2, <2>3, ReturnEffect
    <3> QED
      BY <2>2, <3>1 DEF RememberedFacts, ScreenFacts
  <2>4. CASE ~restore
    BY <2>1, <2>2, <2>4 DEF Returning, RememberedFacts, ScreenFacts
  <2> QED
    BY <2>3, <2>4
<1>11. CASE FinishRaises
    BY <1>11 DEF FinishRaises, Returning, RememberedFacts, ScreenFacts
<1>12. CASE Recover
  <2>1. PICK succeeds \in BOOLEAN : ReturnToApp(succeeds)
    BY <1>12 DEF Recover
  <2>2. pc \in {"finish", "recover"} /\ pc' = "remember" /\ preserved' = preserved /\ previous' = previous
    BY <1>12 DEF Recover
  <2>3. /\ Returning /\ screen' = flow'.origin /\ on' = on
        /\ flow'.origin = flow.origin /\ flow'.awake = flow.awake
    BY <2>1, <2>2, ReturnEffect
  <2> QED
    BY <1>12, <2>2, <2>3 DEF Recover, RememberedFacts, ScreenFacts
<1>13. CASE Remember
    BY <1>13, AppsAssumption DEF Remember, Returning, RememberedFacts, ScreenFacts, TypeOK, Flows, Screens
<1>14. CASE Clear
    BY <1>14 DEF Clear, Returning, RememberedFacts, ScreenFacts
<1>15. CASE ReloadConfig
    BY <1>15 DEF ReloadConfig, Returning, RememberedFacts, ScreenFacts
<1>16. CASE UNCHANGED vars
    BY <1>16 DEF vars, Returning, RememberedFacts, ScreenFacts
<1> QED
    BY <1>1, <1>2, <1>3, <1>4, <1>5, <1>6, <1>7, <1>8, <1>9, <1>10, <1>11, <1>12, <1>13, <1>14, <1>15, <1>16 DEF Next

-------------------------------------------------------------------------------
\* The inductive invariant holds of every run.
THEOREM Invariance == Spec => []IInv
<1>1. Init => IInv
  <2> SUFFICES ASSUME Init PROVE IInv
    OBVIOUS
  <2>1. TypeOK
    BY DEF Init, TypeOK, Flows, Screens
  <2>2. RememberedFacts /\ ScreenFacts
    BY DEF Init, RememberedFacts, ScreenFacts, IsBack, Switched, Over
  <2> QED
    BY <2>1, <2>2 DEF IInv
<1>2. IInv /\ [Next]_vars => IInv'
  <2> SUFFICES ASSUME IInv, [Next]_vars PROVE IInv'
    OBVIOUS
  <2>1. TypeOK'
    BY TypingStep DEF IInv
  <2>2. Returning' => RememberedFacts' /\ ScreenFacts'
    BY ReturningStep DEF IInv
  <2> QED
    BY <2>1, <2>2 DEF IInv
<1> QED
    BY <1>1, <1>2, PTL DEF Spec

\* The television, and what is remembered of it, keep their types.
THEOREM TypeCorrect == Spec => []TypeOK
<1>1. IInv => TypeOK
    BY DEF IInv
<1> QED
    BY <1>1, Invariance, PTL

\* For any applications and inputs, and any number of playbacks that replace each other
\* or fail: a television that obeyed shows again what it showed before the flow, if no
\* playback was replaced or that was an application or the player.
THEOREM FlowComesBack == Spec => []FlowReturns
<1>1. IInv => FlowReturns
    BY DEF IInv, Returning, ScreenFacts, FlowReturns, FlowIsOver, Over
<1> QED
    BY <1>1, Invariance, PTL

-------------------------------------------------------------------------------
(***************************************************************************)
(* AvInput.                                                                *)
(***************************************************************************)

\* Another answer: the last ones are remembered, and no more than are counted.
LEMMA RememberAnswers ==
    ASSUME NEW S, NEW old \in Seq(S), NEW answer \in S, NEW bound \in Nat \ {0},
           Len(old) <= bound,
           NEW n \in Nat, n <= Len(old), n < bound, NEW last,
           \A i \in 1..Len(old) : i > Len(old) - n => old[i] = last,
           NEW more,
           more = IF Len(old) < bound THEN Append(old, answer) ELSE Append(Tail(old), answer)
    PROVE  /\ more \in Seq(S) /\ Len(more) <= bound /\ n + 1 <= Len(more)
           /\ more[Len(more)] = answer
           /\ answer = last =>
                  \A i \in 1..Len(more) : i > Len(more) - (n + 1) => more[i] = last
<1>1. Len(old) \in Nat
    OBVIOUS
<1>2. CASE Len(old) < bound
  <2>1. /\ more \in Seq(S) /\ Len(more) = Len(old) + 1
        /\ \A i \in 1..Len(old) : more[i] = old[i]
        /\ more[Len(old) + 1] = answer
    BY <1>2, AppendProperties
  <2> QED
    BY <1>1, <1>2, <2>1
<1>3. CASE Len(old) = bound
  <2> DEFINE rest == Tail(old)
  <2>1. /\ rest \in Seq(S) /\ Len(rest) = Len(old) - 1
        /\ \A i \in 1..Len(rest) : rest[i] = old[i + 1]
    <3>1. old # << >>
      BY <1>3
    <3> QED
      BY <3>1, HeadTailProperties
  <2>2. more = Append(rest, answer)
    BY <1>3
  <2> HIDE DEF rest
  <2>3. /\ more \in Seq(S) /\ Len(more) = Len(rest) + 1
        /\ \A i \in 1..Len(rest) : more[i] = rest[i]
        /\ more[Len(rest) + 1] = answer
    BY <2>1, <2>2, AppendProperties
  <2>4. \A i \in 1..Len(more) : i # Len(more) => more[i] = old[i + 1]
    BY <1>1, <1>3, <2>1, <2>3
  <2> QED
    BY <1>1, <1>3, <2>1, <2>3, <2>4
<1> QED
    BY <1>1, <1>2, <1>3

\* What a poll while settling leaves: an answer that differs starts the count again.
LEMMA PollLeaves ==
    ASSUME AvIInv, PollSettle
    PROVE  /\ answers' \in Seq(Inputs) /\ Len(answers') <= StableCount
           /\ lastInput' \in Inputs \cup {None}
           /\ consecutive' \in 0..StableCount /\ consecutive' <= Len(answers')
           /\ \A i \in 1..Len(answers') :
                  i > Len(answers') - consecutive' => answers'[i] = lastInput'
<1> USE CountsAssumption
<1>1. /\ answers \in Seq(Inputs) /\ Len(answers) <= StableCount /\ Len(answers) \in Nat
      /\ consecutive \in Nat /\ consecutive < StableCount /\ consecutive <= Len(answers)
      /\ lastInput \in Inputs \cup {None} /\ input \in Inputs
      /\ StableCount \in Nat \ {0, 1}
      /\ \A i \in 1..Len(answers) : i > Len(answers) - consecutive => answers[i] = lastInput
    BY DEF AvIInv, AvTypeOK, SettleFacts, PollSettle
<1>2. CASE UNCHANGED <<lastInput, consecutive, answers>>
    BY <1>1, <1>2
<1>3. ASSUME lastInput' = input, RememberAnswer(input),
             consecutive' = IF input = lastInput THEN consecutive + 1 ELSE 1
      PROVE  /\ answers' \in Seq(Inputs) /\ Len(answers') <= StableCount
             /\ lastInput' \in Inputs \cup {None}
             /\ consecutive' \in 0..StableCount /\ consecutive' <= Len(answers')
             /\ \A i \in 1..Len(answers') :
                    i > Len(answers') - consecutive' => answers'[i] = lastInput'
  <2>1. /\ answers' \in Seq(Inputs) /\ Len(answers') <= StableCount
        /\ consecutive + 1 <= Len(answers')
        /\ answers'[Len(answers')] = input
        /\ input = lastInput =>
               \A i \in 1..Len(answers') :
                   i > Len(answers') - (consecutive + 1) => answers'[i] = lastInput
    BY <1>1, <1>3, RememberAnswers DEF RememberAnswer
  <2>2. Len(answers') \in Nat
    BY <2>1
  <2>3. CASE input = lastInput
    BY <1>1, <1>3, <2>1, <2>2, <2>3
  <2>4. CASE input # lastInput
    BY <1>1, <1>3, <2>1, <2>2, <2>4
  <2> QED
    BY <2>3, <2>4
<1>4. \/ UNCHANGED <<lastInput, consecutive, answers>>
      \/ /\ lastInput' = input /\ RememberAnswer(input)
         /\ consecutive' = IF input = lastInput THEN consecutive + 1 ELSE 1
    BY Zenon DEF PollSettle, Answers
<1> QED
    BY <1>2, <1>3, <1>4


\* Every step keeps the types.
LEMMA AvTypingStep ==
    ASSUME AvIInv, [AvNext]_avVars
    PROVE  AvTypeOK'
<1> USE DelaysAssumption, CountsAssumption
    DEF AvIInv, AvTypeOK, RetryFacts, SettleFacts, Inputs, TvAudio, settling, watching, Watching
<1>1. ASSUME Redirect PROVE AvTypeOK'
    BY <1>1 DEF Redirect
<1>2. ASSUME PowerOn PROVE AvTypeOK'
    BY <1>2 DEF PowerOn
<1>3. ASSUME PollResponsive PROVE AvTypeOK'
    BY <1>3 DEF PollResponsive, Answers
<1>4. ASSUME PollSettle PROVE AvTypeOK'
    BY <1>4, PollLeaves DEF PollSettle
<1>5. ASSUME Settled PROVE AvTypeOK'
    BY <1>5 DEF Settled
<1>6. ASSUME WaitTimesOut PROVE AvTypeOK'
    BY <1>6 DEF WaitTimesOut
<1>7. ASSUME SendInputCommand PROVE AvTypeOK'
    BY <1>7 DEF SendInputCommand
<1>8. ASSUME SendFails PROVE AvTypeOK'
    BY <1>8 DEF SendFails, ShouldRetry
<1>9. ASSUME Tick PROVE AvTypeOK'
    BY <1>9 DEF Tick
<1>10. ASSUME Observe PROVE AvTypeOK'
    BY <1>10 DEF Observe, Answers
<1>11. ASSUME Reapply PROVE AvTypeOK'
    BY <1>11 DEF Reapply, ShouldRetry
<1>12. ASSUME LeaveAlone PROVE AvTypeOK'
    BY <1>12 DEF LeaveAlone, ShouldRetry
<1>13. ASSUME Confirm PROVE AvTypeOK'
    BY <1>13 DEF Confirm, Stable
<1>14. ASSUME UNCHANGED avVars PROVE AvTypeOK'
    BY <1>14 DEF avVars
<1> QED
    BY <1>1, <1>2, <1>3, <1>4, <1>5, <1>6, <1>7, <1>8, <1>9, <1>10, <1>11, <1>12, <1>13, <1>14 DEF AvNext

\* Every step keeps what is known of the readings.
LEMMA SettleStep ==
    ASSUME AvIInv, [AvNext]_avVars
    PROVE  SettleFacts'
<1> USE CountsAssumption
    DEF AvIInv, AvTypeOK, SettleFacts, settling, watching
<1>1. ASSUME Redirect PROVE SettleFacts'
    BY <1>1 DEF Redirect
<1>2. ASSUME PowerOn PROVE SettleFacts'
    BY <1>2 DEF PowerOn
<1>3. ASSUME PollResponsive PROVE SettleFacts'
    BY <1>3 DEF PollResponsive, Answers
<1>4. ASSUME PollSettle PROVE SettleFacts'
  <2>1. /\ stage' = IF consecutive' >= StableCount THEN "settled" ELSE "settle"
        /\ consecutive' \in 0..StableCount
    BY <1>4, PollLeaves DEF PollSettle
  <2> QED
    BY <2>1, <1>4, PollLeaves
<1>5. ASSUME Settled PROVE SettleFacts'
    BY <1>5 DEF Settled
<1>6. ASSUME WaitTimesOut PROVE SettleFacts'
    BY <1>6 DEF WaitTimesOut
<1>7. ASSUME SendInputCommand PROVE SettleFacts'
    BY <1>7 DEF SendInputCommand
<1>8. ASSUME SendFails PROVE SettleFacts'
    BY <1>8 DEF SendFails, ShouldRetry
<1>9. ASSUME Tick PROVE SettleFacts'
    BY <1>9 DEF Tick
<1>10. ASSUME Observe PROVE SettleFacts'
    BY <1>10 DEF Observe, Answers
<1>11. ASSUME Reapply PROVE SettleFacts'
    BY <1>11 DEF Reapply, ShouldRetry
<1>12. ASSUME LeaveAlone PROVE SettleFacts'
    BY <1>12 DEF LeaveAlone, ShouldRetry
<1>13. ASSUME Confirm PROVE SettleFacts'
    BY <1>13 DEF Confirm, Stable
<1>14. ASSUME UNCHANGED avVars PROVE SettleFacts'
    BY <1>14 DEF avVars
<1> QED
    BY <1>1, <1>2, <1>3, <1>4, <1>5, <1>6, <1>7, <1>8, <1>9, <1>10, <1>11, <1>12, <1>13, <1>14 DEF AvNext

\* Every step keeps what is known of the retries.
LEMMA RetryStep ==
    ASSUME AvIInv, [AvNext]_avVars
    PROVE  RetryFacts'
<1> USE DelaysAssumption, CountsAssumption
    DEF AvIInv, AvTypeOK, RetryFacts, Watching, Inputs, TvAudio, None, settling, watching
<1>1. ASSUME Redirect PROVE RetryFacts'
    BY <1>1 DEF Redirect
<1>2. ASSUME PowerOn PROVE RetryFacts'
    BY <1>2 DEF PowerOn
<1>3. ASSUME PollResponsive PROVE RetryFacts'
    BY <1>3 DEF PollResponsive, Answers
<1>4. ASSUME PollSettle PROVE RetryFacts'
  <2>1. /\ stage = "settle" /\ stage' \in {"settled", "settle"}
        /\ UNCHANGED <<target, input, redirections, watching>>
    BY <1>4 DEF PollSettle
  <2> QED
    BY <2>1
<1>5. ASSUME Settled PROVE RetryFacts'
    BY <1>5 DEF Settled
<1>6. ASSUME WaitTimesOut PROVE RetryFacts'
    BY <1>6 DEF WaitTimesOut
<1>7. ASSUME SendInputCommand PROVE RetryFacts'
    BY <1>7 DEF SendInputCommand
<1>8. ASSUME SendFails PROVE RetryFacts'
    BY <1>8 DEF SendFails, ShouldRetry
<1>9. ASSUME Tick PROVE RetryFacts'
    BY <1>9 DEF Tick
<1>10. ASSUME Observe PROVE RetryFacts'
    BY <1>10 DEF Observe, Answers
<1>11. ASSUME Reapply PROVE RetryFacts'
    BY <1>11 DEF Reapply, ShouldRetry
<1>12. ASSUME LeaveAlone PROVE RetryFacts'
    BY <1>12 DEF LeaveAlone, ShouldRetry
<1>13. ASSUME Confirm PROVE RetryFacts'
    BY <1>13 DEF Confirm, Stable
<1>14. ASSUME UNCHANGED avVars PROVE RetryFacts'
    BY <1>14 DEF avVars
<1> QED
    BY <1>1, <1>2, <1>3, <1>4, <1>5, <1>6, <1>7, <1>8, <1>9, <1>10, <1>11, <1>12, <1>13, <1>14 DEF AvNext

\* The inductive invariant holds of every run.
THEOREM AvInvariance == AvSpec => []AvIInv
<1>1. AvInit => AvIInv
  <2> SUFFICES ASSUME AvInit PROVE AvIInv
    OBVIOUS
  <2>1. answers \in Seq(Inputs) /\ Len(answers) = 0 /\ Len(Delays) \in Nat \ {0}
    BY DelaysAssumption DEF AvInit
  <2>2. AvTypeOK
    <3>1. /\ 0 \in 0..Redirects /\ SettlePolls \in 0..SettlePolls /\ 0 \in 0..StableCount
          /\ 0 \in 0..MaxRetries /\ 0 <= StableCount
      BY CountsAssumption
    <3>2. 0 \in 0..Horizon /\ 1 \in 1..(Len(Delays) + 1)
      BY <2>1, DelaysAssumption
    <3>3. {target, input} \subseteq Inputs /\ {lastInput, observed} \subseteq Inputs \cup {None}
      BY DEF AvInit, Inputs, TvAudio
    <3>4. unseen \in BOOLEAN /\ stage \in {"power"}
      BY DEF AvInit
    <3> QED
      BY <2>1, <3>1, <3>2, <3>3, <3>4 DEF AvInit, AvTypeOK
  <2>3. SettleFacts
    BY <2>1, CountsAssumption DEF AvInit, SettleFacts
  <2>4. RetryFacts
    BY <2>1, CountsAssumption DEF AvInit, RetryFacts, Watching
  <2> QED
    BY <2>2, <2>3, <2>4 DEF AvIInv
<1>2. AvIInv /\ [AvNext]_avVars => AvIInv'
    BY AvTypingStep, SettleStep, RetryStep DEF AvIInv
<1> QED
    BY <1>1, <1>2, PTL DEF AvSpec

\* The state of the receiver, and of the two waits, keeps its type.
THEOREM AvTypeCorrect == AvSpec => []AvTypeOK
<1>1. AvIInv => AvTypeOK
    BY DEF AvIInv
<1> QED
    BY <1>1, AvInvariance, PTL

\* Whatever the receiver answers while it wakes, it counts as settled only after
\* StableCount equal answers with no other between them (wait_until_input_stable).
THEOREM SettledStable == AvSpec => []SettledIsStable
<1>1. AvIInv => SettledIsStable
  <2> SUFFICES ASSUME AvIInv, stage = "settled"
               PROVE  Len(answers) = StableCount /\ \A i \in DOMAIN answers : answers[i] = lastInput
    BY DEF SettledIsStable
  <2>1. Len(answers) \in Nat /\ DOMAIN answers = 1..Len(answers)
    BY DEF AvIInv, AvTypeOK
  <2>2. /\ consecutive = StableCount /\ StableCount \in Nat
        /\ Len(answers) <= StableCount /\ consecutive <= Len(answers)
        /\ \A i \in 1..Len(answers) :
               i > Len(answers) - consecutive => answers[i] = lastInput
    BY CountsAssumption DEF AvIInv, AvTypeOK, SettleFacts
  <2>3. Len(answers) = StableCount /\ consecutive = Len(answers)
    BY CountsAssumption DEF AvIInv, AvTypeOK, SettleFacts
  <2>4. ASSUME NEW i \in 1..Len(answers) PROVE answers[i] = lastInput
    <3>1. i > Len(answers) - consecutive
      BY <2>1, <2>3
    <3> QED
      BY <3>1, <2>2
  <2> QED
    BY <2>1, <2>3, <2>4
<1> QED
    BY <1>1, AvInvariance, PTL

\* For any delays and any number of retries: redirections that were seen, and are no
\* more than the retries, are undone (AVInputRetrier.change_input).
THEOREM RedirectUndone == AvSpec => []RedirectIsUndone
<1>1. AvIInv => RedirectIsUndone
    BY DEF AvIInv, RetryFacts, Watching, RedirectIsUndone
<1> QED
    BY <1>1, AvInvariance, PTL

===============================================================================
