------------------------- MODULE DuringPlayback_proofs -------------------------
(***************************************************************************)
(* Proofs about DuringPlayback, for media of any length and any of the     *)
(* limits: what monitoring returns, on which evidence it ends, and that    *)
(* its two throttles let a report through in time.                         *)
(***************************************************************************)
EXTENDS DuringPlayback, SequenceTheorems, TLAPS

-------------------------------------------------------------------------------
\* Another position: the last ones are remembered, and no more than are counted.
LEMMA RememberLast ==
    ASSUME NEW S, seen \in Seq(S), NEW position \in S,
           MaxEndPolls \in Nat \ {0}, Len(seen) <= MaxEndPolls
    PROVE  /\ Remember(position) \in Seq(S)
           /\ \/ /\ Len(seen) < MaxEndPolls
                 /\ Len(Remember(position)) = Len(seen) + 1
                 /\ \A i \in 1..Len(seen) : Remember(position)[i] = seen[i]
              \/ /\ Len(seen) = MaxEndPolls
                 /\ Len(Remember(position)) = Len(seen)
                 /\ \A i \in 1..Len(seen) - 1 : Remember(position)[i] = seen[i + 1]
           /\ Remember(position)[Len(Remember(position))] = position
<1> DEFINE longer == Append(seen, position)
<1>1. /\ longer \in Seq(S) /\ Len(longer) = Len(seen) + 1 /\ longer # << >>
      /\ \A i \in 1..Len(seen) : longer[i] = seen[i]
      /\ longer[Len(seen) + 1] = position
    BY AppendProperties
<1>2. Len(seen) \in Nat
    OBVIOUS
<1> HIDE DEF longer
<1>3. CASE Len(seen) < MaxEndPolls
  <2>1. Remember(position) = longer
    BY <1>1, <1>2, <1>3 DEF Remember, longer
  <2> QED
    BY <1>1, <1>3, <2>1
<1>4. CASE Len(seen) = MaxEndPolls
  <2>1. Remember(position) = Tail(longer)
    BY <1>1, <1>4 DEF Remember, longer
  <2>2. /\ Tail(longer) \in Seq(S) /\ Len(Tail(longer)) = Len(seen)
        /\ \A i \in 1..Len(seen) : Tail(longer)[i] = longer[i + 1]
    BY <1>1, <1>2, HeadTailProperties
  <2>3. \A i \in 1..Len(seen) - 1 : Tail(longer)[i] = seen[i + 1]
    BY <1>1, <1>2, <2>2
  <2>4. Tail(longer)[Len(seen)] = position
    BY <1>1, <1>2, <1>4, <2>2
  <2> QED
    BY <1>4, <2>1, <2>2, <2>3, <2>4
<1> QED
    BY <1>2, <1>3, <1>4

\* If those that were counted as the end are, and the new one is, one more is.
LEMMA RememberEnd ==
    ASSUME NEW S, S \subseteq Nat, seen \in Seq(S), NEW position \in S,
           MaxEndPolls \in Nat \ {0}, Len(seen) <= MaxEndPolls, Total \in Nat,
           NEW n \in Nat, n < MaxEndPolls, n <= Len(seen),
           \A i \in 1..Len(seen) : i > Len(seen) - n => seen[i] >= Total
    PROVE  LET more == Remember(position)
           IN  /\ Len(more) <= MaxEndPolls /\ n + 1 <= Len(more)
               /\ position >= Total =>
                      \A i \in 1..Len(more) : i > Len(more) - (n + 1) => more[i] >= Total
<1> DEFINE more == Remember(position)
<1>1. /\ more \in Seq(S)
      /\ \/ /\ Len(seen) < MaxEndPolls /\ Len(more) = Len(seen) + 1
            /\ \A i \in 1..Len(seen) : more[i] = seen[i]
         \/ /\ Len(seen) = MaxEndPolls /\ Len(more) = Len(seen)
            /\ \A i \in 1..Len(seen) - 1 : more[i] = seen[i + 1]
      /\ more[Len(more)] = position
    BY RememberLast
<1>2. Len(seen) \in Nat
    OBVIOUS
<1> HIDE DEF more
<1>3. Len(more) <= MaxEndPolls /\ n + 1 <= Len(more)
    BY <1>1, <1>2
<1>4. ASSUME position >= Total, NEW i \in 1..Len(more), i > Len(more) - (n + 1)
      PROVE  more[i] >= Total
  <2>1. CASE i = Len(more)
    BY <1>1, <1>4, <2>1
  <2>2. CASE i # Len(more) /\ Len(more) = Len(seen) + 1
    BY <1>1, <1>2, <1>4, <2>2, SMTT(30)
  <2>3. CASE i # Len(more) /\ Len(more) = Len(seen) /\ Len(seen) = MaxEndPolls
    <3>1. i + 1 \in 1..Len(seen) /\ i + 1 > Len(seen) - n /\ i \in 1..Len(seen) - 1
      BY <1>2, <1>4, <2>3
    <3>2. more[i] = seen[i + 1]
      BY <1>1, <2>3, <3>1
    <3> QED
      BY <3>1, <3>2
  <2> QED
    BY <1>1, <2>1, <2>2, <2>3
<1> QED
    BY <1>3, <1>4 DEF more

\* Every step keeps the types.
LEMMA TypingStep ==
    ASSUME IInv, [Next]_vars
    PROVE  TypeOK'
<1> USE LengthsAssumption, PollsAssumption
    DEF IInv, TypeOK, loop, Ended, Positions, Reported, Categories, StopReasons, LoopFacts, EndFacts, ReportFacts
<1>1. ASSUME FirstPoll PROVE TypeOK'
    BY <1>1 DEF FirstPoll, Answers, Continue
<1>2. ASSUME PollActive PROVE TypeOK'
    BY <1>2 DEF PollActive, Answers
<1>3. ASSUME PollInactive PROVE TypeOK'
    BY <1>3, SMTT(30) DEF PollInactive, Answers, Continue
<1>4. ASSUME ReadNoPosition PROVE TypeOK'
    BY <1>4 DEF ReadNoPosition
<1>5. ASSUME ReadPosition PROVE TypeOK'
  <2> DEFINE S == 1..(Total + Overrun)
  <2>1. player.position \in S /\ seen' = Remember(player.position)
    BY <1>5 DEF ReadPosition, TakePosition
  <2>2. Len(seen) <= MaxEndPolls
    BY DEF EndFacts
  <2>3. seen' \in Seq(S)
    BY <2>1, <2>2, RememberLast
  <2>4. /\ last' = Normalized(player.position) /\ duration' = Total
        /\ overdue' \in {0, overdue + 1}
        /\ UNCHANGED <<player, category, transitionPolls, reported>>
    <3> HIDE DEF IInv, TypeOK, LoopFacts, EndFacts, ReportFacts
    <3> QED
      BY <1>5 DEF ReadPosition, TakePosition
  <2>7. last' \in 0..Total /\ overdue' \in Nat
    <3> HIDE DEF LoopFacts, EndFacts, ReportFacts
    <3> QED
      BY <2>1, <2>4 DEF S, Normalized, AtEnd
  <2>5. endPolls' \in 0..MaxEndPolls
    BY <1>5, SMTT(30) DEF ReadPosition, TakePosition, EndFacts
  <2>6. /\ sinceReport' \in 0..ReportEvery
        /\ reason' \in StopReasons
        /\ pc' \in {"returned", "report", "poll"}
    BY <1>5, SMTT(30) DEF ReadPosition, TakePosition, EndOfMedia, ReportFacts
  <2> QED
    BY <2>3, <2>4, <2>5, <2>6, <2>7 DEF S
<1>6. ASSUME Report PROVE TypeOK'
    BY <1>6, SMTT(30) DEF Report, ShouldReport
<1>7. ASSUME Raise PROVE TypeOK'
    BY <1>7 DEF Raise
<1>8. ASSUME PlayerMoves PROVE TypeOK'
    BY <1>8 DEF PlayerMoves
<1>9. ASSUME UNCHANGED vars PROVE TypeOK'
    BY <1>9 DEF vars
<1> QED
    BY <1>1, <1>2, <1>3, <1>4, <1>5, <1>6, <1>7, <1>8, <1>9 DEF Next, Monitor

\* Every step keeps what the loop knows.
LEMMA LoopStep ==
    ASSUME IInv, [Next]_vars
    PROVE  LoopFacts'
<1> USE LengthsAssumption, PollsAssumption
    DEF IInv, TypeOK, loop, Ended, Positions, Reported, Categories, StopReasons, LoopFacts, EndFacts, MonitoringResults
<1>1. ASSUME FirstPoll PROVE LoopFacts'
    BY <1>1 DEF FirstPoll, Answers, Continue
<1>2. ASSUME PollActive PROVE LoopFacts'
    BY <1>2 DEF PollActive, Answers
<1>3. ASSUME PollInactive PROVE LoopFacts'
    BY <1>3 DEF PollInactive, Answers, Continue
<1>4. ASSUME ReadNoPosition PROVE LoopFacts'
    BY <1>4 DEF ReadNoPosition
<1>5. ASSUME ReadPosition PROVE LoopFacts'
    BY <1>5 DEF ReadPosition, TakePosition, EndOfMedia, Normalized, AtEnd
<1>6. ASSUME Report PROVE LoopFacts'
    BY <1>6 DEF Report, ShouldReport
<1>7. ASSUME Raise PROVE LoopFacts'
    BY <1>7 DEF Raise
<1>8. ASSUME PlayerMoves PROVE LoopFacts'
    BY <1>8 DEF PlayerMoves
<1>9. ASSUME UNCHANGED vars PROVE LoopFacts'
    BY <1>9 DEF vars
<1> QED
    BY <1>1, <1>2, <1>3, <1>4, <1>5, <1>6, <1>7, <1>8, <1>9 DEF Next, Monitor

\* Every step keeps what is known of the end.
LEMMA EndStep ==
    ASSUME IInv, [Next]_vars
    PROVE  EndFacts'
<1> USE LengthsAssumption, PollsAssumption
    DEF IInv, TypeOK, loop, Ended, Positions, Reported, EndFacts, LoopFacts
<1>1. ASSUME FirstPoll PROVE EndFacts'
    BY <1>1 DEF FirstPoll, Answers, Continue
<1>2. ASSUME PollActive PROVE EndFacts'
    BY <1>2 DEF PollActive, Answers
<1>3. ASSUME PollInactive PROVE EndFacts'
    BY <1>3 DEF PollInactive, Answers, Continue
<1>4. ASSUME ReadNoPosition PROVE EndFacts'
    BY <1>4 DEF ReadNoPosition
<1>5. ASSUME ReadPosition PROVE EndFacts'
  <2> DEFINE S == 1..(Total + Overrun)
  <2> DEFINE more == Remember(player.position)
  <2>1. player.position \in S /\ seen' = more /\ pc = "position"
    BY <1>5 DEF ReadPosition, TakePosition
  <2>2. endPolls' = IF player.position >= Total THEN endPolls + 1 ELSE 0
    BY <1>5 DEF ReadPosition, AtEnd
  <2>3. /\ S \subseteq Nat /\ seen \in Seq(S) /\ DOMAIN seen = 1..Len(seen)
        /\ endPolls \in Nat /\ endPolls < MaxEndPolls
    BY <2>1 DEF EndFacts
  <2>4. /\ Len(more) <= MaxEndPolls /\ endPolls + 1 <= Len(more)
        /\ player.position >= Total =>
               \A i \in 1..Len(more) : i > Len(more) - (endPolls + 1) => more[i] >= Total
    <3> HIDE DEF S
    <3> QED
      BY <2>1, <2>3, RememberEnd DEF EndFacts
  <2>5. more \in Seq(S)
    <3> HIDE DEF S
    <3> QED
      BY <2>1, <2>3, RememberLast DEF EndFacts
  <2> HIDE DEF more
  <2>6. Len(more) \in Nat /\ DOMAIN more = 1..Len(more)
    BY <2>5
  <2>7. endPolls' <= Len(more)
    BY <2>2, <2>3, <2>4, <2>6
  <2>8. \A i \in DOMAIN more : i > Len(more) - endPolls' => more[i] >= Total
    BY <2>2, <2>3, <2>4, <2>6
  <2>9. /\ pc' \notin Ended => endPolls' < MaxEndPolls
        /\ reason' = "natural_end" => endPolls' = MaxEndPolls
    BY <1>5, <2>1, <2>2, <2>3 DEF ReadPosition, EndOfMedia, LoopFacts
  <2> QED
    BY <2>1, <2>4, <2>7, <2>8, <2>9
<1>6. ASSUME Report PROVE EndFacts'
    BY <1>6 DEF Report, ShouldReport
<1>7. ASSUME Raise PROVE EndFacts'
    BY <1>7 DEF Raise
<1>8. ASSUME PlayerMoves PROVE EndFacts'
    BY <1>8 DEF PlayerMoves
<1>9. ASSUME UNCHANGED vars PROVE EndFacts'
    BY <1>9 DEF vars
<1> QED
    BY <1>1, <1>2, <1>3, <1>4, <1>5, <1>6, <1>7, <1>8, <1>9 DEF Next, Monitor

\* Every step keeps what is known of the reports.
LEMMA ReportStep ==
    ASSUME IInv, [Next]_vars
    PROVE  ReportFacts'
<1> USE LengthsAssumption, PollsAssumption
    DEF IInv, TypeOK, loop, Ended, Positions, Reported, Categories, StopReasons, LoopFacts, ReportFacts, ShouldReport
<1>1. ASSUME FirstPoll PROVE ReportFacts'
    BY <1>1 DEF FirstPoll, Answers, Continue
<1>2. ASSUME PollActive PROVE ReportFacts'
    BY <1>2 DEF PollActive, Answers
<1>3. ASSUME PollInactive PROVE ReportFacts'
    BY <1>3 DEF PollInactive, Answers, Continue
<1>4. ASSUME ReadNoPosition PROVE ReportFacts'
    BY <1>4 DEF ReadNoPosition
<1>5. ASSUME ReadPosition PROVE ReportFacts'
  <2>1. /\ pc = "position" /\ player.position \in Positions
        /\ last' = Normalized(player.position) /\ reported' = reported
        /\ overdue' = IF ShouldReport(last') THEN overdue + 1 ELSE 0
    BY <1>5 DEF ReadPosition, TakePosition
  <2>2. \/ pc' = "returned" /\ sinceReport' = sinceReport
        \/ /\ sinceReport' = sinceReport + 1
           /\ pc' = IF sinceReport' >= ReportEvery THEN "report" ELSE "poll"
    <3> HIDE DEF IInv, TypeOK, LoopFacts, ReportFacts, ShouldReport
    <3> QED
      BY <1>5 DEF ReadPosition, EndOfMedia
  <2>3. last' \in Nat
    BY <2>1 DEF Normalized, AtEnd
  <2>4. sinceReport < ReportEvery /\ overdue <= sinceReport
    BY <2>1
  <2>5. overdue' <= sinceReport + 1 /\ (~ShouldReport(last)' => overdue' = 0)
    BY <2>1, <2>3, <2>4
  <2>6. sinceReport \in Nat /\ ReportEvery \in Nat /\ overdue' \in Nat
    BY <2>1
  <2> HIDE DEF IInv, TypeOK, LoopFacts, ShouldReport
  <2>7. CASE pc' = "returned" /\ sinceReport' = sinceReport
    BY <2>4, <2>5, <2>6, <2>7
  <2>8. CASE /\ sinceReport' = sinceReport + 1
             /\ pc' = IF sinceReport' >= ReportEvery THEN "report" ELSE "poll"
    BY <2>4, <2>5, <2>6, <2>8
  <2> QED
    BY <2>2, <2>7, <2>8
<1>6. ASSUME Report PROVE ReportFacts'
    BY <1>6 DEF Report, ShouldReport
<1>7. ASSUME Raise PROVE ReportFacts'
    BY <1>7 DEF Raise
<1>8. ASSUME PlayerMoves PROVE ReportFacts'
    BY <1>8 DEF PlayerMoves
<1>9. ASSUME UNCHANGED vars PROVE ReportFacts'
    BY <1>9 DEF vars
<1> QED
    BY <1>1, <1>2, <1>3, <1>4, <1>5, <1>6, <1>7, <1>8, <1>9 DEF Next, Monitor

\* The inductive invariant holds of every run.
THEOREM Invariance == Spec => []IInv
<1>1. Init => IInv
    BY LengthsAssumption, PollsAssumption
    DEF Init, IInv, TypeOK, LoopFacts, EndFacts, ReportFacts, Ended, Positions, Reported,
        Categories, StopReasons
<1>2. IInv /\ [Next]_vars => IInv'
    BY TypingStep, LoopStep, EndStep, ReportStep DEF IInv
<1> QED
    BY <1>1, <1>2, PTL DEF Spec

\* The state of the loop keeps its type.
THEOREM TypeCorrect == Spec => []TypeOK
<1>1. IInv => TypeOK
    BY DEF IInv
<1> QED
    BY <1>1, Invariance, PTL

\* Only MaxEndPolls readings of the end in a row end a playback by its position,
\* however long the media is and however the viewer seeks (_is_end_of_media_position).
THEOREM EndConfirmed == Spec => []NaturalEndIsConfirmed
<1>1. IInv => NaturalEndIsConfirmed
    BY PollsAssumption DEF IInv, TypeOK, EndFacts, NaturalEndIsConfirmed
<1> QED
    BY <1>1, Invariance, PTL

\* For any of their limits the throttle of the loop and that of the publisher let a
\* due report through in time (monitor_until_stopped, _should_report_progress).
THEOREM ReportsTimely == Spec => []ReportsAreTimely
<1>1. IInv => ReportsAreTimely
    BY PollsAssumption DEF IInv, TypeOK, ReportFacts, ReportsAreTimely
<1> QED
    BY <1>1, Invariance, PTL

\* What the action property asks of one step.
NotLost ==
    /\ last > 0 => last' > 0
    /\ reported' # reported => reported' - reported >= Advance \/ reported = 0

\* No answer of the player makes the bridge forget a position, or tell Emby of one
\* that is not far enough past the last (monitor_until_stopped, progress).
THEOREM PositionKept == Spec => PositionNeverLost
<1>1. IInv /\ [Next]_vars => [NotLost]_vars
  <2> SUFFICES ASSUME IInv, [Next]_vars PROVE NotLost
    OBVIOUS
  <2> USE LengthsAssumption, PollsAssumption
    DEF IInv, TypeOK, loop, Ended, Positions, Reported, Categories, StopReasons, LoopFacts, NotLost
  <2>1. ASSUME FirstPoll PROVE NotLost
    BY <2>1 DEF FirstPoll, Answers, Continue
  <2>2. ASSUME PollActive PROVE NotLost
    BY <2>2 DEF PollActive, Answers
  <2>3. ASSUME PollInactive PROVE NotLost
    BY <2>3 DEF PollInactive, Answers, Continue
  <2>4. ASSUME ReadNoPosition PROVE NotLost
    BY <2>4 DEF ReadNoPosition
  <2>5. ASSUME ReadPosition PROVE NotLost
    BY <2>5 DEF ReadPosition, TakePosition, EndOfMedia, Normalized, AtEnd
  <2>6. ASSUME Report PROVE NotLost
    BY <2>6 DEF Report, ShouldReport
  <2>7. ASSUME Raise PROVE NotLost
    BY <2>7 DEF Raise
  <2>8. ASSUME PlayerMoves PROVE NotLost
    BY <2>8 DEF PlayerMoves
  <2>9. ASSUME UNCHANGED vars PROVE NotLost
    BY <2>9 DEF vars
  <2> QED
    BY <2>1, <2>2, <2>3, <2>4, <2>5, <2>6, <2>7, <2>8, <2>9 DEF Next, Monitor
<1> QED
    BY <1>1, Invariance, PTL DEF Spec, PositionNeverLost, NotLost

===============================================================================
