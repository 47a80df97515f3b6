---------------------- MODULE PlaybackApplication_proofs ----------------------
(***************************************************************************)
(* Proofs about PlaybackApplication, for any number of requests of either  *)
(* caller and any items.                                                   *)
(*                                                                         *)
(* A request goes one way and creates one playback thread (ThreadFacts),   *)
(* so what a thread has established stays: a session that is not free has  *)
(* a thread that will reset it (SessionFacts), and a failure is the last   *)
(* result until another one is handed over (ResultFacts), which does not   *)
(* happen while a thread waits for the playback (WaitFacts) as long as no  *)
(* two threads overlap, for then only the playback created last is at work *)
(* (LatestFacts).  If moreover nothing raises, outputs that were kept are  *)
(* waited for by a thread that will return them (OutputFacts).             *)
(***************************************************************************)
EXTENDS PlaybackApplication, TLAPS

\* What a step may be, each action by its name.
LEMMA NextCases ==
    ASSUME [Next]_vars
    PROVE  \/ \E q \in Requests :
                 \/ Ask(q) \/ LoadingSettles(q) \/ WaitTimesOut(q) \/ Decide(q)
                 \/ Start(q) \/ StartLaunch(q) \/ Replace(q) \/ RejectReplace(q)
                 \/ ReplaceLaunch(q) \/ ReadActive(q) \/ RequestStop(q)
                 \/ StopActive(q) \/ StopRaises(q) \/ Join(q) \/ Judge(q)
                 \/ ReplacerCreateRun(q) \/ ReplacerLaunchRun(q) \/ Begin(q)
                 \/ Prepare(q) \/ ControlApiUnavailable(q) \/ RunRaises(q)
                 \/ PlaybackBegins(q) \/ PlaybackStops(q) \/ PlaybackFails(q)
                 \/ PlaybackEnds(q) \/ Reset(q) \/ Return(q) \/ Unwind(q)
           \/ UNCHANGED vars
  BY DEF Next, Caller, Replacer, Playback, PlaybackLeaves

\* Every step keeps the types.
LEMMA TypingStep ==
    ASSUME TypeOK, ThreadFacts, [Next]_vars
    PROVE  TypeOK'
<1> USE RequestsAssumption, ItemsAssumption DEF TypeOK, playback, service, Elsewhere,
        CallPc, ReplacerLive, ReplacerEnd, RunLive, RunEnd, Phases, Places, ThreadFacts
<1>1. ASSUME NEW q \in Requests, Ask(q) PROVE TypeOK'
    BY <1>1 DEF Ask
<1>2. ASSUME NEW q \in Requests, LoadingSettles(q) PROVE TypeOK'
    BY <1>2 DEF LoadingSettles
<1>3. ASSUME NEW q \in Requests, WaitTimesOut(q) PROVE TypeOK'
    BY <1>3 DEF WaitTimesOut
<1>4. ASSUME NEW q \in Requests, Decide(q) PROVE TypeOK'
    BY <1>4 DEF Decide
<1>5. ASSUME NEW q \in Requests, Start(q) PROVE TypeOK'
    BY <1>5 DEF Start, CreateRun
<1>6. ASSUME NEW q \in Requests, StartLaunch(q) PROVE TypeOK'
    BY <1>6 DEF StartLaunch, LaunchRun
<1>7. ASSUME NEW q \in Requests, Replace(q) PROVE TypeOK'
    BY <1>7 DEF Replace
<1>8. ASSUME NEW q \in Requests, RejectReplace(q) PROVE TypeOK'
    BY <1>8 DEF RejectReplace
<1>9. ASSUME NEW q \in Requests, ReplaceLaunch(q) PROVE TypeOK'
    BY <1>9 DEF ReplaceLaunch
<1>10. ASSUME NEW q \in Requests, ReadActive(q) PROVE TypeOK'
    BY <1>10 DEF ReadActive, RunAlive, GoTo
<1>11. ASSUME NEW q \in Requests, RequestStop(q) PROVE TypeOK'
    BY <1>11 DEF RequestStop, GoTo
<1>12. ASSUME NEW q \in Requests, StopActive(q) PROVE TypeOK'
    BY <1>12 DEF StopActive, GoTo
<1>13. ASSUME NEW q \in Requests, StopRaises(q) PROVE TypeOK'
    BY <1>13 DEF StopRaises, GoTo
<1>14. ASSUME NEW q \in Requests, Join(q) PROVE TypeOK'
    BY <1>14 DEF Join, RunAlive, GoTo
<1>15. ASSUME NEW q \in Requests, Judge(q) PROVE TypeOK'
    BY <1>15 DEF Judge, GoTo
<1>16. ASSUME NEW q \in Requests, ReplacerCreateRun(q) PROVE TypeOK'
    BY <1>16 DEF ReplacerCreateRun, CreateRun, GoTo
<1>17. ASSUME NEW q \in Requests, ReplacerLaunchRun(q) PROVE TypeOK'
    BY <1>17 DEF ReplacerLaunchRun, LaunchRun, GoTo
<1>18. ASSUME NEW q \in Requests, Begin(q) PROVE TypeOK'
    BY <1>18 DEF Begin
<1>19. ASSUME NEW q \in Requests, Prepare(q) PROVE TypeOK'
    BY <1>19 DEF Prepare
<1>20. ASSUME NEW q \in Requests, ControlApiUnavailable(q) PROVE TypeOK'
    BY <1>20 DEF ControlApiUnavailable, HandOver
<1>21. ASSUME NEW q \in Requests, RunRaises(q) PROVE TypeOK'
    BY <1>21 DEF RunRaises
<1>22. ASSUME NEW q \in Requests, PlaybackBegins(q) PROVE TypeOK'
    BY <1>22 DEF PlaybackBegins, Moves
<1>23. ASSUME NEW q \in Requests, PlaybackStops(q) PROVE TypeOK'
    BY <1>23 DEF PlaybackStops, Moves
<1>24. ASSUME NEW q \in Requests, PlaybackFails(q) PROVE TypeOK'
    BY <1>24 DEF PlaybackFails, Moves
<1>25. ASSUME NEW q \in Requests, PlaybackEnds(q) PROVE TypeOK'
    BY <1>25 DEF PlaybackEnds, Moves
<1>26. ASSUME NEW q \in Requests, Reset(q) PROVE TypeOK'
    BY <1>26 DEF Reset
<1>27. ASSUME NEW q \in Requests, Return(q) PROVE TypeOK'
    BY <1>27 DEF Return, HandOver
<1>28. ASSUME NEW q \in Requests, Unwind(q) PROVE TypeOK'
    BY <1>28 DEF Unwind
<1>29. CASE UNCHANGED vars
    BY <1>29 DEF vars
<1> QED
    BY NextCases, <1>1, <1>2, <1>3, <1>4, <1>5, <1>6, <1>7, <1>8, <1>9, <1>10, <1>11,
        <1>12, <1>13, <1>14, <1>15, <1>16, <1>17, <1>18, <1>19, <1>20, <1>21, <1>22,
        <1>23, <1>24, <1>25, <1>26, <1>27, <1>28, <1>29

\* Every step keeps the threads of a request apart.
LEMMA ThreadStep ==
    ASSUME TypeOK, ThreadFacts, [Next]_vars
    PROVE  ThreadFacts'
<1> USE RequestsAssumption, ItemsAssumption DEF TypeOK, playback, service, Elsewhere,
        CallPc, ReplacerLive, ReplacerEnd, RunLive, RunEnd, Phases, ThreadFacts,
        BeforeRun
<1>1. ASSUME NEW q \in Requests, Ask(q) PROVE ThreadFacts'
    BY <1>1 DEF Ask
<1>2. ASSUME NEW q \in Requests, LoadingSettles(q) PROVE ThreadFacts'
    BY <1>2 DEF LoadingSettles
<1>3. ASSUME NEW q \in Requests, WaitTimesOut(q) PROVE ThreadFacts'
    BY <1>3 DEF WaitTimesOut
<1>4. ASSUME NEW q \in Requests, Decide(q) PROVE ThreadFacts'
    BY <1>4 DEF Decide
<1>5. ASSUME NEW q \in Requests, Start(q) PROVE ThreadFacts'
    BY <1>5 DEF Start, CreateRun
<1>6. ASSUME NEW q \in Requests, StartLaunch(q) PROVE ThreadFacts'
    BY <1>6 DEF StartLaunch, LaunchRun
<1>7. ASSUME NEW q \in Requests, Replace(q) PROVE ThreadFacts'
    BY <1>7 DEF Replace
<1>8. ASSUME NEW q \in Requests, RejectReplace(q) PROVE ThreadFacts'
    BY <1>8 DEF RejectReplace
<1>9. ASSUME NEW q \in Requests, ReplaceLaunch(q) PROVE ThreadFacts'
    BY <1>9 DEF ReplaceLaunch
<1>10. ASSUME NEW q \in Requests, ReadActive(q) PROVE ThreadFacts'
    BY <1>10 DEF ReadActive, RunAlive, GoTo
<1>11. ASSUME NEW q \in Requests, RequestStop(q) PROVE ThreadFacts'
    BY <1>11 DEF RequestStop, GoTo
<1>12. ASSUME NEW q \in Requests, StopActive(q) PROVE ThreadFacts'
    BY <1>12 DEF StopActive, GoTo
<1>13. ASSUME NEW q \in Requests, StopRaises(q) PROVE ThreadFacts'
    BY <1>13 DEF StopRaises, GoTo
<1>14. ASSUME NEW q \in Requests, Join(q) PROVE ThreadFacts'
    BY <1>14 DEF Join, RunAlive, GoTo
<1>15. ASSUME NEW q \in Requests, Judge(q) PROVE ThreadFacts'
    BY <1>15 DEF Judge, GoTo
<1>16. ASSUME NEW q \in Requests, ReplacerCreateRun(q) PROVE ThreadFacts'
    BY <1>16 DEF ReplacerCreateRun, CreateRun, GoTo
<1>17. ASSUME NEW q \in Requests, ReplacerLaunchRun(q) PROVE ThreadFacts'
    BY <1>17 DEF ReplacerLaunchRun, LaunchRun, GoTo
<1>18. ASSUME NEW q \in Requests, Begin(q) PROVE ThreadFacts'
    BY <1>18 DEF Begin
<1>19. ASSUME NEW q \in Requests, Prepare(q) PROVE ThreadFacts'
    BY <1>19 DEF Prepare
<1>20. ASSUME NEW q \in Requests, ControlApiUnavailable(q) PROVE ThreadFacts'
    BY <1>20 DEF ControlApiUnavailable, HandOver
<1>21. ASSUME NEW q \in Requests, RunRaises(q) PROVE ThreadFacts'
    BY <1>21 DEF RunRaises
<1>22. ASSUME NEW q \in Requests, PlaybackBegins(q) PROVE ThreadFacts'
    BY <1>22 DEF PlaybackBegins, Moves
<1>23. ASSUME NEW q \in Requests, PlaybackStops(q) PROVE ThreadFacts'
    BY <1>23 DEF PlaybackStops, Moves
<1>24. ASSUME NEW q \in Requests, PlaybackFails(q) PROVE ThreadFacts'
    BY <1>24 DEF PlaybackFails, Moves
<1>25. ASSUME NEW q \in Requests, PlaybackEnds(q) PROVE ThreadFacts'
    BY <1>25 DEF PlaybackEnds, Moves
<1>26. ASSUME NEW q \in Requests, Reset(q) PROVE ThreadFacts'
    BY <1>26 DEF Reset
<1>27. ASSUME NEW q \in Requests, Return(q) PROVE ThreadFacts'
    BY <1>27 DEF Return, HandOver
<1>28. ASSUME NEW q \in Requests, Unwind(q) PROVE ThreadFacts'
    BY <1>28 DEF Unwind
<1>29. CASE UNCHANGED vars
    BY <1>29 DEF vars
<1> QED
    BY NextCases, <1>1, <1>2, <1>3, <1>4, <1>5, <1>6, <1>7, <1>8, <1>9, <1>10, <1>11,
        <1>12, <1>13, <1>14, <1>15, <1>16, <1>17, <1>18, <1>19, <1>20, <1>21, <1>22,
        <1>23, <1>24, <1>25, <1>26, <1>27, <1>28, <1>29

\* A session that is not free keeps its thread.
LEMMA SessionStep ==
    ASSUME TypeOK, ThreadFacts, SessionFacts, [Next]_vars
    PROVE  SessionFacts'
<1> USE RequestsAssumption, ItemsAssumption DEF TypeOK, playback, service, Elsewhere,
        CallPc, ReplacerLive, ReplacerEnd, RunLive, RunEnd, Phases, ThreadFacts,
        BeforeRun, SessionFacts
<1>1. ASSUME NEW q \in Requests, Ask(q) PROVE SessionFacts'
    BY <1>1 DEF Ask
<1>2. ASSUME NEW q \in Requests, LoadingSettles(q) PROVE SessionFacts'
    BY <1>2 DEF LoadingSettles
<1>3. ASSUME NEW q \in Requests, WaitTimesOut(q) PROVE SessionFacts'
    BY <1>3 DEF WaitTimesOut
<1>4. ASSUME NEW q \in Requests, Decide(q) PROVE SessionFacts'
    BY <1>4 DEF Decide
<1>5. ASSUME NEW q \in Requests, Start(q) PROVE SessionFacts'
    BY <1>5 DEF Start, CreateRun
<1>6. ASSUME NEW q \in Requests, StartLaunch(q) PROVE SessionFacts'
    BY <1>6 DEF StartLaunch, LaunchRun
<1>7. ASSUME NEW q \in Requests, Replace(q) PROVE SessionFacts'
    BY <1>7 DEF Replace
<1>8. ASSUME NEW q \in Requests, RejectReplace(q) PROVE SessionFacts'
    BY <1>8 DEF RejectReplace
<1>9. ASSUME NEW q \in Requests, ReplaceLaunch(q) PROVE SessionFacts'
    BY <1>9 DEF ReplaceLaunch
<1>10. ASSUME NEW q \in Requests, ReadActive(q) PROVE SessionFacts'
    BY <1>10 DEF ReadActive, RunAlive, GoTo
<1>11. ASSUME NEW q \in Requests, RequestStop(q) PROVE SessionFacts'
    BY <1>11 DEF RequestStop, GoTo
<1>12. ASSUME NEW q \in Requests, StopActive(q) PROVE SessionFacts'
    BY <1>12 DEF StopActive, GoTo
<1>13. ASSUME NEW q \in Requests, StopRaises(q) PROVE SessionFacts'
    BY <1>13 DEF StopRaises, GoTo
<1>14. ASSUME NEW q \in Requests, Join(q) PROVE SessionFacts'
    BY <1>14 DEF Join, RunAlive, GoTo
<1>15. ASSUME NEW q \in Requests, Judge(q) PROVE SessionFacts'
    BY <1>15 DEF Judge, GoTo
<1>16. ASSUME NEW q \in Requests, ReplacerCreateRun(q) PROVE SessionFacts'
    BY <1>16 DEF ReplacerCreateRun, CreateRun, GoTo
<1>17. ASSUME NEW q \in Requests, ReplacerLaunchRun(q) PROVE SessionFacts'
    BY <1>17 DEF ReplacerLaunchRun, LaunchRun, GoTo
<1>18. ASSUME NEW q \in Requests, Begin(q) PROVE SessionFacts'
    BY <1>18 DEF Begin
<1>19. ASSUME NEW q \in Requests, Prepare(q) PROVE SessionFacts'
    BY <1>19 DEF Prepare
<1>20. ASSUME NEW q \in Requests, ControlApiUnavailable(q) PROVE SessionFacts'
    BY <1>20 DEF ControlApiUnavailable, HandOver
<1>21. ASSUME NEW q \in Requests, RunRaises(q) PROVE SessionFacts'
    BY <1>21 DEF RunRaises
<1>22. ASSUME NEW q \in Requests, PlaybackBegins(q) PROVE SessionFacts'
    BY <1>22 DEF PlaybackBegins, Moves
<1>23. ASSUME NEW q \in Requests, PlaybackStops(q) PROVE SessionFacts'
    BY <1>23 DEF PlaybackStops, Moves
<1>24. ASSUME NEW q \in Requests, PlaybackFails(q) PROVE SessionFacts'
    BY <1>24 DEF PlaybackFails, Moves
<1>25. ASSUME NEW q \in Requests, PlaybackEnds(q) PROVE SessionFacts'
    BY <1>25 DEF PlaybackEnds, Moves
<1>26. ASSUME NEW q \in Requests, Reset(q) PROVE SessionFacts'
    BY <1>26 DEF Reset
<1>27. ASSUME NEW q \in Requests, Return(q) PROVE SessionFacts'
    BY <1>27 DEF Return, HandOver
<1>28. ASSUME NEW q \in Requests, Unwind(q) PROVE SessionFacts'
    BY <1>28 DEF Unwind
<1>29. CASE UNCHANGED vars
    BY <1>29 DEF vars
<1> QED
    BY NextCases, <1>1, <1>2, <1>3, <1>4, <1>5, <1>6, <1>7, <1>8, <1>9, <1>10, <1>11,
        <1>12, <1>13, <1>14, <1>15, <1>16, <1>17, <1>18, <1>19, <1>20, <1>21, <1>22,
        <1>23, <1>24, <1>25, <1>26, <1>27, <1>28, <1>29

\* The event keeps its owner.
LEMMA EventStep ==
    ASSUME TypeOK, ThreadFacts, EventHasAnOwner, [Next]_vars
    PROVE  EventHasAnOwner'
<1> USE RequestsAssumption, ItemsAssumption DEF TypeOK, playback, service, Elsewhere,
        CallPc, ReplacerLive, ReplacerEnd, RunLive, RunEnd, Phases, ThreadFacts,
        EventHasAnOwner
<1>1. ASSUME NEW q \in Requests, Ask(q) PROVE EventHasAnOwner'
    BY <1>1 DEF Ask
<1>2. ASSUME NEW q \in Requests, LoadingSettles(q) PROVE EventHasAnOwner'
    BY <1>2 DEF LoadingSettles
<1>3. ASSUME NEW q \in Requests, WaitTimesOut(q) PROVE EventHasAnOwner'
    BY <1>3 DEF WaitTimesOut
<1>4. ASSUME NEW q \in Requests, Decide(q) PROVE EventHasAnOwner'
    BY <1>4 DEF Decide
<1>5. ASSUME NEW q \in Requests, Start(q) PROVE EventHasAnOwner'
    BY <1>5 DEF Start, CreateRun
<1>6. ASSUME NEW q \in Requests, StartLaunch(q) PROVE EventHasAnOwner'
    BY <1>6 DEF StartLaunch, LaunchRun
<1>7. ASSUME NEW q \in Requests, Replace(q) PROVE EventHasAnOwner'
    BY <1>7 DEF Replace
<1>8. ASSUME NEW q \in Requests, RejectReplace(q) PROVE EventHasAnOwner'
    BY <1>8 DEF RejectReplace
<1>9. ASSUME NEW q \in Requests, ReplaceLaunch(q) PROVE EventHasAnOwner'
    BY <1>9 DEF ReplaceLaunch
<1>10. ASSUME NEW q \in Requests, ReadActive(q) PROVE EventHasAnOwner'
    BY <1>10 DEF ReadActive, RunAlive, GoTo
<1>11. ASSUME NEW q \in Requests, RequestStop(q) PROVE EventHasAnOwner'
    BY <1>11 DEF RequestStop, GoTo
<1>12. ASSUME NEW q \in Requests, StopActive(q) PROVE EventHasAnOwner'
    BY <1>12 DEF StopActive, GoTo
<1>13. ASSUME NEW q \in Requests, StopRaises(q) PROVE EventHasAnOwner'
    BY <1>13 DEF StopRaises, GoTo
<1>14. ASSUME NEW q \in Requests, Join(q) PROVE EventHasAnOwner'
    BY <1>14 DEF Join, RunAlive, GoTo
<1>15. ASSUME NEW q \in Requests, Judge(q) PROVE EventHasAnOwner'
    BY <1>15 DEF Judge, GoTo
<1>16. ASSUME NEW q \in Requests, ReplacerCreateRun(q) PROVE EventHasAnOwner'
    BY <1>16 DEF ReplacerCreateRun, CreateRun, GoTo
<1>17. ASSUME NEW q \in Requests, ReplacerLaunchRun(q) PROVE EventHasAnOwner'
    BY <1>17 DEF ReplacerLaunchRun, LaunchRun, GoTo
<1>18. ASSUME NEW q \in Requests, Begin(q) PROVE EventHasAnOwner'
    BY <1>18 DEF Begin
<1>19. ASSUME NEW q \in Requests, Prepare(q) PROVE EventHasAnOwner'
    BY <1>19 DEF Prepare
<1>20. ASSUME NEW q \in Requests, ControlApiUnavailable(q) PROVE EventHasAnOwner'
    BY <1>20 DEF ControlApiUnavailable, HandOver
<1>21. ASSUME NEW q \in Requests, RunRaises(q) PROVE EventHasAnOwner'
    BY <1>21 DEF RunRaises
<1>22. ASSUME NEW q \in Requests, PlaybackBegins(q) PROVE EventHasAnOwner'
    BY <1>22 DEF PlaybackBegins, Moves
<1>23. ASSUME NEW q \in Requests, PlaybackStops(q) PROVE EventHasAnOwner'
    BY <1>23 DEF PlaybackStops, Moves
<1>24. ASSUME NEW q \in Requests, PlaybackFails(q) PROVE EventHasAnOwner'
    BY <1>24 DEF PlaybackFails, Moves
<1>25. ASSUME NEW q \in Requests, PlaybackEnds(q) PROVE EventHasAnOwner'
    BY <1>25 DEF PlaybackEnds, Moves
<1>26. ASSUME NEW q \in Requests, Reset(q) PROVE EventHasAnOwner'
    BY <1>26 DEF Reset
<1>27. ASSUME NEW q \in Requests, Return(q) PROVE EventHasAnOwner'
    BY <1>27 DEF Return, HandOver
<1>28. ASSUME NEW q \in Requests, Unwind(q) PROVE EventHasAnOwner'
    BY <1>28 DEF Unwind
<1>29. CASE UNCHANGED vars
    BY <1>29 DEF vars
<1> QED
    BY NextCases, <1>1, <1>2, <1>3, <1>4, <1>5, <1>6, <1>7, <1>8, <1>9, <1>10, <1>11,
        <1>12, <1>13, <1>14, <1>15, <1>16, <1>17, <1>18, <1>19, <1>20, <1>21, <1>22,
        <1>23, <1>24, <1>25, <1>26, <1>27, <1>28, <1>29

\* The active thread stays the latest.
LEMMA ActiveStep ==
    ASSUME TypeOK, ThreadFacts, ActiveIsTheLatest, [Next]_vars
    PROVE  ActiveIsTheLatest'
<1> USE RequestsAssumption, ItemsAssumption DEF TypeOK, playback, service, Elsewhere,
        CallPc, ReplacerLive, ReplacerEnd, RunLive, RunEnd, Phases, ThreadFacts,
        BeforeRun, ActiveIsTheLatest
<1>1. ASSUME NEW q \in Requests, Ask(q) PROVE ActiveIsTheLatest'
    BY <1>1 DEF Ask
<1>2. ASSUME NEW q \in Requests, LoadingSettles(q) PROVE ActiveIsTheLatest'
    BY <1>2 DEF LoadingSettles
<1>3. ASSUME NEW q \in Requests, WaitTimesOut(q) PROVE ActiveIsTheLatest'
    BY <1>3 DEF WaitTimesOut
<1>4. ASSUME NEW q \in Requests, Decide(q) PROVE ActiveIsTheLatest'
    BY <1>4 DEF Decide
<1>5. ASSUME NEW q \in Requests, Start(q) PROVE ActiveIsTheLatest'
    BY <1>5 DEF Start, CreateRun
<1>6. ASSUME NEW q \in Requests, StartLaunch(q) PROVE ActiveIsTheLatest'
    BY <1>6 DEF StartLaunch, LaunchRun
<1>7. ASSUME NEW q \in Requests, Replace(q) PROVE ActiveIsTheLatest'
    BY <1>7 DEF Replace
<1>8. ASSUME NEW q \in Requests, RejectReplace(q) PROVE ActiveIsTheLatest'
    BY <1>8 DEF RejectReplace
<1>9. ASSUME NEW q \in Requests, ReplaceLaunch(q) PROVE ActiveIsTheLatest'
    BY <1>9 DEF ReplaceLaunch
<1>10. ASSUME NEW q \in Requests, ReadActive(q) PROVE ActiveIsTheLatest'
    BY <1>10 DEF ReadActive, RunAlive, GoTo
<1>11. ASSUME NEW q \in Requests, RequestStop(q) PROVE ActiveIsTheLatest'
    BY <1>11 DEF RequestStop, GoTo
<1>12. ASSUME NEW q \in Requests, StopActive(q) PROVE ActiveIsTheLatest'
    BY <1>12 DEF StopActive, GoTo
<1>13. ASSUME NEW q \in Requests, StopRaises(q) PROVE ActiveIsTheLatest'
    BY <1>13 DEF StopRaises, GoTo
<1>14. ASSUME NEW q \in Requests, Join(q) PROVE ActiveIsTheLatest'
    BY <1>14 DEF Join, RunAlive, GoTo
<1>15. ASSUME NEW q \in Requests, Judge(q) PROVE ActiveIsTheLatest'
    BY <1>15 DEF Judge, GoTo
<1>16. ASSUME NEW q \in Requests, ReplacerCreateRun(q) PROVE ActiveIsTheLatest'
    BY <1>16 DEF ReplacerCreateRun, CreateRun, GoTo
<1>17. ASSUME NEW q \in Requests, ReplacerLaunchRun(q) PROVE ActiveIsTheLatest'
    BY <1>17 DEF ReplacerLaunchRun, LaunchRun, GoTo
<1>18. ASSUME NEW q \in Requests, Begin(q) PROVE ActiveIsTheLatest'
    BY <1>18 DEF Begin
<1>19. ASSUME NEW q \in Requests, Prepare(q) PROVE ActiveIsTheLatest'
    BY <1>19 DEF Prepare
<1>20. ASSUME NEW q \in Requests, ControlApiUnavailable(q) PROVE ActiveIsTheLatest'
    BY <1>20 DEF ControlApiUnavailable, HandOver
<1>21. ASSUME NEW q \in Requests, RunRaises(q) PROVE ActiveIsTheLatest'
    BY <1>21 DEF RunRaises
<1>22. ASSUME NEW q \in Requests, PlaybackBegins(q) PROVE ActiveIsTheLatest'
    BY <1>22 DEF PlaybackBegins, Moves
<1>23. ASSUME NEW q \in Requests, PlaybackStops(q) PROVE ActiveIsTheLatest'
    BY <1>23 DEF PlaybackStops, Moves
<1>24. ASSUME NEW q \in Requests, PlaybackFails(q) PROVE ActiveIsTheLatest'
    BY <1>24 DEF PlaybackFails, Moves
<1>25. ASSUME NEW q \in Requests, PlaybackEnds(q) PROVE ActiveIsTheLatest'
    BY <1>25 DEF PlaybackEnds, Moves
<1>26. ASSUME NEW q \in Requests, Reset(q) PROVE ActiveIsTheLatest'
    BY <1>26 DEF Reset
<1>27. ASSUME NEW q \in Requests, Return(q) PROVE ActiveIsTheLatest'
    BY <1>27 DEF Return, HandOver
<1>28. ASSUME NEW q \in Requests, Unwind(q) PROVE ActiveIsTheLatest'
    BY <1>28 DEF Unwind
<1>29. CASE UNCHANGED vars
    BY <1>29 DEF vars
<1> QED
    BY NextCases, <1>1, <1>2, <1>3, <1>4, <1>5, <1>6, <1>7, <1>8, <1>9, <1>10, <1>11,
        <1>12, <1>13, <1>14, <1>15, <1>16, <1>17, <1>18, <1>19, <1>20, <1>21, <1>22,
        <1>23, <1>24, <1>25, <1>26, <1>27, <1>28, <1>29

-------------------------------------------------------------------------------
\* What a step does to the threads that are at work or have a result: they stay, and
\* a failure that is handed over is the last result.
Stays ==
    /\ overlapped => overlapped'
    /\ \A p \in Requests :
           /\ run[p] \in RunEnd => run'[p] = run[p]
           /\ run[p] \in RunLive => run'[p] \in RunLive \cup RunEnd
           /\ HasResult(p) => HasResult(p)' /\ phase'[p] = phase[p]
           /\ HasResult(p)' /\ ~HasResult(p) /\ phase'[p] = "failed" => lastResult' = "failed"

\* The last result is kept, or all the results before it are outdated.
Succeeds ==
    \/ UNCHANGED <<lastResult, outdated>>
    \/ outdated' = {p \in Requests : HasResult(p)}

\* What a replacement thread has done that is about to create its playback.
Judged ==
    \A p \in Requests : replacer'[p] = "create_run" =>
        \/ replacer[p] \in {"create_run", "read_active"} /\ old'[p] = old[p]
        \/ /\ replacer[p] = "judge" /\ lastResult # "failed"
           /\ UNCHANGED <<old, run, phase, outdated, overlapped>>

\* Every step leaves the results as they are, and no failure is judged to be none.
LEMMA ResultsStay ==
    ASSUME TypeOK, ThreadFacts, [Next]_vars
    PROVE  Stays /\ Succeeds /\ Judged
<1> USE RequestsAssumption, ItemsAssumption DEF TypeOK, playback, service, Elsewhere,
        CallPc, ReplacerLive, ReplacerEnd, RunLive, RunEnd, Phases, ThreadFacts,
        BeforeRun, HasResult, Stays, Succeeds, Judged
<1>1. ASSUME NEW q \in Requests, Ask(q) PROVE Stays /\ Succeeds /\ Judged
    BY <1>1 DEF Ask
<1>2. ASSUME NEW q \in Requests, LoadingSettles(q) PROVE Stays /\ Succeeds /\ Judged
    BY <1>2 DEF LoadingSettles
<1>3. ASSUME NEW q \in Requests, WaitTimesOut(q) PROVE Stays /\ Succeeds /\ Judged
    BY <1>3 DEF WaitTimesOut
<1>4. ASSUME NEW q \in Requests, Decide(q) PROVE Stays /\ Succeeds /\ Judged
    BY <1>4 DEF Decide
<1>5. ASSUME NEW q \in Requests, Start(q) PROVE Stays /\ Succeeds /\ Judged
    BY <1>5 DEF Start, CreateRun
<1>6. ASSUME NEW q \in Requests, StartLaunch(q) PROVE Stays /\ Succeeds /\ Judged
    BY <1>6 DEF StartLaunch, LaunchRun
<1>7. ASSUME NEW q \in Requests, Replace(q) PROVE Stays /\ Succeeds /\ Judged
    BY <1>7 DEF Replace
<1>8. ASSUME NEW q \in Requests, RejectReplace(q) PROVE Stays /\ Succeeds /\ Judged
    BY <1>8 DEF RejectReplace
<1>9. ASSUME NEW q \in Requests, ReplaceLaunch(q) PROVE Stays /\ Succeeds /\ Judged
    BY <1>9 DEF ReplaceLaunch
<1>10. ASSUME NEW q \in Requests, ReadActive(q) PROVE Stays /\ Succeeds /\ Judged
    BY <1>10 DEF ReadActive, RunAlive, GoTo
<1>11. ASSUME NEW q \in Requests, RequestStop(q) PROVE Stays /\ Succeeds /\ Judged
    BY <1>11 DEF RequestStop, GoTo
<1>12. ASSUME NEW q \in Requests, StopActive(q) PROVE Stays /\ Succeeds /\ Judged
    BY <1>12 DEF StopActive, GoTo
<1>13. ASSUME NEW q \in Requests, StopRaises(q) PROVE Stays /\ Succeeds /\ Judged
    BY <1>13 DEF StopRaises, GoTo
<1>14. ASSUME NEW q \in Requests, Join(q) PROVE Stays /\ Succeeds /\ Judged
    BY <1>14 DEF Join, RunAlive, GoTo
<1>15. ASSUME NEW q \in Requests, Judge(q) PROVE Stays /\ Succeeds /\ Judged
    BY <1>15 DEF Judge, GoTo
<1>16. ASSUME NEW q \in Requests, ReplacerCreateRun(q) PROVE Stays /\ Succeeds /\ Judged
    BY <1>16 DEF ReplacerCreateRun, CreateRun, GoTo
<1>17. ASSUME NEW q \in Requests, ReplacerLaunchRun(q) PROVE Stays /\ Succeeds /\ Judged
    BY <1>17 DEF ReplacerLaunchRun, LaunchRun, GoTo
<1>18. ASSUME NEW q \in Requests, Begin(q) PROVE Stays /\ Succeeds /\ Judged
    BY <1>18 DEF Begin
<1>19. ASSUME NEW q \in Requests, Prepare(q) PROVE Stays /\ Succeeds /\ Judged
    BY <1>19 DEF Prepare
<1>20. ASSUME NEW q \in Requests, ControlApiUnavailable(q) PROVE Stays /\ Succeeds /\ Judged
    BY <1>20 DEF ControlApiUnavailable, HandOver
<1>21. ASSUME NEW q \in Requests, RunRaises(q) PROVE Stays /\ Succeeds /\ Judged
    BY <1>21 DEF RunRaises
<1>22. ASSUME NEW q \in Requests, PlaybackBegins(q) PROVE Stays /\ Succeeds /\ Judged
    BY <1>22 DEF PlaybackBegins, Moves
<1>23. ASSUME NEW q \in Requests, PlaybackStops(q) PROVE Stays /\ Succeeds /\ Judged
    BY <1>23 DEF PlaybackStops, Moves
<1>24. ASSUME NEW q \in Requests, PlaybackFails(q) PROVE Stays /\ Succeeds /\ Judged
    BY <1>24 DEF PlaybackFails, Moves
<1>25. ASSUME NEW q \in Requests, PlaybackEnds(q) PROVE Stays /\ Succeeds /\ Judged
    BY <1>25 DEF PlaybackEnds, Moves
<1>26. ASSUME NEW q \in Requests, Reset(q) PROVE Stays /\ Succeeds /\ Judged
    BY <1>26 DEF Reset
<1>27. ASSUME NEW q \in Requests, Return(q) PROVE Stays /\ Succeeds /\ Judged
    BY <1>27 DEF Return, HandOver
<1>28. ASSUME NEW q \in Requests, Unwind(q) PROVE Stays /\ Succeeds /\ Judged
    BY <1>28 DEF Unwind
<1>29. CASE UNCHANGED vars
    BY <1>29 DEF vars
<1> QED
    BY NextCases, <1>1, <1>2, <1>3, <1>4, <1>5, <1>6, <1>7, <1>8, <1>9, <1>10, <1>11,
        <1>12, <1>13, <1>14, <1>15, <1>16, <1>17, <1>18, <1>19, <1>20, <1>21, <1>22,
        <1>23, <1>24, <1>25, <1>26, <1>27, <1>28, <1>29

\* A failure stays the last result, or is outdated.
LEMMA ResultStep ==
    ASSUME TypeOK, ResultFacts, Stays, Succeeds
    PROVE  ResultFacts' /\ outdated \subseteq outdated'
<1>1. outdated \subseteq Requests
    BY DEF TypeOK
<1>2. ASSUME NEW o \in outdated' PROVE HasResult(o)'
  <2>1. o \in Requests /\ HasResult(o)
    BY <1>1, <1>2 DEF Succeeds, ResultFacts
  <2> QED
    BY <2>1 DEF Stays
<1>3. outdated \subseteq outdated'
    BY <1>1 DEF Succeeds, ResultFacts
<1>4. ASSUME NEW o \in Requests, HasResult(o)', phase'[o] = "failed", lastResult' # "failed"
      PROVE  o \in outdated'
  <2>1. HasResult(o) /\ phase[o] = "failed"
    BY <1>4 DEF Stays
  <2> QED
    BY <1>4, <2>1 DEF Succeeds, ResultFacts
<1> QED
    BY <1>2, <1>3, <1>4 DEF ResultFacts

\* Who goes on after a failure had it outdated by a playback that overlapped.
LEMMA FailureStep ==
    ASSUME TypeOK, ResultFacts, WaitFacts, FailureIsSeldomOverlooked,
           ~overlapped => LatestFacts, Stays, Judged, outdated \subseteq outdated'
    PROVE  FailureIsSeldomOverlooked'
<1> SUFFICES ASSUME NEW q \in Requests, replacer'[q] = "create_run", old'[q] # None,
                    run'[old'[q]] = "returned", phase'[old'[q]] = "failed"
             PROVE  overlapped' /\ old'[q] \in outdated'
    BY DEF FailureIsSeldomOverlooked
<1>1. CASE replacer[q] \in {"create_run", "read_active"} /\ old'[q] = old[q]
  <2>1. replacer[q] = "create_run" /\ old[q] \in Requests /\ run[old[q]] \in RunEnd
    BY <1>1 DEF WaitFacts, TypeOK
  <2>2. run[old[q]] = "returned"
    BY <1>1, <2>1 DEF Stays
  <2>3. phase[old[q]] = "failed"
    BY <1>1, <2>1, <2>2 DEF Stays, HasResult
  <2>4. overlapped /\ old[q] \in outdated
    BY <1>1, <2>1, <2>2, <2>3 DEF FailureIsSeldomOverlooked
  <2> QED
    BY <1>1, <2>4 DEF Stays
<1>2. CASE /\ replacer[q] = "judge" /\ lastResult # "failed"
           /\ UNCHANGED <<old, run, phase, outdated, overlapped>>
  <2>1. old[q] \in Requests /\ HasResult(old[q]) /\ phase[old[q]] = "failed"
    BY <1>2 DEF TypeOK, HasResult
  <2>2. old[q] \in outdated
    BY <1>2, <2>1 DEF ResultFacts
  <2>3. overlapped
    BY <1>2, <2>2 DEF LatestFacts
  <2> QED
    BY <1>2, <2>2, <2>3
<1> QED
    BY <1>1, <1>2 DEF Judged

\* A thread that waits goes on when what it waits for has ended.
LEMMA WaitStep ==
    ASSUME TypeOK, ThreadFacts, WaitFacts, Stays, [Next]_vars
    PROVE  WaitFacts'
<1> USE RequestsAssumption, ItemsAssumption DEF TypeOK, playback, service, Elsewhere,
        CallPc, ReplacerLive, ReplacerEnd, RunLive, RunEnd, Phases, ThreadFacts,
        BeforeRun, WaitFacts, HasResult, Stays
<1>1. ASSUME NEW q \in Requests, Ask(q) PROVE WaitFacts'
    BY <1>1 DEF Ask
<1>2. ASSUME NEW q \in Requests, LoadingSettles(q) PROVE WaitFacts'
    BY <1>2 DEF LoadingSettles
<1>3. ASSUME NEW q \in Requests, WaitTimesOut(q) PROVE WaitFacts'
    BY <1>3 DEF WaitTimesOut
<1>4. ASSUME NEW q \in Requests, Decide(q) PROVE WaitFacts'
    BY <1>4 DEF Decide
<1>5. ASSUME NEW q \in Requests, Start(q) PROVE WaitFacts'
    BY <1>5 DEF Start, CreateRun
<1>6. ASSUME NEW q \in Requests, StartLaunch(q) PROVE WaitFacts'
    BY <1>6 DEF StartLaunch, LaunchRun
<1>7. ASSUME NEW q \in Requests, Replace(q) PROVE WaitFacts'
    BY <1>7 DEF Replace
<1>8. ASSUME NEW q \in Requests, RejectReplace(q) PROVE WaitFacts'
    BY <1>8 DEF RejectReplace
<1>9. ASSUME NEW q \in Requests, ReplaceLaunch(q) PROVE WaitFacts'
    BY <1>9 DEF ReplaceLaunch
<1>10. ASSUME NEW q \in Requests, ReadActive(q) PROVE WaitFacts'
    BY <1>10 DEF ReadActive, RunAlive, GoTo
<1>11. ASSUME NEW q \in Requests, RequestStop(q) PROVE WaitFacts'
    BY <1>11 DEF RequestStop, GoTo
<1>12. ASSUME NEW q \in Requests, StopActive(q) PROVE WaitFacts'
    BY <1>12 DEF StopActive, GoTo
<1>13. ASSUME NEW q \in Requests, StopRaises(q) PROVE WaitFacts'
    BY <1>13 DEF StopRaises, GoTo
<1>14. ASSUME NEW q \in Requests, Join(q) PROVE WaitFacts'
    BY <1>14 DEF Join, RunAlive, GoTo
<1>15. ASSUME NEW q \in Requests, Judge(q) PROVE WaitFacts'
    BY <1>15 DEF Judge, GoTo
<1>16. ASSUME NEW q \in Requests, ReplacerCreateRun(q) PROVE WaitFacts'
    BY <1>16 DEF ReplacerCreateRun, CreateRun, GoTo
<1>17. ASSUME NEW q \in Requests, ReplacerLaunchRun(q) PROVE WaitFacts'
    BY <1>17 DEF ReplacerLaunchRun, LaunchRun, GoTo
<1>18. ASSUME NEW q \in Requests, Begin(q) PROVE WaitFacts'
    BY <1>18 DEF Begin
<1>19. ASSUME NEW q \in Requests, Prepare(q) PROVE WaitFacts'
    BY <1>19 DEF Prepare
<1>20. ASSUME NEW q \in Requests, ControlApiUnavailable(q) PROVE WaitFacts'
    BY <1>20 DEF ControlApiUnavailable, HandOver
<1>21. ASSUME NEW q \in Requests, RunRaises(q) PROVE WaitFacts'
    BY <1>21 DEF RunRaises
<1>22. ASSUME NEW q \in Requests, PlaybackBegins(q) PROVE WaitFacts'
    BY <1>22 DEF PlaybackBegins, Moves
<1>23. ASSUME NEW q \in Requests, PlaybackStops(q) PROVE WaitFacts'
    BY <1>23 DEF PlaybackStops, Moves
<1>24. ASSUME NEW q \in Requests, PlaybackFails(q) PROVE WaitFacts'
    BY <1>24 DEF PlaybackFails, Moves
<1>25. ASSUME NEW q \in Requests, PlaybackEnds(q) PROVE WaitFacts'
    BY <1>25 DEF PlaybackEnds, Moves
<1>26. ASSUME NEW q \in Requests, Reset(q) PROVE WaitFacts'
    BY <1>26 DEF Reset
<1>27. ASSUME NEW q \in Requests, Return(q) PROVE WaitFacts'
    BY <1>27 DEF Return, HandOver
<1>28. ASSUME NEW q \in Requests, Unwind(q) PROVE WaitFacts'
    BY <1>28 DEF Unwind
<1>29. CASE UNCHANGED vars
    BY <1>29 DEF vars
<1> QED
    BY NextCases, <1>1, <1>2, <1>3, <1>4, <1>5, <1>6, <1>7, <1>8, <1>9, <1>10, <1>11,
        <1>12, <1>13, <1>14, <1>15, <1>16, <1>17, <1>18, <1>19, <1>20, <1>21, <1>22,
        <1>23, <1>24, <1>25, <1>26, <1>27, <1>28, <1>29

\* What is undisturbed has always been.
LEMMA UndisturbedBefore ==
    ASSUME TypeOK, ThreadFacts, Undisturbed', [Next]_vars
    PROVE  Undisturbed
<1> USE RequestsAssumption, ItemsAssumption DEF TypeOK, playback, service, Elsewhere,
        CallPc, ReplacerLive, ReplacerEnd, RunLive, RunEnd, Phases, ThreadFacts,
        BeforeRun, HasResult, Undisturbed
<1>1. ASSUME NEW q \in Requests, Ask(q) PROVE Undisturbed
    BY <1>1 DEF Ask
<1>2. ASSUME NEW q \in Requests, LoadingSettles(q) PROVE Undisturbed
    BY <1>2 DEF LoadingSettles
<1>3. ASSUME NEW q \in Requests, WaitTimesOut(q) PROVE Undisturbed
    BY <1>3 DEF WaitTimesOut
<1>4. ASSUME NEW q \in Requests, Decide(q) PROVE Undisturbed
    BY <1>4 DEF Decide
<1>5. ASSUME NEW q \in Requests, Start(q) PROVE Undisturbed
    BY <1>5 DEF Start, CreateRun, OthersWork
<1>6. ASSUME NEW q \in Requests, StartLaunch(q) PROVE Undisturbed
    BY <1>6 DEF StartLaunch, LaunchRun
<1>7. ASSUME NEW q \in Requests, Replace(q) PROVE Undisturbed
    BY <1>7 DEF Replace
<1>8. ASSUME NEW q \in Requests, RejectReplace(q) PROVE Undisturbed
    BY <1>8 DEF RejectReplace
<1>9. ASSUME NEW q \in Requests, ReplaceLaunch(q) PROVE Undisturbed
    BY <1>9 DEF ReplaceLaunch
<1>10. ASSUME NEW q \in Requests, ReadActive(q) PROVE Undisturbed
    BY <1>10 DEF ReadActive, RunAlive, GoTo
<1>11. ASSUME NEW q \in Requests, RequestStop(q) PROVE Undisturbed
    BY <1>11 DEF RequestStop, GoTo
<1>12. ASSUME NEW q \in Requests, StopActive(q) PROVE Undisturbed
    BY <1>12 DEF StopActive, GoTo
<1>13. ASSUME NEW q \in Requests, StopRaises(q) PROVE Undisturbed
    BY <1>13 DEF StopRaises, GoTo
<1>14. ASSUME NEW q \in Requests, Join(q) PROVE Undisturbed
    BY <1>14 DEF Join, RunAlive, GoTo
<1>15. ASSUME NEW q \in Requests, Judge(q) PROVE Undisturbed
    BY <1>15 DEF Judge, GoTo
<1>16. ASSUME NEW q \in Requests, ReplacerCreateRun(q) PROVE Undisturbed
    BY <1>16 DEF ReplacerCreateRun, CreateRun, OthersWork, GoTo
<1>17. ASSUME NEW q \in Requests, ReplacerLaunchRun(q) PROVE Undisturbed
    BY <1>17 DEF ReplacerLaunchRun, LaunchRun, GoTo
<1>18. ASSUME NEW q \in Requests, Begin(q) PROVE Undisturbed
    BY <1>18 DEF Begin
<1>19. ASSUME NEW q \in Requests, Prepare(q) PROVE Undisturbed
    BY <1>19 DEF Prepare
<1>20. ASSUME NEW q \in Requests, ControlApiUnavailable(q) PROVE Undisturbed
    BY <1>20 DEF ControlApiUnavailable, HandOver
<1>21. ASSUME NEW q \in Requests, RunRaises(q) PROVE Undisturbed
    BY <1>21 DEF RunRaises
<1>22. ASSUME NEW q \in Requests, PlaybackBegins(q) PROVE Undisturbed
    BY <1>22 DEF PlaybackBegins, Moves
<1>23. ASSUME NEW q \in Requests, PlaybackStops(q) PROVE Undisturbed
    BY <1>23 DEF PlaybackStops, Moves
<1>24. ASSUME NEW q \in Requests, PlaybackFails(q) PROVE Undisturbed
    BY <1>24 DEF PlaybackFails, Moves
<1>25. ASSUME NEW q \in Requests, PlaybackEnds(q) PROVE Undisturbed
    BY <1>25 DEF PlaybackEnds, Moves
<1>26. ASSUME NEW q \in Requests, Reset(q) PROVE Undisturbed
    BY <1>26 DEF Reset
<1>27. ASSUME NEW q \in Requests, Return(q) PROVE Undisturbed
    BY <1>27 DEF Return, HandOver
<1>28. ASSUME NEW q \in Requests, Unwind(q) PROVE Undisturbed
    BY <1>28 DEF Unwind
<1>29. CASE UNCHANGED vars
    BY <1>29 DEF vars
<1> QED
    BY NextCases, <1>1, <1>2, <1>3, <1>4, <1>5, <1>6, <1>7, <1>8, <1>9, <1>10, <1>11,
        <1>12, <1>13, <1>14, <1>15, <1>16, <1>17, <1>18, <1>19, <1>20, <1>21, <1>22,
        <1>23, <1>24, <1>25, <1>26, <1>27, <1>28, <1>29

\* Without overlaps the latest playback is the only one at work.
LEMMA LatestStep ==
    ASSUME TypeOK, ThreadFacts, ResultFacts, ~overlapped', LatestFacts, ActiveIsTheLatest,
           [Next]_vars
    PROVE  LatestFacts'
<1> USE RequestsAssumption, ItemsAssumption DEF TypeOK, playback, service, Elsewhere,
        CallPc, ReplacerLive, ReplacerEnd, RunLive, RunEnd, Phases, ThreadFacts,
        BeforeRun, HasResult, ResultFacts, LatestFacts, ActiveIsTheLatest
<1>1. ASSUME NEW q \in Requests, Ask(q) PROVE LatestFacts'
    BY <1>1 DEF Ask
<1>2. ASSUME NEW q \in Requests, LoadingSettles(q) PROVE LatestFacts'
    BY <1>2 DEF LoadingSettles
<1>3. ASSUME NEW q \in Requests, WaitTimesOut(q) PROVE LatestFacts'
    BY <1>3 DEF WaitTimesOut
<1>4. ASSUME NEW q \in Requests, Decide(q) PROVE LatestFacts'
    BY <1>4 DEF Decide
<1>5. ASSUME NEW q \in Requests, Start(q) PROVE LatestFacts'
  <2>1. /\ latest' = q /\ outdated' = outdated /\ old' = old /\ replacer' = replacer
        /\ run' = [run EXCEPT ![q] = "created"] /\ phase' = phase /\ ~OthersWork(q)
        /\ replacer[q] = "none"
    BY <1>5 DEF Start, CreateRun
  <2>2. \A p \in Requests : run[p] \notin {"created"} \cup RunLive
    BY <2>1 DEF OthersWork
  <2>3. \A p \in Requests \ {q} : replacer[p] \notin ReplacerLive
    BY <2>1 DEF OthersWork
  <2>4. q \notin outdated
    BY <1>5 DEF Start
  <2> QED
    BY <2>1, <2>2, <2>3, <2>4
<1>6. ASSUME NEW q \in Requests, StartLaunch(q) PROVE LatestFacts'
    BY <1>6 DEF StartLaunch, LaunchRun
<1>7. ASSUME NEW q \in Requests, Replace(q) PROVE LatestFacts'
    BY <1>7 DEF Replace
<1>8. ASSUME NEW q \in Requests, RejectReplace(q) PROVE LatestFacts'
    BY <1>8 DEF RejectReplace
<1>9. ASSUME NEW q \in Requests, ReplaceLaunch(q) PROVE LatestFacts'
    BY <1>9 DEF ReplaceLaunch
<1>10. ASSUME NEW q \in Requests, ReadActive(q) PROVE LatestFacts'
    BY <1>10 DEF ReadActive, RunAlive, GoTo
<1>11. ASSUME NEW q \in Requests, RequestStop(q) PROVE LatestFacts'
    BY <1>11 DEF RequestStop, GoTo
<1>12. ASSUME NEW q \in Requests, StopActive(q) PROVE LatestFacts'
    BY <1>12 DEF StopActive, GoTo
<1>13. ASSUME NEW q \in Requests, StopRaises(q) PROVE LatestFacts'
    BY <1>13 DEF StopRaises, GoTo
<1>14. ASSUME NEW q \in Requests, Join(q) PROVE LatestFacts'
    BY <1>14 DEF Join, RunAlive, GoTo
<1>15. ASSUME NEW q \in Requests, Judge(q) PROVE LatestFacts'
    BY <1>15 DEF Judge, GoTo
<1>16. ASSUME NEW q \in Requests, ReplacerCreateRun(q) PROVE LatestFacts'
  <2>1. /\ latest' = q /\ outdated' = outdated /\ old' = old
        /\ run' = [run EXCEPT ![q] = "created"]
        /\ replacer' = [replacer EXCEPT ![q] = "launch_run"] /\ ~OthersWork(q)
    BY <1>16 DEF ReplacerCreateRun, CreateRun, GoTo
  <2>2. \A p \in Requests : run[p] \notin {"created"} \cup RunLive
    BY <2>1 DEF OthersWork
  <2>3. \A p \in Requests \ {q} : replacer[p] \notin ReplacerLive
    BY <2>1 DEF OthersWork
  <2>4. q \notin outdated
    BY <1>16 DEF ReplacerCreateRun, GoTo
  <2> QED
    BY <2>1, <2>2, <2>3, <2>4
<1>17. ASSUME NEW q \in Requests, ReplacerLaunchRun(q) PROVE LatestFacts'
    BY <1>17 DEF ReplacerLaunchRun, LaunchRun, GoTo
<1>18. ASSUME NEW q \in Requests, Begin(q) PROVE LatestFacts'
    BY <1>18 DEF Begin
<1>19. ASSUME NEW q \in Requests, Prepare(q) PROVE LatestFacts'
    BY <1>19 DEF Prepare
<1>20. ASSUME NEW q \in Requests, ControlApiUnavailable(q) PROVE LatestFacts'
    BY <1>20 DEF ControlApiUnavailable, HandOver
<1>21. ASSUME NEW q \in Requests, RunRaises(q) PROVE LatestFacts'
    BY <1>21 DEF RunRaises
<1>22. ASSUME NEW q \in Requests, PlaybackBegins(q) PROVE LatestFacts'
    BY <1>22 DEF PlaybackBegins, Moves
<1>23. ASSUME NEW q \in Requests, PlaybackStops(q) PROVE LatestFacts'
    BY <1>23 DEF PlaybackStops, Moves
<1>24. ASSUME NEW q \in Requests, PlaybackFails(q) PROVE LatestFacts'
    BY <1>24 DEF PlaybackFails, Moves
<1>25. ASSUME NEW q \in Requests, PlaybackEnds(q) PROVE LatestFacts'
    BY <1>25 DEF PlaybackEnds, Moves
<1>26. ASSUME NEW q \in Requests, Reset(q) PROVE LatestFacts'
    BY <1>26 DEF Reset
<1>27. ASSUME NEW q \in Requests, Return(q) PROVE LatestFacts'
    BY <1>27 DEF Return, HandOver
<1>28. ASSUME NEW q \in Requests, Unwind(q) PROVE LatestFacts'
    BY <1>28 DEF Unwind
<1>29. CASE UNCHANGED vars
    BY <1>29 DEF vars
<1> QED
    BY NextCases, <1>1, <1>2, <1>3, <1>4, <1>5, <1>6, <1>7, <1>8, <1>9, <1>10, <1>11,
        <1>12, <1>13, <1>14, <1>15, <1>16, <1>17, <1>18, <1>19, <1>20, <1>21, <1>22,
        <1>23, <1>24, <1>25, <1>26, <1>27, <1>28, <1>29

\* Kept outputs are waited for.
LEMMA OutputStep ==
    ASSUME TypeOK, ThreadFacts, WaitFacts, EventHasAnOwner, Undisturbed, Undisturbed',
           LatestFacts, OutputFacts, [Next]_vars
    PROVE  OutputFacts'
<1> USE RequestsAssumption, ItemsAssumption DEF TypeOK, playback, service, Elsewhere,
        CallPc, ReplacerLive, ReplacerEnd, RunLive, RunEnd, Phases, ThreadFacts,
        BeforeRun, HasResult, WaitFacts, EventHasAnOwner, Undisturbed, LatestFacts,
        OutputFacts, WillReturn
<1>1. ASSUME NEW q \in Requests, Ask(q) PROVE OutputFacts'
    BY <1>1 DEF Ask
<1>2. ASSUME NEW q \in Requests, LoadingSettles(q) PROVE OutputFacts'
    BY <1>2 DEF LoadingSettles
<1>3. ASSUME NEW q \in Requests, WaitTimesOut(q) PROVE OutputFacts'
    BY <1>3 DEF WaitTimesOut
<1>4. ASSUME NEW q \in Requests, Decide(q) PROVE OutputFacts'
    BY <1>4 DEF Decide
<1>5. ASSUME NEW q \in Requests, Start(q) PROVE OutputFacts'
    BY <1>5 DEF Start, CreateRun, OthersWork
<1>6. ASSUME NEW q \in Requests, StartLaunch(q) PROVE OutputFacts'
    BY <1>6 DEF StartLaunch, LaunchRun
<1>7. ASSUME NEW q \in Requests, Replace(q) PROVE OutputFacts'
    BY <1>7 DEF Replace
<1>8. ASSUME NEW q \in Requests, RejectReplace(q) PROVE OutputFacts'
    BY <1>8 DEF RejectReplace
<1>9. ASSUME NEW q \in Requests, ReplaceLaunch(q) PROVE OutputFacts'
    BY <1>9 DEF ReplaceLaunch
<1>10. ASSUME NEW q \in Requests, ReadActive(q) PROVE OutputFacts'
    BY <1>10 DEF ReadActive, RunAlive, GoTo
<1>11. ASSUME NEW q \in Requests, RequestStop(q) PROVE OutputFacts'
    BY <1>11 DEF RequestStop, GoTo
<1>12. ASSUME NEW q \in Requests, StopActive(q) PROVE OutputFacts'
    BY <1>12 DEF StopActive, GoTo
<1>13. ASSUME NEW q \in Requests, StopRaises(q) PROVE OutputFacts'
    BY <1>13 DEF StopRaises, GoTo
<1>14. ASSUME NEW q \in Requests, Join(q) PROVE OutputFacts'
    BY <1>14 DEF Join, RunAlive, GoTo
<1>15. ASSUME NEW q \in Requests, Judge(q) PROVE OutputFacts'
    BY <1>15 DEF Judge, GoTo
<1>16. ASSUME NEW q \in Requests, ReplacerCreateRun(q) PROVE OutputFacts'
    BY <1>16 DEF ReplacerCreateRun, CreateRun, OthersWork, GoTo
<1>17. ASSUME NEW q \in Requests, ReplacerLaunchRun(q) PROVE OutputFacts'
    BY <1>17 DEF ReplacerLaunchRun, LaunchRun, GoTo
<1>18. ASSUME NEW q \in Requests, Begin(q) PROVE OutputFacts'
    BY <1>18 DEF Begin
<1>19. ASSUME NEW q \in Requests, Prepare(q) PROVE OutputFacts'
    BY <1>19 DEF Prepare
<1>20. ASSUME NEW q \in Requests, ControlApiUnavailable(q) PROVE OutputFacts'
    BY <1>20 DEF ControlApiUnavailable, HandOver
<1>21. ASSUME NEW q \in Requests, RunRaises(q) PROVE OutputFacts'
    BY <1>21 DEF RunRaises
<1>22. ASSUME NEW q \in Requests, PlaybackBegins(q) PROVE OutputFacts'
    BY <1>22 DEF PlaybackBegins, Moves
<1>23. ASSUME NEW q \in Requests, PlaybackStops(q) PROVE OutputFacts'
    BY <1>23 DEF PlaybackStops, Moves
<1>24. ASSUME NEW q \in Requests, PlaybackFails(q) PROVE OutputFacts'
    BY <1>24 DEF PlaybackFails, Moves
<1>25. ASSUME NEW q \in Requests, PlaybackEnds(q) PROVE OutputFacts'
    BY <1>25 DEF PlaybackEnds, Moves
<1>26. ASSUME NEW q \in Requests, Reset(q) PROVE OutputFacts'
    BY <1>26 DEF Reset
<1>27. ASSUME NEW q \in Requests, Return(q) PROVE OutputFacts'
  <2>1. \A r \in Requests : replacer[r] # "judge"
    BY <1>27 DEF Return, Requests
  <2>2. /\ UNCHANGED <<replacer, old, phase, kept, outputs>>
        /\ run[q] = "return" /\ run' = [run EXCEPT ![q] = "unwind_returned"]
        /\ lastResult' = phase[q] /\ latest' = latest
    BY <1>27 DEF Return, HandOver
  <2>3. q = latest
    BY <2>2
  <2>4. \A p \in Requests : HasResult(p)' /\ p = latest' => lastResult' = phase'[p]
    BY <2>2, <2>3
  <2>5. \A p \in Requests : WillReturn(p) => WillReturn(p)'
    BY <2>1, <2>2
  <2>6. \A p \in Requests : run'[p] = "orchestrate" <=> run[p] = "orchestrate"
    BY <2>2
  <2> QED
    BY <2>2, <2>4, <2>5, <2>6
<1>28. ASSUME NEW q \in Requests, Unwind(q) PROVE OutputFacts'
    BY <1>28 DEF Unwind
<1>29. CASE UNCHANGED vars
    BY <1>29 DEF vars
<1> QED
    BY NextCases, <1>1, <1>2, <1>3, <1>4, <1>5, <1>6, <1>7, <1>8, <1>9, <1>10, <1>11,
        <1>12, <1>13, <1>14, <1>15, <1>16, <1>17, <1>18, <1>19, <1>20, <1>21, <1>22,
        <1>23, <1>24, <1>25, <1>26, <1>27, <1>28, <1>29

-------------------------------------------------------------------------------
\* The inductive invariant holds of every run.
THEOREM Invariance == Spec => []IInv
<1>1. Init => IInv
  <2> SUFFICES ASSUME Init PROVE IInv
    OBVIOUS
  <2> USE DEF Init
  <2>1. TypeOK
    BY DEF TypeOK, CallPc, Phases, Places
  <2>2. ThreadFacts /\ SessionFacts
    BY DEF ThreadFacts, SessionFacts, BeforeRun
  <2>3. ResultFacts /\ FailureIsSeldomOverlooked
    BY DEF ResultFacts, HasResult, FailureIsSeldomOverlooked
  <2>4. WaitFacts
    BY DEF WaitFacts
  <2>5. EventHasAnOwner /\ ActiveIsTheLatest
    BY DEF EventHasAnOwner, ActiveIsTheLatest
  <2>6. LatestFacts /\ OutputFacts
    BY DEF LatestFacts, OutputFacts, HasResult, RunLive
  <2> QED
    BY <2>1, <2>2, <2>3, <2>4, <2>5, <2>6 DEF IInv
<1>2. IInv /\ [Next]_vars => IInv'
  <2> SUFFICES ASSUME IInv, [Next]_vars PROVE IInv'
    OBVIOUS
  <2> USE DEF IInv
  <2>1. TypeOK' /\ ThreadFacts' /\ SessionFacts'
    BY TypingStep, ThreadStep, SessionStep
  <2>2. EventHasAnOwner' /\ ActiveIsTheLatest'
    BY EventStep, ActiveStep
  <2>3. Stays /\ Succeeds /\ Judged
    BY ResultsStay
  <2>4. ResultFacts' /\ outdated \subseteq outdated'
    BY <2>3, ResultStep
  <2>5. WaitFacts'
    BY <2>3, WaitStep
  <2>6. FailureIsSeldomOverlooked'
    BY <2>3, <2>4, FailureStep
  <2>7. ~overlapped' => LatestFacts'
    BY <2>3, LatestStep DEF Stays
  <2>8. Undisturbed' => OutputFacts'
    BY UndisturbedBefore, OutputStep DEF Undisturbed
  <2> QED
    BY <2>1, <2>2, <2>4, <2>5, <2>6, <2>7, <2>8
<1> QED
    BY <1>1, <1>2, PTL DEF Spec

\* The state of the service, and of every thread, keeps its type.
THEOREM TypeCorrect == Spec => []TypeOK
<1>1. IInv => TypeOK
    BY DEF IInv
<1> QED
    BY <1>1, Invariance, PTL

\* For any number of requests: the event is set only while a replacement is about to
\* stop a playback or waits for it.
THEOREM EventOwned == Spec => []EventHasAnOwner
<1>1. IInv => EventHasAnOwner
    BY DEF IInv
<1> QED
    BY <1>1, Invariance, PTL

\* For any number of requests: the active thread is the one created last, to its end.
THEOREM ActiveLatest == Spec => []ActiveIsTheLatest
<1>1. IInv => ActiveIsTheLatest
    BY DEF IInv
<1> QED
    BY <1>1, Invariance, PTL

\* For any number of requests: when all is quiet, and nothing raised, the session is free.
THEOREM QuietFree == Spec => []QuietIsFree
<1>1. IInv => QuietIsFree
    BY DEF IInv, SessionFacts, QuietIsFree, Quiet, NothingRaised, RunLive
<1> QED
    BY <1>1, Invariance, PTL

\* For any number of requests: a failure that was handed over is overlooked only if
\* playbacks overlapped and another result came between it and the look at it.
THEOREM FailureSeen == Spec => []FailureIsSeldomOverlooked
<1>1. IInv => FailureIsSeldomOverlooked
    BY DEF IInv
<1> QED
    BY <1>1, Invariance, PTL

\* For any number of requests: without overlaps and exceptions the outputs come home,
\* but for those that a recovery could not return.
THEOREM ComeHome == Spec => []OutputsComeHome
<1>1. IInv => OutputsComeHome
  <2> SUFFICES ASSUME IInv, Quiet, ~overlapped, NothingRaised,
                      \A q \in Requests : replacer[q] # "stop_raised",
                      \A q \in Requests : run[q] = "returned" => phase[q] \in {"clean", "failed"}
               PROVE  outputs # "player"
    BY DEF OutputsComeHome
  <2>1. Undisturbed
    BY DEF Undisturbed, Quiet, NothingRaised, HasResult, RunLive
  <2>2. \A q \in Requests : ~WillReturn(q)
    BY DEF WillReturn, Quiet, RunLive, ReplacerLive
  <2> QED
    BY <2>1, <2>2 DEF IInv, TypeOK, OutputFacts
<1> QED
    BY <1>1, Invariance, PTL

===============================================================================
