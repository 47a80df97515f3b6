------------------------ MODULE PlaybackCommands_proofs ------------------------
(***************************************************************************)
(* Proofs about PlaybackCommands, for any library, any requests and        *)
(* commands, and any number of playbacks, commands and attempts.           *)
(*                                                                         *)
(* The three properties speak of two threads that share a request without   *)
(* a lock.  The invariant says what each thread knows of it: the request   *)
(* that the session holds names what is played, whatever is noted in it    *)
(* (ItemFacts); its tracks are those asked for until the thread has read   *)
(* it (AskedFacts); a command of this playback counts in the item that is  *)
(* played (CommandFacts); and the player shows what is noted, or what a    *)
(* command is about to note (SetterFacts).                                 *)
(***************************************************************************)
EXTENDS PlaybackCommands, FiniteSetTheorems, SequenceTheorems, TLAPS

\* What a step may be, each action by its name.
LEMMA NextCases ==
    ASSUME [Next]_vars
    PROVE  \/ \E r \in Requests : Ask(r)
           \/ Begin \/ Parse \/ ParseRaises \/ StartFails \/ StartSucceeds \/ Seek
           \/ \E w \in Workers :
                 \/ Resolve(w) \/ ResolveRaises(w) \/ SelectAudio(w) \/ LookAgain(w)
                 \/ LookEnds(w) \/ SelectionRaises(w) \/ SetSubtitle(w)
           \/ LeaveOff \/ Note \/ Playstate \/ \E c \in Commands : GeneralCommand(c)
           \/ ViewerSelects \/ ViewerSeeks \/ PlaybackEnds
           \/ UNCHANGED vars
  BY DEF Next, Startup, Select, Handler, Viewer

\* The item of a request, if its reader does not raise, is an id.
LEMMA ParsedItemIsId ==
    ASSUME NEW request \in Request, ParsedItem(request) # Raised
    PROVE  ParsedItem(request) \in Seq(Nat)
<1> DEFINE id    == request.ids[1]
           first == IF request.list THEN id ELSE SubSeq(id, 1, 1)
<1>1. id \in Seq(Nat) /\ Len(id) \in Nat \ {0}
  <2>1. request.ids \in Seq(Seq(Nat) \ {<<>>}) /\ request.ids # <<>>
    BY DEF Request
  <2>2. id \in Seq(Nat) \ {<<>>}
    BY <2>1
  <2> QED
    BY <2>2
<1>2. first \in Seq(Nat)
  <2>1. SubSeq(id, 1, 1) \in Seq(Nat)
    BY <1>1, SubSeqProperties
  <2> QED
    BY <1>1, <2>1
<1>3. ASSUME request.start \in 1..Len(first) - 1
      PROVE  SubSeq(first, request.start + 1, Len(first)) \in Seq(Nat)
  <2> HIDE DEF first
  <2>1. Len(first) \in Nat
    BY <1>2
  <2> QED
    BY <1>2, <1>3, <2>1, SubSeqProperties
<1> QED
    BY <1>2, <1>3 DEF ParsedItem

\* The number of a track counts streams.
LEMMA NumberIsNat ==
    ASSUME NEW item, NEW kind \in Kinds, NEW index \in Int
    PROVE  Number(item, kind, index) \in Nat
<1> DEFINE streams == Streams[item]
           before  == {i \in 1..index + 1 : streams[i] = kind}
<1>1. IsFiniteSet(before) /\ Cardinality(before) \in Nat
  <2>1. IsFiniteSet(1..index + 1)
    BY FS_Interval
  <2>2. before \subseteq 1..index + 1
    OBVIOUS
  <2> QED
    BY <2>1, <2>2, FS_Subset, FS_CardinalityType
<1> HIDE DEF before
<1>2. Default[kind] \in Nat
    BY DEF Default, Kinds
<1>3. Number(item, kind, index) \in {Cardinality(before), Default[kind]}
    BY DEF Number, before
<1> QED
    BY <1>1, <1>2, <1>3


-------------------------------------------------------------------------------
(***************************************************************************)
(* The records the state is made of, and how the steps change them.        *)
(***************************************************************************)
\* A key or a selection changes one track of the player.
LEMMA ShowingEffect ==
    ASSUME player \in Player, NEW k \in Kinds, NEW n \in Nat
    PROVE  /\ Showing(k, n) \in Player
           /\ Showing(k, n).item = player.item /\ Showing(k, n).position = player.position
           /\ Showing(k, n)[k] = n
           /\ \A j \in Kinds : j # k => Showing(k, n)[j] = player[j]
<1>1. CASE k = "Audio"
  BY <1>1 DEF Player, Kinds, Showing
<1>2. CASE k = "Subtitle"
  BY <1>2 DEF Player, Kinds, Showing
<1> QED
  BY <1>1, <1>2 DEF Kinds

\* A request or a command gives its thread a whole task.
LEMMA TaskIsTask ==
    ASSUME NEW item \in Item, NEW kind \in Kinds, NEW start \in Nat,
           NEW index \in [Kinds -> Int], NEW began \in Nat
    PROVE  [item |-> item, kind |-> kind, start |-> start, index |-> index,
            began |-> began] \in Task
  BY DEF Task

\* The index a task is about is a number.
LEMMA IndexIsInt ==
    ASSUME TypeOK, NEW w \in Workers
    PROVE  /\ task[w] \in Task /\ task[w].kind \in Kinds
           /\ Index(w) \in Int /\ Wanted(w) \in Nat
<1>1. task[w] \in Task
  BY DEF TypeOK
<1>2. task[w].kind \in Kinds /\ task[w].index \in [Kinds -> Int]
  BY <1>1 DEF Task
<1>3. Index(w) \in Int
  BY <1>2 DEF Index
<1>4. Number(task[w].item, task[w].kind, Index(w)) \in Nat
  BY <1>2, <1>3, NumberIsNat
<1> QED
  BY <1>1, <1>2, <1>3, <1>4 DEF Wanted

\* A note changes one track of a request, and not what it asks to play.
LEMMA NotedRequest ==
    ASSUME TypeOK, NEW r \in Request
    PROVE  LET kind == task["command"].kind
           IN  /\ Noted(r) \in Request
               /\ Noted(r).position = r.position
               /\ Noted(r)[kind] = Index("command")
               /\ \A j \in Kinds : j # kind => Noted(r)[j] = r[j]
               /\ ParsedItem(Noted(r)) = ParsedItem(r)
<1> DEFINE kind  == task["command"].kind
           noted == [r EXCEPT ![kind] = Index("command")]
<1>1. kind \in Kinds /\ Index("command") \in Int
  BY IndexIsInt DEF Workers
<1> HIDE DEF kind
<1>2. /\ noted \in Request /\ noted.position = r.position /\ noted[kind] = Index("command")
      /\ \A j \in Kinds : j # kind => noted[j] = r[j]
      /\ noted.ids = r.ids /\ noted.list = r.list /\ noted.numeric = r.numeric
      /\ noted.start = r.start
  <2>1. CASE kind = "Audio"
    BY <1>1, <2>1 DEF Request, Kinds
  <2>2. CASE kind = "Subtitle"
    BY <1>1, <2>2 DEF Request, Kinds
  <2> QED
    BY <1>1, <2>1, <2>2 DEF Kinds
<1> HIDE DEF noted
<1>3. ParsedItem(noted) = ParsedItem(r)
  BY <1>2 DEF ParsedItem
<1>4. Noted(r) = noted
  BY DEF Noted, noted, kind
<1> QED
  BY <1>2, <1>3, <1>4 DEF kind

\* A selection is over: its thread goes on, and the other stays where it is.
LEMMA DoneEffect ==
    ASSUME TypeOK, NEW w \in Workers, Done(w)
    PROVE  /\ pc' = [pc EXCEPT ![w] = After(w)]
           /\ pc' \in [Workers -> {"none", "parse", "start", "seek", "resolve", "select",
                                   "look", "set", "playing", "note"}]
           /\ task' \in [Workers -> Task]
           /\ number' \in [Workers -> Nat]
           /\ attempts' \in [Workers -> 0..MaxAttempts]
           /\ playstate' \in {"Free", "Loading", "Playing"}
           /\ \A v \in Workers :
                /\ v # w => task'[v] = task[v] /\ number'[v] = number[v]
                                /\ attempts'[v] = attempts[v]
                /\ task'[v].item = task[v].item /\ task'[v].start = task[v].start
                /\ task'[v].index = task[v].index /\ task'[v].began = task[v].began
           /\ w = "command" => task' = task /\ playstate' = playstate
           /\ w = "startup" => task'["command"] = task["command"]
<1>1. After(w) \in {"note", "resolve", "playing"}
  BY DEF After
<1>2. task[w] \in Task
  BY DEF TypeOK
<1>3. LET t == [task[w] EXCEPT !.kind = "Subtitle"]
      IN  /\ t \in Task /\ t.item = task[w].item /\ t.start = task[w].start
          /\ t.index = task[w].index /\ t.began = task[w].began
  BY <1>2 DEF Task, Kinds
<1>4. /\ task' \in [Workers -> Task]
      /\ \A v \in Workers :
            /\ v # w => task'[v] = task[v]
            /\ task'[v].item = task[v].item /\ task'[v].start = task[v].start
            /\ task'[v].index = task[v].index /\ task'[v].began = task[v].began
  BY <1>3 DEF Done, TypeOK
<1>5. 0 \in 0..MaxAttempts
  BY BoundsAssumption
<1>6. w = "command" => task' = task /\ playstate' = playstate
  BY DEF Done, After
<1> QED
  BY <1>1, <1>4, <1>5, <1>6 DEF Done, TypeOK, Workers

\* A thread is finished, and the other stays where it is.
LEMMA QuitsEffect ==
    ASSUME TypeOK, NEW w \in Workers, Quits(w)
    PROVE  /\ pc' = [pc EXCEPT ![w] = "none"]
           /\ pc' \in [Workers -> {"none", "parse", "start", "seek", "resolve", "select",
                                   "look", "set", "playing", "note"}]
           /\ task' \in [Workers -> Task]
           /\ number' = number /\ attempts' = attempts
           /\ task'[w].began = 0
           /\ \A v \in Workers : v # w => task'[v] = task[v]
<1>1. [k \in Kinds |-> 0] \in [Kinds -> Int]
  OBVIOUS
<1>2. NoTask \in Task /\ NoTask.began = 0
  BY <1>1, TaskIsTask DEF NoTask, Item, Kinds
<1> QED
  BY <1>2 DEF Quits, TypeOK

\* The player that is stopped.
LEMMA StoppedIsPlayer == Stopped \in Player
  BY DEF Stopped, Player, Item

\* What a selection does to the player, and whose it is then.
LEMMA SendEffect ==
    ASSUME TypeOK, NEW w \in Workers, NEW kind \in Kinds, Send(w, kind)
    PROVE  /\ player' \in Player /\ setter' \in [Kinds -> Nat]
           /\ player'.item = player.item /\ player'.position = player.position
           /\ \A j \in Kinds : j # kind => player'[j] = player[j] /\ setter'[j] = setter[j]
           /\ setter'[kind] # 0 => /\ player'[kind] = number[w]
                                   /\ w = "command" /\ setter'[kind] = task[w].began
<1>1. number[w] \in Nat /\ task[w].began \in Nat /\ player \in Player
  BY DEF TypeOK, Task
<1>2. setter' \in [Kinds -> Nat] /\ \A j \in Kinds : j # kind => setter'[j] = setter[j]
  <2>1. PICK n \in Nat : setter' = [setter EXCEPT ![kind] = n]
    BY <1>1 DEF Send
  <2>2. setter \in [Kinds -> Nat]
    BY DEF TypeOK
  <2> QED
    BY <2>1, <2>2
<1>3. CASE /\ player' = Showing(kind, number[w])
           /\ setter' = [setter EXCEPT ![kind] = IF w = "command" THEN task[w].began ELSE 0]
  <2>1. /\ player' \in Player /\ player'.item = player.item
        /\ player'.position = player.position /\ player'[kind] = number[w]
        /\ \A j \in Kinds : j # kind => player'[j] = player[j]
    BY <1>1, <1>3, ShowingEffect
  <2>2. setter'[kind] # 0 => w = "command" /\ setter'[kind] = task[w].began
    BY <1>3 DEF TypeOK
  <2> QED
    BY <1>2, <2>1, <2>2
<1>4. CASE player' = player /\ setter' = [setter EXCEPT ![kind] = 0]
  <2>1. setter'[kind] = 0
    BY <1>4 DEF TypeOK
  <2> QED
    BY <1>1, <1>2, <1>4, <2>1
<1> QED
  BY <1>3, <1>4 DEF Send

\* What the viewer selects is nobody else's selection.
LEMMA ViewerSelectsEffect ==
    ASSUME TypeOK, ViewerSelects
    PROVE  /\ player' \in Player /\ setter' \in [Kinds -> Nat]
           /\ player'.item = player.item /\ player'.position = player.position
           /\ \A k \in Kinds : setter'[k] # 0 => setter'[k] = setter[k] /\ player'[k] = player[k]
<1>1. PICK k \in Kinds, n \in {0, 2} :
            player' = Showing(k, n) /\ setter' = [setter EXCEPT ![k] = 0]
  BY DEF ViewerSelects
<1>2. player \in Player /\ setter \in [Kinds -> Nat]
  BY DEF TypeOK
<1>3. n \in Nat
  OBVIOUS
<1>4. /\ player' \in Player /\ player'.item = player.item
      /\ player'.position = player.position
      /\ \A j \in Kinds : j # k => player'[j] = player[j]
  BY <1>1, <1>2, <1>3, ShowingEffect
<1>5. /\ setter' \in [Kinds -> Nat] /\ setter'[k] = 0
      /\ \A j \in Kinds : j # k => setter'[j] = setter[j]
  BY <1>1, <1>2
<1> QED
  BY <1>4, <1>5

\* What a note does to the requests.
LEMMA NoteEffect ==
    ASSUME TypeOK, ThreadFacts, Note
    PROVE  LET kind == task["command"].kind
           IN  /\ current \in Request /\ current' \in Request
               /\ current'.position = current.position
               /\ ParsedItem(current') = ParsedItem(current)
               /\ current'[kind] = Index("command")
               /\ \A j \in Kinds : j # kind => current'[j] = current[j]
               /\ IF pc["startup"] = "parse" /\ task["command"].began = playbacks
                  THEN /\ asked' \in Request
                       /\ asked'.position = asked.position
                       /\ asked'[kind] = Index("command")
                       /\ \A j \in Kinds : j # kind => asked'[j] = asked[j]
                  ELSE asked' = asked
<1>3. current \in Request /\ (pc["startup"] = "parse" => asked \in Request)
  BY DEF Note, ThreadFacts, Begun
<1>4. current' = Noted(current)
  BY DEF Note
<1>5. asked' = IF pc["startup"] = "parse" /\ task["command"].began = playbacks
               THEN Noted(asked) ELSE asked
  BY DEF Note
<1> QED
  BY <1>3, <1>4, <1>5, NotedRequest

(***************************************************************************)
(* Types.                                                                  *)
(***************************************************************************)
\* A step keeps the types, given where the threads are.
LEMMA TypingStep ==
    ASSUME TypeOK, ThreadFacts, [Next]_vars
    PROVE  TypeOK'
<1>1. ASSUME NEW r \in Requests, Ask(r) PROVE TypeOK'
  BY <1>1 DEF Ask, TypeOK, session, thread, history
<1>2. ASSUME Begin PROVE TypeOK'
  <2>1. waiting \in Request
    BY <1>2, EmbyAssumption DEF Begin, TypeOK
  <2>2. current' \in Request /\ asked' \in Request
    BY <1>2, <2>1 DEF Begin, Current
  <2>3. playbacks' \in Nat
    <3>1. playbacks \in Nat
      BY DEF TypeOK
    <3> QED
      BY <1>2, <3>1 DEF Begin
  <2> QED
    BY <1>2, <2>2, <2>3 DEF Begin, TypeOK, Workers
<1>3. ASSUME Parse PROVE TypeOK'
  <2>1. current \in Request
    BY <1>3 DEF Parse, ThreadFacts, Begun
  <2>2. current.position \in Nat /\ \A k \in Kinds : current[k] \in Int
    BY <2>1 DEF Request, Kinds
  <2>3. ParsedItem(current) \in Item
    BY <1>3, EmbyAssumption DEF Parse, Item
  <2>4. task' \in [Workers -> Task]
    <3>1. [item |-> ParsedItem(current), kind |-> "Audio", start |-> current.position,
           index |-> [k \in Kinds |-> current[k]], began |-> 0] \in Task
      BY <2>2, <2>3, TaskIsTask DEF Kinds
    <3> QED
      BY <1>3, <3>1 DEF Parse, TypeOK
  <2> QED
    BY <1>3, <2>4 DEF Parse, TypeOK, session, history
<1>4. ASSUME ParseRaises PROVE TypeOK'
  BY <1>4, QuitsEffect DEF ParseRaises, TypeOK, session, history, Workers
<1>5. ASSUME StartFails PROVE TypeOK'
  <2>1. Stopped \in Player
    BY StoppedIsPlayer
  <2> QED
    BY <1>5, <2>1, QuitsEffect DEF StartFails, TypeOK, history, Workers
<1>6. ASSUME StartSucceeds PROVE TypeOK'
  <2>1. task["startup"].item \in Item
    BY DEF TypeOK, Task, Workers
  <2>2. player' \in Player
    BY <1>6, <2>1, StoppedIsPlayer DEF StartSucceeds, Stopped, Player
  <2>3. setter' \in [Kinds -> Nat]
    BY <1>6 DEF StartSucceeds
  <2> QED
    BY <1>6, <2>2, <2>3 DEF StartSucceeds, TypeOK, session, Workers
<1>7. ASSUME Seek PROVE TypeOK'
  <2>1. task["startup"].start \in Nat /\ player \in Player
    BY DEF TypeOK, Task, Workers
  <2>2. player' \in Player /\ sought' = None
    BY <1>7, <2>1 DEF Seek, Player, TypeOK
  <2> QED
    BY <1>7, <2>2 DEF Seek, TypeOK, session, Workers
<1>8. ASSUME NEW w \in Workers, Resolve(w) PROVE TypeOK'
  <2>1. Wanted(w) \in Nat
    BY IndexIsInt
  <2> QED
    BY <1>8, <2>1 DEF Resolve, TypeOK, session, history
<1>9. ASSUME LeaveOff PROVE TypeOK'
  BY <1>9, DoneEffect DEF LeaveOff, TypeOK, history, Workers
<1>10. ASSUME NEW w \in Workers, ResolveRaises(w) PROVE TypeOK'
  <2>1. CASE Done(w) /\ UNCHANGED embyState
    BY <1>10, <2>1, DoneEffect DEF ResolveRaises, TypeOK, history
  <2>2. CASE Quits(w) /\ embyState' = "Ws::Error" /\ UNCHANGED playstate
    BY <1>10, <2>2, QuitsEffect DEF ResolveRaises, TypeOK, history
  <2> QED
    BY <1>10, <2>1, <2>2 DEF ResolveRaises
<1>11. ASSUME NEW w \in Workers, SelectAudio(w) PROVE TypeOK'
  <2>1. player' \in Player /\ setter' \in [Kinds -> Nat]
    BY <1>11, SendEffect DEF SelectAudio, Kinds
  <2> QED
    BY <1>11, <2>1, DoneEffect DEF SelectAudio, Send, TypeOK
<1>12. ASSUME NEW w \in Workers, LookAgain(w) PROVE TypeOK'
  BY <1>12 DEF LookAgain, TypeOK, session, history
<1>13. ASSUME NEW w \in Workers, LookEnds(w) PROVE TypeOK'
  BY <1>13, DoneEffect DEF LookEnds, TypeOK, history
<1>14. ASSUME NEW w \in Workers, SelectionRaises(w) PROVE TypeOK'
  <2>1. setter' \in [Kinds -> Nat]
    BY <1>14 DEF SelectionRaises, TypeOK, Kinds
  <2> QED
    BY <1>14, <2>1, DoneEffect DEF SelectionRaises, TypeOK
<1>15. ASSUME NEW w \in Workers, SetSubtitle(w) PROVE TypeOK'
  <2>1. player' \in Player /\ setter' \in [Kinds -> Nat]
    BY <1>15, SendEffect DEF SetSubtitle, Kinds
  <2>2. attempts[w] \in 0..MaxAttempts /\ attempts[w] < MaxAttempts
    BY <1>15 DEF SetSubtitle, ThreadFacts, TypeOK
  <2>3. attempts' \in [Workers -> 0..MaxAttempts]
    <3>1. Counted(attempts[w]) \in 0..MaxAttempts
      BY <2>2, BoundsAssumption DEF Counted
    <3> QED
      BY <1>15, <3>1 DEF SetSubtitle, TypeOK
  <2> QED
    BY <1>15, <2>1, <2>3 DEF SetSubtitle, Send, TypeOK
<1>16. ASSUME NEW c \in Commands, GeneralCommand(c) PROVE TypeOK'
  <2> commands' \in Nat
    <3>1. commands \in Nat
      BY DEF TypeOK
    <3>2. Arrives
      BY <1>16 DEF GeneralCommand
    <3> QED
      BY <3>1, <3>2 DEF Arrives
  <2>1. CASE CurrentItem = Raised
    BY <1>16, <2>1 DEF GeneralCommand, Arrives, TypeOK, session
  <2>2. CASE CurrentItem # Raised
    <3>1. current \in Request /\ CurrentItem = ParsedItem(current)
      BY <2>2 DEF TypeOK, CurrentItem
    <3>2. CurrentItem \in Item
      BY <2>2, <3>1, ParsedItemIsId DEF Item
    <3>3. c.kind \in Kinds /\ c.index \in Int /\ playbacks \in Nat
      BY EmbyAssumption DEF TypeOK
    <3>4. [item |-> CurrentItem, kind |-> c.kind, start |-> 0,
           index |-> [k \in Kinds |-> c.index], began |-> playbacks] \in Task
      BY <3>2, <3>3, TaskIsTask
    <3>5. task' \in [Workers -> Task]
      BY <1>16, <2>2, <3>4 DEF GeneralCommand, TypeOK
    <3> QED
      BY <1>16, <2>2, <3>5 DEF GeneralCommand, Arrives, TypeOK, session
  <2> QED
    BY <2>1, <2>2
<1>17. ASSUME Note PROVE TypeOK'
  <2>1. current' \in Request /\ asked' \in {None} \cup Request
    BY <1>17, NoteEffect DEF TypeOK
  <2>2. setter' \in [Kinds -> Nat] /\ stray' \in BOOLEAN
    BY <1>17 DEF Note, TypeOK
  <2> QED
    BY <1>17, <2>1, <2>2, QuitsEffect DEF Note, TypeOK, Workers
<1>18. ASSUME Playstate PROVE TypeOK'
  <2>1. commands' \in Nat
    <3>1. commands \in Nat
      BY DEF TypeOK
    <3> QED
      BY <1>18, <3>1 DEF Playstate, Arrives
  <2>2. sought' \in {None} \cup Nat
    <3>1. sought \in {None} \cup Nat
      BY DEF TypeOK
    <3>2. PICK place \in Places : sought' = IF player.item # None THEN place ELSE sought
      BY <1>18 DEF Playstate
    <3>3. place \in Nat
      BY <3>2 DEF Places
    <3> QED
      BY <3>1, <3>2, <3>3
  <2> QED
    BY <1>18, <2>1, <2>2 DEF Playstate, Arrives, TypeOK, session
<1>19. ASSUME ViewerSelects PROVE TypeOK'
  <2>1. player' \in Player /\ setter' \in [Kinds -> Nat]
    BY <1>19, ViewerSelectsEffect
  <2>2. choices' \in Nat
    <3>1. choices \in Nat
      BY DEF TypeOK
    <3> QED
      BY <1>19, <3>1 DEF ViewerSelects
  <2> QED
    BY <1>19, <2>1, <2>2 DEF ViewerSelects, TypeOK, session, thread
<1>20. ASSUME ViewerSeeks PROVE TypeOK'
  <2>1. player' \in Player
    BY <1>20 DEF ViewerSeeks, TypeOK, Player
  <2>2. choices' \in Nat
    <3>1. choices \in Nat
      BY DEF TypeOK
    <3> QED
      BY <1>20, <3>1 DEF ViewerSeeks
  <2> QED
    BY <1>20, <2>1, <2>2 DEF ViewerSeeks, TypeOK, session, thread
<1>21. ASSUME PlaybackEnds PROVE TypeOK'
  <2>1. Stopped \in Player
    BY StoppedIsPlayer
  <2> QED
    BY <1>21, <2>1, QuitsEffect DEF PlaybackEnds, TypeOK, history, Workers
<1>22. CASE UNCHANGED vars
  BY <1>22 DEF vars, session, thread, history, TypeOK
<1> QED
  BY NextCases, <1>1, <1>2, <1>3, <1>4, <1>5, <1>6, <1>7, <1>8, <1>9, <1>10, <1>11, <1>12,
     <1>13, <1>14, <1>15, <1>16, <1>17, <1>18, <1>19, <1>20, <1>21, <1>22

\* A selection that is over leaves its thread where it may be.
LEMMA DoneThread ==
    ASSUME TypeOK, ThreadFacts, NEW w \in Workers, Done(w),
           pc[w] \in {"resolve", "select", "look", "set"},
           UNCHANGED <<current, asked>>
    PROVE  ThreadFacts'
<1>1. CASE w = "command"
  <2>1. pc' = [pc EXCEPT !["command"] = "note"] /\ UNCHANGED <<task, playstate>>
        /\ attempts'["startup"] = attempts["startup"]
    BY <1>1, DoneEffect DEF After, Workers
  <2> QED
    BY <1>1, <2>1 DEF ThreadFacts, Begun, TypeOK, Workers
<1>2. CASE w = "startup"
  <2>1. /\ pc' = [pc EXCEPT !["startup"] = After(w)] /\ After(w) \in {"resolve", "playing"}
        /\ playstate' = IF After(w) = "playing" THEN "Playing" ELSE playstate
        /\ task'["command"] = task["command"] /\ attempts'["command"] = attempts["command"]
    BY <1>2, DoneEffect DEF Done, After, Workers
  <2> QED
    BY <1>2, <2>1 DEF ThreadFacts, Begun, TypeOK, Workers
<1> QED
  BY <1>1, <1>2 DEF Workers

(***************************************************************************)
(* Where the threads are.                                                  *)
(***************************************************************************)
\* A step keeps what each thread does apart from the other.
LEMMA ThreadStep ==
    ASSUME TypeOK, ThreadFacts, [Next]_vars
    PROVE  ThreadFacts'
<1>1. ASSUME NEW r \in Requests, Ask(r) PROVE ThreadFacts'
  BY <1>1 DEF Ask, session, thread, history, ThreadFacts, Begun, TypeOK, Workers
<1>2. ASSUME Begin PROVE ThreadFacts'
  <2>1. waiting \in Request
    BY <1>2, EmbyAssumption DEF Begin, TypeOK
  <2> QED
    BY <1>2, <2>1 DEF Begin, Current, ThreadFacts, Begun, TypeOK, Workers
<1>3. ASSUME Parse PROVE ThreadFacts'
  BY <1>3 DEF Parse, session, history, ThreadFacts, Begun, TypeOK, Workers
<1>4. ASSUME ParseRaises PROVE ThreadFacts'
  BY <1>4, QuitsEffect DEF ParseRaises, session, history, ThreadFacts, Begun, TypeOK,
     Workers
<1>5. ASSUME StartFails PROVE ThreadFacts'
  BY <1>5, QuitsEffect DEF StartFails, history, ThreadFacts, Begun, TypeOK, Workers
<1>6. ASSUME StartSucceeds PROVE ThreadFacts'
  BY <1>6 DEF StartSucceeds, session, ThreadFacts, Begun, TypeOK, Workers
<1>7. ASSUME Seek PROVE ThreadFacts'
  BY <1>7 DEF Seek, session, ThreadFacts, Begun, TypeOK, Workers
<1>8. ASSUME NEW w \in Workers, Resolve(w) PROVE ThreadFacts'
  <2>1. task[w].kind \in Kinds
    BY IndexIsInt
  <2>2. /\ pc' = [pc EXCEPT ![w] = IF task[w].kind = "Audio" THEN "select" ELSE "look"]
        /\ UNCHANGED <<playstate, current, task, attempts, asked>> /\ pc[w] = "resolve"
    BY <1>8 DEF Resolve, session, history
  <2> QED
    BY <2>1, <2>2 DEF ThreadFacts, Begun, TypeOK, Workers, Kinds
<1>9. ASSUME LeaveOff PROVE ThreadFacts'
  BY <1>9, DoneThread DEF LeaveOff, history, Workers
<1>10. ASSUME NEW w \in Workers, ResolveRaises(w) PROVE ThreadFacts'
  <2>1. CASE w = "startup" /\ Done(w) /\ UNCHANGED embyState
    BY <1>10, <2>1, DoneThread DEF ResolveRaises, history
  <2>2. CASE w = "command" /\ Quits(w) /\ embyState' = "Ws::Error" /\ UNCHANGED playstate
    BY <1>10, <2>2, QuitsEffect DEF ResolveRaises, ThreadFacts, Begun, TypeOK, history,
       Workers
  <2> QED
    BY <1>10, <2>1, <2>2 DEF ResolveRaises
<1>11. ASSUME NEW w \in Workers, SelectAudio(w) PROVE ThreadFacts'
  BY <1>11, DoneThread DEF SelectAudio, Send, Workers
<1>12. ASSUME NEW w \in Workers, LookAgain(w) PROVE ThreadFacts'
  <2>1. attempts[w] < MaxAttempts
    <3>1. attempts[w] \in 0..MaxAttempts
      BY DEF TypeOK
    <3> QED
      BY <1>12, <3>1, BoundsAssumption DEF LookAgain, Settled
  <2>2. /\ pc' = [pc EXCEPT ![w] = "set"]
        /\ UNCHANGED <<playstate, current, task, attempts, asked>> /\ pc[w] = "look"
    BY <1>12 DEF LookAgain, session, history
  <2> QED
    BY <2>1, <2>2 DEF ThreadFacts, Begun, TypeOK, Workers
<1>13. ASSUME NEW w \in Workers, LookEnds(w) PROVE ThreadFacts'
  BY <1>13, DoneThread DEF LookEnds, history, Workers
<1>14. ASSUME NEW w \in Workers, SelectionRaises(w) PROVE ThreadFacts'
  BY <1>14, DoneThread DEF SelectionRaises, Workers
<1>15. ASSUME NEW w \in Workers, SetSubtitle(w) PROVE ThreadFacts'
  BY <1>15 DEF SetSubtitle, Send, Counted, ThreadFacts, Begun, TypeOK, Workers
<1>16. ASSUME NEW c \in Commands, GeneralCommand(c) PROVE ThreadFacts'
  <2>1. CASE UNCHANGED <<pc, task>>
    BY <1>16, <2>1 DEF GeneralCommand, Arrives, session, ThreadFacts, Begun, TypeOK,
       Workers
  <2>2. CASE CurrentItem # Raised
    <3>1. current \in Request
      BY <2>2 DEF TypeOK, CurrentItem
    <3>2. /\ pc' = [pc EXCEPT !["command"] = "resolve"]
          /\ UNCHANGED <<playstate, current, attempts, asked>>
          /\ task'["startup"] = task["startup"]
      BY <1>16, <2>2 DEF GeneralCommand, Arrives, session, TypeOK, Workers
    <3> QED
      BY <3>1, <3>2 DEF ThreadFacts, Begun, TypeOK, Workers
  <2> QED
    BY <1>16, <2>1, <2>2 DEF GeneralCommand
<1>17. ASSUME Note PROVE ThreadFacts'
  <2>1. current' \in Request /\ (asked' = asked \/ asked' \in Request)
    BY <1>17, NoteEffect
  <2>2. /\ pc' = [pc EXCEPT !["command"] = "none"] /\ attempts' = attempts
        /\ task'["startup"] = task["startup"] /\ UNCHANGED playstate
    BY <1>17, QuitsEffect DEF Note, Workers
  <2>3. pc'["startup"] = pc["startup"] /\ pc'["command"] = "none"
    BY <2>2 DEF TypeOK, Workers
  <2> QED
    BY <2>1, <2>2, <2>3 DEF ThreadFacts, Begun, Workers
<1>18. ASSUME Playstate PROVE ThreadFacts'
  BY <1>18 DEF Playstate, Arrives, session, ThreadFacts, Begun, TypeOK, Workers
<1>19. ASSUME ViewerSelects PROVE ThreadFacts'
  BY <1>19 DEF ViewerSelects, session, thread, ThreadFacts, Begun, TypeOK, Workers
<1>20. ASSUME ViewerSeeks PROVE ThreadFacts'
  BY <1>20 DEF ViewerSeeks, session, thread, ThreadFacts, Begun, TypeOK, Workers
<1>21. ASSUME PlaybackEnds PROVE ThreadFacts'
  BY <1>21, QuitsEffect DEF PlaybackEnds, history, ThreadFacts, Begun, TypeOK, Workers
<1>22. CASE UNCHANGED vars
  BY <1>22 DEF vars, session, thread, history, ThreadFacts, Begun
<1> QED
  BY NextCases, <1>1, <1>2, <1>3, <1>4, <1>5, <1>6, <1>7, <1>8, <1>9, <1>10, <1>11, <1>12,
     <1>13, <1>14, <1>15, <1>16, <1>17, <1>18, <1>19, <1>20, <1>21, <1>22

(***************************************************************************)
(* What a selection leaves alone.                                          *)
(***************************************************************************)
Selecting == {"resolve", "select", "look", "set", "playing"}

\* A selection moves the thread of a playback among its selections; what is played,
\* from where, and for which request, stays as it is.
LEMMA SelectLeaves ==
    ASSUME TypeOK, ThreadFacts, NEW w \in Workers, Select(w)
    PROVE  /\ \/ pc'["startup"] = pc["startup"]
              \/ pc["startup"] \in Selecting /\ pc'["startup"] \in Selecting
           /\ task'["startup"].item = task["startup"].item
           /\ task'["startup"].start = task["startup"].start
           /\ task'["startup"].index = task["startup"].index
           /\ player'.item = player.item /\ player'.position = player.position
           /\ UNCHANGED <<current, asked, playbacks, stray, sought>>
<1>1. ASSUME Done(w), pc[w] \in {"resolve", "select", "look", "set"}
      PROVE  /\ \/ pc'["startup"] = pc["startup"]
                \/ pc["startup"] \in Selecting /\ pc'["startup"] \in Selecting
             /\ task'["startup"].item = task["startup"].item
             /\ task'["startup"].start = task["startup"].start
             /\ task'["startup"].index = task["startup"].index
  BY <1>1, DoneEffect DEF After, Selecting, TypeOK, Workers
<1>2. CASE Resolve(w) \/ LookAgain(w)
  BY <1>2 DEF Resolve, LookAgain, Selecting, TypeOK, Workers, session, history
<1>3. CASE LeaveOff /\ w = "startup"
  BY <1>1, <1>3 DEF LeaveOff, history
<1>4. CASE ResolveRaises(w)
  <2>1. CASE Done(w)
    BY <1>1, <1>4, <2>1 DEF ResolveRaises, history
  <2>2. CASE Quits(w) /\ w = "command"
    BY <1>4, <2>2, QuitsEffect DEF ResolveRaises, history, TypeOK, Workers
  <2> QED
    BY <1>4, <2>1, <2>2 DEF ResolveRaises
<1>5. CASE SelectAudio(w)
  <2>1. player'.item = player.item /\ player'.position = player.position
    BY <1>5, SendEffect DEF SelectAudio, Kinds
  <2> QED
    BY <1>1, <1>5, <2>1 DEF SelectAudio, Send
<1>6. CASE LookEnds(w)
  BY <1>1, <1>6 DEF LookEnds, history
<1>7. CASE SelectionRaises(w)
  BY <1>1, <1>7 DEF SelectionRaises
<1>8. CASE SetSubtitle(w)
  <2>1. player'.item = player.item /\ player'.position = player.position
    BY <1>8, SendEffect DEF SetSubtitle, Kinds
  <2> QED
    BY <1>8, <2>1 DEF SetSubtitle, Send, Selecting, TypeOK, Workers
<1> QED
  BY <1>2, <1>3, <1>4, <1>5, <1>6, <1>7, <1>8 DEF Select

\* A step keeps what is played in accord with the request it is played for.
LEMMA ItemStep ==
    ASSUME TypeOK, ThreadFacts, ItemFacts, [Next]_vars
    PROVE  ItemFacts'
<1>1. ASSUME NEW r \in Requests, Ask(r) PROVE ItemFacts'
  BY <1>1 DEF Ask, session, thread, history, ItemFacts, Read, TypeOK, Workers
<1>2. ASSUME Begin PROVE ItemFacts'
  <2>1. current' = waiting /\ asked' = waiting /\ pc["startup"] = "none"
        /\ pc'["startup"] = "parse" /\ player' = player
    BY <1>2 DEF Begin, Current, TypeOK, Workers
  <2> QED
    BY <2>1 DEF ItemFacts, Read
<1>3. ASSUME Parse PROVE ItemFacts'
  BY <1>3 DEF Parse, session, history, ItemFacts, Read, TypeOK, Workers
<1>4. ASSUME ParseRaises PROVE ItemFacts'
  BY <1>4, QuitsEffect DEF ParseRaises, session, history, ItemFacts, Read, TypeOK, Workers
<1>5. ASSUME StartFails PROVE ItemFacts'
  <2>1. pc'["startup"] = "none" /\ player'.item = None
    BY <1>5, QuitsEffect DEF StartFails, Stopped, TypeOK, Workers
  <2> QED
    BY <2>1 DEF ItemFacts, Read
<1>6. ASSUME StartSucceeds PROVE ItemFacts'
  <2>1. player'.item = task["startup"].item
    BY <1>6 DEF StartSucceeds, Stopped
  <2>2. pc["startup"] = "start" /\ pc'["startup"] = "seek"
        /\ UNCHANGED <<current, asked, task>>
    BY <1>6 DEF StartSucceeds, session, TypeOK, Workers
  <2> QED
    BY <2>1, <2>2 DEF ItemFacts, Read
<1>7. ASSUME Seek PROVE ItemFacts'
  <2>1. pc["startup"] = "seek" /\ pc'["startup"] = "resolve" /\ UNCHANGED <<current, asked, task>>
    BY <1>7 DEF Seek, session, TypeOK, Workers
  <2>2. player'.item = player.item
    BY <1>7 DEF Seek, TypeOK, Player
  <2> QED
    BY <2>1, <2>2 DEF ItemFacts, Read
<1>8. ASSUME NEW w \in Workers, Select(w) PROVE ItemFacts'
  BY <1>8, SelectLeaves DEF Selecting, ItemFacts, Read
<1>9. ASSUME NEW c \in Commands, GeneralCommand(c) PROVE ItemFacts'
  BY <1>9 DEF GeneralCommand, Arrives, session, ItemFacts, Read, TypeOK, Workers
<1>10. ASSUME Note PROVE ItemFacts'
  BY <1>10, NoteEffect, QuitsEffect DEF Note, ItemFacts, Read, TypeOK, Workers
<1>11. ASSUME Playstate PROVE ItemFacts'
  BY <1>11 DEF Playstate, Arrives, session, ItemFacts, Read, TypeOK, Workers
<1>12. ASSUME ViewerSelects PROVE ItemFacts'
  <2>1. player'.item = player.item /\ player'.position = player.position
    BY <1>12, ViewerSelectsEffect
  <2> QED
    BY <1>12, <2>1 DEF ViewerSelects, session, thread, ItemFacts, Read
<1>13. ASSUME ViewerSeeks PROVE ItemFacts'
  <2>1. player'.item = player.item
    BY <1>13 DEF ViewerSeeks, TypeOK, Player
  <2> QED
    BY <1>13, <2>1 DEF ViewerSeeks, session, thread, ItemFacts, Read
<1>14. ASSUME PlaybackEnds PROVE ItemFacts'
  <2>1. pc'["startup"] = "none" /\ player'.item = None
    BY <1>14, QuitsEffect DEF PlaybackEnds, Stopped, TypeOK, Workers
  <2> QED
    BY <2>1 DEF ItemFacts, Read
<1>15. CASE UNCHANGED vars
  BY <1>15 DEF vars, session, thread, history, ItemFacts, Read
<1> QED
  BY <1>1, <1>2, <1>3, <1>4, <1>5, <1>6, <1>7, <1>8, <1>9, <1>10, <1>11, <1>12,
     <1>13, <1>14, <1>15 DEF Next, Startup, Handler, Viewer

\* A step keeps what is noted before the thread reads its request asked for, or stray.
LEMMA AskedStep ==
    ASSUME TypeOK, ThreadFacts, AskedFacts, [Next]_vars
    PROVE  AskedFacts'
<1>1. ASSUME NEW r \in Requests, Ask(r) PROVE AskedFacts'
  BY <1>1 DEF Ask, session, thread, history, AskedFacts, TypeOK, Workers
<1>2. ASSUME Begin PROVE AskedFacts'
  BY <1>2 DEF Begin, Current, AskedFacts, TypeOK, Workers
<1>3. ASSUME Parse PROVE AskedFacts'
  BY <1>3 DEF Parse, session, history, AskedFacts, TypeOK, Workers
<1>4. ASSUME ParseRaises PROVE AskedFacts'
  BY <1>4, QuitsEffect DEF ParseRaises, session, history, AskedFacts, TypeOK, Workers
<1>5. ASSUME StartFails PROVE AskedFacts'
  BY <1>5, QuitsEffect DEF StartFails, history, AskedFacts, TypeOK, Workers
<1>6. ASSUME StartSucceeds PROVE AskedFacts'
  BY <1>6 DEF StartSucceeds, session, AskedFacts, TypeOK, Workers
<1>7. ASSUME Seek PROVE AskedFacts'
  BY <1>7 DEF Seek, session, AskedFacts, TypeOK, Workers
<1>8. ASSUME NEW w \in Workers, Select(w) PROVE AskedFacts'
  BY <1>8, SelectLeaves DEF Selecting, AskedFacts
<1>9. ASSUME NEW c \in Commands, GeneralCommand(c) PROVE AskedFacts'
  BY <1>9 DEF GeneralCommand, Arrives, session, AskedFacts, TypeOK, Workers
<1>10. ASSUME Note PROVE AskedFacts'
  <2>1. /\ pc'["startup"] = pc["startup"]
        /\ stray' = (stray \/ (task["command"].began # playbacks /\ pc["startup"] = "parse"))
    BY <1>10, QuitsEffect DEF Note, TypeOK, Workers
  <2> QED
    BY <1>10, <2>1, NoteEffect DEF AskedFacts
<1>11. ASSUME Playstate PROVE AskedFacts'
  BY <1>11 DEF Playstate, Arrives, session, AskedFacts, TypeOK, Workers
<1>12. ASSUME ViewerSelects PROVE AskedFacts'
  BY <1>12 DEF ViewerSelects, session, thread, AskedFacts, TypeOK, Workers
<1>13. ASSUME ViewerSeeks PROVE AskedFacts'
  BY <1>13 DEF ViewerSeeks, session, thread, AskedFacts, TypeOK, Workers
<1>14. ASSUME PlaybackEnds PROVE AskedFacts'
  BY <1>14, QuitsEffect DEF PlaybackEnds, history, AskedFacts, TypeOK, Workers
<1>15. CASE UNCHANGED vars
  BY <1>15 DEF vars, session, thread, history, AskedFacts
<1> QED
  BY <1>1, <1>2, <1>3, <1>4, <1>5, <1>6, <1>7, <1>8, <1>9, <1>10, <1>11, <1>12,
     <1>13, <1>14, <1>15 DEF Next, Startup, Handler, Viewer

\* A step keeps the tracks a startup selects those asked for.
LEMMA StartupSelectsStep ==
    ASSUME TypeOK, ThreadFacts, AskedFacts, StartupSelectsWhatWasAsked, [Next]_vars
    PROVE  StartupSelectsWhatWasAsked'
<1>1. ASSUME NEW r \in Requests, Ask(r) PROVE StartupSelectsWhatWasAsked'
  BY <1>1 DEF Ask, session, thread, history, StartupSelectsWhatWasAsked, TypeOK, Workers
<1>2. ASSUME Begin PROVE StartupSelectsWhatWasAsked'
  BY <1>2 DEF Begin, Current, StartupSelectsWhatWasAsked, TypeOK, Workers
<1>3. ASSUME Parse PROVE StartupSelectsWhatWasAsked'
  BY <1>3 DEF Parse, session, history, AskedFacts, StartupSelectsWhatWasAsked, TypeOK,
     Workers, Kinds
<1>4. ASSUME ParseRaises PROVE StartupSelectsWhatWasAsked'
  BY <1>4, QuitsEffect DEF ParseRaises, session, history, StartupSelectsWhatWasAsked,
     TypeOK, Workers
<1>5. ASSUME StartFails PROVE StartupSelectsWhatWasAsked'
  BY <1>5, QuitsEffect DEF StartFails, history, StartupSelectsWhatWasAsked, TypeOK,
     Workers
<1>6. ASSUME StartSucceeds PROVE StartupSelectsWhatWasAsked'
  BY <1>6 DEF StartSucceeds, session, StartupSelectsWhatWasAsked, TypeOK, Workers
<1>7. ASSUME Seek PROVE StartupSelectsWhatWasAsked'
  BY <1>7 DEF Seek, session, StartupSelectsWhatWasAsked, TypeOK, Workers
<1>8. ASSUME NEW w \in Workers, Select(w) PROVE StartupSelectsWhatWasAsked'
  BY <1>8, SelectLeaves DEF Selecting, StartupSelectsWhatWasAsked
<1>9. ASSUME NEW c \in Commands, GeneralCommand(c) PROVE StartupSelectsWhatWasAsked'
  BY <1>9 DEF GeneralCommand, Arrives, session, StartupSelectsWhatWasAsked, TypeOK,
     Workers
<1>10. ASSUME Note PROVE StartupSelectsWhatWasAsked'
  BY <1>10, NoteEffect, QuitsEffect DEF Note, StartupSelectsWhatWasAsked, TypeOK, Workers
<1>11. ASSUME Playstate PROVE StartupSelectsWhatWasAsked'
  BY <1>11 DEF Playstate, Arrives, session, StartupSelectsWhatWasAsked, TypeOK, Workers
<1>12. ASSUME ViewerSelects PROVE StartupSelectsWhatWasAsked'
  BY <1>12 DEF ViewerSelects, session, thread, StartupSelectsWhatWasAsked, TypeOK, Workers
<1>13. ASSUME ViewerSeeks PROVE StartupSelectsWhatWasAsked'
  BY <1>13 DEF ViewerSeeks, session, thread, StartupSelectsWhatWasAsked, TypeOK, Workers
<1>14. ASSUME PlaybackEnds PROVE StartupSelectsWhatWasAsked'
  BY <1>14, QuitsEffect DEF PlaybackEnds, history, StartupSelectsWhatWasAsked, TypeOK,
     Workers
<1>15. CASE UNCHANGED vars
  BY <1>15 DEF vars, session, thread, history, StartupSelectsWhatWasAsked
<1> QED
  BY <1>1, <1>2, <1>3, <1>4, <1>5, <1>6, <1>7, <1>8, <1>9, <1>10, <1>11, <1>12,
     <1>13, <1>14, <1>15 DEF Next, Startup, Handler, Viewer

(***************************************************************************)
(* What a command is about to select.                                      *)
(***************************************************************************)
\* The steps of the other thread leave a command as it is.
LEMMA CommandLeft ==
    ASSUME CommandFacts, UNCHANGED <<playbacks, current>>,
           pc'["command"] = pc["command"], task'["command"] = task["command"],
           number'["command"] = number["command"],
           attempts'["command"] = attempts["command"]
    PROVE  CommandFacts'
  BY DEF CommandFacts, Wanted, Off, Index

\* A step keeps what a command is about to select in accord with its request.
LEMMA CommandStep ==
    ASSUME TypeOK, ThreadFacts, CommandFacts, [Next]_vars
    PROVE  CommandFacts'
<1>1. ASSUME NEW r \in Requests, Ask(r) PROVE CommandFacts'
  <2>1. pc'["command"] = pc["command"] /\ task'["command"] = task["command"]
        /\ number'["command"] = number["command"] /\ attempts'["command"] = attempts["command"]
    BY <1>1 DEF Ask, session, thread, history, TypeOK, Workers
  <2> QED
    BY <1>1, <2>1, CommandLeft DEF Ask, session, thread, history
<1>2. ASSUME Begin PROVE CommandFacts'
  <2>1. UNCHANGED <<task, number, attempts>> /\ pc'["command"] = pc["command"]
        /\ playbacks' = playbacks + 1
    BY <1>2 DEF Begin, TypeOK, Workers
  <2>2. task["command"].began \in Nat /\ playbacks \in Nat
    BY DEF TypeOK, Task, Workers
  <2>3. Wanted("command")' = Wanted("command")
    BY <2>1 DEF Wanted, Off, Index
  <2> QED
    BY <2>1, <2>2, <2>3 DEF CommandFacts
<1>3. ASSUME Parse PROVE CommandFacts'
  <2>1. pc'["command"] = pc["command"] /\ task'["command"] = task["command"]
        /\ number'["command"] = number["command"] /\ attempts'["command"] = attempts["command"]
    BY <1>3 DEF Parse, session, history, TypeOK, Workers
  <2> QED
    BY <1>3, <2>1, CommandLeft DEF Parse, session, history
<1>4. ASSUME ParseRaises PROVE CommandFacts'
  <2>1. pc'["command"] = pc["command"] /\ task'["command"] = task["command"]
        /\ number'["command"] = number["command"] /\ attempts'["command"] = attempts["command"]
    BY <1>4, QuitsEffect DEF ParseRaises, session, history, TypeOK, Workers
  <2> QED
    BY <1>4, <2>1, CommandLeft DEF ParseRaises, session, history
<1>5. ASSUME StartFails PROVE CommandFacts'
  <2>1. pc'["command"] = pc["command"] /\ task'["command"] = task["command"]
        /\ number'["command"] = number["command"] /\ attempts'["command"] = attempts["command"]
    BY <1>5, QuitsEffect DEF StartFails, history, TypeOK, Workers
  <2> QED
    BY <1>5, <2>1, CommandLeft DEF StartFails, history
<1>6. ASSUME StartSucceeds PROVE CommandFacts'
  <2>1. pc'["command"] = pc["command"] /\ task'["command"] = task["command"]
        /\ number'["command"] = number["command"] /\ attempts'["command"] = attempts["command"]
    BY <1>6 DEF StartSucceeds, session, TypeOK, Workers
  <2> QED
    BY <1>6, <2>1, CommandLeft DEF StartSucceeds, session
<1>7. ASSUME Seek PROVE CommandFacts'
  <2>1. pc'["command"] = pc["command"] /\ task'["command"] = task["command"]
        /\ number'["command"] = number["command"] /\ attempts'["command"] = attempts["command"]
    BY <1>7 DEF Seek, session, TypeOK, Workers
  <2> QED
    BY <1>7, <2>1, CommandLeft DEF Seek, session
<1>8. ASSUME NEW w \in Workers, Resolve(w) PROVE CommandFacts'
  <2>1. CASE w = "startup"
    <3>1. pc'["command"] = pc["command"] /\ task'["command"] = task["command"]
          /\ number'["command"] = number["command"] /\ attempts'["command"] = attempts["command"]
      BY <1>8, <2>1 DEF Resolve, session, history, TypeOK, Workers
    <3> QED
      BY <1>8, <2>1, <3>1, CommandLeft DEF Resolve, session, history
  <2>2. CASE w = "command"
    <3>1. /\ number'["command"] = Wanted("command") /\ pc["command"] = "resolve"
          /\ pc'["command"] \in {"select", "look"}
          /\ UNCHANGED <<task, playbacks, current, attempts>>
      BY <1>8, <2>2 DEF Resolve, session, history, TypeOK, Workers
    <3> QED
      BY <3>1 DEF CommandFacts, Wanted, Off, Index
  <2> QED
    BY <2>1, <2>2 DEF Workers
<1>9. ASSUME LeaveOff PROVE CommandFacts'
  <2>1. pc'["command"] = pc["command"] /\ task'["command"] = task["command"]
        /\ number'["command"] = number["command"] /\ attempts'["command"] = attempts["command"]
    BY <1>9, DoneEffect DEF LeaveOff, history, After, TypeOK, Workers
  <2> QED
    BY <1>9, <2>1, CommandLeft DEF LeaveOff, history, After
<1>10. ASSUME NEW w \in Workers, ResolveRaises(w) PROVE CommandFacts'
  <2>1. CASE w = "startup"
    <3>1. pc'["command"] = pc["command"] /\ task'["command"] = task["command"]
          /\ number'["command"] = number["command"] /\ attempts'["command"] = attempts["command"]
      BY <1>10, <2>1, DoneEffect DEF ResolveRaises, history, After, TypeOK, Workers
    <3> QED
      BY <1>10, <2>1, <3>1, CommandLeft DEF ResolveRaises, history, After
  <2>2. CASE w = "command"
    <3>1. Quits("command") /\ pc["command"] = "resolve" /\ UNCHANGED <<playbacks, current>>
      BY <1>10, <2>2 DEF ResolveRaises, history
    <3>2. pc'["command"] = "none" /\ task'["command"].began = 0 /\ attempts' = attempts
      BY <3>1, QuitsEffect DEF TypeOK, Workers
    <3>3. playbacks \in Nat
      BY DEF TypeOK
    <3> QED
      BY <3>1, <3>2, <3>3 DEF CommandFacts
  <2> QED
    BY <2>1, <2>2 DEF Workers
<1>11. ASSUME NEW w \in Workers, SelectAudio(w) PROVE CommandFacts'
  <2>1. CASE w = "startup"
    <3>1. pc'["command"] = pc["command"] /\ task'["command"] = task["command"]
          /\ number'["command"] = number["command"] /\ attempts'["command"] = attempts["command"]
      BY <1>11, <2>1, DoneEffect DEF SelectAudio, Send, After, TypeOK, Workers
    <3> QED
      BY <1>11, <2>1, <3>1, CommandLeft DEF SelectAudio, Send, After
  <2>2. CASE w = "command"
    <3>1. pc'["command"] = "note" /\ task' = task /\ attempts'["command"] = 0
      BY <1>11, <2>2, DoneEffect DEF SelectAudio, Send, Done, After, TypeOK, Workers
    <3> QED
      BY <1>11, <2>2, <3>1 DEF SelectAudio, Send, CommandFacts
  <2> QED
    BY <2>1, <2>2 DEF Workers
<1>12. ASSUME NEW w \in Workers, LookAgain(w) PROVE CommandFacts'
  <2>1. CASE w = "startup"
    <3>1. pc'["command"] = pc["command"] /\ task'["command"] = task["command"]
          /\ number'["command"] = number["command"] /\ attempts'["command"] = attempts["command"]
      BY <1>12, <2>1 DEF LookAgain, session, history, TypeOK, Workers
    <3> QED
      BY <1>12, <2>1, <3>1, CommandLeft DEF LookAgain, session, history
  <2>2. CASE w = "command"
    <3>1. pc["command"] = "look" /\ pc'["command"] = "set"
          /\ UNCHANGED <<task, number, playbacks, current, attempts>>
      BY <1>12, <2>2 DEF LookAgain, session, history, TypeOK, Workers
    <3> QED
      BY <3>1 DEF CommandFacts, Wanted, Off, Index
  <2> QED
    BY <2>1, <2>2 DEF Workers
<1>13. ASSUME NEW w \in Workers, LookEnds(w) PROVE CommandFacts'
  <2>1. CASE w = "startup"
    <3>1. pc'["command"] = pc["command"] /\ task'["command"] = task["command"]
          /\ number'["command"] = number["command"] /\ attempts'["command"] = attempts["command"]
      BY <1>13, <2>1, DoneEffect DEF LookEnds, history, After, TypeOK, Workers
    <3> QED
      BY <1>13, <2>1, <3>1, CommandLeft DEF LookEnds, history, After
  <2>2. CASE w = "command"
    <3>1. pc'["command"] = "note" /\ task' = task /\ attempts'["command"] = 0
      BY <1>13, <2>2, DoneEffect DEF LookEnds, history, Done, After, TypeOK, Workers
    <3> QED
      BY <1>13, <2>2, <3>1 DEF LookEnds, history, CommandFacts
  <2> QED
    BY <2>1, <2>2 DEF Workers
<1>14. ASSUME NEW w \in Workers, SelectionRaises(w) PROVE CommandFacts'
  <2>1. CASE w = "startup"
    <3>1. pc'["command"] = pc["command"] /\ task'["command"] = task["command"]
          /\ number'["command"] = number["command"] /\ attempts'["command"] = attempts["command"]
      BY <1>14, <2>1, DoneEffect DEF SelectionRaises, After, TypeOK, Workers
    <3> QED
      BY <1>14, <2>1, <3>1, CommandLeft DEF SelectionRaises, After
  <2>2. CASE w = "command"
    <3>1. pc'["command"] = "note" /\ task' = task /\ attempts'["command"] = 0
      BY <1>14, <2>2, DoneEffect DEF SelectionRaises, Done, After, TypeOK, Workers
    <3> QED
      BY <1>14, <2>2, <3>1 DEF SelectionRaises, CommandFacts
  <2> QED
    BY <2>1, <2>2 DEF Workers
<1>15. ASSUME NEW w \in Workers, SetSubtitle(w) PROVE CommandFacts'
  <2>1. CASE w = "startup"
    <3>1. pc'["command"] = pc["command"] /\ task'["command"] = task["command"]
          /\ number'["command"] = number["command"] /\ attempts'["command"] = attempts["command"]
      BY <1>15, <2>1 DEF SetSubtitle, Send, Counted, TypeOK, Workers
    <3> QED
      BY <1>15, <2>1, <3>1, CommandLeft DEF SetSubtitle, Send, Counted
  <2>2. CASE w = "command"
    <3>1. pc["command"] = "set" /\ pc'["command"] = "look"
          /\ UNCHANGED <<task, number, playbacks, current>>
      BY <1>15, <2>2 DEF SetSubtitle, Send, TypeOK, Workers
    <3> QED
      BY <3>1 DEF CommandFacts, Wanted, Off, Index
  <2> QED
    BY <2>1, <2>2 DEF Workers
<1>16. ASSUME NEW c \in Commands, GeneralCommand(c) PROVE CommandFacts'
  <2> SUFFICES ASSUME CurrentItem # Raised PROVE CommandFacts'
    BY <1>16, CommandLeft DEF GeneralCommand, Arrives, session
  <2>1. /\ pc["command"] = "none" /\ pc'["command"] = "resolve"
        /\ UNCHANGED <<playbacks, current, attempts>>
        /\ task'["command"].began = playbacks /\ task'["command"].item = CurrentItem
    <3>1. /\ pc["command"] = "none" /\ pc' = [pc EXCEPT !["command"] = "resolve"]
          /\ UNCHANGED <<playbacks, current, attempts>>
      BY <1>16 DEF GeneralCommand, Arrives, session
    <3>2. task' = [task EXCEPT !["command"] =
                    [item |-> CurrentItem, kind |-> c.kind, start |-> 0,
                     index |-> [k \in Kinds |-> c.index], began |-> playbacks]]
      BY <1>16 DEF GeneralCommand
    <3> QED
      BY <3>1, <3>2 DEF TypeOK, Workers
  <2>2. CurrentItem = ParsedItem(current) /\ playbacks \in Nat
    BY DEF CurrentItem, TypeOK
  <2> QED
    BY <2>1, <2>2 DEF CommandFacts
<1>17. ASSUME Note PROVE CommandFacts'
  <2>1. pc["command"] = "note" /\ Quits("command") /\ UNCHANGED playbacks
    BY <1>17 DEF Note
  <2>2. pc'["command"] = "none" /\ task'["command"].began = 0 /\ attempts' = attempts
    BY <2>1, QuitsEffect DEF TypeOK, Workers
  <2>3. playbacks \in Nat
    BY DEF TypeOK
  <2> QED
    BY <2>1, <2>2, <2>3 DEF CommandFacts
<1>18. ASSUME Playstate PROVE CommandFacts'
  <2>1. pc'["command"] = pc["command"] /\ task'["command"] = task["command"]
        /\ number'["command"] = number["command"] /\ attempts'["command"] = attempts["command"]
    BY <1>18 DEF Playstate, Arrives, session, TypeOK, Workers
  <2> QED
    BY <1>18, <2>1, CommandLeft DEF Playstate, Arrives, session
<1>19. ASSUME ViewerSelects PROVE CommandFacts'
  <2>1. pc'["command"] = pc["command"] /\ task'["command"] = task["command"]
        /\ number'["command"] = number["command"] /\ attempts'["command"] = attempts["command"]
    BY <1>19 DEF ViewerSelects, session, thread, TypeOK, Workers
  <2> QED
    BY <1>19, <2>1, CommandLeft DEF ViewerSelects, session, thread
<1>20. ASSUME ViewerSeeks PROVE CommandFacts'
  <2>1. pc'["command"] = pc["command"] /\ task'["command"] = task["command"]
        /\ number'["command"] = number["command"] /\ attempts'["command"] = attempts["command"]
    BY <1>20 DEF ViewerSeeks, session, thread, TypeOK, Workers
  <2> QED
    BY <1>20, <2>1, CommandLeft DEF ViewerSeeks, session, thread
<1>21. ASSUME PlaybackEnds PROVE CommandFacts'
  <2>1. pc'["command"] = pc["command"] /\ task'["command"] = task["command"]
        /\ number'["command"] = number["command"] /\ attempts'["command"] = attempts["command"]
    BY <1>21, QuitsEffect DEF PlaybackEnds, history, TypeOK, Workers
  <2> QED
    BY <1>21, <2>1, CommandLeft DEF PlaybackEnds, history
<1>22. CASE UNCHANGED vars
  BY <1>22 DEF vars, session, thread, history, CommandFacts, Wanted, Off, Index
<1> QED
  BY NextCases, <1>1, <1>2, <1>3, <1>4, <1>5, <1>6, <1>7, <1>8, <1>9, <1>10, <1>11, <1>12,
     <1>13, <1>14, <1>15, <1>16, <1>17, <1>18, <1>19, <1>20, <1>21, <1>22

(***************************************************************************)
(* What the session notes, and what the player shows.                      *)
(***************************************************************************)
\* Whoever else selects a track makes it nobody's; no step makes it a command's but
\* the command's own.
Kept(k) == setter'[k] # 0 => setter'[k] = setter[k] /\ player'[k] = player[k]

\* What is shown stays shown while its track is kept.
LEMMA ShowsKept ==
    ASSUME NEW k \in Kinds, NEW n, Kept(k), Shows(k, n), UNCHANGED playbacks,
           player'.item # None => player'.item = player.item
    PROVE  player'.item # None /\ setter'[k] # 0 /\ setter'[k] = playbacks' => player'[k] = n
  BY DEF Kept, Shows

\* So does the track that is noted.
LEMMA NotedKept ==
    ASSUME NEW k \in Kinds, Kept(k), Shows(k, NotedTrack(k)), UNCHANGED playbacks,
           player'.item # None => player'.item = player.item,
           current'[k] = current[k]
    PROVE  Shows(k, NotedTrack(k))'
  BY DEF Kept, Shows, NotedTrack

\* No track is selected for a playback that has not begun.
LEMMA SetterBound ==
    ASSUME TypeOK, SetterFacts, NEW k \in Kinds, Kept(k), UNCHANGED playbacks,
           setter'[k] \in Nat
    PROVE  setter'[k] <= playbacks'
<1>1. playbacks \in Nat /\ setter[k] <= playbacks
  BY DEF SetterFacts, TypeOK
<1> QED
  BY <1>1 DEF Kept

\* The steps of anyone else leave a command's selection as it is.
LEMMA SetterLeft ==
    ASSUME TypeOK, TypeOK', SetterFacts, UNCHANGED <<playbacks, current>>,
           \A k \in Kinds : Kept(k),
           player'.item # None => player'.item = player.item,
           pc'["command"] = pc["command"], task'["command"] = task["command"],
           number'["command"] = number["command"],
           attempts'["command"] = attempts["command"]
    PROVE  SetterFacts'
<1>1. \A k \in Kinds : setter'[k] <= playbacks'
  BY SetterBound DEF TypeOK
<1>2. ASSUME NEW k \in Kinds, pc["command"] \in {"none", "resolve"} \/ task["command"].kind # k
      PROVE  Shows(k, NotedTrack(k))'
  BY <1>2, NotedKept DEF SetterFacts
<1>3. ASSUME NEW k \in Kinds, NEW n, Shows(k, n)
      PROVE  player'.item # None /\ setter'[k] # 0 /\ setter'[k] = playbacks' => player'[k] = n
  BY <1>3, ShowsKept
<1>4. task["command"].kind \in Kinds /\ Wanted("command")' = Wanted("command")
  BY IndexIsInt DEF Wanted, Off, Index, Workers
<1>5. pc["command"] = "note" /\ task["command"].began = playbacks =>
         Shows(task["command"].kind, Wanted("command"))'
  BY <1>3, <1>4 DEF SetterFacts, Shows
<1>6. /\ pc["command"] \in {"look", "set"} /\ attempts["command"] > 0
      /\ task["command"].began = playbacks
      => Shows("Subtitle", number["command"])'
  BY <1>3 DEF SetterFacts, Shows, Kinds
<1> QED
  BY <1>1, <1>2, <1>5, <1>6 DEF SetterFacts

\* A step keeps what is noted, or is about to be, in accord with what is shown.
LEMMA SetterStep ==
    ASSUME TypeOK, ThreadFacts, ItemFacts, CommandFacts, SetterFacts, [Next]_vars
    PROVE  SetterFacts'
<1>1. ASSUME NEW r \in Requests, Ask(r) PROVE SetterFacts'
  <2>1. pc'["command"] = pc["command"] /\ task'["command"] = task["command"]
        /\ number'["command"] = number["command"]
        /\ attempts'["command"] = attempts["command"]
        /\ UNCHANGED <<playbacks, current>>
    BY <1>1 DEF Ask, session, thread, history, TypeOK, Workers
  <2>2. \A k \in Kinds : Kept(k)
    BY <1>1 DEF Ask, session, thread, history, Kept
  <2>3. player'.item # None => player'.item = player.item
    BY <1>1 DEF Ask, session, thread, history
  <2> QED
    BY TypingStep, <2>1, <2>2, <2>3, SetterLeft
<1>2. ASSUME Begin PROVE SetterFacts'
  <2>1. player'.item = None /\ UNCHANGED setter /\ playbacks' = playbacks + 1
    BY <1>2 DEF Begin, ItemFacts
  <2>2. \A k \in Kinds : setter'[k] <= playbacks'
    <3>1. playbacks \in Nat /\ \A k \in Kinds : setter[k] \in Nat /\ setter[k] <= playbacks
      BY DEF SetterFacts, TypeOK
    <3> QED
      BY <2>1, <3>1
  <2> QED
    BY <2>1, <2>2 DEF SetterFacts, Shows
<1>3. ASSUME Parse PROVE SetterFacts'
  <2>1. pc'["command"] = pc["command"] /\ task'["command"] = task["command"]
        /\ number'["command"] = number["command"]
        /\ attempts'["command"] = attempts["command"]
        /\ UNCHANGED <<playbacks, current>>
    BY <1>3 DEF Parse, session, history, TypeOK, Workers
  <2>2. \A k \in Kinds : Kept(k)
    BY <1>3 DEF Parse, session, history, Kept
  <2>3. player'.item # None => player'.item = player.item
    BY <1>3 DEF Parse, session, history
  <2> QED
    BY TypingStep, <2>1, <2>2, <2>3, SetterLeft
<1>4. ASSUME ParseRaises PROVE SetterFacts'
  <2>1. pc'["command"] = pc["command"] /\ task'["command"] = task["command"]
        /\ number'["command"] = number["command"]
        /\ attempts'["command"] = attempts["command"]
        /\ UNCHANGED <<playbacks, current>>
    BY <1>4, QuitsEffect DEF ParseRaises, session, history, TypeOK, Workers
  <2>2. \A k \in Kinds : Kept(k)
    BY <1>4 DEF ParseRaises, session, history, Kept
  <2>3. player'.item # None => player'.item = player.item
    BY <1>4 DEF ParseRaises, session, history
  <2> QED
    BY TypingStep, <2>1, <2>2, <2>3, SetterLeft
<1>5. ASSUME StartFails PROVE SetterFacts'
  <2>1. player'.item = None /\ UNCHANGED <<setter, playbacks>>
    BY <1>5 DEF StartFails, history, Stopped
  <2>2. pc'["command"] = pc["command"]
    BY <1>5, QuitsEffect DEF StartFails, TypeOK, Workers
  <2> QED
    BY <2>1, <2>2 DEF SetterFacts, Shows
<1>6. ASSUME StartSucceeds PROVE SetterFacts'
  <2>1. \A k \in Kinds : setter'[k] = 0
    BY <1>6 DEF StartSucceeds
  <2>2. playbacks' \in Nat
    BY TypingStep DEF TypeOK
  <2>3. task'["command"].kind \in Kinds
    BY TypingStep, IndexIsInt DEF TypeOK, Task, Workers
  <2> QED
    BY <2>1, <2>2, <2>3 DEF SetterFacts, Shows, Kinds
<1>7. ASSUME Seek PROVE SetterFacts'
  <2>1. pc'["command"] = pc["command"] /\ task'["command"] = task["command"]
        /\ number'["command"] = number["command"]
        /\ attempts'["command"] = attempts["command"]
        /\ UNCHANGED <<playbacks, current>>
    BY <1>7 DEF Seek, session, TypeOK, Workers
  <2>2. \A k \in Kinds : Kept(k)
    <3>1. player \in Player
      BY DEF TypeOK
    <3> QED
      BY <1>7, <3>1 DEF Seek, Kept, Player, Kinds
  <2>3. player'.item # None => player'.item = player.item
    <3>1. player \in Player
      BY DEF TypeOK
    <3> QED
      BY <1>7, <3>1 DEF Seek, Player
  <2> QED
    BY TypingStep, <2>1, <2>2, <2>3, SetterLeft
<1>8. ASSUME NEW w \in Workers, Resolve(w) PROVE SetterFacts'
  <2>1. CASE w = "startup"
    <3>1. pc'["command"] = pc["command"] /\ task'["command"] = task["command"]
          /\ number'["command"] = number["command"]
          /\ attempts'["command"] = attempts["command"]
          /\ UNCHANGED <<playbacks, current>>
      BY <1>8, <2>1 DEF Resolve, session, history, TypeOK, Workers
    <3>2. \A k \in Kinds : Kept(k)
      BY <1>8, <2>1 DEF Resolve, session, history, Kept
    <3>3. player'.item # None => player'.item = player.item
      BY <1>8, <2>1 DEF Resolve, session, history
    <3> QED
      BY TypingStep, <3>1, <3>2, <3>3, SetterLeft
  <2>2. CASE w = "command"
    <3>1. /\ pc["command"] = "resolve" /\ pc'["command"] \in {"select", "look"}
          /\ attempts'["command"] = 0
          /\ UNCHANGED <<playbacks, current, player, setter>>
      BY <1>8, <2>2 DEF Resolve, session, history, TypeOK, Workers, CommandFacts
    <3> QED
      BY <3>1 DEF SetterFacts, Shows, NotedTrack
  <2> QED
    BY <2>1, <2>2 DEF Workers
<1>9. ASSUME LeaveOff PROVE SetterFacts'
  <2>1. pc'["command"] = pc["command"] /\ task'["command"] = task["command"]
        /\ number'["command"] = number["command"]
        /\ attempts'["command"] = attempts["command"]
        /\ UNCHANGED <<playbacks, current>>
    BY <1>9, DoneEffect DEF LeaveOff, history, After, TypeOK, Workers
  <2>2. \A k \in Kinds : Kept(k)
    BY <1>9 DEF LeaveOff, history, Kept
  <2>3. player'.item # None => player'.item = player.item
    BY <1>9 DEF LeaveOff, history
  <2> QED
    BY TypingStep, <2>1, <2>2, <2>3, SetterLeft
<1>10. ASSUME NEW w \in Workers, ResolveRaises(w) PROVE SetterFacts'
  <2>1. CASE w = "startup"
    <3>1. pc'["command"] = pc["command"] /\ task'["command"] = task["command"]
          /\ number'["command"] = number["command"]
          /\ attempts'["command"] = attempts["command"]
          /\ UNCHANGED <<playbacks, current>>
      BY <1>10, <2>1, DoneEffect DEF ResolveRaises, history, After, TypeOK, Workers
    <3>2. \A k \in Kinds : Kept(k)
      BY <1>10, <2>1 DEF ResolveRaises, history, Kept
    <3>3. player'.item # None => player'.item = player.item
      BY <1>10, <2>1 DEF ResolveRaises, history
    <3> QED
      BY TypingStep, <3>1, <3>2, <3>3, SetterLeft
  <2>2. CASE w = "command"
    <3>1. /\ Quits("command") /\ pc["command"] = "resolve"
          /\ UNCHANGED <<playbacks, current, player, setter>>
      BY <1>10, <2>2 DEF ResolveRaises, history
    <3>2. pc'["command"] = "none"
      BY <3>1, QuitsEffect DEF TypeOK, Workers
    <3> QED
      BY <3>1, <3>2 DEF SetterFacts, Shows, NotedTrack
  <2> QED
    BY <2>1, <2>2 DEF Workers
<1>11. ASSUME NEW w \in Workers, SelectAudio(w) PROVE SetterFacts'
  <2>1. CASE w = "startup"
    <3>1. pc'["command"] = pc["command"] /\ task'["command"] = task["command"]
          /\ number'["command"] = number["command"]
          /\ attempts'["command"] = attempts["command"]
          /\ UNCHANGED <<playbacks, current>>
      BY <1>11, <2>1, DoneEffect DEF SelectAudio, Send, After, TypeOK, Workers
    <3>2. \A k \in Kinds : Kept(k)
      BY <1>11, <2>1, SendEffect DEF SelectAudio, Kept, Kinds
    <3>3. player'.item # None => player'.item = player.item
      BY <1>11, <2>1, SendEffect DEF SelectAudio, Kinds
    <3> QED
      BY TypingStep, <3>1, <3>2, <3>3, SetterLeft
  <2>2. CASE w = "command"
    <3>1. /\ pc["command"] = "select" /\ pc'["command"] = "note" /\ task' = task
          /\ UNCHANGED <<playbacks, current>>
      BY <1>11, <2>2, DoneEffect DEF SelectAudio, Send, After, TypeOK, Workers
    <3>2. /\ task["command"].kind = "Audio" /\ number["command"] = Wanted("command")
          /\ Wanted("command")' = Wanted("command")
      BY <3>1 DEF ThreadFacts, CommandFacts, Wanted, Off, Index, Workers
    <3>3. /\ player'.item = player.item
          /\ setter'["Audio"] # 0 => player'["Audio"] = number["command"]
                                     /\ setter'["Audio"] = task["command"].began
          /\ player'["Subtitle"] = player["Subtitle"]
          /\ setter'["Subtitle"] = setter["Subtitle"]
      BY <1>11, <2>2, SendEffect DEF SelectAudio, Kinds
    <3>4. setter'["Audio"] <= playbacks'
      <4>1. task["command"].began <= playbacks /\ playbacks \in Nat
        BY DEF CommandFacts, TypeOK
      <4> QED
        BY <3>1, <3>3, <4>1
    <3> QED
      BY <3>1, <3>2, <3>3, <3>4 DEF SetterFacts, Shows, NotedTrack, Kinds
  <2> QED
    BY <2>1, <2>2 DEF Workers
<1>12. ASSUME NEW w \in Workers, LookAgain(w) PROVE SetterFacts'
  <2>1. CASE w = "startup"
    <3>1. pc'["command"] = pc["command"] /\ task'["command"] = task["command"]
          /\ number'["command"] = number["command"]
          /\ attempts'["command"] = attempts["command"]
          /\ UNCHANGED <<playbacks, current>>
      BY <1>12, <2>1 DEF LookAgain, session, history, TypeOK, Workers
    <3>2. \A k \in Kinds : Kept(k)
      BY <1>12, <2>1 DEF LookAgain, session, history, Kept
    <3>3. player'.item # None => player'.item = player.item
      BY <1>12, <2>1 DEF LookAgain, session, history
    <3> QED
      BY TypingStep, <3>1, <3>2, <3>3, SetterLeft
  <2>2. CASE w = "command"
    <3>1. /\ pc["command"] = "look" /\ pc'["command"] = "set"
          /\ UNCHANGED <<playbacks, current, player, setter, task, number, attempts>>
      BY <1>12, <2>2 DEF LookAgain, session, history, TypeOK, Workers
    <3> QED
      BY <3>1 DEF SetterFacts, Shows, NotedTrack
  <2> QED
    BY <2>1, <2>2 DEF Workers
<1>13. ASSUME NEW w \in Workers, LookEnds(w) PROVE SetterFacts'
  <2>1. CASE w = "startup"
    <3>1. pc'["command"] = pc["command"] /\ task'["command"] = task["command"]
          /\ number'["command"] = number["command"]
          /\ attempts'["command"] = attempts["command"]
          /\ UNCHANGED <<playbacks, current>>
      BY <1>13, <2>1, DoneEffect DEF LookEnds, history, After, TypeOK, Workers
    <3>2. \A k \in Kinds : Kept(k)
      BY <1>13, <2>1 DEF LookEnds, history, Kept
    <3>3. player'.item # None => player'.item = player.item
      BY <1>13, <2>1 DEF LookEnds, history
    <3> QED
      BY TypingStep, <3>1, <3>2, <3>3, SetterLeft
  <2>2. CASE w = "command"
    <3>1. /\ pc["command"] = "look" /\ pc'["command"] = "note" /\ task' = task
          /\ UNCHANGED <<playbacks, current, player, setter>>
      BY <1>13, <2>2, DoneEffect DEF LookEnds, history, After, TypeOK, Workers
    <3>2. /\ task["command"].kind = "Subtitle" /\ number["command"] = Wanted("command")
          /\ Wanted("command")' = Wanted("command")
      BY <3>1 DEF ThreadFacts, CommandFacts, Wanted, Off, Index, Workers
    <3>3. task["command"].began = playbacks => Shows("Subtitle", number["command"])
      <4>1. CASE player.Subtitle = number["command"]
        BY <4>1 DEF Shows
      <4>2. CASE attempts["command"] = MaxAttempts
        BY <3>1, <4>2, BoundsAssumption DEF SetterFacts
      <4> QED
        BY <1>13, <2>2, <4>1, <4>2 DEF LookEnds, Settled
    <3> QED
      BY <3>1, <3>2, <3>3 DEF SetterFacts, Shows, NotedTrack
  <2> QED
    BY <2>1, <2>2 DEF Workers
<1>14. ASSUME NEW w \in Workers, SelectionRaises(w) PROVE SetterFacts'
  <2>1. CASE w = "startup"
    <3>1. pc'["command"] = pc["command"] /\ task'["command"] = task["command"]
          /\ number'["command"] = number["command"]
          /\ attempts'["command"] = attempts["command"]
          /\ UNCHANGED <<playbacks, current>>
      BY <1>14, <2>1, DoneEffect DEF SelectionRaises, After, TypeOK, Workers
    <3>2. \A k \in Kinds : Kept(k)
      BY <1>14, <2>1 DEF SelectionRaises, Kept
    <3>3. player'.item # None => player'.item = player.item
      BY <1>14, <2>1 DEF SelectionRaises
    <3> QED
      BY TypingStep, <3>1, <3>2, <3>3, SetterLeft
  <2>2. CASE w = "command"
    <3>1. /\ pc["command"] \in {"look", "set"} /\ pc'["command"] = "note" /\ task' = task
          /\ UNCHANGED <<playbacks, current, player>>
      BY <1>14, <2>2, DoneEffect DEF SelectionRaises, After, TypeOK, Workers
    <3>2. task["command"].kind = "Subtitle" /\ setter' = [setter EXCEPT !["Subtitle"] = 0]
      BY <1>14, <2>2, <3>1 DEF SelectionRaises, ThreadFacts, Workers
    <3>3. setter'["Subtitle"] = 0 /\ setter'["Audio"] = setter["Audio"] /\ playbacks \in Nat
      BY <3>2 DEF TypeOK, Kinds
    <3> QED
      BY <3>1, <3>2, <3>3 DEF SetterFacts, Shows, NotedTrack, Kinds
  <2> QED
    BY <2>1, <2>2 DEF Workers
<1>15. ASSUME NEW w \in Workers, SetSubtitle(w) PROVE SetterFacts'
  <2>1. CASE w = "startup"
    <3>1. pc'["command"] = pc["command"] /\ task'["command"] = task["command"]
          /\ number'["command"] = number["command"]
          /\ attempts'["command"] = attempts["command"]
          /\ UNCHANGED <<playbacks, current>>
      BY <1>15, <2>1 DEF SetSubtitle, Send, Counted, TypeOK, Workers
    <3>2. \A k \in Kinds : Kept(k)
      BY <1>15, <2>1, SendEffect DEF SetSubtitle, Kept, Kinds
    <3>3. player'.item # None => player'.item = player.item
      BY <1>15, <2>1, SendEffect DEF SetSubtitle, Kinds
    <3> QED
      BY TypingStep, <3>1, <3>2, <3>3, SetterLeft
  <2>2. CASE w = "command"
    <3>1. /\ pc["command"] = "set" /\ pc'["command"] = "look"
          /\ UNCHANGED <<playbacks, current, task, number>>
      BY <1>15, <2>2 DEF SetSubtitle, Send, TypeOK, Workers
    <3>2. task["command"].kind = "Subtitle"
      BY <3>1 DEF ThreadFacts, Workers
    <3>3. /\ player'.item = player.item
          /\ setter'["Subtitle"] # 0 => player'["Subtitle"] = number["command"]
                                        /\ setter'["Subtitle"] = task["command"].began
          /\ player'["Audio"] = player["Audio"]
          /\ setter'["Audio"] = setter["Audio"]
      BY <1>15, <2>2, SendEffect DEF SetSubtitle, Kinds
    <3>4. setter'["Subtitle"] <= playbacks'
      <4>1. task["command"].began <= playbacks /\ playbacks \in Nat
        BY DEF CommandFacts, TypeOK
      <4> QED
        BY <3>1, <3>3, <4>1
    <3> QED
      BY <3>1, <3>2, <3>3, <3>4 DEF SetterFacts, Shows, NotedTrack, Kinds
  <2> QED
    BY <2>1, <2>2 DEF Workers
<1>16. ASSUME NEW c \in Commands, GeneralCommand(c) PROVE SetterFacts'
  <2>1. CASE UNCHANGED <<pc, task>>
    BY <1>16, <2>1, SetterLeft, TypingStep DEF GeneralCommand, Arrives, session, Kept
  <2>2. CASE pc'["command"] = "resolve"
    BY <1>16, <2>2 DEF GeneralCommand, Arrives, session, SetterFacts, Shows, NotedTrack
  <2> QED
    BY <1>16, <2>1, <2>2 DEF GeneralCommand, TypeOK, Workers
<1>17. ASSUME Note PROVE SetterFacts'
  <2>0. PICK kind \in Kinds : kind = task["command"].kind
    BY IndexIsInt DEF Workers
  <2>1. pc'["command"] = "none" /\ pc["command"] = "note" /\ UNCHANGED <<playbacks, player>>
    BY <1>17, QuitsEffect DEF Note, TypeOK, Workers
  <2>2. playbacks \in Nat
    BY DEF TypeOK
  <2>3. ASSUME NEW k \in Kinds, k # kind
        PROVE  setter'[k] <= playbacks' /\ Shows(k, NotedTrack(k))'
    <3>1. setter'[k] = setter[k] /\ current'[k] = current[k]
      BY <1>17, <2>0, <2>3, NoteEffect DEF Note, TypeOK
    <3>2. setter[k] <= playbacks /\ Shows(k, NotedTrack(k))
      BY <2>0, <2>3 DEF SetterFacts
    <3> QED
      BY <2>1, <3>1, <3>2 DEF Shows, NotedTrack
  <2>4. CASE task["command"].began # playbacks
    <3>1. setter'[kind] = 0
      BY <1>17, <2>0, <2>4 DEF Note, TypeOK
    <3>2. setter'[kind] <= playbacks' /\ Shows(kind, NotedTrack(kind))'
      BY <2>1, <2>2, <3>1 DEF Shows
    <3> QED
      BY <2>1, <2>3, <3>2 DEF SetterFacts
  <2>5. CASE task["command"].began = playbacks
    <3>1. setter' = setter /\ current'[kind] = Index("command")
      BY <1>17, <2>0, <2>5, NoteEffect DEF Note
    <3>2. Shows(kind, Wanted("command")) /\ setter[kind] <= playbacks
      BY <2>0, <2>1, <2>5 DEF SetterFacts
    <3>3. player.item # None => player.item = task["command"].item
      BY <2>1, <2>5 DEF ItemFacts, Read, CommandFacts
    <3>4. player.item # None =>
             Wanted("command") = IF kind = "Subtitle" /\ current'[kind] < 0 THEN 0
                                 ELSE Number(player.item, kind, current'[kind])
      BY <2>0, <3>1, <3>3 DEF Wanted, Off
    <3>5. setter'[kind] <= playbacks' /\ Shows(kind, NotedTrack(kind))'
      BY <2>1, <3>1, <3>2, <3>4 DEF Shows, NotedTrack
    <3> QED
      BY <2>1, <2>3, <3>5 DEF SetterFacts
  <2> QED
    BY <2>4, <2>5
<1>18. ASSUME Playstate PROVE SetterFacts'
  <2>1. pc'["command"] = pc["command"] /\ task'["command"] = task["command"]
        /\ number'["command"] = number["command"]
        /\ attempts'["command"] = attempts["command"]
        /\ UNCHANGED <<playbacks, current>>
    BY <1>18 DEF Playstate, Arrives, session, TypeOK, Workers
  <2>2. \A k \in Kinds : Kept(k)
    BY <1>18 DEF Playstate, Arrives, session, Kept
  <2>3. player'.item # None => player'.item = player.item
    BY <1>18 DEF Playstate, Arrives, session
  <2> QED
    BY TypingStep, <2>1, <2>2, <2>3, SetterLeft
<1>19. ASSUME ViewerSelects PROVE SetterFacts'
  <2>1. pc'["command"] = pc["command"] /\ task'["command"] = task["command"]
        /\ number'["command"] = number["command"]
        /\ attempts'["command"] = attempts["command"]
        /\ UNCHANGED <<playbacks, current>>
    BY <1>19 DEF ViewerSelects, session, thread, TypeOK, Workers
  <2>2. \A k \in Kinds : Kept(k)
    BY <1>19, ViewerSelectsEffect DEF Kept
  <2>3. player'.item # None => player'.item = player.item
    BY <1>19, ViewerSelectsEffect
  <2> QED
    BY TypingStep, <2>1, <2>2, <2>3, SetterLeft
<1>20. ASSUME ViewerSeeks PROVE SetterFacts'
  <2>1. pc'["command"] = pc["command"] /\ task'["command"] = task["command"]
        /\ number'["command"] = number["command"]
        /\ attempts'["command"] = attempts["command"]
        /\ UNCHANGED <<playbacks, current>>
    BY <1>20 DEF ViewerSeeks, session, thread, TypeOK, Workers
  <2>2. \A k \in Kinds : Kept(k)
    <3>1. player \in Player
      BY DEF TypeOK
    <3> QED
      BY <1>20, <3>1 DEF ViewerSeeks, Kept, Player, Kinds
  <2>3. player'.item # None => player'.item = player.item
    <3>1. player \in Player
      BY DEF TypeOK
    <3> QED
      BY <1>20, <3>1 DEF ViewerSeeks, Player
  <2> QED
    BY TypingStep, <2>1, <2>2, <2>3, SetterLeft
<1>21. ASSUME PlaybackEnds PROVE SetterFacts'
  <2>1. player'.item = None /\ UNCHANGED <<setter, playbacks>>
    BY <1>21 DEF PlaybackEnds, history, Stopped
  <2>2. pc'["command"] = pc["command"]
    BY <1>21, QuitsEffect DEF PlaybackEnds, TypeOK, Workers
  <2> QED
    BY <2>1, <2>2 DEF SetterFacts, Shows
<1>22. CASE UNCHANGED vars
  BY <1>22 DEF vars, session, thread, history, SetterFacts, Shows, NotedTrack, Wanted,
     Off, Index
<1> QED
  BY NextCases, <1>1, <1>2, <1>3, <1>4, <1>5, <1>6, <1>7, <1>8, <1>9, <1>10, <1>11, <1>12,
     <1>13, <1>14, <1>15, <1>16, <1>17, <1>18, <1>19, <1>20, <1>21, <1>22

(***************************************************************************)
(* The invariant, and what follows from it.                                *)
(***************************************************************************)
\* At the start nothing is asked for, selected or noted.
LEMMA InitIInv == Init => IInv
<1> SUFFICES ASSUME Init PROVE IInv
  OBVIOUS
<1>1. NoTask \in Task
  <2>1. [k \in Kinds |-> 0] \in [Kinds -> Int]
    OBVIOUS
  <2> QED
    BY <2>1, TaskIsTask DEF NoTask, Item, Kinds
<1>2. TypeOK
  <2>1. [w \in Workers |-> 0] \in [Workers -> 0..MaxAttempts]
    BY BoundsAssumption
  <2> QED
    BY <1>1, <2>1, StoppedIsPlayer DEF Init, TypeOK
<1>3. ThreadFacts /\ AskedFacts /\ StartupSelectsWhatWasAsked
  BY DEF Init, ThreadFacts, Begun, AskedFacts, StartupSelectsWhatWasAsked, Workers
<1>4. ItemFacts
  BY DEF Init, ItemFacts, Read, Stopped, Workers
<1>5. CommandFacts
  <2>1. task["command"].began = 0 /\ pc["command"] = "none" /\ attempts["command"] = 0
        /\ playbacks = 0
    BY DEF Init, NoTask, Workers
  <2> QED
    BY <2>1 DEF CommandFacts
<1>6. SetterFacts
  <2>1. pc["command"] = "none" /\ playbacks = 0 /\ \A k \in Kinds : setter[k] = 0
    BY DEF Init, Workers
  <2> QED
    BY <2>1 DEF SetterFacts, Shows
<1> QED
  BY <1>2, <1>3, <1>4, <1>5, <1>6 DEF IInv

\* Every step keeps the invariant.
LEMMA IInvStep == IInv /\ [Next]_vars => IInv'
  BY TypingStep, ThreadStep, ItemStep, AskedStep, StartupSelectsStep, CommandStep,
     SetterStep DEF IInv

\* In every reachable state the session, the two threads and the player are in accord:
\* what is played is what the session's request names, and the player shows what a
\* command has selected until somebody else selects.
THEOREM Invariance == Spec => []IInv
  BY InitIInv, IInvStep, PTL DEF Spec

\* Every variable keeps its type, for every library, every request and any number of
\* playbacks, commands and attempts.
THEOREM TypeCorrect == Spec => []TypeOK
<1>1. IInv => TypeOK
  BY DEF IInv
<1> QED
  BY <1>1, Invariance, PTL

\* A startup selects the tracks of its own request, or those chosen since it was made,
\* unless a command for an earlier playback was noted in it.
THEOREM TracksAskedFor == Spec => []StartupSelectsWhatWasAsked
<1>1. IInv => StartupSelectsWhatWasAsked
  BY DEF IInv
<1> QED
  BY <1>1, Invariance, PTL

\* What the session has noted is what the player shows, when a command of this playback
\* was the last to select the track.
THEOREM NotesAreTrue == Spec => []NotedIsSelected
<1>1. IInv => NotedIsSelected
  BY DEF IInv, SetterFacts, Shows, NotedTrack, NotedIsSelected
<1> QED
  BY <1>1, Invariance, PTL

\* A list that is to be played from its head names one item to all of its readers.
LEMMA HeadIsHead ==
    ASSUME NEW r \in Request, FromTheHead(r)
    PROVE  ParsedItem(r) = r.ids[1] /\ ComparedItem(r) = r.ids[1]
<1>1. r.list /\ r.start = 0
  BY DEF FromTheHead
<1>2. r.ids \in Seq(Seq(Nat) \ {<<>>}) /\ r.ids # <<>>
  BY DEF Request
<1>3. Len(r.ids) \in Nat \ {0} /\ r.ids[1] \in Seq(Nat)
  BY <1>2
<1>4. ParsedItem(r) = r.ids[1]
  BY <1>1, <1>3 DEF ParsedItem
<1>5. ComparedItem(r) = r.ids[1]
  BY <1>1, <1>3 DEF ComparedItem
<1> QED
  BY <1>4, <1>5

\* A request for a list played from its head is refused only while that very item is
\* started or played, or a thread has died reading its request.
THEOREM RefusalsAreDeserved == Spec => []RefusedIsUnderWay
<1>1. IInv => RefusedIsUnderWay
  <2> SUFFICES ASSUME IInv, NEW r \in Requests,
                      Refused(r), FromTheHead(r), FromTheHead(current),
                      ~(playstate = "Loading" /\ pc["startup"] = "none")
               PROVE  pc["startup"] # "none" /\ ParsedItem(current) = ParsedItem(r)
    BY DEF RefusedIsUnderWay
  <2>1. playstate \in {"Loading", "Playing"} /\ current # None
    BY DEF Refused, IInv, TypeOK
  <2>2. pc["startup"] # "none" /\ current \in Request
    BY <2>1 DEF IInv, TypeOK, ThreadFacts
  <2>3. r \in Request /\ ComparedItem(current) = ComparedItem(r)
    BY EmbyAssumption DEF Refused, IsSameItem
  <2> QED
    BY <2>2, <2>3, HeadIsHead
<1> QED
  BY <1>1, Invariance, PTL

===============================================================================
