----------------------- MODULE MonitoredSession_proofs ------------------------
(***************************************************************************)
(* Proofs about MonitoredSession, for any items, any number of viewings    *)
(* and any number of snapshots on their way.                               *)
(*                                                                         *)
(* A snapshot is read after the next viewing has begun, or several times,  *)
(* and what it says is judged by a title only.  Why no viewing is handed   *)
(* over twice: the snapshots arrive in their order (InOrder), and a title  *)
(* is forgotten only when a snapshot tells of silence, after which every   *)
(* item belongs to a later viewing, or before its viewing was handed over  *)
(* (NotHandedOver).                                                        *)
(***************************************************************************)
EXTENDS MonitoredSession, TLAPS

\* What a step may be, each action by its name.
LEMMA NextCases ==
    ASSUME [Next]_vars
    PROVE  \/ \E item \in Items : ClientPlays(item)
           \/ ClientStops \/ SendSnapshot \/ Reconnect
           \/ BeginOwn \/ BeginOther \/ BridgePlays \/ BridgeEnds \/ ReplacementSkipped
           \/ ReadNothing \/ ReadItem \/ Recognise \/ NotInLibrary \/ FoundInLibrary
           \/ LookupFails \/ Ask \/ Decide
           \/ UNCHANGED vars
  BY DEF Next, CheckState

\* An item is not Nothing, and neither is its title.
LEMMA ItemKinds ==
    /\ Nothing \notin Items
    /\ \A item \in Items : Title(item) \in Titles /\ Title(item) # Nothing
  BY ItemsAssumption DEF Items, Title

\* What is taken from the inbox, and what is left in it, are snapshots.
LEMMA ReceivedType ==
    ASSUME TypeOK, Receive
    PROVE  /\ inbox' \in Seq(Snapshots) /\ Len(inbox') <= MaxInbox
           /\ snapshot' \in Snapshots
  BY BoundsAssumption DEF TypeOK, Receive

LEMMA TypingStep == TypeOK /\ NotHandedOver /\ [Next]_vars => TypeOK'
<1> SUFFICES ASSUME TypeOK, NotHandedOver, [Next]_vars PROVE TypeOK'
    OBVIOUS
<1> USE DEF TypeOK
<1>1. ASSUME NEW item \in Items, ClientPlays(item) PROVE TypeOK'
    BY <1>1, BoundsAssumption DEF ClientPlays, bridge
<1>2. CASE ClientStops
    BY <1>2 DEF ClientStops, bridge
<1>3. CASE SendSnapshot
  <2>1. [item |-> client, viewing |-> viewing] \in Snapshots
    BY DEF Snapshots
  <2>2. inbox' \in Seq(Snapshots) /\ Len(inbox') <= MaxInbox
    BY <1>3, <2>1, BoundsAssumption DEF SendSnapshot
  <2> QED
    BY <1>3, <2>2 DEF SendSnapshot, bridge
<1>4. CASE Reconnect
    BY <1>4, BoundsAssumption DEF Reconnect, bridge
<1>5. CASE BeginOwn
    BY <1>5 DEF BeginOwn, Begin, emby
<1>6. CASE BeginOther
    BY <1>6 DEF BeginOther, Begin, emby
<1>7. CASE BridgePlays
    BY <1>7 DEF BridgePlays, emby
<1>8. CASE BridgeEnds
    BY <1>8 DEF BridgeEnds, emby
<1>9. CASE ReplacementSkipped
    BY <1>9 DEF ReplacementSkipped, emby
<1>10. CASE ReadNothing
    BY <1>10, ReceivedType DEF ReadNothing, Receive, Forget, bridge
<1>11. CASE ReadItem
    BY <1>11, ReceivedType DEF ReadItem, Receive, bridge
<1>12. CASE Recognise
  <2>1. Title(snapshot.item) \in Titles
    BY <1>12, ItemKinds DEF Recognise, NotHandedOver, Snapshots
  <2> QED
    BY <1>12, <2>1 DEF Recognise, emby, bridge
<1>13. CASE NotInLibrary
    BY <1>13 DEF NotInLibrary, emby, bridge
<1>14. CASE FoundInLibrary
    BY <1>14 DEF FoundInLibrary, emby, bridge
<1>15. CASE LookupFails
    BY <1>15 DEF LookupFails, Forget, emby, bridge
<1>16. CASE Ask
  <2>1. snapshot.viewing \in 0..MaxViewings
    BY DEF Snapshots
  <2> QED
    BY <1>16, <2>1 DEF Ask, HandOver, emby, bridge
<1>17. CASE Decide
  <2>1. snapshot.item \in Items
    BY <1>17 DEF Decide, NotHandedOver, Snapshots
  <2> QED
    BY <1>17, <2>1 DEF Decide, emby
<1>18. CASE UNCHANGED vars
    BY <1>18 DEF vars, emby, bridge
<1> QED
    BY NextCases, <1>1, <1>2, <1>3, <1>4, <1>5, <1>6, <1>7, <1>8, <1>9, <1>10, <1>11,
       <1>12, <1>13, <1>14, <1>15, <1>16, <1>17, <1>18

-------------------------------------------------------------------------------
(***************************************************************************)
(* The order of the snapshots.                                             *)
(***************************************************************************)

\* What follows something that follows this one follows it too.
LEMMA FollowsTransitive ==
    ASSUME NEW a, NEW b, NEW c, {a.viewing, b.viewing, c.viewing} \subseteq Int,
           Follows(a, b), Follows(b, c)
    PROVE  Follows(a, c)
  BY DEF Follows

\* The oldest snapshot is read, and the others stay behind it.
LEMMA ReceiveOrder ==
    ASSUME TypeOK, InOrder, Receive
    PROVE  InOrder' /\ Follows(snapshot, snapshot')
<1>1. /\ inbox \in Seq(Snapshots) /\ Len(inbox) \in Nat \ {0}
      /\ snapshot' = inbox[1] /\ 1 \in DOMAIN inbox /\ Now' = Now
    BY DEF TypeOK, Receive, Now
<1>2. /\ Len(inbox') = Len(inbox) - 1 /\ DOMAIN inbox' = 1..Len(inbox) - 1
      /\ \A i \in DOMAIN inbox' : i + 1 \in DOMAIN inbox /\ inbox'[i] = inbox[i + 1]
    BY <1>1 DEF Receive
<1>3. Follows(snapshot', Now') /\ Follows(snapshot, snapshot')
    BY <1>1 DEF InOrder
<1>4. ASSUME NEW i \in DOMAIN inbox' PROVE Follows(snapshot', inbox'[i]) /\ Follows(inbox'[i], Now')
  <2>1. 1 < i + 1
    BY <1>2
  <2> QED
    BY <1>1, <1>2, <1>4, <2>1 DEF InOrder
<1>5. ASSUME NEW i \in DOMAIN inbox', NEW j \in DOMAIN inbox', i < j
      PROVE  Follows(inbox'[i], inbox'[j])
  <2>1. i + 1 < j + 1
    BY <1>2, <1>5
  <2> QED
    BY <1>2, <1>5, <2>1 DEF InOrder
<1>6. InOrder'
  <2>1. \A i \in DOMAIN inbox' : Follows(snapshot', inbox'[i]) /\ Follows(inbox'[i], Now')
    BY <1>4
  <2>2. \A i, j \in DOMAIN inbox' : i < j => Follows(inbox'[i], inbox'[j])
    BY <1>5
  <2> QED
    BY <1>3, <2>1, <2>2 DEF InOrder, Follows, Now
<1> QED
    BY <1>3, <1>6

\* What the client plays next follows all that was ever sent.
LEMMA ClientOrder ==
    ASSUME TypeOK, InOrder, Follows(Now, Now'), inbox' = inbox, snapshot' = snapshot,
           viewing' \in Int
    PROVE  InOrder'
<1>1. snapshot \in Snapshots /\ \A i \in DOMAIN inbox : inbox[i] \in Snapshots
    BY DEF TypeOK
<1>2. \A s \in Snapshots : s.viewing \in Int
    BY DEF Snapshots
<1>3. Now.viewing \in Int /\ Now'.viewing \in Int
    BY DEF Now, TypeOK
<1>4. Follows(snapshot, Now')
    BY <1>1, <1>2, <1>3, FollowsTransitive DEF InOrder
<1>5. \A i \in DOMAIN inbox : Follows(inbox[i], Now')
    BY <1>1, <1>2, <1>3, FollowsTransitive DEF InOrder
<1> QED
    BY <1>4, <1>5 DEF InOrder, Follows, Now

LEMMA OrderStep == TypeOK /\ InOrder /\ [Next]_vars => InOrder'
<1> SUFFICES ASSUME TypeOK, InOrder, [Next]_vars PROVE InOrder'
    OBVIOUS
<1>1. ASSUME NEW item \in Items, ClientPlays(item) PROVE InOrder'
  <2>1. Follows(Now, Now') /\ viewing' \in Int
    BY <1>1 DEF ClientPlays, Follows, Now, TypeOK
  <2> QED
    BY <1>1, <2>1, ClientOrder DEF ClientPlays
<1>2. CASE ClientStops
  <2>1. Follows(Now, Now') /\ viewing' \in Int
    BY <1>2, BoundsAssumption DEF ClientStops, Follows, Now, TypeOK
  <2> QED
    BY <1>2, <2>1, ClientOrder DEF ClientStops
<1>3. CASE SendSnapshot
  <2>1. /\ inbox' = Append(inbox, Now) /\ Now' = Now /\ snapshot' = snapshot
        /\ inbox \in Seq(Snapshots) /\ viewing \in Int
    BY <1>3 DEF SendSnapshot, Now, TypeOK
  <2>2. Follows(Now, Now)
    BY <2>1 DEF Follows, Now
  <2>3. \A i \in DOMAIN inbox' : \/ i \in DOMAIN inbox /\ inbox'[i] = inbox[i]
                                 \/ i = Len(inbox) + 1 /\ inbox'[i] = Now
    BY <2>1
  <2>4. DOMAIN inbox = 1..Len(inbox) /\ DOMAIN inbox' = 1..Len(inbox) + 1 /\ Len(inbox) \in Nat
    BY <2>1
  <2>5. \A i \in DOMAIN inbox' : Follows(snapshot', inbox'[i]) /\ Follows(inbox'[i], Now')
    BY <2>1, <2>2, <2>3 DEF InOrder
  <2>6. ASSUME NEW i \in DOMAIN inbox', NEW j \in DOMAIN inbox', i < j
        PROVE  Follows(inbox'[i], inbox'[j])
    <3>1. i \in DOMAIN inbox /\ inbox'[i] = inbox[i]
      BY <2>3, <2>4, <2>6
    <3> QED
      BY <2>3, <2>6, <3>1 DEF InOrder
  <2>7. \A i, j \in DOMAIN inbox' : i < j => Follows(inbox'[i], inbox'[j])
    BY <2>6
  <2>8. Follows(snapshot', Now')
    BY <2>1 DEF InOrder
  <2> QED
    BY <2>5, <2>7, <2>8 DEF InOrder, Follows, Now
<1>4. CASE Reconnect
    BY <1>4 DEF Reconnect, InOrder, Follows, Now
<1>5. CASE ReadNothing \/ ReadItem
    BY <1>5, ReceiveOrder DEF ReadNothing, ReadItem
<1>6. CASE /\ UNCHANGED <<emby, snapshot>>
    BY <1>6 DEF emby, InOrder, Follows, Now
<1>7. ASSUME \/ BeginOwn \/ BeginOther \/ BridgePlays \/ BridgeEnds \/ ReplacementSkipped
             \/ Recognise \/ NotInLibrary \/ FoundInLibrary \/ LookupFails \/ Ask \/ Decide
             \/ UNCHANGED vars
      PROVE  UNCHANGED <<emby, snapshot>>
    BY <1>7 DEF BeginOwn, BeginOther, Begin, BridgePlays, BridgeEnds, ReplacementSkipped,
                Recognise, NotInLibrary, FoundInLibrary, LookupFails, Ask, Decide, vars
<1> QED
    BY NextCases, <1>1, <1>2, <1>3, <1>4, <1>5, <1>6, <1>7

-------------------------------------------------------------------------------
(***************************************************************************)
(* The viewings that were handed over.                                     *)
(***************************************************************************)

LEMMA RequestsAreNumbers ==
    ASSUME TypeOK
    PROVE  /\ \A i \in DOMAIN requests : requests[i] \in Int
           /\ snapshot.viewing \in Int
  BY BoundsAssumption DEF TypeOK, Snapshots

\* What holds up to one viewing holds up to a later one.
LEMMA HandedOverLater ==
    ASSUME TypeOK, NEW a \in Int, NEW b \in Int, a <= b, HandedOver(a)
    PROVE  HandedOver(b)
  BY RequestsAreNumbers DEF HandedOver

\* A snapshot is read: it tells of the viewing in work or of a later one, and after
\* silence of a later one.
LEMMA ReadStep ==
    ASSUME TypeOK, InOrder, NotHandedOver, ReadNothing \/ ReadItem, snapshot'.viewing \in Int
    PROVE  NotHandedOver'
<1>1. /\ snapshot.viewing <= snapshot'.viewing
      /\ snapshot.item = Nothing /\ snapshot'.item # Nothing => snapshot.viewing < snapshot'.viewing
    BY ReceiveOrder DEF ReadNothing, ReadItem, Follows
<1>2. snapshot.viewing \in Int /\ snapshot'.viewing \in Int
    BY RequestsAreNumbers
<1>3. requests' = requests
    BY DEF ReadNothing, ReadItem, Receive
<1>4. HandedOver(snapshot'.viewing)
    BY <1>1, <1>2, HandedOverLater DEF NotHandedOver
<1>5. CASE ReadNothing
  <2>1. pc' = "read" /\ snapshot'.item = Nothing
    BY <1>5 DEF ReadNothing, Receive
  <2> QED
    BY <1>3, <1>4, <2>1 DEF NotHandedOver, HandedOver
<1>6. CASE ReadItem
  <2>1. pc' = "recognise" /\ snapshot'.item # Nothing /\ monitored' = monitored
    BY <1>6 DEF ReadItem
  <2>2. ASSUME monitored = Nothing PROVE HandedOver(snapshot'.viewing - 1)
    <3>1. CASE snapshot.item = Nothing
      <4>1. snapshot.viewing <= snapshot'.viewing - 1
        BY <1>1, <1>2, <2>1, <3>1
      <4> QED
        BY <1>2, <4>1, HandedOverLater DEF NotHandedOver
    <3>2. CASE snapshot.item # Nothing
      <4>1. snapshot.viewing - 1 <= snapshot'.viewing - 1
        BY <1>1, <1>2
      <4> QED
        BY <1>2, <2>2, <3>2, <4>1, HandedOverLater DEF NotHandedOver
    <3> QED
      BY <3>1, <3>2
  <2> QED
    BY <1>3, <1>4, <2>1, <2>2 DEF NotHandedOver, HandedOver
<1> QED
    BY <1>5, <1>6

\* Handing over: what was handed over before is older.
LEMMA AskStep ==
    ASSUME TypeOK, NotHandedOver, HandedOverInOrder, Ask
    PROVE  NotHandedOver' /\ HandedOverInOrder'
<1> DEFINE n == Len(requests)
<1>1. /\ requests' = Append(requests, snapshot.viewing)
      /\ snapshot' = snapshot /\ monitored' = monitored /\ monitored # Nothing
      /\ pc' \in {"read", "wait"}
    BY DEF Ask, HandOver, NotHandedOver
<1>2. requests \in Seq(Int) /\ n \in Nat /\ snapshot.viewing \in Int
  <2>1. requests \in Seq(0..MaxViewings) /\ MaxViewings \in Nat
    BY BoundsAssumption DEF TypeOK
  <2> QED
    BY <2>1, RequestsAreNumbers
<1>3. DOMAIN requests = 1..n /\ DOMAIN requests' = 1..n + 1
    BY <1>1, <1>2
<1>4. /\ requests'[n + 1] = snapshot.viewing
      /\ \A i \in DOMAIN requests : requests'[i] = requests[i]
    BY <1>1, <1>2
<1>5. \A i \in DOMAIN requests : requests[i] < snapshot.viewing
    BY <1>2, RequestsAreNumbers DEF Ask, NotHandedOver, HandedOver
<1>6. HandedOverInOrder'
  <2>1. ASSUME NEW i \in DOMAIN requests', NEW j \in DOMAIN requests', i < j
        PROVE  requests'[i] < requests'[j]
    <3>1. i \in DOMAIN requests /\ (j \in DOMAIN requests \/ j = n + 1)
      BY <1>2, <1>3, <2>1
    <3> QED
      BY <1>4, <1>5, <2>1, <3>1 DEF HandedOverInOrder
  <2> QED
    BY <2>1 DEF HandedOverInOrder
<1>7. HandedOver(snapshot.viewing)'
  <2>1. ASSUME NEW i \in DOMAIN requests' PROVE requests'[i] <= snapshot.viewing
    <3>1. i \in DOMAIN requests \/ i = n + 1
      BY <1>2, <1>3
    <3>2. CASE i \in DOMAIN requests
      BY <1>4, <1>5, <1>2, <3>2, RequestsAreNumbers
    <3>3. CASE i = n + 1
      BY <1>2, <1>4, <3>3
    <3> QED
      BY <3>1, <3>2, <3>3
  <2> QED
    BY <1>1, <2>1 DEF HandedOver
<1>8. snapshot.item # Nothing
    BY DEF Ask, NotHandedOver
<1> QED
    BY <1>1, <1>6, <1>7, <1>8 DEF NotHandedOver

LEMMA HandOverStep ==
    ASSUME TypeOK, TypeOK', InOrder, NotHandedOver, HandedOverInOrder, [Next]_vars
    PROVE  NotHandedOver' /\ HandedOverInOrder'
<1>1. CASE UNCHANGED <<pc, snapshot, monitored, requests>>
    BY <1>1 DEF NotHandedOver, HandedOver, HandedOverInOrder
<1>2. ASSUME \/ \E item \in Items : ClientPlays(item)
             \/ ClientStops \/ SendSnapshot \/ Reconnect
             \/ BeginOwn \/ BeginOther \/ BridgePlays \/ BridgeEnds \/ ReplacementSkipped
             \/ UNCHANGED vars
      PROVE  UNCHANGED <<pc, snapshot, monitored, requests>>
    BY <1>2 DEF ClientPlays, ClientStops, SendSnapshot, Reconnect, BeginOwn, BeginOther, Begin,
                BridgePlays, BridgeEnds, ReplacementSkipped, vars
<1>3. CASE ReadNothing \/ ReadItem
  <2>1. requests' = requests
    BY <1>3 DEF ReadNothing, ReadItem, Receive
  <2>2. snapshot'.viewing \in Int
    BY DEF TypeOK, Snapshots
  <2> QED
    BY <1>3, <2>1, <2>2, ReadStep DEF HandedOverInOrder
<1>4. CASE Recognise
  <2>1. snapshot.item # Nothing /\ Title(snapshot.item) # Nothing
    BY <1>4, ItemKinds DEF Recognise, NotHandedOver, TypeOK, Snapshots
  <2> QED
    BY <1>4, <2>1 DEF Recognise, NotHandedOver, HandedOver, HandedOverInOrder
<1>5. CASE NotInLibrary
    BY <1>5 DEF NotInLibrary, NotHandedOver, HandedOver, HandedOverInOrder
<1>6. CASE FoundInLibrary
    BY <1>6 DEF FoundInLibrary, NotHandedOver, HandedOver, HandedOverInOrder
<1>7. CASE LookupFails
    BY <1>7 DEF LookupFails, Forget, NotHandedOver, HandedOver, HandedOverInOrder
<1>8. CASE Ask
    BY <1>8, AskStep
<1>9. CASE Decide
    BY <1>9 DEF Decide, NotHandedOver, HandedOver, HandedOverInOrder
<1> QED
    BY NextCases, <1>1, <1>2, <1>3, <1>4, <1>5, <1>6, <1>7, <1>8, <1>9

-------------------------------------------------------------------------------
\* The inductive invariant holds of every run.
THEOREM Invariance == Spec => []IInv
<1>1. Init => IInv
  <2> SUFFICES ASSUME Init PROVE IInv
    OBVIOUS
  <2>1. /\ DOMAIN inbox = {} /\ DOMAIN requests = {}
        /\ inbox \in Seq(Snapshots) /\ Len(inbox) = 0 /\ requests \in Seq(0..MaxViewings)
    BY DEF Init
  <2>2. snapshot \in Snapshots /\ 0 <= MaxInbox
    BY BoundsAssumption DEF Init, Snapshots
  <2>3. TypeOK
    <3>1. Len(inbox) <= MaxInbox /\ viewing \in 0..MaxViewings
      BY <2>1, BoundsAssumption DEF Init
    <3> QED
      BY <2>1, <2>2, <3>1 DEF Init, TypeOK
  <2>4. InOrder
    BY <2>1 DEF Init, InOrder, Follows, Now
  <2>5. NotHandedOver /\ HandedOverInOrder
    BY <2>1 DEF Init, NotHandedOver, HandedOver, HandedOverInOrder
  <2> QED
    BY <2>3, <2>4, <2>5 DEF IInv
<1>2. IInv /\ [Next]_vars => IInv'
  <2> SUFFICES ASSUME IInv, [Next]_vars PROVE IInv'
    OBVIOUS
  <2>1. TypeOK'
    BY TypingStep DEF IInv
  <2>2. InOrder'
    BY OrderStep DEF IInv
  <2>3. NotHandedOver' /\ HandedOverInOrder'
    BY <2>1, HandOverStep DEF IInv
  <2> QED
    BY <2>1, <2>2, <2>3 DEF IInv
<1> QED
    BY <1>1, <1>2, PTL DEF Spec

\* The thread of the WebSocket and what it remembers keep their types.
THEOREM TypeCorrect == Spec => []TypeOK
<1>1. IInv => TypeOK
    BY DEF IInv
<1> QED
    BY <1>1, Invariance, PTL

\* For any items and any number of viewings and snapshots: viewings are handed over
\* in their order, each at most once (_check_state and MonitoredState).
THEOREM InOrderOnce == Spec => []HandedOverInOrder
<1>1. IInv => HandedOverInOrder
    BY DEF IInv
<1> QED
    BY <1>1, Invariance, PTL

===============================================================================
