--------------------------- MODULE MonitoredSession ---------------------------
(***************************************************************************)
(* _check_state of the Emby WebSocket client: how the bridge notices that  *)
(* the client it monitors has started an item, and hands the item over to  *)
(* the playback application service, once.                                 *)
(*                                                                         *)
(* Emby sends a snapshot of its sessions every 1.5 seconds.  The thread of *)
(* the WebSocket handles one message after the other, and may wait up to a *)
(* minute inside one; snapshots queue up meanwhile, and are read late.     *)
(* What the bridge remembers is the title of what it saw, MonitoredState;  *)
(* an exception raised anywhere while it looks at a snapshot is how it     *)
(* finds out that the client plays nothing.                                *)
(***************************************************************************)
EXTENDS Integers, Sequences

CONSTANTS
    Titles,        \* names of items
    Copies,        \* tells items of the same name apart
    ActiveTitles,  \* titles of the active libraries
    Nothing,       \* no item, no title
    MaxViewings,   \* bound on how often the client starts an item
    MaxInbox       \* bound on snapshots sent and not yet read

ASSUME ItemsAssumption ==
    /\ ActiveTitles \subseteq Titles
    /\ Nothing \notin Titles \cup (Titles \X Copies)
ASSUME BoundsAssumption == {MaxViewings, MaxInbox} \subseteq Nat \ {0}

Items == Titles \X Copies
Title(item) == item[1]
Viewings == 1..MaxViewings

VARIABLES
    client,     \* what the monitored client plays
    viewing,    \* history: how often the client has started an item
    inbox,      \* the messages on their way: what a snapshot says, and its viewing
    pc,         \* where in _check_state the thread is
    snapshot,   \* item_data: the message in work
    loaded,     \* item_data_list # None: the details of the item arrived
    monitored,  \* MonitoredState
    playstate,  \* EmbySession.playstate
    current,    \* the item of EmbySession.currentdata
    starting,   \* items of threads that were started and have not begun
    requests    \* history: the viewings that were handed over, in order

emby == <<client, viewing, inbox>>
bridge == <<playstate, current, starting>>
vars == <<emby, pc, snapshot, loaded, monitored, bridge, requests>>

Snapshots == [item : Items \cup {Nothing}, viewing : 0..MaxViewings]

TypeOK ==
    /\ client \in Items \cup {Nothing}
    /\ viewing \in 0..MaxViewings
    /\ inbox \in Seq(Snapshots) /\ Len(inbox) <= MaxInbox
    /\ pc \in {"read", "recognise", "library", "ask", "wait"}
    /\ snapshot \in Snapshots
    /\ loaded \in BOOLEAN
    /\ monitored \in Titles \cup {Nothing}
    /\ playstate \in {"Free", "Loading", "Playing"}
    /\ current \in Items \cup {Nothing}
    /\ starting \subseteq Items
    /\ requests \in Seq(0..MaxViewings)

Init ==
    /\ client = Nothing
    /\ viewing = 0
    /\ inbox = << >>
    /\ pc = "read"
    /\ snapshot = [item |-> Nothing, viewing |-> 0]
    /\ loaded = FALSE
    /\ monitored = Nothing
    /\ playstate = "Free"
    /\ current = Nothing
    /\ starting = {}
    /\ requests = << >>

-------------------------------------------------------------------------------
(* Emby and its client.                                                     *)

ClientPlays(item) ==
    /\ viewing < MaxViewings
    /\ client' = item
    /\ viewing' = viewing + 1
    /\ UNCHANGED <<inbox, pc, snapshot, loaded, monitored, bridge, requests>>

\* The viewer stops it, or the bridge does before it switches the television.
ClientStops ==
    /\ client # Nothing
    /\ client' = Nothing
    /\ UNCHANGED <<viewing, inbox, pc, snapshot, loaded, monitored, bridge, requests>>

SendSnapshot ==
    /\ Len(inbox) < MaxInbox
    /\ inbox' = Append(inbox, [item |-> client, viewing |-> viewing])
    /\ UNCHANGED <<client, viewing, pc, snapshot, loaded, monitored, bridge, requests>>

\* The connection is lost with what is on its way; run opens another, and
\* on_open asks for snapshots again.
Reconnect ==
    /\ pc = "read"
    /\ inbox # << >>
    /\ inbox' = << >>
    /\ UNCHANGED <<client, viewing, pc, snapshot, loaded, monitored, bridge, requests>>

-------------------------------------------------------------------------------
(* The playback service, as far as this component reads it.                 *)

BridgeActive == playstate \in {"Loading", "Playing", "Replay"}

\* A playback of this component, or of another caller, takes the session.
Begin(item) ==
    /\ playstate' = "Loading"
    /\ current' = item
    /\ UNCHANGED <<emby, pc, snapshot, loaded, monitored, requests>>
BeginOwn == \E item \in starting : Begin(item) /\ starting' = starting \ {item}
BeginOther == \E item \in Items : Begin(item) /\ UNCHANGED starting

BridgePlays ==
    /\ playstate = "Loading"
    /\ playstate' = "Playing"
    /\ UNCHANGED <<emby, pc, snapshot, loaded, monitored, current, starting, requests>>

BridgeEnds ==
    /\ BridgeActive
    /\ playstate' = "Free"
    /\ UNCHANGED <<emby, pc, snapshot, loaded, monitored, current, starting, requests>>

\* A replacement gives up because the playback it replaced ended in failure.
ReplacementSkipped ==
    /\ starting # {}
    /\ \E item \in starting : starting' = starting \ {item}
    /\ UNCHANGED <<emby, pc, snapshot, loaded, monitored, playstate, current, requests>>

-------------------------------------------------------------------------------
(* The thread of the WebSocket.                                             *)

\* Mutant: the title is kept while there is an item in currentdata, which no
\* end of a playback clears.
ForgetUnlessCurrent == monitored' = IF current # Nothing THEN monitored ELSE Nothing

\* The except branch: whatever raised, the client is taken to play nothing, and
\* the title is forgotten unless the bridge is what silenced the client.
Forget == monitored' = IF BridgeActive THEN monitored ELSE Nothing

Receive ==
    /\ pc = "read"
    /\ inbox # << >>
    /\ snapshot' = Head(inbox)
    /\ inbox' = Tail(inbox)
    /\ UNCHANGED <<client, viewing, bridge, requests>>

\* The client is not in the snapshot, or plays nothing: indexing raises.
ReadNothing ==
    /\ Receive
    /\ snapshot'.item = Nothing
    /\ Forget
    /\ UNCHANGED <<pc, loaded>>

\* The details of the item are asked for whatever the bridge remembers; the
\* answer may be missing.
ReadItem ==
    /\ Receive
    /\ snapshot'.item # Nothing
    /\ loaded' \in BOOLEAN
    /\ pc' = "recognise"
    /\ UNCHANGED monitored

\* The comparisons of the title: a new one is looked at only if none is
\* remembered; "continue" and "change" do nothing.
Recognise ==
    /\ pc = "recognise"
    /\ IF monitored = Nothing
       THEN monitored' = Title(snapshot.item) /\ pc' = "library"
       ELSE pc' = "read" /\ UNCHANGED monitored
    /\ UNCHANGED <<emby, snapshot, loaded, bridge, requests>>

\* Mutant: only a title of an active library is remembered.
NotInLibraryForgotten ==
    /\ pc = "library"
    /\ Title(snapshot.item) \notin ActiveTitles
    /\ monitored' = Nothing
    /\ pc' = "read"
    /\ UNCHANGED <<emby, snapshot, loaded, bridge, requests>>

\* A title of no active library stays remembered.
NotInLibrary ==
    /\ pc = "library"
    /\ Title(snapshot.item) \notin ActiveTitles
    /\ pc' = "read"
    /\ UNCHANGED <<emby, snapshot, loaded, monitored, bridge, requests>>

FoundInLibrary ==
    /\ pc = "library"
    /\ Title(snapshot.item) \in ActiveTitles
    /\ loaded
    /\ pc' = "ask"
    /\ UNCHANGED <<emby, snapshot, loaded, monitored, bridge, requests>>

\* The query of a library raised, or the details are missing.
LookupFails ==
    /\ pc = "library"
    /\ Forget
    /\ pc' = "read"
    /\ UNCHANGED <<emby, snapshot, loaded, bridge, requests>>

HandOver == requests' = Append(requests, snapshot.viewing)

\* Mutant: the title is forgotten as soon as it was handed over.
AskAndForget ==
    /\ pc = "ask"
    /\ HandOver
    /\ monitored' = Nothing
    /\ pc' = IF BridgeActive /\ current = snapshot.item THEN "read" ELSE "wait"
    /\ UNCHANGED <<emby, snapshot, loaded, bridge>>

Ask ==
    /\ pc = "ask"
    /\ HandOver
    /\ pc' = IF BridgeActive /\ current = snapshot.item THEN "read" ELSE "wait"
    /\ UNCHANGED <<emby, snapshot, loaded, monitored, bridge>>

\* request_playback waits while the bridge is loading, for a minute at most;
\* both a start and a replacement end in a thread that begins, unless another
\* replacement is under way or its predecessor fails (ReplacementSkipped).
Decide ==
    /\ pc = "wait"
    /\ starting' = starting \cup {snapshot.item}
    /\ pc' = "read"
    /\ UNCHANGED <<emby, snapshot, loaded, monitored, playstate, current, requests>>

CheckState ==
    \/ ReadNothing
    \/ ReadItem
    \/ Recognise
    \/ NotInLibrary
    \/ FoundInLibrary
    \/ LookupFails
    \/ Ask
    \/ Decide

Next ==
    \/ \E item \in Items : ClientPlays(item)
    \/ ClientStops
    \/ SendSnapshot
    \/ Reconnect
    \/ BeginOwn
    \/ BeginOther
    \/ BridgePlays
    \/ BridgeEnds
    \/ ReplacementSkipped
    \/ CheckState

\* Assumed of Emby: it keeps sending, connections last long enough to read from,
\* and a query is answered or fails, and answered now and then.  The queries
\* have no timeout, so this is not something the bridge could enforce.
EmbyServes ==
    /\ WF_vars(SendSnapshot)
    /\ SF_vars(ReadNothing)
    /\ SF_vars(ReadItem /\ loaded')
    /\ SF_vars(NotInLibrary)
    /\ SF_vars(FoundInLibrary)
    /\ WF_vars(LookupFails)

\* The thread of the WebSocket runs, and its wait is bounded by a minute.
ThreadRuns == WF_vars(Recognise) /\ WF_vars(Ask) /\ WF_vars(Decide)

Spec == Init /\ [][Next]_vars
FairSpec == Spec /\ EmbyServes /\ ThreadRuns

-------------------------------------------------------------------------------
(* Properties.                                                              *)

\* Viewings are handed over in the order they happened, and each at most once:
\* snapshots that are read late, repeated every 1.5 seconds, lost with their
\* connection or cut short by an exception never make the bridge start twice
\* what the viewer started once (_check_state and MonitoredState).
HandedOverInOrder ==
    \A i, j \in DOMAIN requests : i < j => requests[i] < requests[j]

\* What the client goes on playing is handed over if the bridge keeps coming
\* back to remembering nothing: only a title that stays remembered can hide a
\* viewing (its own, if its library is not active, or an older one); no failed
\* query and no lost connection can, as _check_state tries again with every
\* snapshot.
WatchedIsHandedOver ==
    \A v \in Viewings :
        <>[](viewing = v /\ client # Nothing) /\ []<>(pc = "read" /\ monitored = Nothing)
            => <>(\E i \in DOMAIN requests : requests[i] = v)

\* When the client and the bridge have both fallen silent the title is forgotten,
\* and the next viewing will be noticed (the except branch of _check_state).
SilenceIsNoticed ==
    <>[](client = Nothing /\ playstate = "Free") => <>[](monitored = Nothing)

-------------------------------------------------------------------------------
(***************************************************************************)
(* The inductive invariant of module MonitoredSession_proofs.              *)
(***************************************************************************)

\* A later snapshot tells of the same viewing or of a later one; after silence,
\* only of a later one.
Follows(earlier, later) ==
    /\ earlier.viewing <= later.viewing
    /\ earlier.item = Nothing /\ later.item # Nothing => earlier.viewing < later.viewing

Now == [item |-> client, viewing |-> viewing]

InOrder ==
    /\ Follows(snapshot, Now)
    /\ \A i \in DOMAIN inbox : Follows(snapshot, inbox[i]) /\ Follows(inbox[i], Now)
    /\ \A i, j \in DOMAIN inbox : i < j => Follows(inbox[i], inbox[j])

HandedOver(bound) == \A i \in DOMAIN requests : requests[i] <= bound

\* What is looked at as new has not been handed over; nor will what comes next be
\* what was, when no title is remembered.
NotHandedOver ==
    /\ HandedOver(snapshot.viewing)
    /\ pc # "read" => snapshot.item # Nothing
    /\ pc \in {"library", "ask"} => HandedOver(snapshot.viewing - 1)
    /\ pc \in {"library", "ask", "wait"} => monitored # Nothing
    /\ monitored = Nothing /\ snapshot.item # Nothing => HandedOver(snapshot.viewing - 1)

IInv == TypeOK /\ InOrder /\ NotHandedOver /\ HandedOverInOrder

===============================================================================
