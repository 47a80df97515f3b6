--------------------------- MODULE PlaybackPromise ---------------------------
(***************************************************************************)
(* What one orchestrated playback promises to the application service that *)
(* runs it, whatever the devices do: it starts, plays and finishes, or it  *)
(* goes through error recovery, and it says which.  A playback that ends   *)
(* cleanly may leave the television and the receiver on the player, for    *)
(* the playback that replaces it; one that fails never means to, though    *)
(* the steps of its recovery that return them may fail.                    *)
(***************************************************************************)

VARIABLES
    phase,  \* where the playback stands
    kept    \* the outputs stay on the player when it has finished

vars == <<phase, kept>>

Phases == {"starting", "playing", "finishing", "recovering", "clean", "failed"}

Running == {"starting", "playing", "finishing", "recovering"}

TypeOK == phase \in Phases /\ kept \in BOOLEAN

Init == phase = "starting" /\ kept = FALSE

\* The player reports active playback and Emby has been told.
Begin ==
    /\ phase = "starting"
    /\ phase' = "playing"
    /\ UNCHANGED kept

\* The player has stopped.  Whether the outputs stay on it is decided here.
Finish ==
    /\ phase = "playing"
    /\ phase' = "finishing"
    /\ kept' \in BOOLEAN

Fail ==
    /\ phase \in {"starting", "playing", "finishing"}
    /\ phase' = "recovering"
    /\ kept' = FALSE

EndCleanly ==
    /\ phase = "finishing"
    /\ phase' = "clean"
    /\ UNCHANGED kept

EndRecovered ==
    /\ phase = "recovering"
    /\ phase' = "failed"
    /\ UNCHANGED kept

Next == Begin \/ Finish \/ Fail \/ EndCleanly \/ EndRecovered

\* Nothing bounds how long a playback plays; everything else terminates.
Fairness ==
    /\ WF_vars(phase = "starting" /\ Next)
    /\ WF_vars(phase = "finishing" /\ Next)
    /\ WF_vars(phase = "recovering" /\ Next)

Spec == Init /\ [][Next]_vars

FairSpec == Spec /\ Fairness

===============================================================================
