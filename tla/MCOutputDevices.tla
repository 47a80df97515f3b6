--------------------------- MODULE MCOutputDevices ----------------------------
(***************************************************************************)
(* The television and the receiver, one of them at a time: the two modules *)
(* share no state, so a behaviour in which both move shows nothing that    *)
(* the behaviours of each do not.  The other one rests in a state of its   *)
(* own.                                                                    *)
(***************************************************************************)
EXTENDS TelevisionReturn, AvInput

\* The delays of the code: 0, 0.5, 1, 2 and 3 seconds, in half seconds.
CodeDelays == <<0, 1, 2, 4, 6>>

VARIABLE moving

DevicesInit ==
    /\ Init /\ AvInit
    /\ \/ moving = "television" /\ target = "player" /\ input = "other"
       \/ moving = "receiver" /\ on /\ screen = Hdmi

DevicesNext ==
    \/ moving = "television" /\ Next /\ UNCHANGED <<moving, avVars>>
    \/ moving = "receiver" /\ AvNext /\ UNCHANGED <<moving, vars>>

DevicesSpec == DevicesInit /\ [][DevicesNext]_<<moving, vars, avVars>>

===============================================================================
