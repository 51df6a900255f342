-------------------------------- MODULE Pads --------------------------------
(***************************************************************************)
(* A game pad of packages/stream: InputPipe polls it (src/input.ts), and   *)
(* rust/input.rs sends what changed, as a snapshot and again each REFRESH  *)
(* to a host that takes snapshots, else as transitions.  Datagrams get     *)
(* lost and overtake each other; by its sequence number a host drops a     *)
(* snapshot older than the last it took.  What a pad's buttons and sticks  *)
(* say is one value.                                                       *)
(***************************************************************************)
EXTENDS Integers, Sequences, SequencesExt

CONSTANTS
    MaxChanges,     \* bound: what the person does with the pad
    MaxLost,        \* bound: datagrams lost
    PadsInFlight    \* bound: datagrams on the way

ASSUME PadsAssumption == MaxChanges \in Nat /\ MaxLost \in Nat /\ PadsInFlight \in Nat \ {0}

VARIABLES
    pad,        \* the person's: plugged in, what it says; changes left
    last,       \* Pads.last: what was last sent, or none
    snapshots,  \* the host takes snapshots: HOST_CAP_GAMEPAD_STATE
    air,        \* datagrams a host would still take, oldest first; those it may lose
    hostPad     \* what the host's virtual pad says

padVars == <<pad, last, snapshots, air, hostPad>>

PadsInit ==
    /\ pad = [on |-> FALSE, says |-> "rest", left |-> MaxChanges]
    /\ last = "none" /\ snapshots \in BOOLEAN /\ air = [sent |-> <<>>, lose |-> MaxLost] /\ hostPad = "gone"

Sends(what) ==
    /\ Len(air.sent) < PadsInFlight /\ air' = [air EXCEPT !.sent = Append(@, what)]
    /\ UNCHANGED <<snapshots, hostPad>>

(* The person presses, moves or lets go; plugs it in: arrive; pulls it out: leave. *)
PadChanges(says) ==
    /\ pad.left > 0 /\ pad.says # says /\ pad' = [pad EXCEPT !.says = says, !.left = @ - 1]
    /\ UNCHANGED <<last, snapshots, air, hostPad>>
PadArrives ==
    /\ pad.left > 0 /\ ~pad.on /\ pad' = [pad EXCEPT !.on = TRUE, !.left = @ - 1] /\ last' = "none"
    /\ UNCHANGED <<snapshots, air, hostPad>>
PadLeaves ==
    /\ pad.left > 0 /\ pad.on /\ pad' = [pad EXCEPT !.on = FALSE, !.left = @ - 1] /\ last' = "none"
    /\ Sends("gone")

DueNever(due) == FALSE   \* mutant
Due(due) == snapshots /\ due

(* pf_gamepad: what changed, or what is due again. *)
SendPad(says, due) ==
    /\ pad.on /\ (last # says \/ Due(due))
    /\ last' = says /\ Sends(says)

Poll(due) == SendPad(pad.says, due) /\ UNCHANGED pad
(* release(): the window lost the focus. *)
LetGo(due) == pad.left > 0 /\ SendPad("rest", due) /\ pad' = [pad EXCEPT !.left = @ - 1]

(* A snapshot older than one taken is dropped; a transition is not. *)
HostTakes(i) ==
    /\ i \in DOMAIN air.sent /\ hostPad' = air.sent[i]
    /\ air' = [air EXCEPT !.sent = IF snapshots THEN SubSeq(@, i + 1, Len(@)) ELSE RemoveAt(@, i)]
    /\ UNCHANGED <<pad, last, snapshots>>
Lost(i) ==
    /\ i \in DOMAIN air.sent /\ air.lose > 0
    /\ air' = [sent |-> RemoveAt(air.sent, i), lose |-> air.lose - 1]
    /\ UNCHANGED <<pad, last, snapshots, hostPad>>

PadsNext ==
    \/ \E says \in {"rest", "pressed"} : PadChanges(says)
    \/ PadArrives \/ PadLeaves
    \/ \E due \in BOOLEAN : Poll(due) \/ LetGo(due)
    \/ \E i \in 1..PadsInFlight : HostTakes(i) \/ Lost(i)

(* Frames are drawn, so a snapshot gets due; a datagram not lost arrives. *)
PadsFair == WF_padVars(Poll(TRUE)) /\ WF_padVars(HostTakes(1))

PadsSpec == PadsInit /\ [][PadsNext]_padVars /\ PadsFair

PadsTypeOK ==
    /\ pad.left \in 0..MaxChanges /\ pad.says \in {"rest", "pressed"} /\ hostPad \in {"rest", "pressed", "gone"}
    /\ last \in {"none", "rest", "pressed"} /\ Len(air.sent) <= PadsInFlight

(* "a datagram the network drops would otherwise hold its button or stick until the pad next
   moves" (REFRESH): once the person is done with the pad, a host that takes snapshots comes to
   have it as it is, whatever was lost or overtaken. *)
PadSettles == <>[](snapshots /\ pad.on => hostPad = pad.says)
=============================================================================
