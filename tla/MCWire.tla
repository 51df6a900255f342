------------------------------- MODULE MCWire -------------------------------
(* A session's carrier, end to end and side by side: the place the page's server keeps for it, the
   server's relay, the browser's leg, and the datagrams' ring.  A behaviour is one of them, picked
   at the start; the others stay as they began.  Lanes has the sessions, and Bridge what happens in
   one. *)
EXTENDS Lanes, Bridge, WsLeg, RxRing

VARIABLE part

serverVars == <<lanesVars, bridgeVars>>
browserVars == <<legVars, ringVars>>
vars == <<part, serverVars, browserVars>>

Init ==
    /\ part \in {"lanes", "bridge", "leg", "ring"}
    /\ LanesInit /\ BridgeInit /\ WsLegInit /\ RingInit

Next ==
    \/ part = "lanes" /\ LanesNext /\ UNCHANGED <<part, bridgeVars, browserVars>>
    \/ part = "bridge" /\ BridgeNext /\ UNCHANGED <<part, lanesVars, browserVars>>
    \/ part = "leg" /\ WsLegNext /\ UNCHANGED <<part, serverVars, ringVars>>
    \/ part = "ring" /\ RingNext /\ UNCHANGED <<part, serverVars, legVars>>

(* What is fair of a component changes nothing before its first step. *)
Fair == LanesFair /\ BridgeFair /\ WsLegFair /\ RingFair

Spec == Init /\ [][Next]_vars /\ Fair

TypeOK == LanesTypeOK /\ BridgeTypeOK /\ WsLegTypeOK /\ RingTypeOK

(* What a page leaves, the server lets go of: the place of a ceremony, and the relay of a browser
   that is gone or a host that closed. *)
ServerLetsGo == PairingGivesBack /\ SessionEnds
=============================================================================
