-------------------------------- MODULE WsLeg --------------------------------
(***************************************************************************)
(* The browser's leg of a bridged session (packages/stream/src/carrier:    *)
(* ws.ts, frame.ts): one WebSocket of a WsCarrier, its pings, and the one  *)
(* word the engine hears when it is over.  The page's server answers pings *)
(* once it has dialled the host; a TCP connection may die without a word.  *)
(***************************************************************************)
EXTENDS Integers

CONSTANT UNANSWERED   \* pings in a row without a pong: 10

ASSUME WsLegAssumption == UNANSWERED \in Nat \ {0}

VARIABLES
    leg,      \* WsCarrier: holds its socket (ws), live, unanswered
    socket,   \* the browser's: connecting, open, closing, closed
    link,     \* the TCP connection and the server behind it: dialling, bridged, dead
    pings,    \* a ping is on its way, or its pong
    told      \* history: what the engine heard, why the leg ended, pings since the last pong

legVars == <<leg, socket, link, pings, told>>

CountsAtOnce == 0   \* mutant
FirstCount == -1

WsLegInit ==
    /\ leg = [ws |-> TRUE, live |-> FALSE, unanswered |-> FirstCount]
    /\ socket = "connecting" /\ link = "dialling" /\ pings = FALSE
    /\ told = [closed |-> 0, rejected |-> 0, why |-> "none", quiet |-> 0, heard |-> FALSE]

HoldsSocket == [ws |-> TRUE, live |-> FALSE, unanswered |-> -1]   \* mutant
Stopped == [ws |-> FALSE, live |-> FALSE, unanswered |-> -1]

(* onopen: the pass, the pings' interval, the control stream. *)
LegOpens ==
    /\ socket = "connecting" /\ link # "dead" /\ socket' = "open"
    /\ leg' = IF leg.ws THEN [leg EXCEPT !.live = TRUE] ELSE leg
    /\ UNCHANGED <<link, pings, told>>

Lets == socket' = IF socket \in {"connecting", "open"} THEN "closing" ELSE socket

(* end *)
LegEnds(why) ==
    /\ leg' = Stopped /\ Lets
    /\ told' = [told EXCEPT !.closed = @ + 1, !.why = IF @ = "none" THEN why ELSE @]

PingNever == FALSE   \* mutant
NoAnswer == leg.unanswered >= UNANSWERED

PingTimer ==
    /\ leg.live /\ UNCHANGED link
    /\ IF NoAnswer THEN LegEnds("silence") /\ UNCHANGED pings
       ELSE /\ leg' = [leg EXCEPT !.unanswered = IF 0 <= @ /\ @ < UNANSWERED THEN @ + 1 ELSE @]
            /\ pings' = (pings \/ link # "dead")
            /\ told' = [told EXCEPT !.quiet = IF @ < UNANSWERED THEN @ + 1 ELSE @]
            /\ UNCHANGED socket

(* receive, of a pong. *)
Pong ==
    /\ pings /\ link = "bridged" /\ pings' = FALSE /\ UNCHANGED <<socket, link>>
    /\ IF leg.ws THEN leg' = [leg EXCEPT !.unanswered = 0] /\ told' = [told EXCEPT !.quiet = 0, !.heard = TRUE]
       ELSE UNCHANGED <<leg, told>>

(* receive, of tag 3 or of what decode refuses. *)
LastFrame(why) ==
    /\ socket = "open" /\ leg.ws /\ link # "dead" /\ LegEnds(why) /\ UNCHANGED <<link, pings>>

(* onclose *)
SocketCloses ==
    /\ socket # "closed" /\ socket' = "closed" /\ UNCHANGED <<link, pings>>
    /\ IF ~leg.ws THEN UNCHANGED <<leg, told>>
       ELSE /\ leg' = Stopped
            /\ told' = IF leg.live
                       THEN [told EXCEPT !.closed = @ + 1, !.why = IF @ = "none" THEN "socket" ELSE @]
                       ELSE [told EXCEPT !.rejected = @ + 1]

(* close: the page's own. *)
PageCloses ==
    /\ leg.ws /\ leg' = Stopped /\ Lets
    /\ told' = [told EXCEPT !.why = IF @ = "none" THEN "page" ELSE @] /\ UNCHANGED <<link, pings>>

LinkMoves ==
    /\ link' \in (IF link = "dialling" /\ socket = "open" THEN {"bridged"} ELSE {})
                 \cup (IF link # "dead" THEN {"dead"} ELSE {})
    /\ pings' = (pings /\ link' # "dead") /\ UNCHANGED <<leg, socket, told>>

WsLegNext ==
    \/ LegOpens \/ PingTimer \/ Pong \/ SocketCloses \/ PageCloses \/ LinkMoves
    \/ \E why \in {"host", "refused"} : LastFrame(why)

(* Timers run; a background tab only slows them. *)
WsLegFair == WF_legVars(PingTimer)
WsLegSpec == WsLegInit /\ [][WsLegNext]_legVars /\ WsLegFair

(***************************************************************************)
(* Correctness.                                                            *)
(***************************************************************************)
WsLegTypeOK ==
    /\ leg.unanswered \in -1..UNANSWERED /\ (leg.live => leg.ws)
    /\ socket \in {"connecting", "open", "closing", "closed"} /\ link \in {"dialling", "bridged", "dead"}

(* "The session is over: say so once": whatever ends the leg, and whatever its socket says after
   that, the engine hears at most one close, none of the page's own; and silence ends only a leg
   that had answered, never one whose server is "still dialling". *)
EndSaidOnce ==
    /\ told.closed + told.rejected <= 1
    /\ told.why = "page" => told.closed + told.rejected = 0
    /\ told.why = "silence" => told.heard /\ told.quiet = UNANSWERED

(* "A dead TCP leg says nothing: no pongs is how it shows": once it has answered, a leg whose
   connection died is over. *)
DeadLegEnds == (link = "dead" /\ told.heard /\ leg.live) ~> ~leg.live
=============================================================================
