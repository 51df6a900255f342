------------------------------- MODULE Bridge -------------------------------
(***************************************************************************)
(* One session of the bridge: relay of bridge.rs.  Pumps read the host's   *)
(* control stream, the streams it opens and its datagrams; one writer      *)
(* takes what they queue to the page's WebSocket, stream bytes first; and  *)
(* from_page reads the page.  It ends when the connection or the page      *)
(* does, and tells the page why.                                           *)
(*                                                                         *)
(* The host, QUIC and the WebSocket are outside src/.  The page may stop   *)
(* reading, and go.                                                        *)
(***************************************************************************)
EXTENDS Integers, Sequences

CONSTANTS
    QUEUE,         \* messages each of the two queues holds
    MaxChunks, MaxUnis   \* bounds: what the host sends of each

ASSUME BridgeAssumption == QUEUE \in Nat \ {0} /\ {MaxChunks, MaxUnis} \subseteq Nat

VARIABLES
    quic,       \* the connection to the host: open, or closed by app (the host), local or loss
    hostSent,   \* what the host has sent: control chunks, streams of its own
    read,       \* what the pumps have read of it
    pump,       \* control, uni, page: none, reads, holds (waits for room), ..., ended
    channels,     \* the two channels: reliable messages, and how many datagrams
    onSocket,       \* stream messages and closes on the page's socket, in order
    page,       \* reads, stalled, gone
    writer,     \* to_page: runs, ended
    relay,      \* relays, drains, flushes, over
    last,       \* what the end has yet to queue
    graced      \* history: a GRACE ran out

hostVars == <<quic, hostSent>>
bridgeVars == <<hostVars, read, pump, channels, onSocket, page, writer, relay, last, graced>>

None == [control |-> 0, uni |-> 0]

BridgeInit ==
    /\ quic = "open" /\ hostSent = None /\ read = None
    /\ pump = [control |-> "none", uni |-> "reads", page |-> "reads"]
    /\ channels = [reliable |-> <<>>, datagrams |-> 0]
    /\ onSocket = <<>> /\ page = "reads" /\ writer = "runs"
    /\ relay = "relays" /\ last = <<>> /\ graced = FALSE

Room == Len(channels.reliable) < QUEUE
Reliable(m) == channels' = [channels EXCEPT !.reliable = Append(@, m)]
Pumping == relay \in {"relays", "drains"}

(***************************************************************************)
(* The host and the link.                                                  *)
(***************************************************************************)
HostSends(kind) ==
    /\ quic = "open"
    /\ hostSent[kind] < IF kind = "control" THEN MaxChunks ELSE MaxUnis
    /\ kind = "control" => pump.control # "none"
    /\ hostSent' = [hostSent EXCEPT ![kind] = @ + 1]
    /\ UNCHANGED <<quic, read, pump, channels, onSocket, page, writer, relay, last, graced>>

(* The host closes; the link is lost; session's sleep ends a pairing session. *)
ConnCloses(how) ==
    /\ quic = "open" /\ quic' = how
    /\ how = "local" => relay = "relays"
    /\ UNCHANGED <<hostSent, read, pump, channels, onSocket, page, writer, relay, last, graced>>

(***************************************************************************)
(* The pumps.                                                              *)
(***************************************************************************)

(* host_control reads a chunk, host_unis a whole stream. *)
PumpReads(kind) ==
    /\ Pumping /\ pump[kind] = "reads" /\ read[kind] < hostSent[kind]
    /\ read' = [read EXCEPT ![kind] = @ + 1]
    /\ pump' = [pump EXCEPT ![kind] = "holds"]
    /\ UNCHANGED <<hostVars, channels, onSocket, page, writer, relay, last, graced>>

PumpDrops(kind) ==   \* mutant: a full queue drops, as a datagram's does
    /\ Pumping /\ pump[kind] = "holds" /\ pump' = [pump EXCEPT ![kind] = "reads"]
    /\ IF Room THEN Reliable(<<kind, read[kind]>>) ELSE UNCHANGED channels
    /\ UNCHANGED <<hostVars, read, onSocket, page, writer, relay, last, graced>>
(* `out.send(..).await`: waits for room; an ended writer ends the pump. *)
PumpSends(kind) ==
    /\ Pumping /\ pump[kind] = "holds"
    /\ \/ writer = "ended" /\ pump' = [pump EXCEPT ![kind] = "ended"] /\ UNCHANGED channels
       \/ writer = "runs" /\ Room /\ Reliable(<<kind, read[kind]>>) /\ pump' = [pump EXCEPT ![kind] = "reads"]
    /\ UNCHANGED <<hostVars, read, onSocket, page, writer, relay, last, graced>>

(* A pump ends with the connection; it may have read on first. *)
PumpEnds(kind) ==
    /\ Pumping /\ pump[kind] = "reads" /\ quic # "open"
    /\ pump' = [pump EXCEPT ![kind] = "ended"]
    /\ UNCHANGED <<hostVars, read, channels, onSocket, page, writer, relay, last, graced>>

(* host_datagrams: never waits.  One that a full queue or an ended writer drops leaves no trace. *)
DatagramRead ==
    /\ Pumping /\ channels.datagrams < QUEUE /\ writer = "runs"
    /\ channels' = [channels EXCEPT !.datagrams = @ + 1]
    /\ UNCHANGED <<hostVars, read, pump, onSocket, page, writer, relay, last, graced>>

(***************************************************************************)
(* to_page.                                                                *)
(***************************************************************************)
Onto(m) == onSocket' = IF m[1] = "pong" THEN onSocket ELSE Append(onSocket, m)

(* One message onto the socket, stream bytes before datagrams.  It ends after a close. *)
WriterSends ==
    /\ writer = "runs" /\ page = "reads"
    /\ \/ /\ channels.reliable # <<>> /\ Onto(Head(channels.reliable))
          /\ channels' = [channels EXCEPT !.reliable = Tail(@)]
          /\ writer' = IF Head(channels.reliable)[1] = "close" THEN "ended" ELSE "runs"
       \/ /\ channels.reliable = <<>> /\ channels.datagrams > 0
          /\ channels' = [channels EXCEPT !.datagrams = @ - 1] /\ UNCHANGED <<onSocket, writer>>
    /\ UNCHANGED <<hostVars, read, pump, page, relay, last, graced>>

(* A message, or the ping, that a socket without a page does not take. *)
WriterFails ==
    /\ writer = "runs" /\ page = "gone" /\ writer' = "ended"
    /\ UNCHANGED <<hostVars, read, pump, channels, onSocket, page, relay, last, graced>>

(***************************************************************************)
(* from_page, and how the relay ends.                                      *)
(***************************************************************************)
Over(how) ==
    CASE how = "app"      -> <<<<"tag3">>, <<"close", "normal">>>>
      [] how = "local"    -> <<<<"close", "again">>>>
      [] how = "loss"     -> <<<<"close", "error">>>>
      [] how = "left"     -> <<<<"close", "normal">>>>
      [] how = "protocol" -> <<<<"close", "protocol">>>>

(* drop(pumps): what one still held is gone with it. *)
Dropped == [kind \in DOMAIN pump |-> "ended"]
Flushes(how) ==
    /\ relay' = "flushes" /\ last' = Over(how)
    /\ pump' = Dropped

ConnEndedAtOnce ==   \* mutant: the pumps are not waited for
    /\ relay = "relays" /\ quic # "open" /\ Flushes(quic)
    /\ UNCHANGED <<hostVars, read, channels, onSocket, page, writer, graced>>
(* The connection is closed.  A host's close waits for the pumps. *)
ConnEnded ==
    /\ relay = "relays" /\ quic # "open"
    /\ IF quic = "app" THEN relay' = "drains" /\ pump' = [pump EXCEPT !.page = "ended"] /\ UNCHANGED last
       ELSE Flushes(quic)
    /\ UNCHANGED <<hostVars, read, channels, onSocket, page, writer, graced>>

(* from_page returns: a connection closed by then is what ended it. *)
PageEnds(end) ==
    IF quic # "open" THEN ConnEnded
    ELSE /\ Flushes(end) /\ quic' = "local"
         /\ UNCHANGED <<hostSent, read, channels, onSocket, page, writer, graced>>

PageReads == relay = "relays" /\ pump.page = "reads"

(* A close of the page; text, or a tag a page may not send; no message for three pings, or none
   ever again. *)
FromPageEnds(end) ==
    /\ PageReads /\ (end = "protocol" => page # "gone")
    /\ PageEnds(end)

PageNow(state) ==
    /\ pump' = [pump EXCEPT !.page = state]
    /\ UNCHANGED <<hostVars, read, channels, onSocket, page, writer, relay, last, graced>>

(* Control bytes: the first open the stream; the host takes them in its own time. *)
FromPageControl == PageReads /\ page # "gone" /\ PageNow(IF pump.control = "none" THEN "opens" ELSE "writes")
ControlOpens ==
    /\ relay = "relays" /\ pump.page = "opens"
    /\ \/ /\ quic = "open" /\ pump' = [pump EXCEPT !.page = "writes", !.control = "reads"]
          /\ UNCHANGED <<hostVars, read, channels, onSocket, page, writer, relay, last, graced>>
       \/ quic # "open" /\ PageEnds("left")
ControlWritten ==
    /\ relay = "relays" /\ pump.page = "writes"
    /\ IF quic = "open" THEN PageNow("reads") ELSE PageEnds("left")

(* A ping is answered through the same queue. *)
FromPagePing == PageReads /\ page # "gone" /\ PageNow("holds")
PongSends ==
    /\ relay = "relays" /\ pump.page = "holds"
    /\ \/ writer = "ended" /\ PageEnds("left")
       \/ /\ writer = "runs" /\ Room /\ Reliable(<<"pong">>) /\ pump' = [pump EXCEPT !.page = "reads"]
          /\ UNCHANGED <<hostVars, read, onSocket, page, writer, relay, last, graced>>

(* The pumps have ended, or GRACE is over. *)
Drained ==
    /\ relay = "drains" /\ Flushes("app")
    /\ graced' = (graced \/ \E kind \in {"control", "uni"} : pump[kind] \in {"reads", "holds"})
    /\ UNCHANGED <<hostVars, read, channels, onSocket, page, writer>>

(* flush: the last messages, then the writer's end. *)
FlushSends ==
    /\ relay = "flushes" /\ last # <<>>
    /\ \/ writer = "runs" /\ Room /\ Reliable(Head(last))
       \/ writer = "ended" /\ UNCHANGED channels
    /\ last' = Tail(last)
    /\ UNCHANGED <<hostVars, read, pump, onSocket, page, writer, relay, graced>>
Flushed ==
    /\ relay = "flushes" /\ last = <<>> /\ writer = "ended" /\ relay' = "over"
    /\ UNCHANGED <<hostVars, read, pump, channels, onSocket, page, writer, last, graced>>
FlushWaits ==   \* mutant: a page that stopped reading is waited for
    /\ relay = "flushes" /\ page # "stalled" /\ relay' = "over" /\ writer' = "ended" /\ graced' = TRUE
    /\ UNCHANGED <<hostVars, read, pump, channels, onSocket, page, last>>
(* GRACE is over: the writer is aborted. *)
FlushAborted ==
    /\ relay = "flushes" /\ relay' = "over" /\ writer' = "ended" /\ graced' = TRUE
    /\ UNCHANGED <<hostVars, read, pump, channels, onSocket, page, last>>

PageMoves ==
    /\ page # "gone"
    /\ page' \in {"reads", "stalled", "gone"} \ {page}
    /\ UNCHANGED <<hostVars, read, pump, channels, onSocket, writer, relay, last, graced>>

BridgeNext ==
    \/ \E kind \in {"control", "uni"} : HostSends(kind)
    \/ \E how \in {"app", "loss", "local"} : ConnCloses(how)
    \/ \E kind \in {"control", "uni"} : PumpReads(kind) \/ PumpSends(kind) \/ PumpEnds(kind)
    \/ DatagramRead \/ WriterSends \/ WriterFails \/ ConnEnded
    \/ \E end \in {"left", "protocol"} : FromPageEnds(end)
    \/ FromPageControl \/ ControlOpens \/ ControlWritten \/ FromPagePing \/ PongSends
    \/ Drained \/ FlushSends \/ Flushed \/ FlushAborted \/ PageMoves

(* Tasks run, timers run out, and the host takes what it was sent.  Nothing is asked of the page. *)
BridgeFair ==
    /\ WF_bridgeVars(ConnEnded) /\ WF_bridgeVars(Drained) /\ WF_bridgeVars(FlushAborted)
    /\ WF_bridgeVars(FromPageEnds("left") /\ page = "gone") /\ WF_bridgeVars(WriterFails)
    /\ WF_bridgeVars(ControlOpens) /\ WF_bridgeVars(ControlWritten) /\ WF_bridgeVars(PongSends)

BridgeSpec == BridgeInit /\ [][BridgeNext]_bridgeVars /\ BridgeFair

(***************************************************************************)
(* Correctness.                                                            *)
(***************************************************************************)
BridgeTypeOK ==
    /\ quic \in {"open", "app", "local", "loss"} /\ page \in {"reads", "stalled", "gone"}
    /\ \A kind \in DOMAIN read : read[kind] <= hostSent[kind]
    /\ Len(channels.reliable) <= QUEUE /\ channels.datagrams \in 0..QUEUE
    /\ relay \in {"relays", "drains", "flushes", "over"} /\ writer \in {"runs", "ended"}

(* By i, number n of a kind has come. *)
CameBy(messages, i, kind, n) == \E j \in 1..i : messages[j][1] = kind /\ messages[j][2] = n

(* A stream's bytes reach the page whole and in order up to some point: none is dropped for a slow
   page (to_page, host_control, host_unis).  Each comes after those before it, and once. *)
StreamsArriveInOrder ==
    LET came == onSocket \o channels.reliable
    IN  \A i \in DOMAIN came : came[i][1] \in {"control", "uni"} =>
            /\ \A n \in 1..came[i][2] - 1 : CameBy(came, i - 1, came[i][1], n)
            /\ \A j \in 1..i - 1 : came[j][1] = came[i][1] => came[j][2] < came[i][2]

(* A host's close comes after all the bridge had read of its streams, and only the socket's own
   follows: a Refused is never overtaken by the close, unless the page was too slow for GRACE. *)
HostCloseComesLast ==
    \A i \in DOMAIN onSocket :
        /\ onSocket[i][1] = "close" => i = Len(onSocket)
        /\ onSocket[i][1] = "tag3" =>
            /\ \A j \in i + 1..Len(onSocket) : onSocket[j][1] = "close"
            /\ ~graced => \A kind \in {"control", "uni"} : \A n \in 1..read[kind] : CameBy(onSocket, i, kind, n)

(* A browser is given its host's streams in the order the host sent them, and the close last. *)
BridgeDelivers == StreamsArriveInOrder /\ HostCloseComesLast

(* Once the connection is closed or the page has gone, the session ends, whatever the other side
   does: a page that stopped reading does not hold it open. *)
SessionEnds == (quic # "open" \/ page = "gone") ~> relay = "over"
=============================================================================
