----------------------------- MODULE PageProofs -----------------------------
(***************************************************************************)
(* What the page keeps and decides, proved: its tunnel's slots, what the   *)
(* host holds of the keyboard and the pointer, the settings, passes and    *)
(* the server's; and, with ScreenProofs, the types of all of MCPage.       *)
(***************************************************************************)
EXTENDS ScreenProofs

(***************************************************************************)
(* The slots of a tunnel are neither lost nor given twice, for any number  *)
(* of calls and slots.  Beside NothingLeaks the induction needs that a     *)
(* call waits once in the queue, and that the slots are never more than    *)
(* MAX_IN_FLIGHT.                                                          *)
(***************************************************************************)
CallStages == {"new", "waits", "slotted", "dials", "reads", "over"}
CallsWait == {c \in Fetches : CallAt(c, "waits")}

CallsTyped == calls \in [Fetches -> [at : CallStages, on : 0..MaxSessions]]

TunnelTyped ==
    /\ CallsTyped
    /\ queue \in Seq(Fetches) /\ inFlight \in Nat /\ inFlight <= MAX_IN_FLIGHT
    /\ sessions \in [1..MaxSessions -> {"none", "opening", "closing", "open", "gone"}]
    /\ session \in 0..MaxSessions

WaitsOnce == \A i, j \in 1..Len(queue) : queue[i] = queue[j] => i = j

(* NothingLeaks, of the slots and of the sessions. *)
SlotsHeld ==
    /\ inFlight = Cardinality(Holding)
    /\ \A i \in 1..Len(queue) : queue[i] \in CallsWait
    /\ \A c \in CallsWait : \E i \in 1..Len(queue) : queue[i] = c
    /\ queue # <<>> => inFlight = MAX_IN_FLIGHT
OneOpen == \A s \in 1..MaxSessions : sessions[s] \in {"opening", "open"} => session = s

TunnelInv == TunnelTyped /\ WaitsOnce /\ SlotsHeld /\ OneOpen

LEMMA HoldingIsFinite == IsFiniteSet(Holding) /\ Cardinality(Holding) \in Nat
<1>1. Holding \in SUBSET Fetches
  BY DEF Holding
<1>2. IsFiniteSet(Holding)
  BY <1>1, FS_Subset, TunnelAssumption DEF TunnelAssumption
<1> QED
  BY <1>2, FS_CardinalityType

(* A call that neither takes nor leaves a slot, nor the queue. *)
LEMMA CallGoesOn ==
    ASSUME TunnelInv, Holding' = Holding, CallsWait' = CallsWait, UNCHANGED <<queue, inFlight>>
    PROVE  WaitsOnce' /\ SlotsHeld'
  BY DEF TunnelInv, WaitsOnce, SlotsHeld

LEMMA FetchKeeps == ASSUME TunnelInv, NEW c \in Fetches, Fetch(c) PROVE TunnelInv'
<1> USE DEF TunnelInv, TunnelTyped
<1>1. calls[c].at = "new" /\ UNCHANGED <<sessions, session>>
  BY DEF Fetch, CallAt
<1>2. OneOpen'
  BY <1>1 DEF OneOpen
<1>3. c \notin Holding /\ c \notin CallsWait
  BY <1>1 DEF Holding, CallsWait, CallAt
<1>4. CASE inFlight < MAX_IN_FLIGHT
  <2>1. calls' = [calls EXCEPT ![c].at = "slotted"] /\ inFlight' = inFlight + 1 /\ queue' = queue
    BY <1>4 DEF Fetch
  <2>2. CallsTyped'
    BY <2>1 DEF CallsTyped, CallStages
  <2>3. Holding' = Holding \cup {c} /\ CallsWait' = CallsWait
    BY <1>1, <2>1 DEF CallsTyped, Holding, CallsWait, CallAt
  <2>4. Cardinality(Holding') = Cardinality(Holding) + 1
    BY <1>3, <2>3, HoldingIsFinite, FS_AddElement
  <2>5. queue = <<>>
    BY <1>4 DEF SlotsHeld
  <2>6. TunnelTyped'
    BY <1>1, <1>4, <2>1, <2>2, TunnelAssumption DEF TunnelAssumption
  <2>7. WaitsOnce' /\ SlotsHeld'
    BY <2>1, <2>3, <2>4, <2>5 DEF WaitsOnce, SlotsHeld
  <2> QED  BY <1>2, <2>6, <2>7
<1>5. CASE ~(inFlight < MAX_IN_FLIGHT)
  <2>1. calls' = [calls EXCEPT ![c].at = "waits"] /\ inFlight' = inFlight /\ queue' = Append(queue, c)
    BY <1>5 DEF Fetch
  <2>2. CallsTyped'
    BY <2>1 DEF CallsTyped, CallStages
  <2>3. Holding' = Holding /\ CallsWait' = CallsWait \cup {c}
    BY <1>1, <2>1 DEF CallsTyped, Holding, CallsWait, CallAt
  <2>4. /\ queue' \in Seq(Fetches) /\ Len(queue') = Len(queue) + 1 /\ queue'[Len(queue) + 1] = c
        /\ \A i \in 1..Len(queue) : queue'[i] = queue[i]
    BY <2>1
  <2>5. TunnelTyped'
    BY <1>1, <2>1, <2>2, <2>4
  <2>6. \A i \in 1..Len(queue) : queue[i] # c
    BY <1>3 DEF SlotsHeld
  <2>7. \A i \in 1..Len(queue') : i \in 1..Len(queue) \/ i = Len(queue) + 1
    BY <2>4
  <2>8. WaitsOnce'
    BY <2>4, <2>6, <2>7 DEF WaitsOnce
  <2>9. inFlight' = MAX_IN_FLIGHT
    BY <1>5, <2>1, TunnelAssumption DEF TunnelAssumption
  <2>10. \A i \in 1..Len(queue') : queue'[i] \in CallsWait'
    BY <2>3, <2>4, <2>7 DEF SlotsHeld
  <2>11. \A k \in CallsWait' : \E i \in 1..Len(queue') : queue'[i] = k
    <3> TAKE k \in CallsWait'
    <3>1. CASE k = c
      BY <2>4, <3>1
    <3>2. CASE k \in CallsWait
      <4>1. PICK i \in 1..Len(queue) : queue[i] = k
        BY <3>2 DEF SlotsHeld
      <4> QED  BY <2>4, <4>1
    <3> QED  BY <2>3, <3>1, <3>2
  <2>12. SlotsHeld'
    BY <2>1, <2>3, <2>9, <2>10, <2>11 DEF SlotsHeld
  <2> QED  BY <1>2, <2>5, <2>8, <2>12
<1> QED
  BY <1>4, <1>5

LEMMA FetchAbortedKeeps == ASSUME TunnelInv, NEW c \in Fetches, FetchAborted(c) PROVE TunnelInv'
<1> USE DEF TunnelInv, TunnelTyped
<1>1. /\ calls[c].at = "new" /\ calls' = [calls EXCEPT ![c].at = "over"]
      /\ UNCHANGED <<inFlight, queue, sessions, session>>
  BY DEF FetchAborted, CallAt
<1>2. CallsTyped'
  BY <1>1 DEF CallsTyped, CallStages
<1>3. Holding' = Holding /\ CallsWait' = CallsWait
  BY <1>1 DEF CallsTyped, Holding, CallsWait, CallAt
<1>4. WaitsOnce' /\ SlotsHeld'
  BY <1>1, <1>3, CallGoesOn
<1> QED
  BY <1>1, <1>2, <1>4 DEF OneOpen

(* A call dials while the tunnel has no session: none is open that it would be a second to. *)
LEMMA ConnectKeeps == ASSUME TunnelInv, NEW c \in Fetches, Connect(c) PROVE TunnelInv'
<1> USE DEF TunnelInv, TunnelTyped
<1>1. /\ calls[c].at = "slotted" /\ calls' = [calls EXCEPT ![c] = [at |-> "dials", on |-> session']]
      /\ UNCHANGED <<inFlight, queue>>
  BY DEF Connect, CallAt
<1>2. /\ session' \in 0..MaxSessions /\ OneOpen'
      /\ sessions' \in [1..MaxSessions -> {"none", "opening", "closing", "open", "gone"}]
  <2>1. CASE session # 0
    BY <2>1 DEF Connect, OneOpen
  <2>2. CASE session = 0
    <3>1. PICK s \in DOMAIN sessions : sessions' = [sessions EXCEPT ![s] = "opening"] /\ session' = s
      BY <2>2 DEF Connect
    <3>2. s \in 1..MaxSessions
      BY <3>1
    <3>3. \A t \in 1..MaxSessions : sessions[t] \notin {"opening", "open"}
      BY <2>2, TunnelAssumption DEF OneOpen, TunnelAssumption
    <3>4. OneOpen'
      BY <3>1, <3>2, <3>3 DEF OneOpen
    <3> QED  BY <3>1, <3>2, <3>4, TunnelAssumption DEF TunnelAssumption
  <2> QED  BY <2>1, <2>2
<1>3. CallsTyped'
  <2>1. [at |-> "dials", on |-> session'] \in [at : CallStages, on : 0..MaxSessions]
    BY <1>2 DEF CallStages
  <2> QED
    BY <1>1, <2>1 DEF CallsTyped
<1>4. Holding' = Holding /\ CallsWait' = CallsWait
  BY <1>1 DEF CallsTyped, Holding, CallsWait, CallAt
<1>5. WaitsOnce' /\ SlotsHeld'
  BY <1>1, <1>4, CallGoesOn
<1> QED
  BY <1>1, <1>2, <1>3, <1>5

LEMMA StreamMadeKeeps == ASSUME TunnelInv, NEW c \in Fetches, StreamMade(c) PROVE TunnelInv'
<1> USE DEF TunnelInv, TunnelTyped
<1>1. /\ calls[c].at = "dials" /\ calls' = [calls EXCEPT ![c].at = "reads"]
      /\ UNCHANGED <<inFlight, queue, sessions, session>>
  BY DEF StreamMade, CallAt
<1>2. CallsTyped'
  BY <1>1 DEF CallsTyped, CallStages
<1>3. Holding' = Holding /\ CallsWait' = CallsWait
  BY <1>1 DEF CallsTyped, Holding, CallsWait, CallAt
<1>4. WaitsOnce' /\ SlotsHeld'
  BY <1>1, <1>3, CallGoesOn
<1> QED
  BY <1>1, <1>2, <1>4 DEF OneOpen

(* A call gives its slot back, or to the one that waits longest, which then waits no more. *)
LEMMA ReleaseKeeps ==
    ASSUME TunnelInv, NEW c \in Fetches, calls[c].at \in {"dials", "reads"}, Release(c),
           UNCHANGED <<sessions, session>>
    PROVE  TunnelInv'
<1> USE DEF TunnelInv, TunnelTyped
<1>1. c \in Holding /\ c \notin CallsWait
  BY DEF Holding, CallsWait, CallAt
<1>2. OneOpen'
  BY DEF OneOpen
<1>3. CASE queue = <<>>
  <2>1. /\ calls' = [k \in Fetches |-> IF k = c THEN [at |-> "over", on |-> 0] ELSE calls[k]]
        /\ inFlight' = inFlight - 1 /\ queue' = queue
    BY <1>3 DEF Release
  <2>2. CallsTyped'
    <3>1. [at |-> "over", on |-> 0] \in [at : CallStages, on : 0..MaxSessions]
      BY TunnelAssumption DEF CallStages, TunnelAssumption
    <3> QED  BY <2>1, <3>1 DEF CallsTyped
  <2>3. Holding' = Holding \ {c} /\ CallsWait' = CallsWait
    BY <1>1, <2>1 DEF CallsTyped, Holding, CallsWait, CallAt
  <2>4. Cardinality(Holding') = Cardinality(Holding) - 1 /\ Cardinality(Holding) # 0
    BY <1>1, <2>3, HoldingIsFinite, FS_RemoveElement, FS_EmptySet
  <2>5. inFlight' \in Nat /\ inFlight' <= MAX_IN_FLIGHT
    BY <2>1, <2>4, TunnelAssumption DEF SlotsHeld, TunnelAssumption
  <2>6. WaitsOnce' /\ SlotsHeld'
    BY <1>3, <2>1, <2>3, <2>4 DEF WaitsOnce, SlotsHeld
  <2> QED  BY <1>2, <2>1, <2>2, <2>5, <2>6
<1>4. CASE queue # <<>>
  <2> DEFINE h == Head(queue)
  <2>1. /\ calls' = [k \in Fetches |-> IF k = c THEN [at |-> "over", on |-> 0]
                                       ELSE IF k = h THEN [at |-> "slotted", on |-> 0] ELSE calls[k]]
        /\ inFlight' = inFlight /\ queue' = Tail(queue)
    BY <1>4 DEF Release
  <2>2. h = queue[1] /\ 1 \in 1..Len(queue) /\ h \in Fetches
    BY <1>4
  <2>3. h \in CallsWait /\ h # c /\ h \notin Holding
    <3>1. h \in CallsWait
      BY <2>2 DEF SlotsHeld
    <3> QED  BY <1>1, <3>1 DEF CallsWait, Holding, CallAt
  <2>4. /\ queue' \in Seq(Fetches) /\ Len(queue') = Len(queue) - 1
        /\ \A i \in 1..Len(queue') : queue'[i] = queue[i + 1] /\ i + 1 \in 1..Len(queue)
    <3>1. /\ Tail(queue) \in Seq(Fetches) /\ Len(Tail(queue)) = Len(queue) - 1
          /\ \A i \in 1..Len(Tail(queue)) : Tail(queue)[i] = queue[i + 1]
      BY <1>4, HeadTailProperties
    <3> QED  BY <2>1, <3>1
  <2> HIDE DEF h
  <2>5. CallsTyped'
    <3>1. /\ [at |-> "over", on |-> 0] \in [at : CallStages, on : 0..MaxSessions]
          /\ [at |-> "slotted", on |-> 0] \in [at : CallStages, on : 0..MaxSessions]
      BY TunnelAssumption DEF CallStages, TunnelAssumption
    <3> QED  BY <2>1, <3>1 DEF CallsTyped
  <2>6. Holding' = (Holding \ {c}) \cup {h}
    BY <1>1, <2>1, <2>2, <2>3 DEF CallsTyped, Holding
  <2>7. CallsWait' = CallsWait \ {h}
    BY <1>1, <2>1, <2>2, <2>3 DEF CallsTyped, CallsWait, CallAt
  <2>8. Cardinality(Holding') = Cardinality(Holding)
    <3> DEFINE S == Holding \ {c}
    <3>1. IsFiniteSet(S) /\ Cardinality(S) = Cardinality(Holding) - 1
      BY <1>1, HoldingIsFinite, FS_RemoveElement
    <3>2. h \notin S
      BY <2>3
    <3> HIDE DEF S
    <3>3. Cardinality(S \cup {h}) = Cardinality(S) + 1
      BY <3>1, <3>2, FS_AddElement
    <3> QED  BY <2>6, <3>1, <3>3, HoldingIsFinite DEF S
  <2>9. WaitsOnce'
    BY <2>4 DEF WaitsOnce
  <2>10. \A i \in 1..Len(queue') : queue'[i] \in CallsWait'
    <3> TAKE i \in 1..Len(queue')
    <3>1. queue'[i] = queue[i + 1] /\ i + 1 \in 1..Len(queue) /\ i + 1 # 1
      BY <2>4
    <3>2. queue[i + 1] # h /\ queue[i + 1] \in CallsWait
      BY <2>2, <3>1 DEF WaitsOnce, SlotsHeld
    <3> QED  BY <2>7, <3>1, <3>2
  <2>11. \A k \in CallsWait' : \E i \in 1..Len(queue') : queue'[i] = k
    <3> TAKE k \in CallsWait'
    <3>1. PICK j \in 1..Len(queue) : queue[j] = k
      BY <2>7 DEF SlotsHeld
    <3>2. j # 1
      BY <2>2, <2>7, <3>1
    <3>3. j - 1 \in 1..Len(queue') /\ j - 1 + 1 = j
      BY <2>4, <3>1, <3>2
    <3>4. queue'[j - 1] = k
      BY <2>4, <3>1, <3>3
    <3> QED  BY <3>3, <3>4
  <2>12. SlotsHeld'
    BY <1>4, <2>1, <2>8, <2>10, <2>11 DEF SlotsHeld
  <2> QED  BY <1>2, <2>1, <2>4, <2>5, <2>9, <2>12
<1> QED
  BY <1>3, <1>4

(* What a session does leaves the calls and the slots alone. *)
LEMMA SessionKeeps ==
    ASSUME TunnelInv, UNCHANGED <<calls, inFlight, queue>>, session' \in 0..MaxSessions,
           sessions' \in [1..MaxSessions -> {"none", "opening", "closing", "open", "gone"}], OneOpen'
    PROVE  TunnelInv'
<1>1. Holding' = Holding /\ CallsWait' = CallsWait
  BY DEF Holding, CallsWait, CallAt
<1>2. WaitsOnce' /\ SlotsHeld'
  BY <1>1, CallGoesOn
<1> QED
  BY <1>2 DEF TunnelInv, TunnelTyped, CallsTyped

LEMMA TunnelGoesOn == TunnelInv /\ [TunnelNext]_tunnelVars => TunnelInv'
<1> SUFFICES ASSUME TunnelInv, [TunnelNext]_tunnelVars PROVE TunnelInv'
  OBVIOUS
<1>1. ASSUME NEW c \in Fetches, Fetch(c) PROVE TunnelInv'
  BY <1>1, FetchKeeps
<1>2. ASSUME NEW c \in Fetches, FetchAborted(c) PROVE TunnelInv'
  BY <1>2, FetchAbortedKeeps
<1>3. ASSUME NEW c \in Fetches, Connect(c) PROVE TunnelInv'
  BY <1>3, ConnectKeeps
<1>4. ASSUME NEW c \in Fetches, StreamMade(c) PROVE TunnelInv'
  BY <1>4, StreamMadeKeeps
<1>5. ASSUME NEW c \in Fetches, ReplyRead(c) PROVE TunnelInv'
  BY <1>5, ReleaseKeeps DEF ReplyRead, CallAt
<1>6. ASSUME NEW c \in Fetches, FetchFailed(c) PROVE TunnelInv'
  BY <1>6, ReleaseKeeps DEF FetchFailed
<1>7. ASSUME NEW s \in 1..MaxSessions, Opened(s) \/ SessionGone(s) PROVE TunnelInv'
  <2>1. UNCHANGED <<calls, inFlight, queue, session>>
    BY <1>7 DEF Opened, SessionGone
  <2>2. /\ sessions' \in [1..MaxSessions -> {"none", "opening", "closing", "open", "gone"}]
        /\ OneOpen'
    BY <1>7, <2>1 DEF Opened, SessionGone, TunnelInv, TunnelTyped, OneOpen
  <2> QED  BY <2>1, <2>2, SessionKeeps DEF TunnelInv, TunnelTyped
<1>8. ASSUME NEW s \in 1..MaxSessions, Forgets(s) PROVE TunnelInv'
  <2>1. /\ UNCHANGED <<calls, inFlight, queue, sessions>> /\ session' = 0
        /\ sessions[s] = "gone" /\ session = s
    BY <1>8 DEF Forgets
  <2>2. OneOpen'
    BY <2>1 DEF TunnelInv, OneOpen
  <2> QED
    BY <2>1, <2>2, SessionKeeps, TunnelAssumption DEF TunnelInv, TunnelTyped, TunnelAssumption
<1>9. CASE CloseTunnel
  <2>1. /\ UNCHANGED <<calls, inFlight, queue>> /\ session' = 0 /\ session \in 1..MaxSessions
        /\ sessions' = [sessions EXCEPT ![session] = IF @ = "opening" THEN "closing" ELSE "gone"]
    BY <1>9, TunnelAssumption DEF CloseTunnel, TunnelAssumption
  <2>2. OneOpen'
    BY <2>1 DEF TunnelInv, TunnelTyped, OneOpen
  <2>3. sessions' \in [1..MaxSessions -> {"none", "opening", "closing", "open", "gone"}]
    BY <2>1 DEF TunnelInv, TunnelTyped
  <2> QED
    BY <2>1, <2>2, <2>3, SessionKeeps, TunnelAssumption DEF TunnelAssumption
<1>10. CASE UNCHANGED tunnelVars
  BY <1>10, SessionKeeps DEF tunnelVars, TunnelInv, TunnelTyped, OneOpen
<1> QED
  BY <1>1, <1>2, <1>3, <1>4, <1>5, <1>6, <1>7, <1>8, <1>9, <1>10 DEF TunnelNext

LEMMA TunnelBegins == TunnelInit => TunnelInv
<1> SUFFICES ASSUME TunnelInit PROVE TunnelInv
  OBVIOUS
<1>1. CallsTyped
  BY TunnelAssumption DEF TunnelInit, CallsTyped, CallStages, TunnelAssumption
<1>2. TunnelTyped
  BY <1>1, TunnelAssumption DEF TunnelInit, TunnelTyped, TunnelAssumption
<1>3. Holding = {} /\ CallsWait = {}
  BY DEF TunnelInit, Holding, CallsWait, CallAt
<1>4. SlotsHeld
  BY <1>3, FS_EmptySet DEF TunnelInit, SlotsHeld
<1> QED
  BY <1>2, <1>4 DEF TunnelInit, TunnelInv, WaitsOnce, OneOpen

(* No slot of a tunnel is lost or given twice, a call waits only while calls hold every slot, and
   no session stays open that the tunnel has let go of, however many calls and slots there are
   (tunnel.ts slot, release, connect, close). *)
THEOREM SlotsNeverLeak == TunnelSpec => []NothingLeaks
<1>1. TunnelInv => NothingLeaks
  <2> SUFFICES ASSUME TunnelInv PROVE NothingLeaks
    OBVIOUS
  <2>1. ToSet(queue) = CallsWait
    BY DEF TunnelInv, TunnelTyped, SlotsHeld, ToSet, CallsWait
  <2> QED
    BY <2>1 DEF TunnelInv, SlotsHeld, OneOpen, NothingLeaks, CallsWait
<1> QED
  BY <1>1, TunnelBegins, TunnelGoesOn, PTL DEF TunnelSpec

(***************************************************************************)
(* One pointer on screen, for any number of streams and changes of mode.   *)
(* The induction carries what the host will have heard once the words      *)
(* under way arrive - the last of them is what the page sent last - and    *)
(* what a frame wore, which holds until something it wore for changes.     *)
(***************************************************************************)
Words == {"page", "host"}
StreamType == [on : BOOLEAN, forwards : BOOLEAN, input : BOOLEAN, desktop : BOOLEAN, locked : BOOLEAN,
               streams : 0..MaxStreams, flips : 0..MaxFlips]
WearType == [sent : {"nothing", "page", "host"}, css : {"arrow", "none", "shape"}, shape : BOOLEAN,
             heard : {"nothing", "hidden", "visible"}, ticked : BOOLEAN]

CursorTyped ==
    /\ stream \in StreamType /\ wear \in WearType
    /\ draws \in [it : BOOLEAN, hidden : BOOLEAN] /\ words \in Seq(Words)

(* Where the page is told of no pointer, none was sent, heard or worn before. *)
OffForgets == ~stream.on => wear = Unworn

HostHears ==
    stream.on =>
        IF stream.forwards
        THEN /\ words = <<>> => (draws.it <=> wear.sent = "host")
             /\ words # <<>> => words[Len(words)] = wear.sent
        ELSE words = <<>> /\ draws.it

Wears ==
    stream.on /\ wear.ticked =>
        /\ stream.forwards => wear.sent = Drawer
        /\ ~(stream.input /\ stream.desktop /\ ~stream.locked) => wear.css = "arrow"
        /\ stream.input /\ stream.desktop /\ ~stream.locked =>
              wear.css = IF stream.forwards THEN Css ELSE "none"

CursorInv == CursorTyped /\ OffForgets /\ HostHears /\ Wears

LEMMA CursorBegins == CursorInit => CursorInv
<1> SUFFICES ASSUME CursorInit PROVE CursorInv
  OBVIOUS
<1>1. NoStream \in StreamType /\ Unworn \in WearType
  <2>1. 0 \in 0..MaxStreams /\ 0 \in 0..MaxFlips
    BY CursorAssumption
  <2> QED
    BY <2>1 DEF NoStream, Unworn, StreamType, WearType
<1>2. CursorTyped
  BY <1>1 DEF CursorInit, CursorTyped, Words
<1>3. stream.on = FALSE /\ wear = Unworn
  BY DEF CursorInit, NoStream
<1> QED
  BY <1>2, <1>3 DEF CursorInv, OffForgets, HostHears, Wears

LEMMA BeginsKeep == ASSUME CursorInv, StreamBegins PROVE CursorInv'
<1>1. PICK forwards \in BOOLEAN :
        /\ stream' = [stream EXCEPT !.on = TRUE, !.forwards = forwards, !.input = FALSE,
                                    !.locked = FALSE, !.flips = 0, !.streams = @ + 1]
        /\ draws' = [it |-> ~forwards, hidden |-> FALSE]
  BY DEF StreamBegins
<1>2. wear' = wear /\ words' = <<>> /\ wear = Unworn
  BY DEF StreamBegins, CursorInv, OffForgets
<1>3. stream' \in StreamType /\ stream'.on /\ stream'.forwards = forwards
  <2>1. stream \in StreamType
    BY DEF CursorInv, CursorTyped
  <2>2. stream' = [on |-> TRUE, forwards |-> forwards, input |-> FALSE, desktop |-> stream.desktop,
                   locked |-> FALSE, streams |-> stream.streams + 1, flips |-> 0]
    BY <1>1, <2>1 DEF StreamType
  <2>3. stream.desktop \in BOOLEAN /\ stream.streams + 1 \in 0..MaxStreams /\ 0 \in 0..MaxFlips
    BY <2>1, CursorAssumption DEF StreamType, StreamBegins
  <2> QED
    BY <2>2, <2>3 DEF StreamType
<1>4. CursorTyped'
  BY <1>1, <1>2, <1>3 DEF CursorInv, CursorTyped
<1>5. wear.sent = "nothing" /\ wear.ticked = FALSE
  BY <1>2 DEF Unworn
<1>6. HostHears'
  BY <1>1, <1>2, <1>3, <1>5 DEF HostHears
<1> QED
  BY <1>2, <1>3, <1>4, <1>5, <1>6 DEF CursorInv, OffForgets, Wears

LEMMA StopsKeep == ASSUME CursorInv, StreamStops PROVE CursorInv'
<1>1. /\ stream' = [stream EXCEPT !.on = FALSE, !.input = FALSE, !.locked = FALSE]
      /\ wear' = Unworn /\ draws' = draws /\ words' = words
  BY DEF StreamStops, Forgotten
<1>2. stream' \in StreamType /\ ~stream'.on
  BY <1>1 DEF CursorInv, CursorTyped, StreamType
<1>3. Unworn \in WearType
  BY DEF Unworn, WearType
<1> QED
  BY <1>1, <1>2, <1>3 DEF CursorInv, CursorTyped, OffForgets, HostHears, Wears

LEMMA FlipsKeep == ASSUME CursorInv, Flips PROVE CursorInv'
<1>1. PICK input \in {TRUE, stream.input}, desktop, locked \in BOOLEAN :
        stream' = [stream EXCEPT !.input = input, !.desktop = desktop, !.locked = locked, !.flips = @ + 1]
  BY DEF Flips
<1>2. stream.on /\ wear' = [wear EXCEPT !.ticked = FALSE] /\ draws' = draws /\ words' = words
  BY DEF Flips
<1>3. stream' \in StreamType /\ stream'.on /\ stream'.forwards = stream.forwards
  <2>1. stream \in StreamType
    BY DEF CursorInv, CursorTyped
  <2>2. stream' = [on |-> stream.on, forwards |-> stream.forwards, input |-> input,
                   desktop |-> desktop, locked |-> locked, streams |-> stream.streams,
                   flips |-> stream.flips + 1]
    BY <1>1, <2>1 DEF StreamType
  <2>3. /\ stream.on \in BOOLEAN /\ stream.forwards \in BOOLEAN
        /\ stream.streams \in 0..MaxStreams /\ stream.flips + 1 \in 0..MaxFlips
    BY <2>1, CursorAssumption DEF StreamType, Flips
  <2>4. input \in BOOLEAN
    <3>1. stream.input \in BOOLEAN
      BY <2>1 DEF StreamType
    <3> QED  BY <3>1
  <2> QED
    BY <1>2, <2>2, <2>3, <2>4 DEF StreamType
<1>4. wear' \in WearType /\ wear'.sent = wear.sent /\ wear'.ticked = FALSE
  BY <1>2 DEF CursorInv, CursorTyped, WearType
<1>5. HostHears'
  BY <1>2, <1>3, <1>4 DEF CursorInv, HostHears
<1> QED
  BY <1>2, <1>3, <1>4, <1>5 DEF CursorInv, CursorTyped, OffForgets, Wears

(* A frame says who draws, where that changed, and wears what holds now. *)
LEMMA TickKeeps == ASSUME CursorInv, CursorTick PROVE CursorInv'
<1> DEFINE says == stream.forwards /\ wear.sent # Drawer
           desk == stream.input /\ stream.desktop /\ ~stream.locked
           sent == IF says THEN Drawer ELSE wear.sent
           css == IF desk THEN IF stream.forwards THEN Css ELSE "none" ELSE "arrow"
<1>1. /\ stream.on /\ stream' = stream /\ draws' = draws
      /\ words' = IF says THEN Append(words, Drawer) ELSE words
  BY DEF CursorTick
<1>2. wear' = [wear EXCEPT !.sent = sent, !.ticked = TRUE, !.css = css]
  BY DEF CursorTick
<1>3. Drawer \in Words /\ Drawer' = Drawer
  BY <1>1 DEF Drawer, Words
<1>4. css \in {"arrow", "none", "shape"} /\ sent \in {"nothing", "page", "host"}
  BY <1>3 DEF Css, CursorInv, CursorTyped, WearType, Words
<1> HIDE DEF css, sent
<1>5. /\ wear' \in WearType /\ wear'.sent = sent /\ wear'.ticked /\ wear'.css = css
      /\ wear'.heard = wear.heard /\ wear'.shape = wear.shape
  BY <1>2, <1>4 DEF CursorInv, CursorTyped, WearType
<1>6. words' \in Seq(Words)
  BY <1>1, <1>3 DEF CursorInv, CursorTyped
<1>7. CursorTyped'
  BY <1>1, <1>5, <1>6 DEF CursorInv, CursorTyped
<1>8. HostHears'
  <2>1. CASE says
    <3>1. words' # <<>> /\ words'[Len(words')] = Drawer
      BY <1>1, <1>3, <2>1 DEF CursorInv, CursorTyped
    <3>2. wear'.sent = Drawer
      BY <1>5, <2>1 DEF sent
    <3> QED  BY <1>1, <2>1, <3>1, <3>2 DEF HostHears
  <2>2. CASE ~says
    <3>1. words' = words /\ wear'.sent = wear.sent
      BY <1>1, <1>5, <2>2 DEF sent
    <3> QED  BY <1>1, <3>1 DEF CursorInv, HostHears
  <2> QED  BY <2>1, <2>2
<1>9. Wears'
  <2>1. Css' = Css
    BY <1>5 DEF Css
  <2>2. stream.forwards => wear'.sent = Drawer'
    BY <1>3, <1>5 DEF sent
  <2>3. /\ ~desk => wear'.css = "arrow"
        /\ desk => wear'.css = IF stream.forwards THEN Css ELSE "none"
    BY <1>5 DEF css
  <2> QED  BY <1>1, <2>1, <2>2, <2>3 DEF Wears
<1> QED
  BY <1>1, <1>7, <1>8, <1>9 DEF CursorInv, OffForgets

LEMMA WordKeeps == ASSUME CursorInv, WordArrives PROVE CursorInv'
<1>1. /\ words # <<>> /\ words' = Tail(words) /\ stream' = stream /\ wear' = wear
      /\ draws' = [draws EXCEPT !.it = Head(words) = "host"]
  BY DEF WordArrives
<1>2. words \in Seq(Words)
  BY DEF CursorInv, CursorTyped
<1>3. /\ words' \in Seq(Words) /\ Len(words') = Len(words) - 1 /\ Len(words) >= 1
      /\ \A i \in 1..Len(words') : words'[i] = words[i + 1]
  BY <1>1, <1>2, HeadTailProperties, EmptySeq
<1>4. draws' \in [it : BOOLEAN, hidden : BOOLEAN] /\ (draws'.it <=> Head(words) = "host")
  BY <1>1 DEF CursorInv, CursorTyped
<1>5. HostHears'
  <2> SUFFICES ASSUME stream.on PROVE HostHears'
    BY <1>1 DEF HostHears
  <2>1. stream.forwards /\ words[Len(words)] = wear.sent
    BY <1>1 DEF CursorInv, HostHears
  <2>2. CASE words' = <<>>
    <3>1. Len(words) = 1 /\ Head(words) = words[1]
      BY <1>2, <1>3, <2>2
    <3> QED  BY <1>1, <1>4, <2>1, <2>2, <3>1 DEF HostHears
  <2>3. CASE words' # <<>>
    <3>1. Len(words') \in Nat \ {0}
      BY <1>3, <2>3, EmptySeq
    <3>2. words'[Len(words')] = words[Len(words)]
      BY <1>2, <1>3, <3>1
    <3> QED  BY <1>1, <2>1, <2>3, <3>2 DEF HostHears
  <2> QED  BY <2>2, <2>3
<1>6. Wears'
  BY <1>1 DEF CursorInv, Wears, Drawer, Css
<1> QED
  BY <1>1, <1>3, <1>4, <1>5, <1>6 DEF CursorInv, CursorTyped, OffForgets

LEMMA HidesKeep == ASSUME CursorInv, HostHides PROVE CursorInv'
<1>1. /\ draws' = [draws EXCEPT !.hidden = ~@] /\ stream' = stream /\ words' = words /\ wear' = wear
  BY DEF HostHides
<1>2. draws' \in [it : BOOLEAN, hidden : BOOLEAN] /\ draws'.it = draws.it
  BY <1>1 DEF CursorInv, CursorTyped
<1> QED
  BY <1>1, <1>2 DEF CursorInv, CursorTyped, OffForgets, HostHears, Wears, Drawer, Css

LEMMA ComesKeep == ASSUME CursorInv, StateComes \/ ShapeComes PROVE CursorInv'
<1>1. stream.on /\ stream' = stream /\ draws' = draws /\ words' = words
  BY DEF StateComes, ShapeComes
<1>2. wear' \in WearType /\ wear'.sent = wear.sent /\ wear'.ticked = FALSE
  <2>1. CASE StateComes
    BY <2>1 DEF StateComes, CursorInv, CursorTyped, WearType
  <2>2. CASE ShapeComes
    BY <2>2 DEF ShapeComes, CursorInv, CursorTyped, WearType
  <2> QED  BY <2>1, <2>2
<1> QED
  BY <1>1, <1>2 DEF CursorInv, CursorTyped, OffForgets, HostHears, Wears

LEMMA CursorGoesOn == CursorInv /\ [CursorNext]_cursorVars => CursorInv'
<1> SUFFICES ASSUME CursorInv, [CursorNext]_cursorVars PROVE CursorInv'
  OBVIOUS
<1>1. CASE UNCHANGED cursorVars
  BY <1>1 DEF cursorVars, CursorInv, CursorTyped, OffForgets, HostHears, Wears, Drawer, Css
<1> QED
  BY <1>1, BeginsKeep, StopsKeep, FlipsKeep, TickKeeps, WordKeeps, HidesKeep, ComesKeep DEF CursorNext

(* Once a frame has passed and the host has heard, the picture has a pointer exactly where the page
   has none of its own, through every change of mode and every stream after (cursor.ts tick, css,
   reset; session.rs pf_cursor_render). *)
THEOREM PointerIsOne == CursorSpec => []OnePointer
<1>1. CursorInv => OnePointer
  <2> SUFFICES ASSUME CursorInv, CursorSettled PROVE OnePointer
    BY DEF OnePointer
  <2>1. stream.on /\ wear.ticked /\ words = <<>>
    BY DEF CursorSettled
  <2>2. stream.forwards => (draws.it <=> Drawer = "host")
    BY <2>1 DEF CursorInv, HostHears, Wears
  <2>3. ~stream.forwards => draws.it
    BY <2>1 DEF CursorInv, HostHears
  <2>4. CASE ~stream.input
    BY <2>2, <2>3, <2>4 DEF OnePointer, Drawer
  <2>5. CASE stream.input /\ stream.locked
    BY <2>2, <2>3, <2>5 DEF OnePointer, Drawer, PageShows
  <2>6. CASE stream.input /\ ~stream.locked /\ stream.forwards
    <3>1. ~draws.it
      BY <2>2, <2>6 DEF Drawer
    <3>2. wear.css # "none" \/ wear.heard = "hidden"
      <4>1. wear.css \in {"arrow", Css}
        BY <2>1, <2>6 DEF CursorInv, Wears
      <4>2. Css # "none" \/ wear.heard = "hidden"
        BY DEF Css, CursorInv, CursorTyped, WearType
      <4> QED  BY <4>1, <4>2
    <3> QED  BY <2>6, <3>1, <3>2 DEF OnePointer, PageShows
  <2>7. CASE stream.input /\ ~stream.locked /\ ~stream.forwards
    <3>1. stream.desktop => wear.css = "none"
      BY <2>1, <2>7 DEF CursorInv, Wears
    <3> QED  BY <2>3, <2>7, <3>1 DEF OnePointer, PageShows
  <2> QED  BY <2>4, <2>5, <2>6, <2>7
<1> QED
  BY <1>1, CursorBegins, CursorGoesOn, PTL DEF CursorSpec

(***************************************************************************)
(* Keys, buttons and fingers: what the host holds, the person does.  The   *)
(* induction needs, beside KeysLetGo, that the pipe knows of a key it      *)
(* holds that the person pressed it under Meta: only the release of such a *)
(* one never comes.  Of the fingers it needs that there is always a free   *)
(* slot, the lowest, among one more than the fingers.                      *)
(***************************************************************************)
KnownUnderMeta == person.underMeta \subseteq Letters /\ pipe.keys \cap person.underMeta \subseteq pipe.underMeta

KeysTyped ==
    /\ pipe \in [keys : SUBSET AllKeys, underMeta : SUBSET Letters, held : SUBSET Buttons]
    /\ person \in [keys : SUBSET AllKeys, underMeta : SUBSET AllKeys, buttons : SUBSET Buttons]
    /\ focus \in {"picture", "local", "away"}

KeysInv == KeysTyped /\ KnownUnderMeta /\ KeysLetGo

SlotsTyped == DOMAIN touches \subseteq Fingers /\ touches \in [DOMAIN touches -> 0..Cardinality(Fingers)]

SlotsInv == SlotsTyped /\ SlotsApart

LEMMA KeyDownKeeps ==
    ASSUME KeysInv, NEW k \in AllKeys, NEW chord \in BOOLEAN, KeyDown(k, chord) PROVE KeysInv'
<1> USE DEF KeysInv, KeysTyped
<1> DEFINE late == UnderMeta /\ k \in Letters
<1>1. /\ k \notin person.keys /\ UNCHANGED <<focus, missed>>
      /\ person'.keys = person.keys \cup {k} /\ person'.buttons = person.buttons
      /\ person'.underMeta = IF late THEN person.underMeta \cup {k} ELSE person.underMeta \ {k}
      /\ person' = [person EXCEPT !.keys = person'.keys, !.underMeta = person'.underMeta]
  BY DEF KeyDown
<1>2. \/ pipe' = pipe
      \/ /\ focus = "picture" /\ pipe'.keys = pipe.keys \cup {k} /\ pipe'.held = pipe.held
         /\ pipe'.underMeta = IF late THEN pipe.underMeta \cup {k} ELSE pipe.underMeta
         /\ pipe' = [pipe EXCEPT !.keys = pipe'.keys, !.underMeta = pipe'.underMeta]
  BY DEF KeyDown
<1>3. UnderMeta => UnderMeta'
  BY <1>1 DEF UnderMeta
<1>4. KeysTyped'
  BY <1>1, <1>2
<1>5. pipe.keys \cap {k} \subseteq pipe.underMeta
  BY <1>1 DEF KeysLetGo
<1>6. KnownUnderMeta'
  BY <1>1, <1>2, <1>5 DEF KnownUnderMeta
<1>7. KeysLetGo'
  BY <1>1, <1>2, <1>3 DEF KeysLetGo
<1> QED
  BY <1>4, <1>6, <1>7

LEMMA KeyUpKeeps ==
    ASSUME KeysInv, NEW k \in AllKeys, NEW comes \in BOOLEAN, NEW chord \in BOOLEAN,
           KeyUp(k, comes, chord)
    PROVE  KeysInv'
<1> USE DEF KeysInv, KeysTyped
<1> DEFINE ups == comes /\ focus # "away" /\ (k \in pipe.keys \/ (focus = "picture" /\ ~chord))
           under == IF k \in META THEN pipe.underMeta ELSE {}
<1>1. /\ k \in person.keys /\ focus' = focus
      /\ comes \/ (k \in person.underMeta /\ UnderMeta)
      /\ chord => k \in Letters
      /\ person'.keys = person.keys \ {k} /\ person'.buttons = person.buttons
      /\ person'.underMeta = person.underMeta \ {k}
      /\ person' = [person EXCEPT !.keys = person'.keys, !.underMeta = person'.underMeta]
      /\ missed' = IF k \notin META THEN missed ELSE (focus = "local" /\ ~ups)
  BY DEF KeyUp
<1>2. ~ups => pipe' = pipe
  BY DEF KeyUp
<1>3. ups => /\ pipe'.keys = pipe.keys \ ({k} \cup under) /\ pipe'.held = pipe.held
             /\ pipe'.underMeta = pipe.underMeta \ ({k} \cup under)
             /\ pipe' = [pipe EXCEPT !.keys = pipe'.keys, !.underMeta = pipe'.underMeta]
  BY DEF KeyUp, Up
<1>4. KeysTyped'
  BY <1>1, <1>2, <1>3
<1>5. KnownUnderMeta'
  BY <1>1, <1>2, <1>3 DEF KnownUnderMeta
<1>6. k \in META => k \notin person.underMeta /\ ~chord
  BY <1>1, KeyboardAssumption DEF KnownUnderMeta
<1>7. k \notin META => (UnderMeta' <=> UnderMeta)
  BY <1>1 DEF UnderMeta
<1>8. focus = "away" => pipe'.keys = {} /\ pipe'.held = {}
  BY <1>2 DEF KeysLetGo
<1>9. ASSUME NEW o \in pipe'.keys \ person'.keys PROVE o \in pipe'.underMeta /\ (UnderMeta \/ missed)'
  <2>1. o \in pipe.keys /\ (o # k => o \notin person.keys) /\ focus # "away"
    BY <1>1, <1>2, <1>3, <1>8, <1>9
  <2>2. CASE k \in META
    <3>1. ~ups
      BY <1>3, <1>9, <2>1, <2>2 DEF KeysLetGo
    <3>2. missed' /\ o # k
      BY <1>1, <1>6, <2>1, <2>2, <3>1
    <3> QED  BY <1>2, <2>1, <3>1, <3>2 DEF KeysLetGo
  <2>3. CASE k \notin META
    <3>1. CASE o = k
      <4>1. ~comes
        BY <1>3, <1>9, <2>1, <3>1
      <4>2. k \in person.underMeta /\ UnderMeta
        BY <1>1, <4>1
      <4> QED  BY <1>2, <1>7, <2>1, <2>3, <3>1, <4>1, <4>2 DEF KnownUnderMeta
    <3>2. CASE o # k
      <4>1. o \in pipe.underMeta /\ (UnderMeta \/ missed)
        BY <2>1, <3>2 DEF KeysLetGo
      <4>2. o \in pipe'.underMeta
        BY <1>2, <1>3, <2>3, <3>2, <4>1
      <4> QED  BY <1>1, <1>7, <2>3, <4>1, <4>2
    <3> QED  BY <3>1, <3>2
  <2> QED  BY <2>2, <2>3
<1>10. KeysLetGo'
  BY <1>1, <1>8, <1>9 DEF KeysLetGo
<1> QED
  BY <1>4, <1>5, <1>10

LEMMA OthersKeepKeys ==
    ASSUME KeysInv, \/ \E buttons \in SUBSET Buttons, comes \in BOOLEAN : PointerEvent(buttons, comes)
                    \/ \E f \in Fingers : TouchDown(f) \/ TouchUp(f)
                    \/ Blur \/ \E to \in {"picture", "local"} : Focus(to)
                    \/ UNCHANGED keyboardVars
    PROVE  KeysInv'
<1> USE DEF KeysInv, KeysTyped
<1>1. CASE \E f \in Fingers : TouchDown(f) \/ TouchUp(f)
  BY <1>1 DEF TouchDown, TouchUp, KnownUnderMeta, KeysLetGo, UnderMeta
<1>2. CASE UNCHANGED keyboardVars
  BY <1>2 DEF keyboardVars, KnownUnderMeta, KeysLetGo, UnderMeta
<1>3. CASE Blur \/ \E to \in {"picture", "local"} : Focus(to)
  BY <1>3 DEF Blur, Focus, KnownUnderMeta, KeysLetGo, UnderMeta
<1>4. ASSUME NEW buttons \in SUBSET Buttons, NEW comes \in BOOLEAN, PointerEvent(buttons, comes)
      PROVE  KeysInv'
  <2>1. /\ person' = [person EXCEPT !.buttons = buttons] /\ UNCHANGED <<focus, missed>>
        /\ pipe' = IF comes /\ focus # "away" THEN [pipe EXCEPT !.held = buttons] ELSE pipe
    BY <1>4 DEF PointerEvent
  <2>2. /\ person'.keys = person.keys /\ person'.underMeta = person.underMeta
        /\ pipe'.keys = pipe.keys /\ pipe'.underMeta = pipe.underMeta
        /\ focus = "away" => pipe' = pipe
    BY <2>1
  <2>3. KeysTyped'
    BY <2>1
  <2> QED  BY <2>1, <2>2, <2>3 DEF KnownUnderMeta, KeysLetGo, UnderMeta
<1> QED
  BY <1>1, <1>2, <1>3, <1>4

(* There is a slot to give: the fingers down are fewer than the slots. *)
LEMMA SlotIsFree == ASSUME SlotsTyped PROVE Slot \in 0..Cardinality(Fingers) /\ Slot \notin Slots
<1> DEFINE N == Cardinality(Fingers)
           free == (0..N) \ Slots
<1>1. IsFiniteSet(Fingers) /\ N \in Nat
  BY KeyboardAssumption, FS_CardinalityType
<1>2. IsFiniteSet(DOMAIN touches) /\ Cardinality(DOMAIN touches) \in Nat /\ Cardinality(DOMAIN touches) <= N
  BY <1>1, FS_Subset, FS_CardinalityType DEF SlotsTyped
<1>3. IsFiniteSet(0..N) /\ Cardinality(0..N) = N + 1
  BY <1>1, FS_Interval
<1> HIDE DEF N
<1>4. free # {}
  <2> SUFFICES ASSUME 0..N \subseteq Slots PROVE FALSE
    OBVIOUS
  <2> DEFINE who == [n \in 0..N |-> CHOOSE f \in DOMAIN touches : touches[f] = n]
  <2>1. \A n \in 0..N : who[n] \in DOMAIN touches /\ touches[who[n]] = n
    BY DEF Slots
  <2>2. who \in [0..N -> DOMAIN touches]
    BY <2>1
  <2> HIDE DEF who
  <2>3. Cardinality(DOMAIN touches) < Cardinality(0..N)
    BY <1>1, <1>2, <1>3
  <2>4. PICK m, n \in 0..N : m # n /\ who[m] = who[n]
    BY <1>2, <1>3, <2>2, <2>3, FS_PigeonHole
  <2> QED  BY <2>1, <2>4
<1>5. free \subseteq Nat
  BY <1>1
<1> HIDE DEF free
<1>6. PICK n \in free : \A m \in free : n <= m
  BY <1>4, <1>5, Lowest
<1>7. n \in 0..N /\ n \notin Slots /\ 0..n - 1 \subseteq Slots
  BY <1>1, <1>6 DEF free
<1>8. \E m \in 0..N : m \notin Slots /\ 0..m - 1 \subseteq Slots
  BY <1>7
<1> QED
  BY <1>8 DEF Slot, N

LEMMA FingersKeep == ASSUME SlotsInv, [KeyboardNext]_keyboardVars PROVE SlotsInv'
<1> USE DEF SlotsInv, SlotsTyped
<1>1. ASSUME NEW f \in Fingers, TouchDown(f) PROVE SlotsInv'
  <2>1. /\ f \notin DOMAIN touches
        /\ touches' = [g \in DOMAIN touches \cup {f} |-> IF g = f THEN Slot ELSE touches[g]]
    BY <1>1 DEF TouchDown
  <2>2. Slot \in 0..Cardinality(Fingers) /\ \A g \in DOMAIN touches : touches[g] # Slot
    BY SlotIsFree DEF Slots
  <2>3. DOMAIN touches' = DOMAIN touches \cup {f}
    BY <2>1
  <2> QED  BY <2>1, <2>2, <2>3 DEF SlotsApart
<1>2. ASSUME NEW f \in Fingers, TouchUp(f) PROVE SlotsInv'
  <2>1. touches' = [g \in DOMAIN touches \ {f} |-> touches[g]]
    BY <1>2 DEF TouchUp
  <2> QED  BY <2>1 DEF SlotsApart
<1>3. CASE touches' = touches
  BY <1>3 DEF SlotsApart
<1> QED
  BY <1>1, <1>2, <1>3 DEF KeyboardNext, keyboardVars, KeyDown, KeyUp, PointerEvent, Blur, Focus

InputInv == KeysInv /\ SlotsInv

LEMMA InputBegins == KeyboardInit => InputInv
  BY DEF KeyboardInit, InputInv, KeysInv, KeysTyped, KnownUnderMeta, KeysLetGo, SlotsInv, SlotsTyped, SlotsApart

LEMMA InputGoesOn == InputInv /\ [KeyboardNext]_keyboardVars => InputInv'
<1> SUFFICES ASSUME InputInv, [KeyboardNext]_keyboardVars PROVE InputInv'
  OBVIOUS
<1>1. SlotsInv'
  BY FingersKeep DEF InputInv
<1>2. KeysInv'
  BY KeyDownKeeps, KeyUpKeeps, OthersKeepKeys DEF KeyboardNext, InputInv
<1> QED
  BY <1>1, <1>2 DEF InputInv

(* The host holds no key, button or finger past the person: a release is sent wherever it lands,
   one that never comes is made up for when Meta is released or the window is left, and fingers
   keep slots of their own (input.ts key, up, press, slot, release). *)
THEOREM InputHolds == KeyboardSpec => []InputLetsGo
<1>1. InputInv => InputLetsGo
  BY DEF InputInv, KeysInv, SlotsInv, InputLetsGo
<1> QED
  BY <1>1, InputBegins, InputGoesOn, PTL DEF KeyboardSpec

(***************************************************************************)
(* What is kept is what was given (KeptAsGiven of MCPage).                 *)
(***************************************************************************)

(* The store has nothing sane but what was picked. *)
PrefsInv ==
    /\ DEFAULTS \in Settings /\ visit \in [prefs : Settings, keeps : BOOLEAN] /\ picked \subseteq Names
    /\ \A n \in Names \cap DOMAIN store : n \in picked \/ store[n] \notin Values

LEMMA GotIsSane == ASSUME DEFAULTS \in Settings PROVE Got \in Settings
  BY DEF Got, Sane, Settings

LEMMA PrefsReach == PrefsInv => DefaultsReach
  BY DEF PrefsInv, DefaultsReach, Got, Sane, MergedOver

LEMMA PrefsBegin == PrefsInit => PrefsInv
<1> SUFFICES ASSUME PrefsInit PROVE PrefsInv
  OBVIOUS
<1>1. \A n \in DOMAIN store : store[n] \notin Values
  BY PrefsAssumption DEF PrefsInit, Nowhere
<1> QED
  BY <1>1, GotIsSane DEF PrefsInit, PrefsInv

LEMMA PrefsGoOn == PrefsInv /\ [PrefsNext]_prefsVars => PrefsInv'
<1> SUFFICES ASSUME PrefsInv, [PrefsNext]_prefsVars PROVE PrefsInv'
  OBVIOUS
<1>a. DEFAULTS \in Settings /\ visit \in [prefs : Settings, keeps : BOOLEAN] /\ picked \subseteq Names /\ DefaultsReach /\ Got \in Settings
  BY PrefsReach, GotIsSane DEF PrefsInv
<1>1. ASSUME NEW n \in Names, NEW v \in Values, Set(n, v) PROVE PrefsInv'
  <2> DEFINE next == Sane(MergedOver([m \in {n} |-> v], Got))
  <2>1. next \in Settings
    BY <1>a DEF Sane, Settings
  <2>2. \A m \in Names \ {n} : next[m] = Got[m]
    BY <1>a DEF Sane, MergedOver, Settings
  <2>3. \A m \in Names \ (picked \cup {n}) : next[m] = DEFAULTS[m]
    BY <1>a, <2>2 DEF DefaultsReach
  <2>4. /\ visit' = [visit EXCEPT !.prefs = next]
        /\ store' = IF visit.keeps THEN Chosen(next) ELSE store
        /\ picked' = IF visit.keeps THEN picked \cup {n} ELSE picked
        /\ DEFAULTS' = DEFAULTS
    BY <1>1 DEF Set
  <2> HIDE DEF next
  <2>5. \A m \in Names \cap DOMAIN store' : m \in picked' \/ store'[m] \notin Values
    BY <2>3, <2>4 DEF Chosen, PrefsInv
  <2>6. visit' \in [prefs : Settings, keeps : BOOLEAN]
    BY <1>a, <2>1, <2>4
  <2> QED
    BY <1>a, <2>4, <2>5, <2>6 DEF PrefsInv
<1>2. ASSUME ResetPrefs PROVE PrefsInv'
  BY <1>a, <1>2 DEF ResetPrefs, PrefsInv, Nowhere
<1>3. ASSUME NewBuild PROVE PrefsInv'
  <2>1. DEFAULTS' \in Settings /\ UNCHANGED <<store, picked>> /\ visit' = [visit EXCEPT !.prefs = Got']
    BY <1>3 DEF NewBuild
  <2>2. Got' \in Settings
    BY <2>1 DEF Got, Sane, Settings
  <2>3. visit' \in [prefs : Settings, keeps : BOOLEAN]
    BY <1>a, <2>1, <2>2
  <2> QED
    BY <1>a, <2>1, <2>3 DEF PrefsInv
<1>4. ASSUME Blocked PROVE PrefsInv'
  BY <1>a, <1>4 DEF Blocked, PrefsInv
<1>5. CASE UNCHANGED prefsVars
  BY <1>5 DEF prefsVars, PrefsInv
<1> QED
  BY <1>1, <1>2, <1>3, <1>4, <1>5 DEF PrefsNext

(* The browser's pass: a renewal answered was of a pass that has its host. *)
RenewalStages == {"none", "asked", "answered"}
Renewals == [logins : Nat, earned : Nat, ask : [stage : RenewalStages, shows : Nat, got : Nat, login : Nat]]
ServerPasses == [to : SUBSET Routes, holds : BOOLEAN]

PagePassTyped ==
    /\ server \in Seq(ServerPasses) /\ held \in [pass : Nat, hosts : SUBSET Routes] /\ held.pass <= Len(server)
    /\ renewing \in [Routes -> Renewals]

RenewalFits(h) ==
    LET ask == renewing[h].ask
    IN  /\ ask.shows <= Len(server) /\ renewing[h].earned <= renewing[h].logins /\ ask.login <= renewing[h].logins
        /\ ask.stage = "answered" => ask.got \in 1..Len(server) /\ h \in server[ask.got].to

PagePassInv == PagePassTyped /\ (\A h \in Routes : RenewalFits(h)) /\ ShowsWhatWasProven

LEMMA PagePassBegins == PagePassInit => PagePassInv
<1> SUFFICES ASSUME PagePassInit PROVE PagePassInv
  OBVIOUS
<1>1. [logins |-> 0, earned |-> 0, ask |-> NoRenewal] \in Renewals
  BY DEF Renewals, NoRenewal, RenewalStages
<1>2. PagePassTyped
  BY <1>1 DEF PagePassInit, PagePassTyped, NoPass
<1>3. \A h \in Routes : RenewalFits(h)
  BY DEF PagePassInit, RenewalFits, NoRenewal
<1> QED
  BY <1>2, <1>3 DEF PagePassInit, PagePassInv, ShowsWhatWasProven, NoPass

(* A host's renewal moves, and passes are proven to more hosts. *)
ProvenMore ==
    /\ server' \in Seq(ServerPasses) /\ Len(server) <= Len(server')
    /\ \A i \in 1..Len(server) : server[i].to \subseteq server'[i].to

LEMMA RenewalKeeps ==
    ASSUME PagePassInv, NEW h \in Routes, NEW r \in Renewals, renewing' = [renewing EXCEPT ![h] = r],
           ProvenMore, RenewalFits(h)',
           held' \in [pass : Nat, hosts : SUBSET Routes], held'.pass <= Len(server'),
           UNCHANGED held \/ ShowsWhatWasProven'
    PROVE  PagePassInv'
<1>1. PagePassTyped'
  BY DEF PagePassInv, PagePassTyped, ProvenMore
<1>2. \A g \in Routes : RenewalFits(g)'
  <2> SUFFICES ASSUME NEW g \in Routes PROVE RenewalFits(g)'
    OBVIOUS
  <2>1. CASE g = h
    BY <2>1
  <2>2. CASE g # h
    <3>1. renewing'[g] = renewing[g] /\ renewing[g] \in Renewals /\ RenewalFits(g) /\ Len(server) \in Nat /\ Len(server') \in Nat
      BY <2>2 DEF PagePassInv, PagePassTyped, ProvenMore
    <3>2. renewing[g].ask.got \in Nat /\ renewing[g].ask.shows \in Nat
      BY <3>1 DEF Renewals
    <3> QED
      BY <3>1, <3>2 DEF RenewalFits, ProvenMore
  <2> QED
    BY <2>1, <2>2
<1>3. ShowsWhatWasProven'
  <2>1. CASE UNCHANGED held
    <3>1. held.pass \in Nat /\ held.pass <= Len(server) /\ ShowsWhatWasProven
      BY DEF PagePassInv, PagePassTyped
    <3> QED
      BY <2>1, <3>1 DEF ShowsWhatWasProven, ProvenMore
  <2> QED
    BY <2>1
<1> QED
  BY <1>1, <1>2, <1>3 DEF PagePassInv

LEMMA PagePassGoesOn == PagePassInv /\ [PagePassNext]_pagePassVars => PagePassInv'
<1> SUFFICES ASSUME PagePassInv, [PagePassNext]_pagePassVars PROVE PagePassInv'
  OBVIOUS
<1>a. /\ server \in Seq(ServerPasses) /\ held \in [pass : Nat, hosts : SUBSET Routes] /\ held.pass <= Len(server)
      /\ renewing \in [Routes -> Renewals] /\ Len(server) \in Nat
  BY DEF PagePassInv, PagePassTyped
<1>b. \A h \in Routes : RenewalFits(h) /\ renewing[h] \in Renewals
                        /\ renewing[h].ask \in [stage : RenewalStages, shows : Nat, got : Nat, login : Nat]
                        /\ renewing[h].logins \in Nat /\ renewing[h].earned \in Nat
  BY <1>a DEF PagePassInv, Renewals
<1>c. ASSUME UNCHANGED server PROVE ProvenMore
  BY <1>a, <1>c DEF ProvenMore
<1>d. ASSUME NEW h \in Routes, NEW ask \in [stage : RenewalStages, shows : Nat, got : Nat, login : Nat], RenewalIs(h, ask)
      PROVE  /\ renewing' = [renewing EXCEPT ![h] = [renewing[h] EXCEPT !.ask = ask]]
             /\ [renewing[h] EXCEPT !.ask = ask] \in Renewals
             /\ renewing'[h].ask = ask /\ renewing'[h].logins = renewing[h].logins
             /\ renewing'[h].earned = renewing[h].earned
  BY <1>a, <1>b, <1>d DEF RenewalIs, Renewals
<1>e. NoRenewal \in [stage : RenewalStages, shows : Nat, got : Nat, login : Nat]
  BY DEF NoRenewal, RenewalStages
<1>1. ASSUME NEW h \in Routes, LogsIn(h) PROVE PagePassInv'
  <2> DEFINE r == [renewing[h] EXCEPT !.logins = renewing[h].logins + 1]
  <2>1. renewing' = [renewing EXCEPT ![h] = r] /\ UNCHANGED <<server, held>>
    BY <1>1 DEF LogsIn
  <2>2. r \in Renewals /\ r.logins = renewing[h].logins + 1 /\ r.earned = renewing[h].earned /\ r.ask = renewing[h].ask
    BY <1>b DEF Renewals
  <2> HIDE DEF r
  <2>3. renewing'[h] = r
    BY <1>a, <2>1
  <2>4. RenewalFits(h)'
    BY <1>b, <2>1, <2>2, <2>3 DEF RenewalFits
  <2> QED
    BY <1>a, <1>c, <2>1, <2>2, <2>4, RenewalKeeps
<1>2. ASSUME NEW h \in Routes, Renews(h) PROVE PagePassInv'
  <2> DEFINE ask == [stage |-> "asked", shows |-> held.pass, got |-> 0, login |-> renewing[h].logins]
  <2>1. RenewalIs(h, ask) /\ UNCHANGED <<server, held>>
    BY <1>2 DEF Renews
  <2>2. /\ ask \in [stage : RenewalStages, shows : Nat, got : Nat, login : Nat] /\ ask.stage = "asked"
        /\ ask.shows = held.pass /\ ask.login = renewing[h].logins
    BY <1>a, <1>b DEF RenewalStages
  <2> HIDE DEF ask
  <2>3. renewing'[h].ask = ask /\ renewing'[h].logins = renewing[h].logins /\ renewing'[h].earned = renewing[h].earned
    BY <1>d, <2>1, <2>2
  <2>4. RenewalFits(h)'
    BY <1>a, <1>b, <2>1, <2>2, <2>3 DEF RenewalFits
  <2> QED
    BY <1>a, <1>c, <1>d, <2>1, <2>2, <2>4, RenewalKeeps
<1>3. ASSUME NEW h \in Routes, Minted(h) PROVE PagePassInv'
  <2> DEFINE was == renewing[h].ask
             known == was.shows # 0 /\ server[was.shows].holds
             id == IF known THEN was.shows ELSE Len(server) + 1
             ask == [was EXCEPT !.stage = "answered", !.got = id]
  <2>1. /\ server' = IF known THEN [server EXCEPT ![id].to = @ \cup {h}] ELSE Append(server, [to |-> {h}, holds |-> TRUE])
        /\ RenewalIs(h, ask) /\ UNCHANGED held
    BY <1>3 DEF Minted
  <2>2. was \in [stage : RenewalStages, shows : Nat, got : Nat, login : Nat] /\ was.shows <= Len(server)
    BY <1>b DEF RenewalFits
  <2>3. id \in Nat
    BY <1>a, <2>2
  <2>4. /\ ask \in [stage : RenewalStages, shows : Nat, got : Nat, login : Nat] /\ ask.stage = "answered"
        /\ ask.shows = was.shows /\ ask.got = id /\ ask.login = was.login
    BY <2>2, <2>3 DEF RenewalStages
  <2>5. ProvenMore /\ id \in 1..Len(server') /\ h \in server'[id].to
    <3>1. CASE known
      <4>1. id \in 1..Len(server) /\ server[id] \in ServerPasses
        BY <1>a, <2>2, <3>1
      <4>2. [server[id] EXCEPT !.to = @ \cup {h}] \in ServerPasses /\ [server[id] EXCEPT !.to = @ \cup {h}].to = server[id].to \cup {h}
        BY <4>1 DEF ServerPasses
      <4>3. server' = [server EXCEPT ![id] = [server[id] EXCEPT !.to = @ \cup {h}]]
        BY <2>1, <3>1
      <4>4. server' \in Seq(ServerPasses) /\ Len(server') = Len(server)
        <5>1. PICK j, y : j = id /\ y = [server[id] EXCEPT !.to = @ \cup {h}]
          OBVIOUS
        <5>2. server' = [server EXCEPT ![j] = y] /\ j \in 1..Len(server) /\ y \in ServerPasses
          BY <4>1, <4>2, <4>3, <5>1
        <5> HIDE DEF id
        <5> QED
          BY <1>a, <5>2
      <4>5. PICK x : x = [server[id] EXCEPT !.to = @ \cup {h}]
        OBVIOUS
      <4>6. server'[id].to = server[id].to \cup {h}
        <5>1. x.to = server[id].to \cup {h}
          BY <4>2, <4>5
        <5>2. server' = [server EXCEPT ![id] = x]
          BY <4>3, <4>5
        <5> HIDE DEF id
        <5>3. server'[id] = x
          BY <1>a, <4>1, <5>2
        <5> QED
          BY <5>1, <5>3
      <4>7. \A i \in 1..Len(server) : i # id => server'[i] = server[i]
        <5>1. PICK j : j = id
          OBVIOUS
        <5>2. server' = [server EXCEPT ![j] = x]
          BY <4>3, <4>5, <5>1
        <5> HIDE DEF id
        <5> QED
          BY <1>a, <5>1, <5>2
      <4> HIDE DEF id
      <4> QED
        BY <1>a, <4>1, <4>4, <4>6, <4>7 DEF ProvenMore
    <3>2. CASE ~known
      <4>1. server' = Append(server, [to |-> {h}, holds |-> TRUE]) /\ id = Len(server) + 1
        BY <2>1, <3>2
      <4>2. [to |-> {h}, holds |-> TRUE] \in ServerPasses
        BY DEF ServerPasses
      <4>3. server' \in Seq(ServerPasses) /\ Len(server') = Len(server) + 1 /\ server'[id] = [to |-> {h}, holds |-> TRUE]
            /\ \A i \in 1..Len(server) : server'[i] = server[i]
        BY <1>a, <4>1, <4>2
      <4> QED
        BY <1>a, <4>1, <4>3 DEF ProvenMore
    <3> QED
      BY <3>1, <3>2
  <2>6. was.login <= renewing[h].logins /\ renewing[h].earned <= renewing[h].logins
    BY <1>b DEF RenewalFits
  <2> HIDE DEF ask, id, known, was
  <2>a. renewing'[h].ask = ask /\ renewing'[h].logins = renewing[h].logins /\ renewing'[h].earned = renewing[h].earned
    BY <1>d, <2>1, <2>4
  <2>7. RenewalFits(h)'
    BY <1>a, <1>b, <2>2, <2>3, <2>4, <2>5, <2>6, <2>a DEF RenewalFits, ProvenMore
  <2>8. held'.pass <= Len(server')
    BY <1>a, <2>1, <2>5 DEF ProvenMore
  <2> QED
    BY <1>a, <1>d, <2>1, <2>4, <2>5, <2>7, <2>8, RenewalKeeps
<1>4. ASSUME NEW h \in Routes, Refused(h) PROVE PagePassInv'
  <2>1. RenewalIs(h, NoRenewal) /\ UNCHANGED <<server, held>>
    BY <1>4 DEF Refused
  <2>2. NoRenewal.shows = 0 /\ NoRenewal.login = 0 /\ NoRenewal.stage = "none"
    BY DEF NoRenewal
  <2>3. renewing'[h].ask = NoRenewal /\ renewing'[h].logins = renewing[h].logins /\ renewing'[h].earned = renewing[h].earned
    BY <1>d, <1>e, <2>1
  <2>4. RenewalFits(h)'
    BY <1>a, <1>b, <2>1, <2>2, <2>3 DEF RenewalFits
  <2> QED
    BY <1>a, <1>c, <1>d, <1>e, <2>1, <2>4, RenewalKeeps
<1>5. ASSUME NEW h \in Routes, Takes(h) PROVE PagePassInv'
  <2> DEFINE ask == renewing[h].ask
             r == [renewing[h] EXCEPT !.ask = NoRenewal, !.earned = ask.login]
  <2>1. /\ ask.stage = "answered" /\ UNCHANGED server
        /\ held' = [pass |-> ask.got, hosts |-> HostsHeld(ask.got) \cup {h}]
        /\ renewing' = [renewing EXCEPT ![h] = r]
    BY <1>5 DEF Takes
  <2>2. ask.got \in 1..Len(server) /\ h \in server[ask.got].to /\ ask.login <= renewing[h].logins /\ ask.login \in Nat
    BY <1>b, <2>1 DEF RenewalFits
  <2>3. r \in Renewals /\ r.ask = NoRenewal /\ r.earned = ask.login /\ r.logins = renewing[h].logins
    BY <1>b, <1>e, <2>2 DEF Renewals
  <2>4. renewing'[h] = r
    BY <1>a, <2>1
  <2> HIDE DEF r
  <2>5. RenewalFits(h)'
    BY <1>a, <1>b, <2>1, <2>2, <2>3, <2>4 DEF RenewalFits, NoRenewal
  <2>6. HostsHeld(ask.got) \subseteq server[ask.got].to /\ HostsHeld(ask.got) \subseteq Routes
    BY <1>a, <2>2 DEF HostsHeld, PagePassInv, ShowsWhatWasProven
  <2>7. held' \in [pass : Nat, hosts : SUBSET Routes] /\ held'.pass <= Len(server')
    BY <1>a, <2>1, <2>2, <2>6
  <2>8. ShowsWhatWasProven'
    BY <2>1, <2>2, <2>6 DEF ShowsWhatWasProven
  <2> QED
    BY <1>a, <1>c, <2>1, <2>3, <2>5, <2>7, <2>8, RenewalKeeps
<1>6. ASSUME NEW pass \in DOMAIN server, Lapses(pass) PROVE PagePassInv'
  <2> DEFINE r == [server[pass] EXCEPT !.holds = FALSE]
  <2>1. server' = [server EXCEPT ![pass] = r] /\ UNCHANGED <<held, renewing>>
    BY <1>6 DEF Lapses
  <2>a. pass \in 1..Len(server) /\ server[pass] \in ServerPasses
    BY <1>a
  <2>2. r \in ServerPasses /\ r.to = server[pass].to
    BY <2>a DEF ServerPasses
  <2> HIDE DEF r
  <2>3. /\ server' \in Seq(ServerPasses) /\ Len(server') = Len(server)
        /\ \A i \in 1..Len(server) : server'[i].to = server[i].to
    BY <1>a, <2>1, <2>2
  <2>4. \A h \in Routes : RenewalFits(h)'
    BY <1>a, <1>b, <2>1, <2>3 DEF RenewalFits
  <2>5. ShowsWhatWasProven'
    BY <1>a, <2>1, <2>3 DEF PagePassInv, ShowsWhatWasProven
  <2> QED
    BY <1>a, <2>1, <2>3, <2>4, <2>5 DEF PagePassInv, PagePassTyped
<1>7. ASSUME Cleared PROVE PagePassInv'
  <2>1. held' = NoPass /\ UNCHANGED <<server, renewing>>
    BY <1>7 DEF Cleared
  <2>2. \A h \in Routes : RenewalFits(h)'
    BY <1>b, <2>1 DEF RenewalFits
  <2> QED
    BY <1>a, <2>1, <2>2 DEF PagePassInv, PagePassTyped, ShowsWhatWasProven, NoPass
<1>8. CASE UNCHANGED pagePassVars
  BY <1>8 DEF pagePassVars, PagePassInv, PagePassTyped, RenewalFits, ShowsWhatWasProven
<1> QED
  BY <1>1, <1>2, <1>3, <1>4, <1>5, <1>6, <1>7, <1>8 DEF PagePassNext

(* The server's passes: none lives longer, or has more hosts, than it was given. *)
PassRecords == [pass : 1..MaxPasses, hosts : SUBSET Identities, left : 0..PASS_LIFE]
Givens == [left : 0..PASS_LIFE, to : SUBSET Identities]
PassesTyped ==
    /\ passes \in Seq(PassRecords) /\ disk \in Seq(PassRecords) /\ given \in Seq(Givens)
    /\ Len(passes) <= PASSES /\ Len(disk) <= PASSES /\ Len(given) <= MaxPasses

IsGiven(r) == r.pass <= Len(given) /\ r.left <= given[r.pass].left /\ r.hosts \subseteq given[r.pass].to
AllGiven(records) == \A i \in 1..Len(records) : IsGiven(records[i])

PassesInv == PassesTyped /\ AllGiven(passes) /\ AllGiven(disk)

LEMMA PassesBegin == PassesInit => PassesInv
  BY PassesAssumption DEF PassesInit, PassesInv, PassesTyped, AllGiven

(* The hosts of a pass that lives, and of one that is not given yet. *)
LEMMA HostsAreGiven ==
    ASSUME PassesInv, NEW id \in Nat
    PROVE  /\ HostsOf(id) \subseteq Identities
           /\ LivingOf(id) # {} => id \in 1..Len(given) /\ given[id].left > 0 /\ HostsOf(id) \subseteq given[id].to
           /\ LivingOf(id) = {} => HostsOf(id) = {}
           /\ id > Len(given) => HostsOf(id) = {}
<1>1. \A i \in LivingOf(id) : /\ passes[i] \in PassRecords /\ IsGiven(passes[i]) /\ passes[i].pass = id /\ passes[i].left > 0
  BY DEF LivingOf, HeldBy, PassesInv, PassesTyped, AllGiven
<1>2. \A i \in LivingOf(id) : passes[i].hosts \subseteq Identities /\ passes[i].left \in Nat /\ passes[i].pass \in Nat \ {0}
  BY <1>1, PassesAssumption DEF PassRecords
<1>3. \A i \in LivingOf(id) : id \in 1..Len(given) /\ given[id].left >= passes[i].left /\ passes[i].hosts \subseteq given[id].to
  BY <1>1, <1>2 DEF IsGiven, PassesInv, PassesTyped
<1>a. given \in Seq(Givens) /\ Len(given) \in Nat
  BY DEF PassesInv, PassesTyped
<1>b. \A i \in 1..Len(given) : given[i] \in Givens
  BY <1>a
<1>4. Len(given) \in Nat /\ \A i \in 1..Len(given) : given[i].left \in Nat
  BY <1>a, <1>b, PassesAssumption DEF Givens
<1>5. LivingOf(id) # {} => id \in 1..Len(given) /\ given[id].left > 0 /\ HostsOf(id) \subseteq given[id].to
  BY <1>1, <1>2, <1>3, <1>4 DEF HostsOf
<1> QED
  BY <1>2, <1>4, <1>5 DEF HostsOf

LEMMA CoversGiven == PassesInv => CoversWhatWasProven
  BY HostsAreGiven, PassesAssumption DEF CoversWhatWasProven

(* The passes that stay are some of those there were, no more of them. *)
LEMMA OthersAreHeld ==
    ASSUME PassesInv, NEW pass \in Nat, NEW others \in OthersLiving(pass)
    PROVE  /\ others \in Seq(PassRecords) /\ Len(others) <= Len(passes)
           /\ \A i \in 1..Len(others) : IsGiven(others[i])
<1> DEFINE of == {i \in DOMAIN passes : passes[i].left > 0 /\ passes[i].pass # pass}
<1>a. passes \in Seq(PassRecords) /\ Len(passes) \in Nat /\ of \subseteq 1..Len(passes) /\ \A i \in 1..Len(passes) : IsGiven(passes[i])
  BY DEF PassesInv, PassesTyped, AllGiven
<1>1. IsFiniteSet(of) /\ Cardinality(of) <= Len(passes)
  <2>1. PICK n : n = Len(passes)
    OBVIOUS
  <2>2. n \in Int /\ 1 \in Int /\ n >= 0
    BY <1>a, <2>1
  <2>3. IsFiniteSet(1..n) /\ Cardinality(1..n) = IF 1 > n THEN 0 ELSE n - 1 + 1
    BY <2>2, FS_Interval
  <2>4. IsFiniteSet(1..n) /\ Cardinality(1..n) = n
    BY <2>2, <2>3
  <2>5. of \subseteq 1..n
    BY <1>a, <2>1
  <2> HIDE DEF of
  <2> QED
    BY <2>1, <2>4, <2>5, FS_Subset
<1>2. Cardinality(of) \in Nat
  BY <1>1, FS_CardinalityType
<1> HIDE DEF of
<1>3. PICK ids \in SetToSeqs(of) : others = [i \in DOMAIN ids |-> passes[ids[i]]]
  BY DEF OthersLiving, of
<1>4. ids \in [1..Cardinality(of) -> of]
  BY <1>3 DEF SetToSeqs
<1>5. others = [i \in 1..Cardinality(of) |-> passes[ids[i]]]
  BY <1>3, <1>4
<1>6. \A i \in 1..Cardinality(of) : ids[i] \in 1..Len(passes)
  BY <1>a, <1>4
<1>7. \A i \in 1..Cardinality(of) : passes[ids[i]] \in PassRecords
  BY <1>a, <1>6
<1>8. others \in Seq(PassRecords) /\ Len(others) = Cardinality(of)
  BY <1>2, <1>5, <1>7
<1> QED
  BY <1>1, <1>5, <1>6, <1>8, <1>a

LEMMA KeptAreGiven ==
    ASSUME NEW others \in Seq(PassRecords), Len(others) <= PASSES, NEW rec \in PassRecords
    PROVE  /\ Kept(others, rec) \in Seq(PassRecords) /\ Len(Kept(others, rec)) <= PASSES
           /\ \A i \in 1..Len(Kept(others, rec)) :
                Kept(others, rec)[i] = rec \/ \E j \in 1..Len(others) : Kept(others, rec)[i] = others[j]
<1>a. PASSES \in Nat \ {0}
  BY PassesAssumption
<1>1. PICK all : all = Append(others, rec)
  OBVIOUS
<1>2. all \in Seq(PassRecords) /\ Len(all) = Len(others) + 1 /\ all[Len(all)] = rec /\ \A i \in 1..Len(others) : all[i] = others[i]
  BY <1>1
<1>3. \A i \in 1..Len(all) : all[i] = rec \/ \E j \in 1..Len(others) : all[i] = others[j]
  BY <1>2
<1>4. CASE Len(all) > PASSES
  <2>1. Kept(others, rec) = Tail(all)
    BY <1>1, <1>4 DEF Kept
  <2>2. Tail(all) \in Seq(PassRecords) /\ Len(Tail(all)) = Len(all) - 1 /\ \A i \in 1..Len(Tail(all)) : Tail(all)[i] = all[i + 1] /\ i + 1 \in 1..Len(all)
    BY <1>a, <1>2, <1>4
  <2> QED
    BY <1>a, <1>2, <1>3, <2>1, <2>2
<1>5. CASE ~(Len(all) > PASSES)
  <2>1. Kept(others, rec) = all
    BY <1>1, <1>5 DEF Kept
  <2> QED
    BY <1>a, <1>2, <1>3, <1>5, <2>1
<1> QED
  BY <1>4, <1>5

(* What was given stays given while `given` only grows. *)
LEMMA GivenGrows ==
    ASSUME PassesInv, Len(given') >= Len(given), Len(given') \in Nat,
           \A p \in 1..Len(given) : given[p].to \subseteq given'[p].to /\ (given'[p].left = PASS_LIFE \/ given'[p].left = given[p].left),
           NEW r \in PassRecords, IsGiven(r)
    PROVE  r.pass <= Len(given') /\ r.left <= given'[r.pass].left /\ r.hosts \subseteq given'[r.pass].to
<1>1. r.pass \in Nat \ {0} /\ r.left \in Nat /\ r.left <= PASS_LIFE
  BY PassesAssumption DEF PassRecords
<1>2. Len(given) \in Nat /\ r.pass \in 1..Len(given)
  BY <1>1 DEF PassesInv, PassesTyped, IsGiven
<1> QED
  BY <1>1, <1>2 DEF IsGiven

LEMMA PassesGoOn == PassesInv /\ [PassesNext]_passesVars => PassesInv'
<1> SUFFICES ASSUME PassesInv, [PassesNext]_passesVars PROVE PassesInv'
  OBVIOUS
<1>a. /\ passes \in Seq(PassRecords) /\ disk \in Seq(PassRecords) /\ given \in Seq(Givens)
      /\ Len(passes) <= PASSES /\ Len(disk) <= PASSES /\ Len(given) <= MaxPasses
      /\ Len(passes) \in Nat /\ Len(disk) \in Nat /\ Len(given) \in Nat
      /\ \A i \in 1..Len(passes) : passes[i] \in PassRecords /\ IsGiven(passes[i])
      /\ \A i \in 1..Len(disk) : disk[i] \in PassRecords /\ IsGiven(disk[i])
      /\ \A i \in 1..Len(given) : given[i] \in Givens
  BY DEF PassesInv, PassesTyped, AllGiven
<1>b. PASSES \in Nat \ {0} /\ PASS_LIFE \in Nat \ {0} /\ MaxPasses \in Nat \ {0}
  BY PassesAssumption
<1>1. ASSUME NEW pass \in 0..MaxPasses, NEW h \in Identities, NEW written \in BOOLEAN, Prove(pass, h, written)
      PROVE  PassesInv'
  <2>a. pass \in Nat
    BY <1>b
  <2>1. PICK id : id = IF LivingOf(pass) # {} THEN pass ELSE Len(given) + 1
    OBVIOUS
  <2>2. PICK to : to = IF LivingOf(pass) # {} THEN given[id].to \cup {h} ELSE {h}
    OBVIOUS
  <2>3. PICK g : g = [left |-> PASS_LIFE, to |-> to]
    OBVIOUS
  <2>4. PICK rec : rec = [pass |-> id, hosts |-> HostsOf(id) \cup {h}, left |-> PASS_LIFE]
    OBVIOUS
  <2>5. /\ id <= MaxPasses /\ disk' = IF written THEN passes' ELSE disk
        /\ \E others \in OthersLiving(id) : passes' = Kept(others, rec)
        /\ given' = IF LivingOf(pass) # {} THEN [given EXCEPT ![id] = g] ELSE Append(given, g)
    BY <1>1, <2>1, <2>2, <2>3, <2>4 DEF Prove
  <2>6. id \in Nat /\ id \in 1..MaxPasses /\ HostsOf(id) \subseteq Identities /\ HostsOf(id) \cup {h} \subseteq to /\ to \subseteq Identities
        /\ (LivingOf(pass) # {} => id \in 1..Len(given) /\ given[id].to \subseteq to)
    <3>1. CASE LivingOf(pass) # {}
      <4>1. id = pass /\ to = given[id].to \cup {h}
        BY <2>1, <2>2, <3>1
      <4>2. id \in 1..Len(given) /\ HostsOf(id) \subseteq given[id].to /\ HostsOf(id) \subseteq Identities
        BY <2>a, <3>1, <4>1, HostsAreGiven
      <4>3. given[id].to \subseteq Identities
        BY <1>a, <4>2 DEF Givens
      <4> QED
        BY <1>a, <2>5, <4>1, <4>2, <4>3
    <3>2. CASE LivingOf(pass) = {}
      <4>1. id = Len(given) + 1 /\ to = {h} /\ id \in Nat /\ id > Len(given)
        BY <1>a, <2>1, <2>2, <3>2
      <4>2. HostsOf(id) = {}
        BY <4>1, HostsAreGiven
      <4> QED
        BY <1>a, <2>5, <3>2, <4>1, <4>2
    <3> QED
      BY <3>1, <3>2
  <2>7. g \in Givens /\ g.left = PASS_LIFE /\ g.to = to
    BY <1>b, <2>3, <2>6 DEF Givens
  <2>8. rec \in PassRecords /\ rec.pass = id /\ rec.left = PASS_LIFE /\ rec.hosts = HostsOf(id) \cup {h}
    BY <1>b, <2>4, <2>6 DEF PassRecords
  <2>9. /\ given' \in Seq(Givens) /\ Len(given') \in Nat /\ Len(given) <= Len(given') /\ Len(given') <= MaxPasses
        /\ id \in 1..Len(given') /\ given'[id] = g
        /\ \A p \in 1..Len(given) : p # id => given'[p] = given[p]
        /\ id \in 1..Len(given) => given[id].to \subseteq to
    <3>1. CASE LivingOf(pass) # {}
      <4>1. given' = [given EXCEPT ![id] = g] /\ id \in 1..Len(given) /\ given[id].to \subseteq to
        BY <2>5, <2>6, <3>1
      <4> QED
        BY <1>a, <2>7, <4>1
    <3>2. CASE LivingOf(pass) = {}
      <4>1. given' = Append(given, g) /\ id = Len(given) + 1
        BY <2>1, <2>5, <3>2
      <4> QED
        BY <1>a, <2>5, <2>6, <2>7, <4>1
    <3> QED
      BY <3>1, <3>2
  <2>10. \A p \in 1..Len(given) : given[p].to \subseteq given'[p].to /\ (given'[p].left = PASS_LIFE \/ given'[p].left = given[p].left)
    BY <2>7, <2>9
  <2>11. \A r \in PassRecords : IsGiven(r) => IsGiven(r)'
    BY <2>9, <2>10, GivenGrows DEF IsGiven
  <2>12. IsGiven(rec)'
    BY <1>b, <2>6, <2>7, <2>8, <2>9 DEF IsGiven
  <2>13. PICK others \in OthersLiving(id) : passes' = Kept(others, rec)
    BY <2>5
  <2>14. others \in Seq(PassRecords) /\ Len(others) <= PASSES /\ Len(others) \in Nat /\ \A i \in 1..Len(others) : IsGiven(others[i])
    <3>1. others \in Seq(PassRecords) /\ Len(others) <= Len(passes) /\ \A i \in 1..Len(others) : IsGiven(others[i])
      BY <2>6, OthersAreHeld
    <3> QED
      BY <1>a, <1>b, <3>1
  <2>15. /\ passes' \in Seq(PassRecords) /\ Len(passes') <= PASSES
         /\ \A i \in 1..Len(passes') : passes'[i] = rec \/ \E j \in 1..Len(others) : passes'[i] = others[j]
    <3>1. PICK now : now = Kept(others, rec)
      OBVIOUS
    <3>2. /\ now \in Seq(PassRecords) /\ Len(now) <= PASSES
          /\ \A i \in 1..Len(now) : now[i] = rec \/ \E j \in 1..Len(others) : now[i] = others[j]
      <4>1. /\ Kept(others, rec) \in Seq(PassRecords) /\ Len(Kept(others, rec)) <= PASSES
            /\ \A i \in 1..Len(Kept(others, rec)) :
                Kept(others, rec)[i] = rec \/ \E j \in 1..Len(others) : Kept(others, rec)[i] = others[j]
        <5>1. rec \in PassRecords /\ others \in Seq(PassRecords) /\ Len(others) <= PASSES
          BY <2>8, <2>14
        <5> QED
          BY <5>1, KeptAreGiven
      <4> QED
        BY <3>1, <4>1
    <3>3. passes' = now
      BY <2>13, <3>1
    <3> QED
      BY <3>2, <3>3
  <2>16. \A i \in 1..Len(passes') : IsGiven(passes[i])'
    <3> SUFFICES ASSUME NEW i \in 1..Len(passes') PROVE IsGiven(passes[i])'
      OBVIOUS
    <3>1. PICK r : r = passes'[i]
      OBVIOUS
    <3>2. IsGiven(r)'
      <4>1. CASE r = rec
        BY <2>12, <4>1
      <4>2. CASE \E j \in 1..Len(others) : r = others[j]
        BY <2>11, <2>14, <4>2
      <4> QED
        BY <2>15, <3>1, <4>1, <4>2
    <3> QED
      BY <3>1, <3>2 DEF IsGiven
  <2>17. \A i \in 1..Len(disk') : IsGiven(disk[i])'
    <3>1. CASE written
      <4>1. disk' = passes'
        BY <2>5, <3>1
      <4> QED
        BY <2>16, <4>1 DEF IsGiven
    <3>2. CASE ~written
      <4>1. disk' = disk
        BY <2>5, <3>2
      <4>2. \A i \in 1..Len(disk) : IsGiven(disk[i])'
        <5> SUFFICES ASSUME NEW i \in 1..Len(disk) PROVE IsGiven(disk[i])'
          OBVIOUS
        <5>1. PICK r : r = disk[i]
          OBVIOUS
        <5>2. IsGiven(r)'
          BY <1>a, <2>11, <5>1
        <5> QED
          BY <4>1, <5>1, <5>2 DEF IsGiven
      <4> QED
        BY <4>1, <4>2
    <3> QED
      BY <3>1, <3>2
  <2>18. disk' \in Seq(PassRecords) /\ Len(disk') <= PASSES
    BY <1>a, <2>5, <2>15
  <2> QED
    BY <2>9, <2>15, <2>16, <2>17, <2>18 DEF PassesInv, PassesTyped, AllGiven
<1>2. ASSUME PassesTick PROVE PassesInv'
  <2>1. \A n \in Nat, m \in Nat : Older(n) \in Nat /\ Older(n) <= n /\ (n <= m => Older(n) <= Older(m))
    BY DEF Older
  <2>2. /\ passes' = [i \in 1..Len(passes) |-> [passes[i] EXCEPT !.left = Older(@)]]
        /\ disk' = [i \in 1..Len(disk) |-> [disk[i] EXCEPT !.left = Older(@)]]
        /\ given' = [i \in 1..Len(given) |-> [given[i] EXCEPT !.left = Older(@)]]
    BY <1>2, <1>a DEF PassesTick, Aged
  <2>3. \A r \in PassRecords : /\ [r EXCEPT !.left = Older(@)] \in PassRecords
                                /\ [r EXCEPT !.left = Older(@)].left = Older(r.left) /\ [r EXCEPT !.left = Older(@)].pass = r.pass
                                /\ [r EXCEPT !.left = Older(@)].hosts = r.hosts /\ r.left \in Nat /\ r.pass \in Nat \ {0}
    BY <1>b, <2>1 DEF PassRecords
  <2>4. \A r \in Givens : /\ [r EXCEPT !.left = Older(@)] \in Givens /\ r.left \in Nat
                           /\ [r EXCEPT !.left = Older(@)].left = Older(r.left) /\ [r EXCEPT !.left = Older(@)].to = r.to
    BY <1>b, <2>1 DEF Givens
  <2>5. /\ given' \in Seq(Givens) /\ Len(given') = Len(given)
        /\ \A p \in 1..Len(given) : given'[p].left = Older(given[p].left) /\ given'[p].to = given[p].to /\ given[p].left \in Nat
    <3>1. ASSUME NEW p \in 1..Len(given)
          PROVE  /\ [given[p] EXCEPT !.left = Older(@)] \in Givens /\ given'[p] = [given[p] EXCEPT !.left = Older(@)]
                 /\ given'[p].left = Older(given[p].left) /\ given'[p].to = given[p].to /\ given[p].left \in Nat
      <4>1. PICK s : s = [given[p] EXCEPT !.left = Older(@)]
        OBVIOUS
      <4>2. given[p] \in Givens
        BY <1>a
      <4>3. s \in Givens /\ given[p].left \in Nat /\ s.left = Older(given[p].left) /\ s.to = given[p].to
        BY <2>4, <4>1, <4>2
      <4>4. given'[p] = s
        BY <2>2, <4>1
      <4> QED
        BY <4>1, <4>3, <4>4
    <3>2. given' = [i \in 1..Len(given) |-> [given[i] EXCEPT !.left = Older(@)]] /\ Len(given) \in Nat
      BY <1>a, <2>2
    <3>3. \A i \in 1..Len(given) : [given[i] EXCEPT !.left = Older(@)] \in Givens
      BY <3>1
    <3>4. given' \in Seq(Givens) /\ Len(given') = Len(given)
      BY <3>2, <3>3
    <3>5. \A p \in 1..Len(given) : given'[p].left = Older(given[p].left) /\ given'[p].to = given[p].to /\ given[p].left \in Nat
      BY <3>1
    <3> QED
      BY <3>4, <3>5
  <2>6. ASSUME NEW r \in PassRecords, IsGiven(r), NEW s, s = [r EXCEPT !.left = Older(@)] PROVE s \in PassRecords /\ IsGiven(s)'
    <3>1. s \in PassRecords /\ s.left = Older(r.left) /\ s.pass = r.pass /\ s.hosts = r.hosts /\ r.left \in Nat /\ r.pass \in Nat \ {0}
      BY <2>3, <2>6
    <3>2. r.pass \in 1..Len(given)
      BY <1>a, <2>6, <3>1 DEF IsGiven
    <3>3. r.left <= given[r.pass].left /\ r.hosts \subseteq given[r.pass].to
      BY <2>6 DEF IsGiven
    <3>4. Older(r.left) <= Older(given[r.pass].left)
      BY <2>1, <2>5, <3>1, <3>2, <3>3
    <3>5. s.pass <= Len(given') /\ s.left <= given'[r.pass].left /\ s.hosts \subseteq given'[r.pass].to
      <4>1. Len(given') = Len(given) /\ given'[r.pass].left = Older(given[r.pass].left) /\ given'[r.pass].to = given[r.pass].to
        BY <2>5, <3>2
      <4> QED
        BY <1>a, <3>1, <3>2, <3>3, <3>4, <4>1
    <3> QED
      BY <3>1, <3>5 DEF IsGiven
  <2>7. ASSUME NEW i \in 1..Len(passes) PROVE passes'[i] \in PassRecords /\ IsGiven(passes[i])'
    <3>1. PICK s : s = [passes[i] EXCEPT !.left = Older(@)]
      OBVIOUS
    <3>2. s \in PassRecords /\ IsGiven(s)'
      BY <1>a, <2>6, <3>1
    <3>3. passes'[i] = s
      BY <2>2, <3>1
    <3> QED
      BY <3>2, <3>3 DEF IsGiven
  <2>8. ASSUME NEW i \in 1..Len(disk) PROVE disk'[i] \in PassRecords /\ IsGiven(disk[i])'
    <3>1. PICK s : s = [disk[i] EXCEPT !.left = Older(@)]
      OBVIOUS
    <3>2. s \in PassRecords /\ IsGiven(s)'
      BY <1>a, <2>6, <3>1
    <3>3. disk'[i] = s
      BY <2>2, <3>1
    <3> QED
      BY <3>2, <3>3 DEF IsGiven
  <2>9. passes' \in Seq(PassRecords) /\ Len(passes') = Len(passes)
    <3>1. \A i \in 1..Len(passes) : [passes[i] EXCEPT !.left = Older(@)] \in PassRecords
      BY <1>a, <2>3
    <3>2. passes' = [i \in 1..Len(passes) |-> [passes[i] EXCEPT !.left = Older(@)]] /\ Len(passes) \in Nat
      BY <1>a, <2>2
    <3> QED
      BY <3>1, <3>2
  <2>10. disk' \in Seq(PassRecords) /\ Len(disk') = Len(disk)
    <3>1. \A i \in 1..Len(disk) : [disk[i] EXCEPT !.left = Older(@)] \in PassRecords
      BY <1>a, <2>3
    <3>2. disk' = [i \in 1..Len(disk) |-> [disk[i] EXCEPT !.left = Older(@)]] /\ Len(disk) \in Nat
      BY <1>a, <2>2
    <3> QED
      BY <3>1, <3>2
  <2> QED
    BY <1>a, <2>5, <2>7, <2>8, <2>9, <2>10 DEF PassesInv, PassesTyped, AllGiven
<1>3. ASSUME Load PROVE PassesInv'
  <2>1. passes' = disk /\ disk' = disk /\ given' = given
    BY <1>3 DEF Load
  <2> QED
    BY <1>a, <2>1 DEF PassesInv, PassesTyped, AllGiven, IsGiven
<1>4. CASE UNCHANGED passesVars
  BY <1>4, <1>a DEF passesVars, PassesInv, PassesTyped, AllGiven, IsGiven
<1> QED
  BY <1>1, <1>2, <1>3, <1>4 DEF PassesNext

KeptInv == PrefsInv /\ PagePassInv /\ PassesInv

(* The page shows a pass to no host but those it was proven to (passkey.ts), the server takes one
   for no identity it was not proven to and no longer than it was given, across a restart that reads
   passes.json (server.ts Passes), and a setting nobody picked is the build's default, whatever
   localStorage had (prefs.ts). *)
THEOREM KeptHolds == Spec => []KeptAsGiven
<1>1. Init => KeptInv
  BY PrefsBegin, PagePassBegins, PassesBegin DEF Init, KeptInv
<1>2. KeptInv /\ [Next]_vars => KeptInv'
  BY PartsGoOn, PrefsGoOn, PagePassGoesOn, PassesGoOn DEF KeptInv
<1>3. KeptInv => KeptAsGiven
  BY PrefsReach, CoversGiven DEF KeptInv, KeptAsGiven, PagePassInv
<1> QED
  BY <1>1, <1>2, <1>3, PTL DEF Spec

(***************************************************************************)
(* The types of all the parts together, for every value of the constants:  *)
(* each part's from its own invariant.                                     *)
(***************************************************************************)
PageInv == AskedInv /\ TvInv /\ KeptInv /\ TunnelInv /\ InputInv /\ CursorInv

LEMMA PageBegins == Init => PageInv
<1>1. Init => AskedInv
  BY AppBegins, ShelfBegins, ConsoleBegins, WhoBegins DEF Init, AskedInv, ConsoleInit, SawStream
<1>2. Init => KeptInv
  BY PrefsBegin, PagePassBegins, PassesBegin DEF Init, KeptInv
<1> QED
  BY <1>1, <1>2, TvBegins, TunnelBegins, InputBegins, CursorBegins DEF Init, PageInv

LEMMA PageGoesOn == PageInv /\ [Next]_vars => PageInv'
<1>1. AskedInv /\ [Next]_vars => AskedInv'
  BY PartsGoOn, AppGoesOn, ShelfGoesOn, ConsoleGoesOn, WhoGoesOn DEF AskedInv, GoesOn
<1>2. KeptInv /\ [Next]_vars => KeptInv'
  BY PartsGoOn, PrefsGoOn, PagePassGoesOn, PassesGoOn DEF KeptInv
<1> QED
  BY <1>1, <1>2, TvGoesOn, TunnelGoesOn, InputGoesOn, CursorGoesOn, PartsGoOn DEF PageInv

LEMMA ScreenTyped == AskedInv => AppTypeOK /\ ShelfTypeOK /\ WhoTypeOK /\ ConsoleTypeOK
<1> SUFFICES ASSUME AskedInv PROVE AppTypeOK /\ ShelfTypeOK /\ WhoTypeOK /\ ConsoleTypeOK
  OBVIOUS
<1>1. AppTypeOK
  BY DEF AskedInv, AppInv, AppFits, EngineFits, GateIsOn, GateFits, GateStages, At, SomeOrigin, AppTypeOK
<1>2. ShelfTypeOK
  BY DEF AskedInv, ShelfInv, LibraryFits, Libraries, SomeShelf, ShelfTypeOK
<1>3. WhoTypeOK
  BY DEF AskedInv, WhoInv, AskFits, AskStages, SomePick, SomeProfile, Waits, WhoTypeOK
<1>4. ConsoleTypeOK
  BY DEF AskedInv, ConsoleInv, PageFits, ConFits, SomeBox, ConsoleTypeOK
<1> QED
  BY <1>1, <1>2, <1>3, <1>4

LEMMA KeptTyped == KeptInv => PrefsTypeOK /\ PagePassTypeOK /\ PassesTypeOK
<1> SUFFICES ASSUME KeptInv PROVE PrefsTypeOK /\ PagePassTypeOK /\ PassesTypeOK
  OBVIOUS
<1>1. PrefsTypeOK
  BY DEF KeptInv, PrefsInv, PrefsTypeOK
<1>2. PagePassTypeOK
  BY DEF KeptInv, PagePassInv, PagePassTyped, Renewals, RenewalStages, RenewalFits, PagePassTypeOK
<1>3. PassesTypeOK
  <2>1. /\ passes \in Seq(PassRecords) /\ Len(passes) <= PASSES /\ Len(given) <= MaxPasses
    BY DEF KeptInv, PassesInv, PassesTyped
  <2>2. \A i \in DOMAIN passes : passes[i] \in PassRecords
    BY <2>1
  <2> QED
    BY <2>1, <2>2 DEF PassRecords, PassesTypeOK
<1> QED
  BY <1>1, <1>2, <1>3

(* No order of clicks, answers, keys, reloads and restarts takes what the page and its server keep
   out of its type: a gate that is on is one (app.ts), no tunnel has more calls than its slots
   (tunnel.ts), no file more passes than PASSES (server.ts), no sweep a step it has not
   (sweep.ts). *)
THEOREM PageTyped == Spec => []TypeOK
<1>1. TunnelInv => TunnelTypeOK
  BY TunnelAssumption DEF TunnelInv, TunnelTyped, CallsTyped, TunnelTypeOK
<1>2. InputInv => KeyboardTypeOK
  BY DEF InputInv, KeysInv, KeysTyped, SlotsInv, SlotsTyped, KeyboardTypeOK
<1>3. CursorInv => CursorTypeOK
  BY DEF CursorInv, CursorTyped, StreamType, WearType, CursorTypeOK
<1>4. TvInv => WakeCardTypeOK /\ SweepTypeOK /\ FieldTypeOK
  BY SweepSays, FieldReaches DEF TvInv, WakeInv
<1>5. PageInv => TypeOK
  BY <1>1, <1>2, <1>3, <1>4, ScreenTyped, KeptTyped DEF PageInv, AskedInv, TypeOK
<1> QED
  BY <1>5, PageBegins, PageGoesOn, PTL DEF Spec
=============================================================================
