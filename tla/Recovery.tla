------------------------------ MODULE Recovery ------------------------------
(***************************************************************************)
(* What the page does about a lost frame: rust/recovery.rs, the session    *)
(* pump and the gate's callers in rust/session.rs.  A pump reads frames,   *)
(* notes the gap before one, holds the picture, and asks the host for a    *)
(* keyframe or for the lost range; an ask is a numbered datagram, repeated *)
(* until a frame answers it.  Frame indices and ask numbers wrap.          *)
(*                                                                         *)
(* The host, the link and core's ReanchorGate are outside src/.  The       *)
(* page's decoder appears by what it may report: VideoPipe has the rest.   *)
(***************************************************************************)
EXTENDS Integers, Sequences, SequencesExt

CONSTANTS
    Width,        \* frame indices: 2^32 in the code
    RfiMaxRange,  \* RFI_MAX_RANGE
    Repeat, Throttle, GiveUp, ReAsk,   \* in ticks: REPEAT, ASK_THROTTLE, GIVE_UP, the gate's 500 ms
    MaxGap,       \* bound: frames in a row that the link loses
    MaxFaults,    \* bound: frames lost or out of order, asks lost, decoder failures, in all
    InFlight,     \* bound: frames between host and page
    Depth         \* bound: frames within the decoder

ASSUME RecoveryAssumption ==
    /\ Width \in Nat /\ RfiMaxRange \in Nat \ {0}
    /\ {Repeat, Throttle, GiveUp, ReAsk} \subseteq Nat \ {0}
    /\ MaxGap \in Nat /\ MaxGap < (Width - 1) \div 2
    /\ MaxFaults \in Nat /\ InFlight \in Nat \ {0} /\ Depth \in Nat \ {0}

VARIABLES
    client,     \* session.rs Client: nextIndex, pendingRfi, the open ask, throttle, freeze; the decoder
    wire,       \* frames on their way, as sent
    sent,       \* the host's next frame index
    hostAsk,    \* what the host was asked and has yet to send: none, anchor or key
    heard,      \* it has taken the open ask's number
    faults      \* what was lost so far: the bound's counter

encoderVars == <<sent, hostAsk, heard>>
recoveryVars == <<client, wire, encoderVars, faults>>

Index == 0..Width - 1
NoIndex == -1
NoRange == <<NoIndex, NoIndex>>
NoOpenAsk == [ask |-> "none", wait |-> 0, left |-> 0]

(* A session as on_server_hello leaves it.  last_ask alone is not reset.  byLoss and passed are
   history: a loss armed this hold; frames passed over and not yet asked for. *)
NewClient(throttle) ==
    [nextIndex |-> NoIndex, pendingRfi |-> NoRange, throttle |-> throttle,
     open |-> NoOpenAsk,
     freeze |-> [on |-> FALSE, own |-> FALSE, left |-> 0],
     decoder |-> [up |-> TRUE, needKey |-> TRUE, asked |-> FALSE, queue |-> <<>>],
     keyWanted |-> FALSE, byLoss |-> FALSE, passed |-> {}]

RecoveryInit ==
    /\ client = NewClient(0) /\ wire = <<>> /\ sent = 0
    /\ hostAsk = "none" /\ heard = FALSE /\ faults = 0

(***************************************************************************)
(* recovery.rs: indices.                                                   *)
(***************************************************************************)
PlusNoWrap(i, k) == i + k   \* mutant
Plus(i, k) == (i + k) % Width

IndexGapNoWrap(exp, got) == IF got > exp THEN got - exp ELSE 0   \* mutant
(* How far `got` is ahead of `exp`; 0 when it is not. *)
IndexGap(exp, got) ==
    LET ahead == (got - exp) % Width
    IN  IF ahead < (Width - 1) \div 2 THEN ahead ELSE 0

WidenedToLast(range, exp, index) == <<exp, Plus(index, -1)>>   \* mutant
(* The oldest range not yet asked for keeps its start. *)
Widened(range, exp, index) == <<IF range = NoRange THEN exp ELSE range[1], Plus(index, -1)>>

Step(c, index) ==
    IF c.nextIndex \in {NoIndex, index} THEN "deliver"
    ELSE IF IndexGap(c.nextIndex, index) > 0 THEN "gap" ELSE "straggler"

(* take_ask: a keyframe, the lost range, or nothing. *)
TakeAsk(wantKeyframe, range) ==
    CASE wantKeyframe                                -> "key"
      [] ~wantKeyframe /\ range = NoRange            -> "none"
      [] ~wantKeyframe /\ range # NoRange            ->
            IF Plus(range[2], 1 - range[1]) > RfiMaxRange THEN "key" ELSE "rfi"

(***************************************************************************)
(* recovery.rs: Asks.  Only frames ahead of all before reach on_frame, so  *)
(* the test that a frame is newer than the ask it answers always passes:   *)
(* `newest` and `after` are left out.  So are the numbers: each is new to  *)
(* the host, short of 2^16 - 1 asks in a row that it never heard.          *)
(***************************************************************************)
AskFor(ask) == [ask |-> ask, wait |-> Repeat, left |-> GiveUp]

Answers(open, f) == f.kind = "key" \/ (f.kind = "anchor" /\ open.ask = "rfi")
AskOnFrame(open, f) == IF Answers(open, f) THEN NoOpenAsk ELSE open

Resends(open) == open.left > 0 /\ open.wait = 0
Resend(open) ==
    CASE open.left = 0  -> NoOpenAsk
      [] Resends(open)  -> [open EXCEPT !.wait = Repeat]
      [] OTHER          -> open

(***************************************************************************)
(* recovery.rs: Freeze, around core's gate.                                *)
(***************************************************************************)
StepsByLast(h, page) == page   \* mutant
StepsOwn(h, page) == page /\ (h.own \/ ~h.on)

(* An event that arms the gate, raised by the page or by a loss. *)
Arm(c, page) ==
    [c EXCEPT !.freeze = [on |-> TRUE, own |-> StepsOwn(@, page), left |-> ReAsk],
              !.byLoss = ~page \/ (@ /\ c.freeze.on)]

(* ReanchorGate::poll: a drop booked past a gap's credit arms; a hold that has not re-anchored
   for its time wants a keyframe again. *)
Polled(c, drop) ==
    IF drop THEN Arm(c, FALSE)
    ELSE IF c.freeze.on /\ c.freeze.left = 0 THEN [c EXCEPT !.freeze.left = ReAsk] ELSE c
Wants(c, drop) == drop \/ (c.freeze.on /\ c.freeze.left = 0)

(***************************************************************************)
(* session.rs: the pump.                                                   *)
(***************************************************************************)

(* pf_video_au: VideoPipe.submit.  A delta before the first key frame is refused, and the key
   frame asked for once, on a microtask. *)
SubmitUnit(c, f) ==
    IF ~c.decoder.up THEN c
    ELSE IF c.decoder.needKey /\ f.kind # "key"
    THEN [c EXCEPT !.decoder.asked = TRUE, !.keyWanted = @ \/ ~c.decoder.asked]
    ELSE [c EXCEPT !.decoder.needKey = FALSE, !.decoder.queue = Append(@, [kind |-> f.kind, late |-> f.late])]

Advanced(c, f) ==
    [c EXCEPT !.nextIndex = Plus(f.index, 1), !.open = AskOnFrame(@, f)]

Gapped(c, f) ==
    [Arm(c, FALSE) EXCEPT !.pendingRfi = Widened(@, c.nextIndex, f.index),
        !.passed = @ \cup {Plus(c.nextIndex, k) : k \in 0..((f.index - c.nextIndex) % Width) - 1}]

StragglersDecode(c, f) ==   \* mutant
    SubmitUnit(Advanced(IF Step(c, f.index) = "gap" THEN Gapped(c, f) ELSE c, f), f)
(* One frame of the pump's loop. *)
PumpFrame(c, f) ==
    CASE Step(c, f.index) = "deliver" -> SubmitUnit(Advanced(c, f), f)
      [] Step(c, f.index) = "gap"     -> SubmitUnit(Advanced(Gapped(c, f), f), f)
      [] OTHER                        -> c

(* Asks for a keyframe or the lost range under a new number. *)
Asked(c, ask) ==
    [c EXCEPT !.open = AskFor(ask), !.throttle = Throttle, !.pendingRfi = NoRange, !.passed = {}]

(* What a pump sends once no frame is left: an ask if the throttle allows, else the open one again. *)
PumpAsk(c, drop) ==
    LET ask == IF c.throttle > 0 THEN "none" ELSE TakeAsk(Wants(c, drop), c.pendingRfi)
        p == Polled(c, drop)
    IN  IF ask # "none" THEN [client |-> Asked(p, ask), asks |-> TRUE, sends |-> TRUE]
        ELSE [client |-> [p EXCEPT !.open = Resend(@)], asks |-> FALSE, sends |-> Resends(p.open)]

(* send_feedback: the open ask as a datagram, which the link may lose.  The host takes each
   number once, however often it arrives. *)
Feedback(open, again, n) ==
    \/ /\ faults + n < MaxFaults /\ faults' = faults + n + 1
       /\ heard' = (again /\ heard) /\ UNCHANGED hostAsk
    \/ /\ faults + n <= MaxFaults /\ faults' = faults + n /\ heard' = TRUE
       /\ hostAsk' = IF again /\ heard THEN hostAsk
                     ELSE IF "key" \in {open.ask, hostAsk} THEN "key" ELSE "anchor"
NoFeedback(n) == faults + n <= MaxFaults /\ faults' = faults + n /\ UNCHANGED <<hostAsk, heard>>

(* The link delivers what is at `places` of the wire, in that order; what was sent before a
   frame that came is late. *)
Arrivals(places) ==
    [i \in DOMAIN places |->
        [wire[places[i]] EXCEPT !.late = @ \/ \E j \in 1..i - 1 : places[j] > places[i]]]
Bursts == {p \in UNION {[1..n -> DOMAIN wire] : n \in 0..Len(wire)} : IsInjective(p)}
(* What stays on the wire, in order. *)
Rests(places) ==
    {rest \in Bursts : /\ ToSet(rest) = DOMAIN wire \ ToSet(places)
                       /\ \A i, j \in DOMAIN rest : i < j => rest[i] < rest[j]}
Left(rest, places) ==
    [k \in DOMAIN rest |->
        [wire[rest[k]] EXCEPT !.late = @ \/ \E i \in DOMAIN places : places[i] > rest[k]]]
InOrder(places) == \A i \in DOMAIN places : places[i] = i

Pumped(c, frames) ==
    LET after[i \in 0..Len(frames)] == IF i = 0 THEN c ELSE PumpFrame(after[i - 1], frames[i])
    IN  after[Len(frames)]

Pump(places, drop) ==
    /\ \E rest \in Rests(places) : wire' = Left(rest, places)
    /\ UNCHANGED sent
    /\ \E pumped \in {PumpAsk(Pumped(client, Arrivals(places)), drop)} :
        LET lost == (IF drop THEN 1 ELSE 0) + (IF InOrder(places) THEN 0 ELSE 1)
        IN  /\ Len(pumped.client.decoder.queue) <= Depth
            /\ client' = pumped.client
            /\ IF pumped.sends THEN Feedback(pumped.client.open, ~pumped.asks, lost)
                               ELSE NoFeedback(lost)

(***************************************************************************)
(* The page's decoder.                                                     *)
(***************************************************************************)

(* pf_request_keyframe: hold, and ask now. *)
RequestKeyframe(c) == Asked(Arm(c, TRUE), "key")

(* The microtask a refused delta queued. *)
KeyMicrotask ==
    /\ client.keyWanted /\ client' = [RequestKeyframe(client) EXCEPT !.keyWanted = FALSE]
    /\ Feedback(client'.open, FALSE, 0) /\ UNCHANGED <<wire, sent>>

(* A frame leaves the decoder: pf_gate_decoded.  An IDR or an anchor lifts the hold. *)
Decoded ==
    /\ client.decoder.queue # <<>>
    /\ LET lifts == Head(client.decoder.queue).kind # "delta"
       IN  client' = [client EXCEPT !.decoder.queue = Tail(@),
                                    !.freeze.on = @ /\ ~lifts, !.byLoss = @ /\ ~lifts]
    /\ UNCHANGED <<wire, encoderVars, faults>>

(* The decoder refuses an access unit, the third in a row: pf_gate_no_output, on a microtask. *)
NoOutput ==
    /\ client.decoder.queue # <<>>
    /\ client' = [Arm(client, TRUE) EXCEPT
                    !.decoder.queue = Tail(@), !.open = AskFor("key"), !.throttle = Throttle]
    /\ Feedback(client'.open, FALSE, 1) /\ UNCHANGED <<wire, sent>>

(* The decoder fails and is closed; what it held is gone. *)
DecoderFails ==
    /\ client.decoder.up /\ ~client.decoder.needKey
    /\ client' = [client EXCEPT !.decoder.up = FALSE, !.decoder.queue = <<>>]
    /\ NoFeedback(1) /\ UNCHANGED <<wire, sent>>

(* VideoPipe.rebuild ends: a fresh decoder, and an ask for the key frame it needs. *)
DecoderRebuilt ==
    /\ ~client.decoder.up
    /\ client' = [RequestKeyframe(client) EXCEPT
                    !.decoder = [up |-> TRUE, needKey |-> TRUE, asked |-> TRUE, queue |-> <<>>]]
    /\ Feedback(client'.open, FALSE, 0) /\ UNCHANGED <<wire, sent>>

(***************************************************************************)
(* The clock, the host and the link.                                       *)
(***************************************************************************)
Less(n) == IF n > 0 THEN n - 1 ELSE 0
ClockTick ==
    /\ client' = [client EXCEPT !.throttle = Less(@), !.freeze.left = Less(@),
                    !.open.wait = Less(@), !.open.left = Less(@)]
    /\ client' # client /\ UNCHANGED <<wire, encoderVars, faults>>

Ahead(index) == IF client.nextIndex = NoIndex THEN 0 ELSE (index - client.nextIndex) % Width

(* The host sends a frame: what it was asked for, or one encoded before that.  A keyframe answers
   any ask.  It is no more than MaxGap ahead of what the page has read. *)
EncoderSends(kind) ==
    /\ Len(wire) < InFlight
    /\ client.nextIndex = NoIndex => sent < MaxGap
    /\ Ahead(sent) <= MaxGap
    /\ \A i \in DOMAIN wire : (sent - wire[i].index) % Width < Width \div 2
    /\ client.pendingRfi # NoRange => (sent - client.pendingRfi[1]) % Width < Width - 2
    /\ kind = "anchor" => hostAsk = "anchor"
    /\ kind = "key" => hostAsk # "none" \/ client.nextIndex = NoIndex
    /\ wire' = Append(wire, [index |-> sent, kind |-> kind, late |-> FALSE])
    /\ sent' = Plus(sent, 1)
    /\ hostAsk' = IF kind = "delta" \/ (kind = "anchor" /\ hostAsk = "key") THEN hostAsk ELSE "none"
    /\ UNCHANGED <<client, heard, faults>>
HostAnswers == hostAsk # "none" /\ \E kind \in {"key", "anchor"} : EncoderSends(kind)

(* The link loses a frame, but not one more than MaxGap in a row. *)
Lose ==
    \E i \in DOMAIN wire :
        /\ wire[i].late \/ (client.nextIndex # NoIndex /\ Ahead(wire[i].index) < MaxGap)
        /\ wire' = RemoveAt(wire, i) /\ NoFeedback(1) /\ UNCHANGED <<client, sent>>

(* A new session on the page: a ServerHello. *)
ServerHello ==
    /\ client' = NewClient(client.throttle) /\ wire' = <<>> /\ sent' = 0
    /\ hostAsk' = "none" /\ heard' = FALSE /\ UNCHANGED faults

RecoveryNext ==
    \/ \E places \in Bursts, drop \in BOOLEAN : Pump(places, drop)
    \/ KeyMicrotask \/ Decoded \/ NoOutput \/ DecoderFails \/ DecoderRebuilt
    \/ ClockTick \/ Lose \/ ServerHello
    \/ \E kind \in {"key", "delta", "anchor"} : EncoderSends(kind)

PumpNext == Pump(IF wire = <<>> THEN <<>> ELSE <<1>>, FALSE)

(* Frames are drawn, so the session is pumped; microtasks, timers, the decoder and its rebuild
   end.  The host goes on sending and answers what it heard; the link delivers. *)
RecoveryFair ==
    /\ WF_recoveryVars(PumpNext) /\ WF_recoveryVars(ClockTick)
    /\ WF_recoveryVars(KeyMicrotask \/ Decoded \/ DecoderRebuilt)
    /\ SF_recoveryVars(HostAnswers)

RecoverySpec == RecoveryInit /\ [][RecoveryNext]_recoveryVars /\ RecoveryFair

(***************************************************************************)
(* Correctness.                                                            *)
(***************************************************************************)
RecoveryTypeOK ==
    /\ client.nextIndex \in Index \cup {NoIndex}
    /\ client.pendingRfi \in (Index \X Index) \cup {NoRange}
    /\ client.throttle \in 0..Throttle
    /\ client.open \in [ask : {"none", "key", "rfi"}, wait : 0..Repeat, left : 0..GiveUp]
    /\ client.freeze \in [on : BOOLEAN, own : BOOLEAN, left : 0..ReAsk]
    /\ \A i \in DOMAIN wire : wire[i] \in [index : Index, kind : {"key", "delta", "anchor"}, late : BOOLEAN]
    /\ sent \in Index /\ hostAsk \in {"none", "anchor", "key"} /\ faults \in 0..MaxFaults

(* The decoder is never fed a frame the stream has passed: a straggler, told from a gap across
   the wrap of the index, is left out (Step, index_gap). *)
NeverRewinds == \A i \in DOMAIN client.decoder.queue : ~client.decoder.queue[i].late

RangeOf(r) == {Plus(r[1], k) : k \in 0..(r[2] - r[1]) % Width}

(* Every frame passed over and not yet asked for is in the range the next ask names: a second gap
   before the ask, and one across the wrap, lose none of it (on_index, pending_rfi). *)
LostIsPending ==
    client.passed # {} =>
        client.pendingRfi # NoRange /\ client.passed \subseteq RangeOf(client.pendingRfi)

(* A hold is the page's own exactly when no loss armed it: the words of the picture that hangs
   name the right one of the two, whatever order losses and decoder errors come in (Freeze). *)
BlameIsRight == client.freeze.on => (client.freeze.own <=> ~client.byLoss)

(* A held picture comes back, once frames and asks stop being lost: an ask lost, answered late,
   throttled or given up is made again, and a fresh decoder gets its key frame. *)
PictureReturns == client.freeze.on ~> ~client.freeze.on
=============================================================================
