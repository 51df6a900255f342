--------------------------- MODULE CarrierProofs ---------------------------
(***************************************************************************)
(* A session's carrier in the browser, proved: the leg says its end once,  *)
(* and the datagrams' ring is a bounded queue; and, with what ServerProofs *)
(* has of the server's side, the types of all of MCWire.                   *)
(***************************************************************************)
EXTENDS MCWire, ServerProofs

(***************************************************************************)
(* What ends a bridged leg is said once, for every number of unanswered    *)
(* pings.  EndSaidOnce alone is not inductive: a second word is excluded   *)
(* because the leg that said the first has let its socket go, and silence  *)
(* ends only what had answered because the count starts with a pong.       *)
(***************************************************************************)
Whys == {"none", "socket", "silence", "host", "refused", "page"}

LegTyped ==
    /\ leg \in [ws : BOOLEAN, live : BOOLEAN, unanswered : -1..UNANSWERED]
    /\ told \in [closed : Nat, rejected : Nat, why : Whys, quiet : 0..UNANSWERED, heard : BOOLEAN]
    /\ socket \in {"connecting", "open", "closing", "closed"}
    /\ link \in {"dialling", "bridged", "dead"}

(* A leg that holds its socket has said nothing; one that let it go counts nothing. *)
HoldsOrSaid ==
    /\ leg.ws => told.closed = 0 /\ told.rejected = 0 /\ told.why = "none"
    /\ leg.live => leg.ws

(* The count starts with a pong, and runs behind the pings since the last one. *)
Counted == leg.unanswered >= 0 => told.heard /\ leg.unanswered <= told.quiet

LegInv == LegTyped /\ HoldsOrSaid /\ Counted /\ EndSaidOnce

(* An end, of a leg that holds its socket: what it says is the first word and the last. *)
LEMMA LegIsOver ==
    ASSUME LegInv, leg.ws, NEW why \in {"silence", "host", "refused"}, LegEnds(why),
           why = "silence" => told.heard /\ told.quiet = UNANSWERED, link' = link
    PROVE  LegInv'
<1>1. leg' = [ws |-> FALSE, live |-> FALSE, unanswered |-> -1]
  BY DEF LegEnds, Stopped
<1>2. told.closed = 0 /\ told.rejected = 0 /\ told.why = "none"
  BY DEF LegInv, HoldsOrSaid
<1>3. told' = [told EXCEPT !.closed = 1, !.why = why]
  BY <1>2 DEF LegEnds
<1>4. socket' \in {"connecting", "open", "closing", "closed"}
  BY DEF LegInv, LegTyped, LegEnds, Lets
<1>5. LegTyped'
  <2>1. leg' \in [ws : BOOLEAN, live : BOOLEAN, unanswered : -1..UNANSWERED]
    BY <1>1, WsLegAssumption
  <2>2. why \in Whys
    BY DEF Whys
  <2>3. told' \in [closed : Nat, rejected : Nat, why : Whys, quiet : 0..UNANSWERED, heard : BOOLEAN]
    BY <1>3, <2>2 DEF LegInv, LegTyped
  <2> QED
    BY <1>4, <2>1, <2>3 DEF LegInv, LegTyped
<1>6. HoldsOrSaid' /\ Counted'
  BY <1>1 DEF HoldsOrSaid, Counted
<1>7. /\ told'.closed = 1 /\ told'.rejected = 0 /\ told'.why = why
      /\ told'.heard = told.heard /\ told'.quiet = told.quiet
  BY <1>2, <1>3 DEF LegInv, LegTyped
<1>8. EndSaidOnce'
  BY <1>7 DEF EndSaidOnce
<1> QED
  BY <1>5, <1>6, <1>8 DEF LegInv

LEMMA LegBegins == WsLegInit => LegInv
  BY WsLegAssumption
     DEF Whys, WsLegInit, FirstCount, LegInv, LegTyped, HoldsOrSaid, Counted, EndSaidOnce

LEMMA LegGoesOn == LegInv /\ [WsLegNext]_legVars => LegInv'
<1> SUFFICES ASSUME LegInv, [WsLegNext]_legVars PROVE LegInv'
  OBVIOUS
<1> USE WsLegAssumption
<1>1. CASE LegOpens
  <2>1. leg' \in {leg, [leg EXCEPT !.live = TRUE]} /\ (leg' # leg => leg.ws)
    BY <1>1 DEF LegOpens
  <2>2. LegTyped'
    BY <1>1, <2>1 DEF LegOpens, LegInv, LegTyped
  <2>3. HoldsOrSaid' /\ Counted' /\ EndSaidOnce'
    BY <1>1, <2>1 DEF LegOpens, LegInv, LegTyped, HoldsOrSaid, Counted, EndSaidOnce
  <2> QED  BY <2>2, <2>3 DEF LegInv
<1>2. CASE PingTimer
  <2>1. leg.live /\ leg.ws /\ link' = link
    BY <1>2 DEF PingTimer, LegInv, HoldsOrSaid
  <2>2. CASE NoAnswer
    <3>1. told.heard /\ told.quiet = UNANSWERED
      BY <2>2 DEF NoAnswer, LegInv, LegTyped, Counted
    <3> QED
      BY <1>2, <2>1, <2>2, <3>1, LegIsOver DEF PingTimer, LegInv
  <2>3. CASE ~NoAnswer
    <3>1. /\ leg' = [leg EXCEPT !.unanswered = IF 0 <= @ /\ @ < UNANSWERED THEN @ + 1 ELSE @]
          /\ told' = [told EXCEPT !.quiet = IF @ < UNANSWERED THEN @ + 1 ELSE @]
          /\ socket' = socket
      BY <1>2, <2>3 DEF PingTimer
    <3>2. LegTyped'
      BY <2>1, <3>1 DEF LegInv, LegTyped
    <3>3. Counted'
      BY <3>1, <2>3 DEF LegInv, LegTyped, Counted, NoAnswer
    <3>4. HoldsOrSaid' /\ EndSaidOnce'
      BY <2>1, <3>1 DEF LegInv, LegTyped, HoldsOrSaid, EndSaidOnce
    <3> QED  BY <3>2, <3>3, <3>4 DEF LegInv
  <2> QED  BY <2>2, <2>3
<1>3. CASE Pong
  <2>1. CASE leg.ws
    <3>1. /\ leg' = [leg EXCEPT !.unanswered = 0] /\ socket' = socket /\ link' = link
          /\ told' = [told EXCEPT !.quiet = 0, !.heard = TRUE]
      BY <1>3, <2>1 DEF Pong
    <3>2. leg' \in [ws : BOOLEAN, live : BOOLEAN, unanswered : -1..UNANSWERED]
      BY <3>1 DEF LegInv, LegTyped
    <3>3. told' \in [closed : Nat, rejected : Nat, why : Whys, quiet : 0..UNANSWERED, heard : BOOLEAN]
      <4>1. told \in [closed : Nat, rejected : Nat, why : Whys, quiet : 0..UNANSWERED, heard : BOOLEAN]
        BY DEF LegInv, LegTyped
      <4>2. told' = [closed |-> told.closed, rejected |-> told.rejected, why |-> told.why,
                     quiet |-> 0, heard |-> TRUE]
        BY <3>1, <4>1
      <4>3. told.closed \in Nat /\ told.rejected \in Nat /\ told.why \in Whys /\ 0 \in 0..UNANSWERED
        BY <4>1
      <4> QED  BY <4>2, <4>3
    <3>4. LegTyped'
      BY <3>1, <3>2, <3>3 DEF LegInv, LegTyped
    <3>5. HoldsOrSaid' /\ Counted' /\ EndSaidOnce'
      BY <2>1, <3>1 DEF LegInv, LegTyped, HoldsOrSaid, Counted, EndSaidOnce
    <3> QED  BY <3>4, <3>5 DEF LegInv
  <2>2. CASE ~leg.ws
    BY <1>3, <2>2 DEF Pong, LegInv, LegTyped, HoldsOrSaid, Counted, EndSaidOnce
  <2> QED  BY <2>1, <2>2
<1>4. ASSUME NEW why \in {"host", "refused"}, LastFrame(why) PROVE LegInv'
  BY <1>4, LegIsOver DEF LastFrame, LegInv
<1>5. CASE SocketCloses
  <2>1. CASE ~leg.ws
    BY <1>5, <2>1 DEF SocketCloses, LegInv, LegTyped, HoldsOrSaid, Counted, EndSaidOnce
  <2>2. CASE leg.ws
    <3>1. told.closed = 0 /\ told.rejected = 0 /\ told.why = "none"
      BY <2>2 DEF LegInv, HoldsOrSaid
    <3>2. leg' = [ws |-> FALSE, live |-> FALSE, unanswered |-> -1]
          /\ socket' = "closed" /\ link' = link
      BY <1>5, <2>2 DEF SocketCloses, Stopped
    <3>3. leg' \in [ws : BOOLEAN, live : BOOLEAN, unanswered : -1..UNANSWERED]
      BY <3>2
    <3>4. HoldsOrSaid' /\ Counted'
      BY <3>2 DEF HoldsOrSaid, Counted
    <3>5. CASE leg.live
      <4>1. told' = [told EXCEPT !.closed = 1, !.why = "socket"]
        BY <1>5, <2>2, <3>1, <3>5 DEF SocketCloses
      <4>2. "socket" \in Whys
        BY DEF Whys
      <4>3. told' \in [closed : Nat, rejected : Nat, why : Whys, quiet : 0..UNANSWERED, heard : BOOLEAN]
        BY <4>1, <4>2 DEF LegInv, LegTyped
      <4>4. EndSaidOnce'
        BY <3>1, <4>1 DEF LegInv, LegTyped, EndSaidOnce
      <4> QED
        BY <3>2, <3>3, <3>4, <4>3, <4>4 DEF LegInv, LegTyped
    <3>6. CASE ~leg.live
      <4>1. told' = [told EXCEPT !.rejected = 1]
        BY <1>5, <2>2, <3>1, <3>6 DEF SocketCloses
      <4>2. told' \in [closed : Nat, rejected : Nat, why : Whys, quiet : 0..UNANSWERED, heard : BOOLEAN]
        BY <4>1 DEF LegInv, LegTyped
      <4>3. EndSaidOnce'
        BY <3>1, <4>1 DEF LegInv, LegTyped, EndSaidOnce
      <4> QED
        BY <3>2, <3>3, <3>4, <4>2, <4>3 DEF LegInv, LegTyped
    <3> QED  BY <3>5, <3>6
  <2> QED  BY <2>1, <2>2
<1>6. CASE PageCloses
  <2>1. /\ leg' = [ws |-> FALSE, live |-> FALSE, unanswered |-> -1]
        /\ told.closed = 0 /\ told.rejected = 0 /\ told.why = "none"
        /\ told' = [told EXCEPT !.why = "page"]
        /\ socket' \in {"connecting", "open", "closing", "closed"} /\ link' = link
    BY <1>6 DEF PageCloses, Stopped, Lets, LegInv, LegTyped, HoldsOrSaid
  <2>2. "page" \in Whys
    BY DEF Whys
  <2>3. LegTyped'
    BY <2>1, <2>2 DEF LegInv, LegTyped
  <2>4. HoldsOrSaid' /\ Counted' /\ EndSaidOnce'
    BY <2>1 DEF LegInv, LegTyped, HoldsOrSaid, Counted, EndSaidOnce
  <2> QED  BY <2>3, <2>4 DEF LegInv
<1>7. CASE LinkMoves
  <2>1. leg' = leg /\ told' = told /\ socket' = socket /\ link' \in {"bridged", "dead"}
    BY <1>7 DEF LinkMoves
  <2> QED
    BY <2>1 DEF LegInv, LegTyped, HoldsOrSaid, Counted, EndSaidOnce
<1>8. CASE UNCHANGED legVars
  BY <1>8 DEF legVars, LegInv, LegTyped, HoldsOrSaid, Counted, EndSaidOnce
<1> QED
  BY <1>1, <1>2, <1>3, <1>4, <1>5, <1>6, <1>7, <1>8 DEF WsLegNext

(* Whatever ends a bridged leg - the host, a frame that does not decode, silence, its socket, the
   page - the engine hears at most one end, none of the page's own, and silence ends only a leg
   that had answered (WsCarrier.end, close, onclose, the ping timer). *)
THEOREM LegSaysItsEndOnce == WsLegSpec => []EndSaidOnce
<1>1. LegInv => EndSaidOnce
  BY DEF LegInv
<1> QED
  BY <1>1, LegBegins, LegGoesOn, PTL DEF WsLegSpec

(***************************************************************************)
(* The receive ring is the bounded queue of RxQueue, for every number of   *)
(* slots.  A window is what a run of slots holds, as the pump reads them;  *)
(* what waits is the window from tail to head, and the lemmas say what     *)
(* popping, storing and overwriting the claimed slot do to it.             *)
(***************************************************************************)
Slot == 0..Slots - 1
Cells == Datagrams \cup {NoDatagram}
Gap(h, t) == IF h >= t THEN h - t ELSE h + Slots - t
Window(b, t, n) == [i \in 1..n |-> b[After(t, i - 1)]]

(***************************************************************************)
(* Slots.                                                                  *)
(***************************************************************************)
LEMMA ModBelow == ASSUME NEW a \in Nat, NEW b \in Nat \ {0}, a < b PROVE a % b = a
  OBVIOUS
LEMMA ModOnce == ASSUME NEW a \in Nat, NEW b \in Nat \ {0}, a >= b, a < b + b PROVE a % b = a - b
  OBVIOUS

LEMMA SlotsAre == Slots \in Nat \ {0} /\ Slots >= 2
  BY RingAssumption DEF RingAssumption

LEMMA AfterIs ==
    ASSUME NEW slot \in Slot, NEW n \in Slot
    PROVE  /\ After(slot, n) = IF slot + n < Slots THEN slot + n ELSE slot + n - Slots
           /\ After(slot, n) \in Slot
<1>1. Slots \in Nat \ {0} /\ slot + n \in Nat /\ slot + n < Slots + Slots
  BY SlotsAre DEF Slot
<1>2. CASE slot + n < Slots
  <2>1. (slot + n) % Slots = slot + n
    BY <1>1, <1>2, ModBelow
  <2> QED  BY <1>1, <1>2, <2>1 DEF After, Slot
<1>3. CASE slot + n >= Slots
  <2> DEFINE a == slot + n
  <2>1. a \in Nat /\ a >= Slots /\ a < Slots + Slots
    BY <1>1, <1>3
  <2> HIDE DEF a
  <2>2. a % Slots = a - Slots
    BY <1>1, <2>1, ModOnce
  <2> QED  BY <1>1, <1>3, <2>2 DEF After, Slot, a
<1> QED
  BY <1>1, <1>2, <1>3

LEMMA OneAfter ==
    ASSUME NEW h \in Slot
    PROVE  /\ After(h, 1) = IF h + 1 < Slots THEN h + 1 ELSE 0
           /\ After(h, 1) \in Slot
<1>1. 1 \in Slot
  BY SlotsAre DEF Slot
<1>2. After(h, 1) \in Slot /\ After(h, 1) = IF h + 1 < Slots THEN h + 1 ELSE h + 1 - Slots
  BY <1>1, AfterIs
<1> QED
  BY <1>2, SlotsAre DEF Slot

LEMMA GapIs ==
    ASSUME NEW h \in Slot, NEW t \in Slot
    PROVE  /\ Gap(h, t) \in Slot
           /\ (After(h, 1) = t) <=> (Gap(h, t) = Slots - 1)
           /\ After(h, 1) # t => Gap(After(h, 1), t) = Gap(h, t) + 1
           /\ \A n \in 0..Gap(h, t) : /\ After(t, n) \in Slot
                                      /\ Gap(h, After(t, n)) = Gap(h, t) - n
<1>1. Gap(h, t) \in Slot
  BY SlotsAre DEF Slot, Gap
<1>2. (After(h, 1) = t) <=> (Gap(h, t) = Slots - 1)
  BY OneAfter, SlotsAre DEF Slot, Gap
<1>3. After(h, 1) # t => Gap(After(h, 1), t) = Gap(h, t) + 1
  BY OneAfter, SlotsAre DEF Slot, Gap
<1>4. ASSUME NEW n \in 0..Gap(h, t)
      PROVE  After(t, n) \in Slot /\ Gap(h, After(t, n)) = Gap(h, t) - n
  <2>1. n \in Slot
    BY <1>1, SlotsAre DEF Slot
  <2>2. /\ After(t, n) \in Slot
        /\ After(t, n) = IF t + n < Slots THEN t + n ELSE t + n - Slots
    BY <2>1, AfterIs
  <2> QED
    BY <2>2, SlotsAre DEF Slot, Gap
<1> QED
  BY <1>1, <1>2, <1>3, <1>4

(***************************************************************************)
(* Windows.                                                                *)
(***************************************************************************)
LEMMA WindowIs ==
    ASSUME NEW b \in [Slot -> Cells], NEW t \in Slot, NEW n \in Slot
    PROVE  /\ Window(b, t, n) \in Seq(Cells) /\ Len(Window(b, t, n)) = n
           /\ \A i \in 1..n : Window(b, t, n)[i] = b[After(t, i - 1)]
<1>1. ASSUME NEW i \in 1..n PROVE b[After(t, i - 1)] \in Cells
  <2>1. i - 1 \in Slot
    BY SlotsAre DEF Slot
  <2> QED
    BY <2>1, AfterIs
<1>2. n \in Nat
  BY DEF Slot
<1> QED
  BY <1>1, <1>2 DEF Window

LEMMA WindowTakes ==
    ASSUME NEW b \in [Slot -> Cells], NEW t \in Slot, NEW m \in Slot, NEW n \in 0..m
    PROVE  SubSeq(Window(b, t, m), 1, n) = Window(b, t, n)
<1>1. n \in Slot
  BY SlotsAre DEF Slot
<1>2. /\ Window(b, t, m) \in Seq(Cells) /\ Len(Window(b, t, m)) = m
      /\ \A i \in 1..m : Window(b, t, m)[i] = b[After(t, i - 1)]
  BY WindowIs
<1>3. /\ Window(b, t, n) \in Seq(Cells) /\ Len(Window(b, t, n)) = n
      /\ \A i \in 1..n : Window(b, t, n)[i] = b[After(t, i - 1)]
  BY <1>1, WindowIs
<1> DEFINE w == Window(b, t, m)
<1>4. \A i \in 1..n : w[i] \in Cells
  BY <1>2, ElementOfSeq DEF Slot
<1>5. /\ SubSeq(w, 1, n) \in Seq(Cells) /\ Len(SubSeq(w, 1, n)) = n
      /\ \A i \in 1..n : SubSeq(w, 1, n)[i] = w[i]
  <2>1. /\ SubSeq(w, 1, n) \in Seq(Cells)
        /\ Len(SubSeq(w, 1, n)) = IF 1 <= n THEN n - 1 + 1 ELSE 0
        /\ \A i \in 1..n - 1 + 1 : SubSeq(w, 1, n)[i] = w[1 + i - 1]
    <3> HIDE DEF w
    <3> QED  BY <1>4, SubSeqProperties
  <2> HIDE DEF w
  <2> QED  BY <2>1
<1>6. \A i \in 1..n : SubSeq(w, 1, n)[i] = Window(b, t, n)[i]
  BY <1>2, <1>3, <1>5 DEF Slot
<1> QED
  <2> HIDE DEF w
  <2>1. SubSeq(w, 1, n) = Window(b, t, n)
    BY <1>3, <1>5, <1>6, SeqEqual
  <2> QED  BY <2>1 DEF w

LEMMA WindowDrops ==
    ASSUME NEW b \in [Slot -> Cells], NEW t \in Slot, NEW m \in Slot, NEW n \in 0..m
    PROVE  SubSeq(Window(b, t, m), n + 1, m) = Window(b, After(t, n), m - n)
<1>1. n \in Slot /\ m - n \in Slot /\ m \in Nat /\ n \in Nat
  BY SlotsAre DEF Slot
<1>2. After(t, n) \in Slot
  BY <1>1, AfterIs
<1> DEFINE w == Window(b, t, m)
           v == Window(b, After(t, n), m - n)
<1>3. /\ w \in Seq(Cells) /\ Len(w) = m
      /\ \A i \in 1..m : w[i] = b[After(t, i - 1)]
  BY WindowIs
<1>4. /\ v \in Seq(Cells) /\ Len(v) = m - n
      /\ \A i \in 1..m - n : v[i] = b[After(After(t, n), i - 1)]
  BY <1>1, <1>2, WindowIs
<1>5. \A i \in 1..m - n : After(After(t, n), i - 1) = After(t, n + i - 1)
  <2> TAKE i \in 1..m - n
  <2>1. i - 1 \in Slot /\ n + i - 1 \in Slot
    BY <1>1, SlotsAre DEF Slot
  <2>2. After(t, n) = IF t + n < Slots THEN t + n ELSE t + n - Slots
    BY <1>1, AfterIs
  <2>3. After(t, n + i - 1) = IF t + (n + i - 1) < Slots THEN t + (n + i - 1)
                              ELSE t + (n + i - 1) - Slots
    BY <2>1, AfterIs
  <2>4. After(After(t, n), i - 1) = IF After(t, n) + (i - 1) < Slots THEN After(t, n) + (i - 1)
                                    ELSE After(t, n) + (i - 1) - Slots
    BY <1>2, <2>1, AfterIs
  <2> QED
    BY <1>1, <2>1, <2>2, <2>3, <2>4, SlotsAre DEF Slot
<1> HIDE DEF w, v
<1>6. \A i \in n + 1..m : w[i] \in Cells
  BY <1>1, <1>3, ElementOfSeq
<1>7. /\ SubSeq(w, n + 1, m) \in Seq(Cells)
      /\ Len(SubSeq(w, n + 1, m)) = IF n + 1 <= m THEN m - (n + 1) + 1 ELSE 0
      /\ \A i \in 1..m - (n + 1) + 1 : SubSeq(w, n + 1, m)[i] = w[n + 1 + i - 1]
  BY <1>1, <1>6, SubSeqProperties
<1>8. Len(SubSeq(w, n + 1, m)) = m - n
  BY <1>1, <1>7
<1>9. \A i \in 1..m - n : SubSeq(w, n + 1, m)[i] = v[i]
  <2> TAKE i \in 1..m - n
  <2>1. i \in 1..m - (n + 1) + 1 /\ n + 1 + i - 1 = n + i /\ n + i \in 1..m
    BY <1>1
  <2>2. SubSeq(w, n + 1, m)[i] = w[n + i]
    BY <1>7, <2>1
  <2>3. w[n + i] = b[After(t, n + i - 1)]
    BY <1>3, <2>1
  <2> QED
    BY <1>4, <1>5, <2>2, <2>3
<1>10. SubSeq(w, n + 1, m) = v
  BY <1>4, <1>7, <1>8, <1>9, SeqEqual
<1> QED
  BY <1>10 DEF w, v

(* The claimed slot is none of those that wait. *)
LEMMA ClaimedApart ==
    ASSUME NEW h \in Slot, NEW t \in Slot
    PROVE  /\ \A i \in 1..Gap(h, t) : i - 1 \in Slot /\ After(t, i - 1) # h
           /\ After(t, Gap(h, t)) = h
<1>1. Gap(h, t) \in Slot
  BY GapIs
<1>2. \A k \in Slot : After(t, k) = IF t + k < Slots THEN t + k ELSE t + k - Slots
  BY AfterIs
<1>3. ASSUME NEW i \in 1..Gap(h, t) PROVE i - 1 \in Slot /\ After(t, i - 1) # h
  <2>1. i - 1 \in Slot
    BY <1>1, SlotsAre DEF Slot
  <2>2. After(t, i - 1) = IF t + (i - 1) < Slots THEN t + (i - 1) ELSE t + (i - 1) - Slots
    BY <1>2, <2>1
  <2> QED
    BY <1>1, <2>1, <2>2, SlotsAre DEF Slot, Gap
<1>4. After(t, Gap(h, t)) = h
  BY <1>1, <1>2, SlotsAre DEF Slot, Gap
<1> QED
  BY <1>3, <1>4

Stores(b, h, d, c) == c \in [Slot -> Cells] /\ c[h] = d /\ \A s \in Slot : s # h => c[s] = b[s]

LEMMA WindowStores ==
    ASSUME NEW b \in [Slot -> Cells], NEW h \in Slot, NEW t \in Slot, NEW d \in Cells,
           NEW c, Stores(b, h, d, c)
    PROVE  /\ Window(c, t, Gap(h, t)) = Window(b, t, Gap(h, t))
           /\ After(h, 1) # t
                => Window(c, t, Gap(h, t) + 1) = Append(Window(b, t, Gap(h, t)), d)
<1> DEFINE g == Gap(h, t)
<1>1. g \in Slot /\ (After(h, 1) # t => g + 1 \in Slot)
  <2>1. g \in Slot /\ ((After(h, 1) = t) <=> (g = Slots - 1))
    BY GapIs
  <2> HIDE DEF g
  <2> QED  BY <2>1, SlotsAre DEF Slot
<1>2. c \in [Slot -> Cells] /\ c[h] = d /\ \A s \in Slot : s # h => c[s] = b[s]
  BY DEF Stores
<1>3. \A i \in 1..g : After(t, i - 1) \in Slot /\ After(t, i - 1) # h
  BY ClaimedApart, AfterIs
<1>4. After(t, g) = h
  BY ClaimedApart
<1> HIDE DEF g
<1>5. \A i \in 1..g : c[After(t, i - 1)] = b[After(t, i - 1)]
  BY <1>2, <1>3
<1>6. Window(c, t, g) = Window(b, t, g)
  BY <1>5 DEF Window
<1>7. ASSUME After(h, 1) # t PROVE Window(c, t, g + 1) = Append(Window(b, t, g), d)
  <2>1. /\ Window(b, t, g) \in Seq(Cells) /\ Len(Window(b, t, g)) = g
        /\ \A i \in 1..g : Window(b, t, g)[i] = b[After(t, i - 1)]
    BY <1>1, WindowIs
  <2>2. /\ Window(c, t, g + 1) \in Seq(Cells) /\ Len(Window(c, t, g + 1)) = g + 1
        /\ \A i \in 1..g + 1 : Window(c, t, g + 1)[i] = c[After(t, i - 1)]
    BY <1>1, <1>2, <1>7, WindowIs
  <2> DEFINE v == Window(b, t, g)
             x == Window(c, t, g + 1)
  <2> HIDE DEF v, x
  <2>3. /\ Append(v, d) \in Seq(Cells) /\ Len(Append(v, d)) = g + 1
        /\ \A i \in 1..g : Append(v, d)[i] = v[i]
        /\ Append(v, d)[g + 1] = d
    BY <2>1 DEF v
  <2>4. \A i \in 1..g + 1 : x[i] = Append(v, d)[i]
    <3> TAKE i \in 1..g + 1
    <3>1. CASE i \in 1..g
      BY <1>5, <2>1, <2>2, <2>3, <3>1 DEF v, x
    <3>2. CASE i = g + 1
      <4>1. x[i] = c[After(t, g)]
        BY <1>1, <2>2, <3>2, SlotsAre DEF x, Slot
      <4> QED  BY <1>2, <1>4, <2>3, <3>2, <4>1
    <3>3. g \in Nat
      BY <1>1, SlotsAre DEF Slot
    <3>4. i \in 1..g \/ i = g + 1
      BY <3>3
    <3> QED  BY <3>1, <3>2, <3>4
  <2>5. x = Append(v, d)
    BY <2>2, <2>3, <2>4, SeqEqual DEF x
  <2> QED  BY <2>5 DEF v, x
<1> QED
  BY <1>6, <1>7 DEF g

(***************************************************************************)
(* The ring.                                                               *)
(***************************************************************************)
RingShaped ==
    /\ head \in Slot /\ tail \in Slot /\ buf \in [Slot -> Cells]
    /\ dropped \in Nat /\ arrived \in 0..MaxDatagrams
    /\ conn \in 0..MaxConns /\ (up => conn # 0)

LEMMA WaitingIs == Waiting = Gap(head, tail) /\ \A n : Held(n) = Window(buf, tail, n)
  BY DEF Waiting, Gap, Held, Window

(* What waits, once n of it are taken and head stays: the rest, and what was taken the start. *)
LEMMA Popped ==
    ASSUME RingShaped, NEW n \in 0..Waiting, Pop(n)
    PROVE  /\ tail' \in Slot
           /\ Gap(head, tail') = Waiting - n
           /\ Window(buf, tail', Waiting - n) = SubSeq(Held(Waiting), n + 1, Len(Held(Waiting)))
           /\ Queue!Take(n) /\ n \in 0..Len(Held(Waiting)) /\ Len(Held(Waiting)) = Waiting
<1>1. Waiting \in Slot /\ n \in Slot /\ n \in 0..Gap(head, tail)
  <2>1. Waiting = Gap(head, tail) /\ Gap(head, tail) \in Slot
    BY WaitingIs, GapIs DEF RingShaped
  <2> QED  BY <2>1, SlotsAre DEF Slot
<1>2. tail' = After(tail, n)
  BY DEF Pop
<1>3. tail' \in Slot /\ Gap(head, tail') = Waiting - n
  BY <1>1, <1>2, GapIs, WaitingIs DEF RingShaped
<1>4. Len(Held(Waiting)) = Waiting
  BY <1>1, WindowIs, WaitingIs DEF RingShaped
<1>5. Window(buf, tail', Waiting - n) = SubSeq(Held(Waiting), n + 1, Waiting)
  BY <1>1, <1>2, WindowDrops, WaitingIs DEF RingShaped
<1>6. Held(n) = SubSeq(Held(Waiting), 1, n)
  BY <1>1, WindowTakes, WaitingIs DEF RingShaped
<1>7. Queue!Take(n)
  BY <1>6 DEF Pop, Queue!Take
<1> QED
  BY <1>3, <1>4, <1>5, <1>7

LEMMA PumpedDrains ==
    ASSUME RingShaped, SessionPumped
    PROVE  Queue!Drain /\ tail' \in Slot
<1>1. PICK n \in 0..Waiting : Pop(n)
  BY DEF SessionPumped
<1>2. head' = head /\ buf' = buf /\ dropped' = dropped
  BY DEF SessionPumped
<1>3. (Held(Waiting))' = Window(buf, tail', Gap(head, tail'))
  BY <1>2 DEF Waiting, Gap, Held, Window
<1>4. (Held(Waiting))' = Queue!Drop(n, Held(Waiting))
  BY <1>1, <1>3, Popped DEF Queue!Drop
<1> QED
  BY <1>1, <1>2, <1>4, Popped DEF Queue!Drain

(* What a datagram leads to: it is given up, queued, or used at once, each behind the drain that
   found the ring full. *)
LEMMA DatagramArrives ==
    ASSUME RingShaped, NEW kind \in {"media", "side", "long"}, Datagram(kind)
    PROVE  /\ Queue!Lose \/ Queue!Drain \/ \E d \in Datagrams : Queue!Arrive(d)
           /\ RingShaped'
<1> DEFINE d == [conn |-> conn, id |-> arrived + 1]
<1>1. d \in Datagrams /\ d \in Cells /\ arrived' \in 0..MaxDatagrams
  BY RingAssumption DEF RingAssumption, Datagram, RingShaped, Datagrams, Cells
<1>2. PICK n \in 0..Waiting : Drains(n) /\ Pop(n)
  BY DEF Datagram
<1>3. /\ tail' \in Slot /\ Gap(head, tail') = Waiting - n
      /\ Window(buf, tail', Waiting - n) = Queue!Drop(n, Held(Waiting))
      /\ Queue!Take(n) /\ n \in 0..Len(Held(Waiting)) /\ Len(Held(Waiting)) = Waiting
  BY <1>2, Popped DEF Queue!Drop
<1>4. n > 0 => Len(Held(Waiting)) = Slots - 1
  <2>1. After(head, 1) = tail => Waiting = Slots - 1
    BY GapIs, WaitingIs DEF RingShaped
  <2>2. n > 0 => After(head, 1) = tail
    BY <1>2 DEF Drains, IsFull
  <2> QED  BY <1>3, <2>1, <2>2
<1>5. (Held(Waiting))' = Window(buf', tail', Gap(head', tail'))
  BY DEF Waiting, Gap, Held, Window
<1>6. conn' = conn /\ (up' => conn' # 0)
  BY DEF Datagram, line, RingShaped
<1>7. CASE IsFull(tail') \/ kind = "long"
  <2>1. head' = head /\ buf' = buf /\ dropped' = dropped + 1
    BY <1>7 DEF Datagram
  <2>2. (Held(Waiting))' = Queue!Drop(n, Held(Waiting))
    BY <1>3, <1>5, <2>1
  <2>3. Queue!Lose
    BY <1>3, <1>4, <2>1, <2>2 DEF Queue!Lose
  <2>4. RingShaped'
    BY <1>1, <1>3, <1>6, <2>1 DEF RingShaped
  <2> QED  BY <2>3, <2>4
<1>8. CASE ~(IsFull(tail') \/ kind = "long")
  <2>1. /\ buf' = [buf EXCEPT ![head] = d] /\ dropped' = dropped
        /\ head' = IF kind = "media" THEN After(head, 1) ELSE head
    BY <1>8 DEF Datagram
  <2>2. After(head, 1) # tail'
    BY <1>8 DEF IsFull
  <2> HIDE DEF d
  <2>3. /\ buf' \in [Slot -> Cells]
        /\ Window(buf', tail', Gap(head, tail')) = Window(buf, tail', Gap(head, tail'))
        /\ Window(buf', tail', Gap(head, tail') + 1)
             = Append(Window(buf, tail', Gap(head, tail')), d)
    <3>1. head \in Slot /\ buf \in [Slot -> Cells] /\ tail' \in Slot /\ d \in Cells
      BY <1>1, <1>3 DEF RingShaped
    <3>2. Stores(buf, head, d, buf')
      BY <2>1, <3>1 DEF Stores
    <3>3. buf' \in [Slot -> Cells]
      BY <3>2 DEF Stores
    <3> QED
      BY <2>2, <3>1, <3>2, <3>3, WindowStores
  <2>4. After(head, 1) \in Slot
    BY OneAfter DEF RingShaped
  <2>5. RingShaped'
    BY <1>1, <1>3, <1>6, <2>1, <2>3, <2>4 DEF RingShaped
  <2>6. CASE kind = "media"
    <3>1. Gap(head', tail') = Waiting - n + 1
      BY <1>3, <2>1, <2>2, <2>6, GapIs DEF RingShaped
    <3>2. (Held(Waiting))' = Append(Queue!Drop(n, Held(Waiting)), d)
      BY <1>3, <1>5, <2>3, <3>1
    <3>3. Len(Held(Waiting)) - n < Slots - 1
      <4>1. Gap(head, tail') \in Slot /\ Gap(head, tail') # Slots - 1
        BY <1>3, <2>2, GapIs DEF RingShaped
      <4> QED  BY <1>3, <4>1, SlotsAre DEF Slot
    <3>4. Queue!Arrive(d)
      BY <1>3, <1>4, <2>1, <3>2, <3>3 DEF Queue!Arrive
    <3> QED  BY <1>1, <2>5, <3>4
  <2>7. CASE kind # "media"
    <3>1. (Held(Waiting))' = Queue!Drop(n, Held(Waiting))
      BY <1>3, <1>5, <2>1, <2>3, <2>7
    <3>2. Queue!Drain
      BY <1>3, <2>1, <3>1 DEF Queue!Drain
    <3> QED  BY <2>5, <3>2
  <2> QED  BY <2>6, <2>7
<1> QED
  BY <1>7, <1>8

LEMMA NothingWaits == ASSUME NEW h \in Slot, NEW b PROVE Window(b, h, Gap(h, h)) = <<>>
<1>1. Gap(h, h) = 0
  BY SlotsAre DEF Gap, Slot
<1> QED
  BY <1>1 DEF Window

LEMMA ResetClears ==
    ASSUME RingShaped, NEW closes \in BOOLEAN, SessionReset(closes)
    PROVE  Queue!Clear /\ RingShaped'
<1>1. /\ head' = head /\ tail' = head /\ buf' = buf /\ dropped' = dropped /\ taken' = taken
      /\ arrived' = arrived /\ conn' = conn /\ (up' => up)
  BY DEF SessionReset, RingReset
<1>2. (Held(Waiting))' = Window(buf, head, Gap(head, head))
  BY <1>1 DEF Waiting, Gap, Held, Window
<1>3. (Held(Waiting))' = <<>>
  BY <1>2, NothingWaits DEF RingShaped
<1> QED
  BY <1>1, <1>3 DEF Queue!Clear, RingShaped

LEMMA RingStays == ASSUME RingShaped, UNCHANGED ring PROVE (Held(Waiting))' = Held(Waiting)
  BY DEF ring, Waiting, Held

LEMMA RingStarts == RingInit => RingShaped /\ Queue!Init
<1> SUFFICES ASSUME RingInit PROVE RingShaped /\ Queue!Init
  OBVIOUS
<1>1. head = 0 /\ tail = 0 /\ 0 \in Slot
  BY SlotsAre DEF RingInit, Slot
<1>2. RingShaped
  BY <1>1, RingAssumption DEF RingInit, RingShaped, RingAssumption, Cells, Slot
<1>3. Held(Waiting) = <<>>
  BY <1>1, NothingWaits, WaitingIs
<1> QED
  BY <1>2, <1>3 DEF RingInit, Queue!Init

LEMMA RingSteps ==
    RingShaped /\ [RingNext]_ringVars
      => RingShaped' /\ [Queue!Next]_<<Held(Waiting), taken, dropped>>
<1> SUFFICES ASSUME RingShaped, [RingNext]_ringVars
             PROVE  RingShaped' /\ [Queue!Next]_<<Held(Waiting), taken, dropped>>
  OBVIOUS
<1>1. ASSUME NEW kind \in {"media", "side", "long"}, Datagram(kind)
      PROVE  RingShaped' /\ Queue!Next
  BY <1>1, DatagramArrives DEF Queue!Next
<1>2. CASE BurstTask \/ SessionFrame
  <2>1. SessionPumped /\ UNCHANGED <<conn, up, arrived>>
    BY <1>2 DEF BurstTask, SessionFrame, line
  <2>2. head' = head /\ buf' = buf /\ dropped' = dropped
    BY <2>1 DEF SessionPumped
  <2> QED
    BY <2>1, <2>2, PumpedDrains DEF RingShaped, Queue!Next
<1>3. ASSUME NEW closes \in BOOLEAN, SessionReset(closes) PROVE RingShaped' /\ Queue!Next
  BY <1>3, ResetClears DEF Queue!Next
<1>4. CASE Dial \/ CarrierCloses \/ Hello
  <2>1. UNCHANGED <<ring, taken>>
    BY <1>4 DEF Dial, CarrierCloses, Hello
  <2>2. conn' \in 0..MaxConns /\ (up' => conn' # 0) /\ arrived' = arrived
    BY <1>4, RingAssumption DEF RingAssumption, Dial, CarrierCloses, Hello, RingShaped
  <2> QED
    BY <2>1, <2>2, RingStays DEF RingShaped, ring
<1>5. CASE Accept
  <2>1. UNCHANGED <<ring, line, arrived>> /\ taken' = <<>>
    BY <1>5 DEF Accept
  <2>2. Queue!Begin
    BY <2>1, RingStays DEF Queue!Begin, ring
  <2> QED
    BY <2>1, <2>2 DEF RingShaped, ring, line, Queue!Next
<1>6. CASE UNCHANGED ringVars
  BY <1>6, RingStays DEF ringVars, ring, line, RingShaped
<1> QED
  BY <1>1, <1>2, <1>3, <1>4, <1>5, <1>6 DEF RingNext

(* The ring in wasm memory is a bounded queue of Slots - 1 datagrams, for every number of slots:
   claiming, committing, draining and resetting lose, repeat or reorder nothing that waits, and
   only an arrival that finds no room after a drain is given up (transport.rs, feed.ts). *)
THEOREM RingImplementsQueue == RingFairSpec => IsAQueue
<1>1. RingInit => RingShaped /\ Queue!Init
  BY RingStarts
<1>2. RingShaped /\ [RingNext]_ringVars
        => RingShaped' /\ [Queue!Next]_<<Held(Waiting), taken, dropped>>
  BY RingSteps
<1> QED
  BY <1>1, <1>2, PTL DEF RingFairSpec, RingSpec, IsAQueue, Queue!Spec

(* A live session's pump takes one at least of what waits, so a datagram finds room after it. *)
LEMMA LiveHasRoom ==
    ASSUME RingShaped, phase = "Live", NEW kind \in {"media", "side"}, Datagram(kind) PROVE dropped' = dropped
<1>1. PICK n \in 0..Waiting : Drains(n) /\ Pop(n)
  BY DEF Datagram
<1>2. tail' \in Slot /\ Gap(head, tail') = Waiting - n
  BY <1>1, Popped
<1>3. Waiting \in Slot /\ ((After(head, 1) = tail) <=> (Waiting = Slots - 1))
  BY GapIs, WaitingIs DEF RingShaped
<1>4. (After(head, 1) = tail') <=> (Gap(head, tail') = Slots - 1)
  BY <1>2, GapIs DEF RingShaped
<1>5. CASE After(head, 1) = tail
  <2>1. Waiting = Slots - 1 /\ n > 0 /\ n \in Nat
    BY <1>1, <1>3, <1>5, SlotsAre DEF Drains, IsFull, Pumps, Slot
  <2>2. ~IsFull(tail')
    BY <1>2, <1>4, <2>1, SlotsAre DEF IsFull
  <2> QED
    BY <2>2 DEF Datagram
<1>6. CASE After(head, 1) # tail
  <2>1. n = 0
    BY <1>1, <1>6 DEF Drains, IsFull
  <2>2. ~IsFull(tail')
    BY <1>2, <1>3, <1>4, <1>6, <2>1, SlotsAre DEF IsFull, Slot
  <2> QED
    BY <2>2 DEF Datagram
<1> QED
  BY <1>5, <1>6

(* A live session is charged no drop for a burst that outran its pump: a drain makes room for the
   datagram that asked for it, however small the ring and wherever it wraps (feed.ts datagram,
   transport.rs pf_rx_claim). *)
THEOREM LiveHolds == RingSpec => LiveDropsNothing
<1>1. RingInit => RingShaped
  BY RingStarts
<1>2. RingShaped /\ [RingNext]_ringVars => RingShaped'
  BY RingSteps
<1>3. RingShaped /\ [RingNext]_ringVars
        => [phase = "Live" /\ (\E kind \in {"media", "side"} : Datagram(kind)) => dropped' = dropped]_ringVars
  BY LiveHasRoom
<1> QED
  BY <1>1, <1>2, <1>3, PTL DEF RingSpec, LiveDropsNothing

(***************************************************************************)
(* MCWire: the types of its four parts.                                    *)
(***************************************************************************)
(* Who has a session is a visitor, so the addresses that pair are visitors'. *)
LanesKnown ==
    /\ LanesInv /\ starts \in 0..Starts
    /\ \A s \in Sessions : sessions[s].phase # "none" => sessions[s].who \in Addresses

LEMMA LanesBegin == LanesInit => LanesKnown
  BY NobodyHolds, LanesAssumption DEF LanesAssumption, LanesKnown, LanesInit, NoSession

LEMMA OneVisitorMoves ==
    ASSUME LanesKnown, LanesInv', starts' \in 0..Starts, NEW s \in Sessions, NEW r, Moves(s, r),
           r.phase # "none" => r.who \in Addresses
    PROVE  LanesKnown'
<1>1. sessions' = [sessions EXCEPT ![s] = r] /\ DOMAIN sessions = Sessions
  BY DEF Moves, LanesKnown, LanesInv, LanesTyped
<1>2. ASSUME NEW t \in Sessions, sessions'[t].phase # "none" PROVE sessions'[t].who \in Addresses
  <2>1. CASE t = s
    BY <1>1, <1>2, <2>1
  <2>2. CASE t # s
    BY <1>1, <1>2, <2>2 DEF LanesKnown
  <2> QED
    BY <2>1, <2>2
<1> QED
  BY <1>2 DEF LanesKnown

LEMMA LanesStay == ASSUME LanesKnown, [LanesNext]_lanesVars PROVE LanesKnown'
<1>1. LanesInv' /\ LanesInv
  BY LanesGoOn DEF LanesKnown
<1>2. starts \in 0..Starts /\ Starts \in Nat /\ Starts \in 0..Starts
  BY LanesAssumption DEF LanesAssumption, LanesKnown
<1>3. NoSession.phase = "none"
  BY DEF NoSession
<1>4. ASSUME NEW s \in Sessions, sessions[s].phase # "none"
      PROVE  sessions[s].who \in Addresses /\ {"phase", "pool", "life", "who"} = DOMAIN sessions[s]
  BY <1>1, <1>4 DEF LanesKnown, LanesInv, LanesTyped
<1>5. ASSUME NEW s \in Sessions, NEW who \in Addresses, Open(s, who) PROVE LanesKnown'
  <2> DEFINE r == [phase |-> "first", pool |-> "none", life |-> 0, who |-> who]
  <2>1. Moves(s, r) /\ starts' = starts /\ r.who \in Addresses
    BY <1>5 DEF Open
  <2> HIDE DEF r
  <2> QED
    BY <1>1, <1>2, <2>1, OneVisitorMoves
<1>6. ASSUME NEW s \in Sessions, NotAdmitted(s) \/ PermitDropped(s) PROVE LanesKnown'
  <2>1. Moves(s, NoSession) /\ starts' = starts
    BY <1>6 DEF NotAdmitted, Refused, PermitDropped
  <2> QED
    BY <1>1, <1>2, <1>3, <2>1, OneVisitorMoves
<1>7. ASSUME NEW s \in Sessions, AdmitPaired(s) PROVE LanesKnown'
  <2> DEFINE r == [sessions[s] EXCEPT !.phase = "dials", !.pool = "paired"]
  <2>1. sessions[s].phase # "none" /\ starts' = starts /\ (Moves(s, NoSession) \/ Moves(s, r))
    BY <1>7 DEF AdmitPaired, InPhase, Refused
  <2>2. r.who \in Addresses
    BY <1>4, <2>1
  <2> HIDE DEF r
  <2> QED
    BY <1>1, <1>2, <1>3, <2>1, <2>2, OneVisitorMoves
<1>8. ASSUME NEW s \in Sessions, AsksPublished(s) PROVE LanesKnown'
  <2> DEFINE r == [sessions[s] EXCEPT !.phase = "published"]
  <2>1. sessions[s].phase # "none" /\ starts' = starts /\ Moves(s, r)
    BY <1>8 DEF AsksPublished, InPhase
  <2>2. r.who \in Addresses
    BY <1>4, <2>1
  <2> HIDE DEF r
  <2> QED
    BY <1>1, <1>2, <2>1, <2>2, OneVisitorMoves
<1>9. ASSUME NEW s \in Sessions, AdmitPairing(s) PROVE LanesKnown'
  <2> DEFINE r == [sessions[s] EXCEPT !.phase = "dials", !.pool = "pairing"]
  <2>1. /\ sessions[s].phase # "none" /\ starts' \in 0..Starts
        /\ Moves(s, NoSession) \/ Moves(s, r)
    BY <1>2, <1>9 DEF AdmitPairing, Refused
  <2>2. r.who \in Addresses
    BY <1>4, <2>1
  <2> HIDE DEF r
  <2> QED
    BY <1>1, <1>3, <2>1, <2>2, OneVisitorMoves
<1>10. ASSUME NEW s \in Sessions, Dialed(s) PROVE LanesKnown'
  <2> DEFINE r == [sessions[s] EXCEPT !.phase = "relays",
                       !.life = IF sessions[s].pool = "pairing" THEN PAIRING_LIFE ELSE 0]
  <2>1. sessions[s].phase # "none" /\ starts' = starts /\ Moves(s, r)
    BY <1>10 DEF Dialed, InPhase
  <2>2. r.who \in Addresses
    BY <1>4, <2>1
  <2> HIDE DEF r
  <2> QED
    BY <1>1, <1>2, <2>1, <2>2, OneVisitorMoves
<1>11. ASSUME NEW s \in Sessions, Ends(s) PROVE LanesKnown'
  <2> DEFINE r == [sessions[s] EXCEPT !.phase = "drops"]
  <2>1. sessions[s].phase # "none" /\ starts' = starts /\ Moves(s, r)
    BY <1>11 DEF Ends
  <2>2. r.who \in Addresses
    BY <1>4, <2>1
  <2> HIDE DEF r
  <2> QED
    BY <1>1, <1>2, <2>1, <2>2, OneVisitorMoves
<1>12. ASSUME LanesTick PROVE LanesKnown'
  <2>1. starts' \in 0..Starts
    BY <1>2, <1>12 DEF LanesTick
  <2>2. ASSUME NEW s \in Sessions, sessions'[s].phase # "none" PROVE sessions'[s].who \in Addresses
    <3>1. sessions'[s] = [sessions[s] EXCEPT !.life = Lower(@)]
      BY <1>12 DEF LanesTick
    <3>2. sessions[s] \in [phase : Phases, pool : {"none", "paired", "pairing"}, life : Nat, who : Addresses \cup {"none"}]
      BY <1>1 DEF LanesInv, LanesTyped
    <3>3. sessions'[s].phase = sessions[s].phase /\ sessions'[s].who = sessions[s].who
      BY <3>1, <3>2
    <3> QED
      BY <1>4, <2>2, <3>3
  <2> QED
    BY <1>1, <2>1, <2>2 DEF LanesKnown
<1>13. ASSUME Restart PROVE LanesKnown'
  BY <1>1, <1>2, <1>3, <1>13 DEF Restart, LanesKnown
<1>14. ASSUME UNCHANGED lanesVars PROVE LanesKnown'
  BY <1>1, <1>14 DEF lanesVars, LanesKnown
<1> QED
  BY <1>5, <1>6, <1>7, <1>8, <1>9, <1>10, <1>11, <1>12, <1>13, <1>14 DEF LanesNext, PairingOver

LEMMA LanesAreTyped == ASSUME LanesKnown PROVE LanesTypeOK
<1>1. /\ pools \in [paired : Nat, pairing : Nat, at : SUBSET (Addresses \cup {"none"})]
      /\ PAIRED \in Nat /\ PAIRING \in Nat
  BY LanesAssumption DEF LanesAssumption, LanesKnown, LanesInv, LanesTyped
<1>2. Cardinality(Holders("paired")) \in Nat /\ Cardinality(Holders("pairing")) \in Nat
  BY InIsFinite, FS_CardinalityType DEF Holders
<1>3. pools.paired \in 0..PAIRED /\ pools.pairing \in 0..PAIRING
  BY <1>1, <1>2 DEF LanesKnown, LanesInv, PoolsCounted
<1>4. ASSUME NEW a \in pools.at PROVE a \in Addresses
  <2>1. PICK s \in Pairers : sessions[s].who = a
    BY DEF LanesKnown, LanesInv, PoolsCounted
  <2>2. s \in Sessions /\ sessions[s].phase # "none"
    BY DEF Pairers, In, Running
  <2> QED
    BY <2>1, <2>2 DEF LanesKnown
<1> QED
  BY <1>1, <1>3, <1>4 DEF LanesKnown, LanesTypeOK

(* What waits in the ring, and what the session was given, are datagrams: none is a slot's zeroes. *)
RingHolds == Held(Waiting) \in Seq(Datagrams) /\ taken \in Seq(Datagrams)
LineTyped ==
    /\ phase \in {"Idle", "Offered", "Live"} /\ queued \in BOOLEAN /\ up \in BOOLEAN
    /\ dropped <= arrived /\ greeted \in 0..conn
RingTyped == RingShaped /\ RingHolds /\ LineTyped

LEMMA QueueHolds ==
    ASSUME NEW q \in Seq(Datagrams), NEW t \in Seq(Datagrams), NEW n \in 0..Len(q)
    PROVE  /\ Queue!Drop(n, q) \in Seq(Datagrams) /\ t \o SubSeq(q, 1, n) \in Seq(Datagrams)
           /\ \A d \in Datagrams : Append(Queue!Drop(n, q), d) \in Seq(Datagrams)
<1>1. SubSeq(q, 1, n) \in Seq(Datagrams) /\ SubSeq(q, n + 1, Len(q)) \in Seq(Datagrams)
  BY SubSeqProperties
<1> QED
  BY <1>1, ConcatProperties, AppendProperties DEF Queue!Drop

LEMMA RingHoldsOn == ASSUME RingHolds, [Queue!Next]_<<Held(Waiting), taken, dropped>> PROVE RingHolds'
<1>1. ASSUME NEW n \in 0..Len(Held(Waiting)), Queue!Take(n), (Held(Waiting))' = Queue!Drop(n, Held(Waiting))
      PROVE  RingHolds'
  BY <1>1, QueueHolds DEF RingHolds, Queue!Take
<1>2. CASE Queue!Drain \/ Queue!Lose
  BY <1>1, <1>2 DEF Queue!Drain, Queue!Lose
<1>3. ASSUME NEW d \in Datagrams, Queue!Arrive(d) PROVE RingHolds'
  <2>1. PICK n \in 0..Len(Held(Waiting)) : Queue!Take(n) /\ (Held(Waiting))' = Append(Queue!Drop(n, Held(Waiting)), d)
    BY <1>3 DEF Queue!Arrive
  <2> QED
    BY <2>1, QueueHolds DEF RingHolds, Queue!Take
<1>4. CASE Queue!Begin \/ Queue!Clear
  BY <1>4, EmptySeq DEF RingHolds, Queue!Begin, Queue!Clear
<1>5. CASE UNCHANGED <<Held(Waiting), taken, dropped>>
  BY <1>5 DEF RingHolds
<1> QED
  BY <1>2, <1>3, <1>4, <1>5 DEF Queue!Next

LEMMA LineKeeps == ASSUME LineTyped, RingShaped, [RingNext]_ringVars PROVE LineTyped'
<1>1. dropped \in Nat /\ arrived \in Nat /\ conn \in Nat
  BY RingAssumption DEF RingAssumption, RingShaped
<1>2. ASSUME NEW kind \in {"media", "side", "long"}, Datagram(kind) PROVE LineTyped'
  <2>1. dropped' \in {dropped, dropped + 1} /\ arrived' = arrived + 1
    BY <1>2 DEF Datagram
  <2> QED
    BY <1>1, <1>2, <2>1 DEF Datagram, line, LineTyped
<1>3. CASE BurstTask \/ SessionFrame
  BY <1>3 DEF BurstTask, SessionFrame, SessionPumped, line, LineTyped
<1>4. ASSUME NEW closes \in BOOLEAN, SessionReset(closes) PROVE LineTyped'
  BY <1>4 DEF SessionReset, RingReset, LineTyped
<1>5. CASE Dial
  <2>1. greeted' \in 0..conn' /\ dropped' <= arrived'
    BY <1>1, <1>5 DEF Dial, ring, LineTyped
  <2>2. phase' = phase /\ queued' = queued /\ up' = TRUE
    BY <1>5 DEF Dial
  <2> QED
    BY <2>1, <2>2 DEF LineTyped
<1>6. CASE CarrierCloses \/ Hello \/ Accept
  <2>1. greeted' \in 0..conn' /\ dropped' <= arrived'
    BY <1>1, <1>6 DEF CarrierCloses, Hello, Accept, ring, line, LineTyped
  <2>2. phase' \in {"Idle", "Offered", "Live"} /\ queued' = queued /\ up' \in BOOLEAN
    BY <1>6 DEF CarrierCloses, Hello, Accept, ring, line, LineTyped
  <2> QED
    BY <2>1, <2>2 DEF LineTyped
<1>7. CASE UNCHANGED ringVars
  BY <1>7 DEF ringVars, ring, line, LineTyped
<1> QED
  BY <1>2, <1>3, <1>4, <1>5, <1>6, <1>7 DEF RingNext

LEMMA RingBegins == RingInit => RingTyped
<1> SUFFICES ASSUME RingInit PROVE RingTyped
  OBVIOUS
<1>1. RingShaped /\ Queue!Init
  BY RingStarts
<1>2. RingHolds
  BY <1>1, EmptySeq DEF Queue!Init, RingHolds
<1>3. dropped <= arrived /\ greeted \in 0..conn
  BY DEF RingInit
<1>4. LineTyped
  BY <1>3 DEF RingInit, LineTyped
<1> QED
  BY <1>1, <1>2, <1>4 DEF RingTyped

LEMMA RingGoesOn == ASSUME RingTyped, [RingNext]_ringVars PROVE RingTyped'
  BY RingSteps, RingHoldsOn, LineKeeps DEF RingTyped

LEMMA RingIsTyped == ASSUME RingTyped PROVE RingTypeOK
  BY DEF RingTyped, RingShaped, RingHolds, LineTyped, RingTypeOK, Slot, Cells

(***************************************************************************)
(* Together.                                                               *)
(***************************************************************************)
WireInv == LanesKnown /\ BridgeInv /\ LegInv /\ RingTyped

LEMMA WireBegins == Init => WireInv
  BY LanesBegin, BridgeBegins, LegBegins, RingBegins DEF Init, WireInv

LEMMA WireGoesOn == WireInv /\ [Next]_vars => WireInv'
<1> SUFFICES ASSUME WireInv, [Next]_vars PROVE WireInv'
  OBVIOUS
<1>1. [LanesNext]_lanesVars /\ [BridgeNext]_bridgeVars /\ [WsLegNext]_legVars /\ [RingNext]_ringVars
  BY DEF Next, vars, serverVars, browserVars
<1> QED
  BY <1>1, LanesStay, BridgeGoesOn, LegGoesOn, RingGoesOn DEF WireInv

(* MCWire's types: the server's places and its relay's queue (lanes.rs, bridge.rs), the leg and the
   datagrams' ring (ws.ts, transport.rs), for every value of the constants. *)
THEOREM WireTyped == Spec => []TypeOK
<1>1. LegInv => WsLegTypeOK
  BY DEF LegInv, LegTyped, HoldsOrSaid, WsLegTypeOK
<1>2. BridgeInv => BridgeTypeOK
  BY DEF BridgeInv, BridgeTyped, BridgeTypeOK
<1>3. WireInv => TypeOK
  BY <1>1, <1>2, LanesAreTyped, RingIsTyped DEF WireInv, TypeOK
<1> QED
  BY <1>3, WireBegins, WireGoesOn, PTL DEF Spec
=============================================================================
