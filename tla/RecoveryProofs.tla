--------------------------- MODULE RecoveryProofs ---------------------------
(***************************************************************************)
(* Recovery's invariants, for every width of a frame index, every limit    *)
(* and every loss.  Indices wrap, so they are compared by age: how many    *)
(* frames ago the host sent one.  A frame in flight is at most half the    *)
(* width old, the next frame the page reads at most MaxGap + 1, and a      *)
(* frame passed over and not yet asked for lies between the ends of the    *)
(* pending range.  A pump reads frames one after the other; its result is  *)
(* proved by counting them.                                                *)
(***************************************************************************)
EXTENDS Recovery, WellFoundedInduction, TLAPS

Half == Width \div 2
Near == (Width - 1) \div 2
Age(s, i) == (s - i) % Width

Kinds == {"key", "delta", "anchor"}
Frame == [index : Index, kind : Kinds, late : BOOLEAN]
Client ==
    [nextIndex : Index \cup {NoIndex}, pendingRfi : (Index \X Index) \cup {NoRange},
     throttle : 0..Throttle,
     open : [ask : {"none", "key", "rfi"}, wait : 0..Repeat, left : 0..GiveUp],
     freeze : [on : BOOLEAN, own : BOOLEAN, left : 0..ReAsk],
     decoder : [up : BOOLEAN, needKey : BOOLEAN, asked : BOOLEAN,
                queue : Seq([kind : Kinds, late : BOOLEAN])],
     keyWanted : BOOLEAN, byLoss : BOOLEAN, passed : SUBSET Index]

(* What holds of the client between any two of its steps. *)
Blamed(c) == c.freeze.on => (c.freeze.own <=> ~c.byLoss)
Fed(c) == \A i \in DOMAIN c.decoder.queue : ~c.decoder.queue[i].late
Noted(c, s) ==
    /\ c.pendingRfi = NoRange => c.passed = {}
    /\ c.pendingRfi # NoRange =>
        /\ Age(s, c.pendingRfi[1]) <= Width - 2
        /\ Age(s, c.pendingRfi[2]) <= Age(s, c.pendingRfi[1])
        /\ Age(s, c.nextIndex) < Age(s, c.pendingRfi[2])
        /\ \A p \in c.passed : Age(s, p) \in Age(s, c.pendingRfi[2])..Age(s, c.pendingRfi[1])
Tracked(c, s) ==
    /\ c.nextIndex = NoIndex => c.pendingRfi = NoRange /\ c.passed = {} /\ s <= MaxGap
    /\ c.nextIndex # NoIndex => Age(s, c.nextIndex) <= MaxGap + 1 /\ Noted(c, s)
Good(c, s) == c \in Client /\ Blamed(c) /\ Fed(c) /\ Tracked(c, s)

(* What holds of the frames in flight. *)
Sound(f, s, next) ==
    /\ Age(s, f.index) \in 1..Half
    /\ next = NoIndex => Age(s, f.index) <= s
Carried(w, s, next) ==
    /\ w \in Seq(Frame)
    /\ \A i \in DOMAIN w :
        /\ Sound(w[i], s, next)
        /\ w[i].late => next # NoIndex /\ Age(s, next) < Age(s, w[i].index)
    /\ \A i, j \in DOMAIN w : i < j => Age(s, w[j].index) < Age(s, w[i].index)

RecoveryInv ==
    /\ Good(client, sent) /\ Carried(wire, sent, client.nextIndex)
    /\ sent \in Index /\ hostAsk \in {"none", "anchor", "key"} /\ heard \in BOOLEAN
    /\ faults \in 0..MaxFaults

(***************************************************************************)
(* Ages.                                                                   *)
(***************************************************************************)
LEMMA LimitsAre ==
    /\ Width \in Nat /\ Width >= 3 /\ MaxGap \in Nat /\ MaxGap < Near
    /\ Near \in Nat /\ Near + Near < Width /\ Width <= Near + Near + 2
    /\ Half \in Nat /\ Half + Half <= Width /\ Width <= Half + Half + 1
    /\ RfiMaxRange \in Nat /\ Repeat \in Nat \ {0} /\ Throttle \in Nat \ {0} /\ GiveUp \in Nat \ {0}
    /\ ReAsk \in Nat \ {0} /\ MaxFaults \in Nat /\ Depth \in Nat /\ InFlight \in Nat
<1>1. /\ Width \in Nat /\ MaxGap \in Nat /\ MaxGap < Near
      /\ RfiMaxRange \in Nat /\ Repeat \in Nat \ {0} /\ Throttle \in Nat \ {0} /\ GiveUp \in Nat \ {0}
      /\ ReAsk \in Nat \ {0} /\ MaxFaults \in Nat /\ Depth \in Nat /\ InFlight \in Nat
  BY RecoveryAssumption DEF RecoveryAssumption, Near
<1>2. Half \in Nat /\ Half + Half <= Width /\ Width <= Half + Half + 1
  BY <1>1 DEF Half
<1>3. Width >= 3
  BY <1>1 DEF Near
<1>4. Near \in Nat /\ Near + Near < Width /\ Width <= Near + Near + 2
  BY <1>1, <1>3 DEF Near
<1> QED
  BY <1>1, <1>2, <1>3, <1>4

LEMMA ModBelow == ASSUME NEW a \in Nat, NEW b \in Nat \ {0}, a < b PROVE a % b = a
  OBVIOUS
LEMMA ModOnce == ASSUME NEW a \in Nat, NEW b \in Nat \ {0}, a >= b, a < b + b PROVE a % b = a - b
  OBVIOUS
LEMMA ModUnder == ASSUME NEW a \in Int, NEW b \in Nat \ {0}, a < 0, a >= -b PROVE a % b = a + b
  OBVIOUS

(* One turn of the index, either way. *)
LEMMA Wraps ==
    ASSUME NEW a \in Int, -Width <= a, a < Width + Width
    PROVE  /\ a % Width = IF a < 0 THEN a + Width ELSE IF a < Width THEN a ELSE a - Width
           /\ a % Width \in Index
<1>1. Width \in Nat \ {0}
  BY LimitsAre
<1>2. a < 0 => a % Width = a + Width
  BY <1>1, ModUnder
<1>3. a >= 0 /\ a < Width => a % Width = a
  BY <1>1, ModBelow
<1>4. a >= Width => a % Width = a - Width
  BY <1>1, ModOnce
<1> QED
  BY <1>1, <1>2, <1>3, <1>4 DEF Index

LEMMA AgeIs ==
    ASSUME NEW s \in Index, NEW i \in Index
    PROVE  Age(s, i) = (IF i <= s THEN s - i ELSE s - i + Width) /\ Age(s, i) \in Index
<1>1. s - i \in Int /\ -Width <= s - i /\ s - i < Width + Width /\ s - i < Width
  BY LimitsAre DEF Index
<1>2. /\ Age(s, i) = IF s - i < 0 THEN s - i + Width ELSE IF s - i < Width THEN s - i ELSE s - i - Width
      /\ Age(s, i) \in Index
  BY <1>1, Wraps DEF Age
<1> QED
  BY <1>1, <1>2, LimitsAre DEF Index

LEMMA PlusIs ==
    ASSUME NEW i \in Index, NEW k \in -Width..Width
    PROVE  /\ Plus(i, k) = (IF i + k < 0 THEN i + k + Width ELSE IF i + k < Width THEN i + k ELSE i + k - Width)
           /\ Plus(i, k) \in Index
<1>1. i + k \in Int /\ -Width <= i + k /\ i + k < Width + Width
  BY LimitsAre DEF Index
<1> DEFINE a == i + k
<1>2. a \in Int /\ -Width <= a /\ a < Width + Width
  BY <1>1
<1> HIDE DEF a
<1>3. /\ a % Width = (IF a < 0 THEN a + Width ELSE IF a < Width THEN a ELSE a - Width)
      /\ a % Width \in Index
  BY <1>2, Wraps
<1>4. Plus(i, k) = a % Width /\ a = i + k
  BY DEF Plus, a
<1>5. /\ Plus(i, k) = (IF a < 0 THEN a + Width ELSE IF a < Width THEN a ELSE a - Width)
      /\ Plus(i, k) \in Index
  BY <1>3, <1>4
<1>6. i \in Int /\ k \in Int /\ Width \in Nat
  BY LimitsAre DEF Index
<1> QED
  BY <1>4, <1>5, <1>6

(* Going on from an index by k makes it k younger. *)
LEMMA AgeOfPlus ==
    ASSUME NEW s \in Index, NEW i \in Index, NEW k \in -Width..Width, Age(s, i) - k \in Index
    PROVE  Plus(i, k) \in Index /\ Age(s, Plus(i, k)) = Age(s, i) - k
<1>1. /\ Plus(i, k) = (IF i + k < 0 THEN i + k + Width ELSE IF i + k < Width THEN i + k ELSE i + k - Width)
      /\ Plus(i, k) \in Index
  BY PlusIs
<1>2. Age(s, i) = (IF i <= s THEN s - i ELSE s - i + Width) /\ Age(s, i) \in Index
  BY AgeIs
<1> DEFINE p == Plus(i, k)
<1>3. Age(s, p) = (IF p <= s THEN s - p ELSE s - p + Width) /\ Age(s, p) \in Index
  BY <1>1, AgeIs
<1> QED
  BY <1>1, <1>2, <1>3, LimitsAre DEF Index

(* How far one index is ahead of another, by their ages. *)
LEMMA AheadIs ==
    ASSUME NEW s \in Index, NEW e \in Index, NEW g \in Index
    PROVE  (g - e) % Width = IF Age(s, g) <= Age(s, e) THEN Age(s, e) - Age(s, g)
                             ELSE Age(s, e) - Age(s, g) + Width
<1>1. (g - e) % Width = IF e <= g THEN g - e ELSE g - e + Width
  BY AgeIs DEF Age
<1>2. Age(s, e) = (IF e <= s THEN s - e ELSE s - e + Width) /\ Age(s, e) \in Index
  BY AgeIs
<1>3. Age(s, g) = (IF g <= s THEN s - g ELSE s - g + Width) /\ Age(s, g) \in Index
  BY AgeIs
<1> QED
  BY <1>1, <1>2, <1>3, LimitsAre DEF Index

LEMMA OneAge ==
    ASSUME NEW s \in Index, NEW i \in Index, NEW j \in Index, Age(s, i) = Age(s, j)
    PROVE  i = j
<1>1. Age(s, i) = (IF i <= s THEN s - i ELSE s - i + Width)
  BY AgeIs
<1>2. Age(s, j) = (IF j <= s THEN s - j ELSE s - j + Width)
  BY AgeIs
<1>3. (IF i <= s THEN s - i ELSE s - i + Width) = (IF j <= s THEN s - j ELSE s - j + Width)
  BY <1>1, <1>2
<1>4. s \in 0..Width - 1 /\ i \in 0..Width - 1 /\ j \in 0..Width - 1 /\ Width \in Nat
  BY LimitsAre DEF Index
<1> QED
  BY <1>3, <1>4

(* A frame is sent: all grow older by one. *)
LEMMA Older ==
    ASSUME NEW s \in Index
    PROVE  /\ Plus(s, 1) \in Index /\ Age(Plus(s, 1), s) = 1
           /\ s + 1 < Width => Plus(s, 1) = s + 1
           /\ \A i \in Index : Age(s, i) < Width - 1 => Age(Plus(s, 1), i) = Age(s, i) + 1
<1>1. /\ Plus(s, 1) = (IF s + 1 < Width THEN s + 1 ELSE 0)
      /\ Plus(s, 1) \in Index
  BY PlusIs, LimitsAre DEF Index
<1> DEFINE t == Plus(s, 1)
<1>2. \A i \in Index : /\ Age(s, i) = (IF i <= s THEN s - i ELSE s - i + Width)
                       /\ Age(t, i) = (IF i <= t THEN t - i ELSE t - i + Width)
  BY <1>1, AgeIs
<1> QED
  BY <1>1, <1>2, LimitsAre DEF Index

(***************************************************************************)
(* One step of the client.                                                 *)
(***************************************************************************)

(* A frame no older than the one awaited is delivered, after a gap or not; any other is a
   straggler, however the index has wrapped between them. *)
LEMMA StepIs ==
    ASSUME NEW s \in Index, NEW c \in Client, NEW f \in Frame,
           c.nextIndex # NoIndex, Age(s, c.nextIndex) <= MaxGap + 1, Age(s, f.index) \in 1..Half
    PROVE  /\ Step(c, f.index) = "deliver" => f.index = c.nextIndex
           /\ Step(c, f.index) = "gap" => Age(s, f.index) < Age(s, c.nextIndex)
           /\ Step(c, f.index) \notin {"deliver", "gap"} => Age(s, c.nextIndex) < Age(s, f.index)
<1> DEFINE n == c.nextIndex
           g == f.index
<1>1. n \in Index /\ g \in Index
  BY DEF Client, Frame
<1> HIDE DEF n, g
<1>2. (g - n) % Width = IF Age(s, g) <= Age(s, n) THEN Age(s, n) - Age(s, g)
                        ELSE Age(s, n) - Age(s, g) + Width
  BY <1>1, AheadIs
<1>3. Age(s, n) \in Index /\ Age(s, g) \in Index /\ Age(s, n) <= MaxGap + 1 /\ Age(s, g) \in 1..Half
  BY <1>1, AgeIs DEF n, g
<1>4. IndexGap(n, g) = IF Age(s, g) <= Age(s, n) THEN Age(s, n) - Age(s, g) ELSE 0
  BY <1>2, <1>3, LimitsAre DEF IndexGap, Near, Index
<1>5. n = g \/ Age(s, n) # Age(s, g)
  BY <1>1, OneAge
<1>6. n # NoIndex
  BY DEF n
<1>9. /\ n = g => Step(c, g) = "deliver"
      /\ n # g /\ IndexGap(n, g) > 0 => Step(c, g) = "gap"
      /\ n # g /\ ~(IndexGap(n, g) > 0) => Step(c, g) = "straggler"
  BY <1>6 DEF Step, n
<1>8. /\ Step(c, g) = "deliver" => g = n
      /\ Step(c, g) = "gap" => Age(s, g) < Age(s, n)
      /\ Step(c, g) \notin {"deliver", "gap"} => Age(s, n) < Age(s, g)
  BY <1>3, <1>4, <1>5, <1>9 DEF Index
<1> QED
  BY <1>8 DEF n, g

LEMMA ArmSays ==
    ASSUME NEW c \in Client, NEW page \in BOOLEAN
    PROVE  /\ Arm(c, page) \in Client
           /\ Blamed(c) => Blamed(Arm(c, page))
           /\ Arm(c, page).decoder = c.decoder /\ Arm(c, page).nextIndex = c.nextIndex
           /\ Arm(c, page).pendingRfi = c.pendingRfi /\ Arm(c, page).passed = c.passed
<1> DEFINE own == page /\ (c.freeze.own \/ ~c.freeze.on)
           loss == ~page \/ (c.byLoss /\ c.freeze.on)
           fz == [on |-> TRUE, own |-> own, left |-> ReAsk]
<1>1. ReAsk \in 0..ReAsk /\ own \in BOOLEAN /\ loss \in BOOLEAN
  BY LimitsAre
<1>2. Blamed(c) => (own <=> ~loss)
  BY DEF Blamed
<1>3. Arm(c, page) = [c EXCEPT !.freeze = fz, !.byLoss = loss]
  BY DEF Arm, StepsOwn
<1> HIDE DEF own, loss
<1>4. fz \in [on : BOOLEAN, own : BOOLEAN, left : 0..ReAsk]
  BY <1>1
<1>5. fz.own = own /\ fz.on
  OBVIOUS
<1> HIDE DEF fz
<1>6. [c EXCEPT !.freeze = fz, !.byLoss = loss] \in Client
  BY <1>1, <1>4 DEF Client
<1>7. /\ Arm(c, page).freeze = fz /\ Arm(c, page).byLoss = loss
      /\ Arm(c, page).decoder = c.decoder /\ Arm(c, page).nextIndex = c.nextIndex
      /\ Arm(c, page).pendingRfi = c.pendingRfi /\ Arm(c, page).passed = c.passed
  BY <1>3 DEF Client
<1>8. Blamed(c) => Blamed(Arm(c, page))
  BY <1>2, <1>5, <1>7 DEF Blamed
<1> QED
  BY <1>3, <1>6, <1>7, <1>8

(* An ask clears what it asks for. *)
LEMMA AskedSays ==
    ASSUME NEW c \in Client, NEW ask \in {"none", "key", "rfi"}
    PROVE  /\ Asked(c, ask) \in Client
           /\ Asked(c, ask).freeze = c.freeze /\ Asked(c, ask).byLoss = c.byLoss
           /\ Asked(c, ask).decoder = c.decoder /\ Asked(c, ask).nextIndex = c.nextIndex
           /\ Asked(c, ask).pendingRfi = NoRange /\ Asked(c, ask).passed = {}
<1>1. Throttle \in 0..Throttle /\ Repeat \in 0..Repeat /\ GiveUp \in 0..GiveUp
  BY LimitsAre
<1> QED
  BY <1>1 DEF Asked, AskFor, Client

LEMMA SubmitSays ==
    ASSUME NEW c \in Client, NEW f \in Frame, ~f.late, Fed(c)
    PROVE  /\ SubmitUnit(c, f) \in Client /\ Fed(SubmitUnit(c, f))
           /\ SubmitUnit(c, f).freeze = c.freeze /\ SubmitUnit(c, f).byLoss = c.byLoss
           /\ SubmitUnit(c, f).nextIndex = c.nextIndex
           /\ SubmitUnit(c, f).pendingRfi = c.pendingRfi /\ SubmitUnit(c, f).passed = c.passed
<1> DEFINE u == [kind |-> f.kind, late |-> f.late]
           q == Append(c.decoder.queue, u)
<1>1. u \in [kind : Kinds, late : BOOLEAN] /\ ~u.late
  BY DEF Frame
<1>2. c.decoder.queue \in Seq([kind : Kinds, late : BOOLEAN])
  BY DEF Client
<1> HIDE DEF u
<1>3. q \in Seq([kind : Kinds, late : BOOLEAN]) /\ \A i \in DOMAIN q : ~q[i].late
  BY <1>1, <1>2 DEF Fed
<1> HIDE DEF q
<1> DEFINE asked == [c.decoder EXCEPT !.asked = TRUE]
           keyed == [c.decoder EXCEPT !.needKey = FALSE, !.queue = q]
           wanted == c.keyWanted \/ ~c.decoder.asked
           d1 == [c EXCEPT !.decoder = asked, !.keyWanted = wanted]
           d2 == [c EXCEPT !.decoder = keyed]
<1>4. SubmitUnit(c, f) \in {c, d1, d2}
  BY DEF SubmitUnit, Client, q, u
<1>5. /\ asked \in [up : BOOLEAN, needKey : BOOLEAN, asked : BOOLEAN,
                     queue : Seq([kind : Kinds, late : BOOLEAN])]
      /\ asked.queue = c.decoder.queue
  BY DEF Client
<1>6. /\ keyed \in [up : BOOLEAN, needKey : BOOLEAN, asked : BOOLEAN,
                     queue : Seq([kind : Kinds, late : BOOLEAN])]
      /\ keyed.queue = q
  BY <1>3 DEF Client
<1>7. wanted \in BOOLEAN
  OBVIOUS
<1> HIDE DEF asked, keyed, wanted
<1>8. /\ d1 \in Client /\ d1.decoder = asked /\ d1.freeze = c.freeze /\ d1.byLoss = c.byLoss
      /\ d1.nextIndex = c.nextIndex /\ d1.pendingRfi = c.pendingRfi /\ d1.passed = c.passed
  BY <1>5, <1>7 DEF Client
<1>9. /\ d2 \in Client /\ d2.decoder = keyed /\ d2.freeze = c.freeze /\ d2.byLoss = c.byLoss
      /\ d2.nextIndex = c.nextIndex /\ d2.pendingRfi = c.pendingRfi /\ d2.passed = c.passed
  BY <1>6 DEF Client
<1> HIDE DEF d1, d2
<1>10. Fed(d1) /\ Fed(d2)
  BY <1>3, <1>5, <1>6, <1>8, <1>9 DEF Fed
<1> QED
  BY <1>4, <1>8, <1>9, <1>10

LEMMA AdvancedSays ==
    ASSUME NEW c \in Client, NEW f \in Frame
    PROVE  /\ Advanced(c, f) \in Client
           /\ Advanced(c, f).freeze = c.freeze /\ Advanced(c, f).byLoss = c.byLoss
           /\ Advanced(c, f).decoder = c.decoder /\ Advanced(c, f).nextIndex = Plus(f.index, 1)
           /\ Advanced(c, f).pendingRfi = c.pendingRfi /\ Advanced(c, f).passed = c.passed
<1> DEFINE o == AskOnFrame(c.open, f)
           n == Plus(f.index, 1)
<1>1. 1 \in -Width..Width /\ f.index \in Index
  BY LimitsAre DEF Frame
<1>2. n \in Index
  BY <1>1, PlusIs
<1>3. NoOpenAsk \in [ask : {"none", "key", "rfi"}, wait : 0..Repeat, left : 0..GiveUp]
  BY LimitsAre DEF NoOpenAsk
<1>4. o \in [ask : {"none", "key", "rfi"}, wait : 0..Repeat, left : 0..GiveUp]
  BY <1>3 DEF AskOnFrame, Client
<1>5. Advanced(c, f) = [c EXCEPT !.nextIndex = n, !.open = o]
  BY DEF Advanced, Client
<1> HIDE DEF o, n
<1>6. Advanced(c, f) \in Client
  BY <1>2, <1>4, <1>5 DEF Client
<1> QED
  BY <1>5, <1>6 DEF Client, n

(* The frames between the one awaited and the one that came are noted. *)
LEMMA GappedSays ==
    ASSUME NEW s \in Index, NEW c \in Client, NEW f \in Frame, c.nextIndex # NoIndex,
           Age(s, f.index) \in 1..Half, Age(s, f.index) < Age(s, c.nextIndex), Tracked(c, s)
    PROVE  /\ Gapped(c, f) \in Client
           /\ Blamed(c) => Blamed(Gapped(c, f))
           /\ Gapped(c, f).decoder = c.decoder
           /\ Gapped(c, f).pendingRfi # NoRange
           /\ Age(s, Gapped(c, f).pendingRfi[1]) <= Width - 2
           /\ Age(s, Gapped(c, f).pendingRfi[2]) <= Age(s, Gapped(c, f).pendingRfi[1])
           /\ Age(s, Gapped(c, f).pendingRfi[2]) = Age(s, f.index) + 1
           /\ \A p \in Gapped(c, f).passed :
                Age(s, p) \in Age(s, Gapped(c, f).pendingRfi[2])..Age(s, Gapped(c, f).pendingRfi[1])
<1> DEFINE n == c.nextIndex
           g == f.index
           last == Plus(g, -1)
           ahead == (g - n) % Width
           new == {Plus(n, k) : k \in 0..ahead - 1}
           r == Widened(c.pendingRfi, n, g)
           a == Arm(c, FALSE)
           passed == a.passed \cup new
<1>1. n \in Index /\ g \in Index /\ n # NoIndex
  BY DEF Client, Frame
<1>2. /\ a \in Client /\ (Blamed(c) => Blamed(a)) /\ a.decoder = c.decoder /\ a.nextIndex = n
      /\ a.pendingRfi = c.pendingRfi /\ a.passed = c.passed
  BY ArmSays
<1>3. /\ Age(s, n) \in Index /\ Age(s, g) \in Index /\ Age(s, n) <= MaxGap + 1 /\ Noted(c, s)
      /\ Age(s, g) \in 1..Half /\ Age(s, g) < Age(s, n)
  BY <1>1, AgeIs DEF Tracked
<1>4. ahead = Age(s, n) - Age(s, g)
  <2> HIDE DEF n, g
  <2> QED  BY <1>1, <1>3, AheadIs DEF Index
<1>5. last \in Index /\ Age(s, last) = Age(s, g) + 1
  <2>1. -1 \in -Width..Width /\ Age(s, g) - (-1) \in Index /\ Age(s, g) - (-1) = Age(s, g) + 1
    BY <1>3, LimitsAre DEF Index
  <2> HIDE DEF n, g
  <2> QED  BY <1>1, <2>1, AgeOfPlus
<1>6. \A p \in new : p \in Index /\ Age(s, p) \in Age(s, last)..Age(s, n)
  <2> SUFFICES ASSUME NEW k \in 0..ahead - 1
               PROVE  Plus(n, k) \in Index /\ Age(s, Plus(n, k)) \in Age(s, last)..Age(s, n)
    BY DEF new
  <2> HIDE DEF n, g, last, ahead
  <2>1. k \in -Width..Width /\ Age(s, n) - k \in Index
    BY <1>3, <1>4, LimitsAre DEF Index
  <2>2. Plus(n, k) \in Index /\ Age(s, Plus(n, k)) = Age(s, n) - k
    BY <1>1, <2>1, AgeOfPlus
  <2> QED
    BY <1>3, <1>4, <1>5, <2>2 DEF Index
<1>7. /\ r = <<IF c.pendingRfi = NoRange THEN n ELSE c.pendingRfi[1], last>>
      /\ r \in Index \X Index /\ r # NoRange
  BY <1>1, <1>5 DEF Widened, Client, NoRange, NoIndex, Index
<1>8. Gapped(c, f) = [a EXCEPT !.pendingRfi = r, !.passed = passed]
  BY <1>2 DEF Gapped
<1> HIDE DEF n, g, last, ahead, new, r, a
<1>9. passed \in SUBSET Index /\ \A p \in passed : p \in c.passed \/ p \in new
  BY <1>2, <1>6 DEF Client
<1> HIDE DEF passed
<1>10. /\ Gapped(c, f) \in Client /\ Gapped(c, f).pendingRfi = r
       /\ Gapped(c, f).passed = passed /\ Gapped(c, f).decoder = a.decoder
       /\ Gapped(c, f).freeze = a.freeze /\ Gapped(c, f).byLoss = a.byLoss
  <2>1. [a EXCEPT !.pendingRfi = r, !.passed = passed] \in Client
    BY <1>2, <1>7, <1>9 DEF Client
  <2> QED  BY <1>2, <1>8, <2>1 DEF Client
<1>11. Age(s, r[1]) \in Index /\ Age(s, r[1]) <= Width - 2 /\ Age(s, n) <= Age(s, r[1])
  <2>1. CASE c.pendingRfi = NoRange
    BY <1>3, <1>7, <2>1, LimitsAre DEF Index
  <2>2. CASE c.pendingRfi # NoRange
    <3>1. r[1] = c.pendingRfi[1] /\ r[1] \in Index /\ c.pendingRfi[2] \in Index
      BY <1>7, <2>2 DEF Client
    <3>2. Age(s, c.pendingRfi[2]) \in Index /\ Age(s, r[1]) \in Index
      BY <3>1, AgeIs
    <3> QED  BY <1>3, <2>2, <3>1, <3>2 DEF Noted, Index, n
  <2> QED  BY <2>1, <2>2
<1>12. r[2] = last
  BY <1>7
<1>13. \A p \in c.passed : Age(s, p) \in Age(s, last)..Age(s, r[1])
  <2>1. CASE c.pendingRfi = NoRange
    BY <1>3, <2>1 DEF Noted
  <2>2. CASE c.pendingRfi # NoRange
    <3>1. r[1] = c.pendingRfi[1] /\ c.pendingRfi[2] \in Index
      BY <1>7, <2>2 DEF Client
    <3>2. Age(s, c.pendingRfi[2]) \in Index
      BY <3>1, AgeIs
    <3>3. Age(s, last) <= Age(s, c.pendingRfi[2])
      BY <1>3, <1>5, <2>2, <3>2 DEF Noted, Index, n
    <3>4. \A p \in c.passed : Age(s, p) \in Age(s, c.pendingRfi[2])..Age(s, c.pendingRfi[1])
      BY <1>3, <2>2 DEF Noted
    <3>5. Age(s, last) \in Index
      BY <1>5, AgeIs
    <3> QED  BY <1>11, <3>1, <3>2, <3>3, <3>4, <3>5 DEF Index
  <2> QED  BY <2>1, <2>2
<1>14. \A p \in new : Age(s, p) \in Age(s, last)..Age(s, r[1])
  BY <1>3, <1>5, <1>6, <1>11 DEF Index
<1>15. Blamed(c) => Blamed(Gapped(c, f))
  BY <1>2, <1>10 DEF Blamed
<1>16. Age(s, last) <= Age(s, r[1])
  BY <1>3, <1>5, <1>11 DEF Index
<1> QED
  BY <1>2, <1>5, <1>7, <1>9, <1>10, <1>11, <1>12, <1>13, <1>14, <1>15, <1>16 DEF g

(* One frame of the pump's loop: what the client promises holds on, and what it awaits is
   younger than the frame. *)
LEMMA PumpFrameSays ==
    ASSUME NEW s \in Index, NEW c, Good(c, s), NEW f \in Frame, Sound(f, s, c.nextIndex),
           f.late => c.nextIndex # NoIndex /\ Age(s, c.nextIndex) < Age(s, f.index)
    PROVE  LET d == PumpFrame(c, f)
           IN  /\ Good(d, s) /\ d.nextIndex # NoIndex
               /\ Age(s, d.nextIndex) < Age(s, f.index)
               /\ c.nextIndex # NoIndex => Age(s, d.nextIndex) <= Age(s, c.nextIndex)
<1> DEFINE g == f.index
           d == PumpFrame(c, f)
<1>1. c \in Client /\ Blamed(c) /\ Fed(c) /\ Tracked(c, s)
  BY DEF Good
<1>2. /\ g \in Index /\ Age(s, g) \in 1..Half /\ Age(s, g) \in Index
      /\ c.nextIndex = NoIndex => Age(s, g) <= s
  BY AgeIs DEF Frame, Sound
<1>3. Plus(g, 1) \in Index /\ Age(s, Plus(g, 1)) = Age(s, g) - 1 /\ Plus(g, 1) # NoIndex
  <2>1. 1 \in -Width..Width /\ Age(s, g) - 1 \in Index
    BY <1>2, LimitsAre DEF Index
  <2> HIDE DEF g
  <2>2. Plus(g, 1) \in Index /\ Age(s, Plus(g, 1)) = Age(s, g) - 1
    BY <1>2, <2>1, AgeOfPlus
  <2> QED  BY <2>2, LimitsAre DEF Index, NoIndex
<1>4. c.nextIndex = NoIndex \/ (c.nextIndex \in Index /\ Age(s, c.nextIndex) \in Index
                                /\ Age(s, c.nextIndex) <= MaxGap + 1)
  BY <1>1, AgeIs DEF Client, Tracked
<1>5. CASE Step(c, g) \notin {"deliver", "gap"}
  <2>1. c.nextIndex # NoIndex
    BY <1>5 DEF Step
  <2>2. Age(s, c.nextIndex) < Age(s, g)
    BY <1>1, <1>2, <1>4, <1>5, <2>1, StepIs
  <2>3. d = c
    BY <1>5 DEF PumpFrame
  <2> HIDE DEF d
  <2> QED  BY <1>4, <2>1, <2>2, <2>3 DEF Index, d
<1>6. CASE Step(c, g) = "deliver"
  <2> DEFINE a == Advanced(c, f)
  <2>1. ~f.late /\ (c.nextIndex # NoIndex => g = c.nextIndex)
    BY <1>1, <1>2, <1>4, <1>6, StepIs DEF Index
  <2>2. /\ a \in Client /\ a.freeze = c.freeze /\ a.byLoss = c.byLoss
        /\ a.decoder = c.decoder /\ a.nextIndex = Plus(g, 1)
        /\ a.pendingRfi = c.pendingRfi /\ a.passed = c.passed
    BY <1>1, AdvancedSays
  <2>3. d = SubmitUnit(a, f)
    BY <1>6 DEF PumpFrame
  <2> HIDE DEF a, d
  <2>4. Fed(a)
    BY <1>1, <2>2 DEF Fed
  <2>5. /\ d \in Client /\ Fed(d) /\ d.freeze = c.freeze /\ d.byLoss = c.byLoss
        /\ d.nextIndex = Plus(g, 1) /\ d.pendingRfi = c.pendingRfi /\ d.passed = c.passed
    BY <2>1, <2>2, <2>3, <2>4, SubmitSays
  <2>6. Blamed(d)
    BY <1>1, <2>5 DEF Blamed
  <2>7. c.nextIndex # NoIndex => Age(s, d.nextIndex) <= Age(s, c.nextIndex)
    BY <1>2, <1>3, <2>1, <2>5 DEF Index
  <2>8. Age(s, d.nextIndex) <= MaxGap + 1
    <3>1. CASE c.nextIndex = NoIndex
      <4>1. s <= MaxGap
        BY <1>1, <3>1 DEF Tracked
      <4> QED  BY <1>2, <1>3, <2>5, <3>1, <4>1, LimitsAre DEF Index
    <3>2. CASE c.nextIndex # NoIndex
      BY <1>2, <1>3, <1>4, <2>1, <2>5, <3>2, LimitsAre DEF Index
    <3> QED  BY <3>1, <3>2
  <2>9. Noted(d, s)
    <3>1. CASE c.nextIndex = NoIndex
      BY <1>1, <2>5, <3>1 DEF Tracked, Noted
    <3>2. CASE c.nextIndex # NoIndex
      <4>1. Noted(c, s) /\ Age(s, d.nextIndex) <= Age(s, c.nextIndex) /\ Age(s, d.nextIndex) \in Index
        BY <1>1, <1>3, <2>5, <2>7, <3>2, AgeIs DEF Tracked
      <4>2. c.pendingRfi # NoRange => Age(s, c.pendingRfi[2]) \in Index
        BY <1>1, AgeIs DEF Client
      <4> QED  BY <1>4, <2>5, <3>2, <4>1, <4>2 DEF Noted, Index
    <3> QED  BY <3>1, <3>2
  <2>10. d.nextIndex # NoIndex /\ Age(s, d.nextIndex) < Age(s, g)
    BY <1>2, <1>3, <2>5 DEF Index
  <2> QED
    BY <2>5, <2>6, <2>7, <2>8, <2>9, <2>10 DEF Good, Tracked, d
<1>7. CASE Step(c, g) = "gap"
  <2> DEFINE b == Gapped(c, f)
             a == Advanced(b, f)
  <2>1. c.nextIndex # NoIndex
    BY <1>7 DEF Step
  <2>2. ~f.late /\ Age(s, g) < Age(s, c.nextIndex)
    BY <1>1, <1>2, <1>4, <1>7, <2>1, StepIs DEF Index
  <2>3. /\ b \in Client /\ Blamed(b) /\ b.decoder = c.decoder
        /\ b.pendingRfi # NoRange
        /\ Age(s, b.pendingRfi[1]) <= Width - 2
        /\ Age(s, b.pendingRfi[2]) <= Age(s, b.pendingRfi[1])
        /\ Age(s, b.pendingRfi[2]) = Age(s, g) + 1
        /\ \A p \in b.passed : Age(s, p) \in Age(s, b.pendingRfi[2])..Age(s, b.pendingRfi[1])
    BY <1>1, <1>2, <2>1, <2>2, GappedSays
  <2> HIDE DEF b
  <2>4. /\ a \in Client /\ a.freeze = b.freeze /\ a.byLoss = b.byLoss
        /\ a.decoder = c.decoder /\ a.nextIndex = Plus(g, 1)
        /\ a.pendingRfi = b.pendingRfi /\ a.passed = b.passed
    BY <2>3, AdvancedSays
  <2>5. d = SubmitUnit(a, f)
    BY <1>7 DEF PumpFrame, b
  <2> HIDE DEF a, d
  <2>6. Fed(a)
    BY <1>1, <2>4 DEF Fed
  <2>7. /\ d \in Client /\ Fed(d) /\ d.freeze = b.freeze /\ d.byLoss = b.byLoss
        /\ d.nextIndex = Plus(g, 1) /\ d.pendingRfi = b.pendingRfi /\ d.passed = b.passed
    BY <2>2, <2>4, <2>5, <2>6, SubmitSays
  <2>8. Blamed(d)
    BY <2>3, <2>7 DEF Blamed
  <2>9. Age(s, d.nextIndex) <= Age(s, c.nextIndex) /\ Age(s, d.nextIndex) < Age(s, g)
    BY <1>2, <1>3, <1>4, <2>1, <2>2, <2>7 DEF Index
  <2>10. Age(s, d.nextIndex) <= MaxGap + 1
    BY <1>2, <1>3, <1>4, <2>1, <2>2, <2>7, LimitsAre DEF Index
  <2>11. Noted(d, s)
    BY <1>2, <1>3, <2>3, <2>7 DEF Noted, Index
  <2> QED
    BY <1>3, <2>7, <2>8, <2>9, <2>10, <2>11 DEF Good, Tracked, d
<1> QED
  BY <1>5, <1>6, <1>7

(***************************************************************************)
(* A pump, frame by frame.                                                 *)
(***************************************************************************)
LEMMA Least ==
    ASSUME NEW T, T \subseteq Nat, T # {}
    PROVE  \E x \in T : \A y \in T : x <= y
<1> DEFINE R == OpToRel(<, Nat)
<1>1. \E x \in T : \A y \in T : ~(<<y, x>> \in R)
  BY NatLessThanWellFounded, WFMin
<1>2. \A x, y \in Nat : <<y, x>> \in R <=> y < x
  BY DEF OpToRel
<1> HIDE DEF R
<1>3. PICK x \in T : \A y \in T : ~(<<y, x>> \in R)
  BY <1>1
<1>4. \A y \in T : ~(y < x)
  BY <1>2, <1>3
<1>5. \A y \in T : x <= y
  BY <1>4
<1> QED
  BY <1>5

(* Induction, as a set that holds 0 and the number after each of its own. *)
LEMMA Counts ==
    ASSUME NEW n \in Nat, NEW S, 0 \in S, \A i \in 0..n - 1 : i \in S => i + 1 \in S
    PROVE  0..n \subseteq S
<1> DEFINE T == 0..n \ S
<1> SUFFICES ASSUME T # {} PROVE FALSE
  OBVIOUS
<1>0. T \subseteq Nat
  OBVIOUS
<1> HIDE DEF T
<1>1. PICK x \in T : \A y \in T : x <= y
  BY <1>0, Least
<1>2. x # 0 /\ x - 1 \in 0..n - 1 /\ x - 1 \in S
  BY <1>1 DEF T
<1> QED
  BY <1>1, <1>2 DEF T

(* The loop has its states: the recursive function Pumped is defined by exists. *)
LEMMA PumpedIs ==
    ASSUME NEW c, NEW frames, Len(frames) \in Nat
    PROVE  \E after : /\ after = [i \in 0..Len(frames) |->
                                    IF i = 0 THEN c ELSE PumpFrame(after[i - 1], frames[i])]
                      /\ Pumped(c, frames) = after[Len(frames)]
<1> DEFINE n == Len(frames)
           Runs(g, k) == g = [i \in 0..k |-> IF i = 0 THEN c ELSE PumpFrame(g[i - 1], frames[i])]
           S == {k \in 0..n : \E g : Runs(g, k)}
<1>1. 0 \in S
  <2> DEFINE g == [i \in 0..0 |-> c]
  <2>1. Runs(g, 0)
    OBVIOUS
  <2> HIDE DEF g, Runs
  <2> QED  BY <2>1
<1>2. ASSUME NEW k \in 0..n - 1, k \in S PROVE k + 1 \in S
  <2>1. PICK g : Runs(g, k)
    BY <1>2
  <2> DEFINE h == [i \in 0..k + 1 |-> IF i = k + 1 THEN PumpFrame(g[k], frames[k + 1]) ELSE g[i]]
  <2>2. \A i \in 0..k + 1 : h[i] = IF i = 0 THEN c ELSE PumpFrame(h[i - 1], frames[i])
    <3> SUFFICES ASSUME NEW i \in 0..k + 1
                 PROVE  h[i] = IF i = 0 THEN c ELSE PumpFrame(h[i - 1], frames[i])
      OBVIOUS
    <3>1. CASE i = k + 1
      <4>1. h[k] = g[k] /\ h[i] = PumpFrame(g[k], frames[k + 1]) /\ i # 0 /\ i - 1 = k
        BY <3>1
      <4> HIDE DEF h
      <4> QED  BY <3>1, <4>1
    <3>2. CASE i # k + 1
      <4>1. i \in 0..k
        BY <3>2
      <4>2. (i = 0 => g[i] = c) /\ (i # 0 => g[i] = PumpFrame(g[i - 1], frames[i]))
        BY <2>1, <4>1
      <4>3. h[i] = g[i] /\ (i # 0 => h[i - 1] = g[i - 1])
        BY <4>1
      <4> HIDE DEF h
      <4> QED  BY <4>2, <4>3
    <3> QED  BY <3>1, <3>2
  <2>3. h = [i \in 0..k + 1 |-> h[i]]
    BY DEF h
  <2> HIDE DEF h
  <2>4. Runs(h, k + 1)
    BY <2>2, <2>3
  <2> HIDE DEF Runs
  <2> QED  BY <2>4
<1>3. n \in S
  <2> HIDE DEF S, n
  <2>1. 0..n \subseteq S
    BY <1>1, <1>2, Counts DEF n
  <2> QED  BY <2>1 DEF n
<1>4. PICK g : Runs(g, n)
  BY <1>3
<1> DEFINE f == CHOOSE h : Runs(h, n)
<1>5. Runs(f, n)
  <2> HIDE DEF Runs
  <2> QED  BY <1>4, Zenon
<1>6. Pumped(c, frames) = f[n]
  BY DEF Pumped
<1> HIDE DEF f
<1> QED
  BY <1>5, <1>6

(* What a pump's frames leave the client with: a frame late among them is behind one read
   before it, in this pump or an earlier one, and is passed over. *)
LEMMA PumpedSays ==
    ASSUME NEW s \in Index, NEW c, Good(c, s), NEW frames \in Seq(Frame),
           \A i \in DOMAIN frames : Sound(frames[i], s, c.nextIndex),
           \A i \in DOMAIN frames : frames[i].late =>
                \/ c.nextIndex # NoIndex /\ Age(s, c.nextIndex) < Age(s, frames[i].index)
                \/ \E j \in 1..i - 1 : Age(s, frames[j].index) < Age(s, frames[i].index)
    PROVE  LET d == Pumped(c, frames)
           IN  /\ Good(d, s)
               /\ \A i \in DOMAIN frames : d.nextIndex # NoIndex /\ Age(s, d.nextIndex) < Age(s, frames[i].index)
               /\ frames = <<>> => d = c
               /\ c.nextIndex # NoIndex => d.nextIndex # NoIndex /\ Age(s, d.nextIndex) <= Age(s, c.nextIndex)
<1> DEFINE n == Len(frames)
           Reads(d, i) ==
               /\ Good(d, s) /\ (i = 0 => d = c)
               /\ \A j \in 1..i : d.nextIndex # NoIndex /\ Age(s, d.nextIndex) < Age(s, frames[j].index)
               /\ c.nextIndex # NoIndex => d.nextIndex # NoIndex /\ Age(s, d.nextIndex) <= Age(s, c.nextIndex)
<1>1. n \in Nat /\ DOMAIN frames = 1..n
  OBVIOUS
<1>2. PICK after : /\ after = [i \in 0..n |-> IF i = 0 THEN c ELSE PumpFrame(after[i - 1], frames[i])]
                   /\ Pumped(c, frames) = after[n]
  BY <1>1, PumpedIs
<1> DEFINE S == {i \in 0..n : Reads(after[i], i)}
<1>3. c.nextIndex = NoIndex \/ (c.nextIndex \in Index /\ Age(s, c.nextIndex) \in Index)
  BY AgeIs DEF Good, Client
<1>4. 0 \in S
  <2>1. after[0] = c
    BY <1>1, <1>2
  <2>2. Reads(c, 0)
    BY <1>3 DEF Index
  <2> HIDE DEF Reads
  <2> QED  BY <1>1, <2>1, <2>2
<1>5. ASSUME NEW k \in 0..n - 1, k \in S PROVE k + 1 \in S
  <2> DEFINE e == after[k]
             f == frames[k + 1]
             d == PumpFrame(e, f)
  <2>1. k + 1 \in 1..n /\ k + 1 \in DOMAIN frames /\ f \in Frame
    BY <1>1
  <2>2. after[k + 1] = d
    BY <1>2, <2>1
  <2>3. Reads(e, k)
    BY <1>5
  <2> HIDE DEF e, f
  <2>4. e.nextIndex = NoIndex \/ (e.nextIndex \in Index /\ Age(s, e.nextIndex) \in Index)
    BY <2>3, AgeIs DEF Good, Client
  <2>5. /\ Sound(f, s, c.nextIndex)
        /\ f.late => \/ c.nextIndex # NoIndex /\ Age(s, c.nextIndex) < Age(s, f.index)
                     \/ \E j \in 1..k : Age(s, frames[j].index) < Age(s, f.index)
    BY <2>1 DEF f
  <2>6. Sound(f, s, e.nextIndex)
    BY <2>3, <2>5 DEF Sound
  <2>7. \A j \in 1..k : frames[j].index \in Index /\ Age(s, frames[j].index) \in Index
    <3> SUFFICES ASSUME NEW j \in 1..k PROVE frames[j].index \in Index /\ Age(s, frames[j].index) \in Index
      OBVIOUS
    <3>1. frames[j] \in Frame
      BY <1>1
    <3> QED  BY <3>1, AgeIs DEF Frame
  <2>8. f.index \in Index /\ Age(s, f.index) \in Index
    BY <2>1, AgeIs DEF Frame
  <2>9. f.late => e.nextIndex # NoIndex /\ Age(s, e.nextIndex) < Age(s, f.index)
    BY <1>3, <2>3, <2>4, <2>5, <2>7, <2>8 DEF Index
  <2>10. Good(e, s)
    BY <2>3
  <2>11. /\ Good(d, s) /\ d.nextIndex # NoIndex
         /\ Age(s, d.nextIndex) < Age(s, f.index)
         /\ e.nextIndex # NoIndex => Age(s, d.nextIndex) <= Age(s, e.nextIndex)
    BY <2>1, <2>6, <2>9, <2>10, PumpFrameSays
  <2> HIDE DEF d
  <2>12. d.nextIndex \in Index /\ Age(s, d.nextIndex) \in Index
    BY <2>11, AgeIs DEF Good, Client
  <2>13. \A j \in 1..k + 1 : Age(s, d.nextIndex) < Age(s, frames[j].index)
    <3> SUFFICES ASSUME NEW j \in 1..k + 1 PROVE Age(s, d.nextIndex) < Age(s, frames[j].index)
      OBVIOUS
    <3>1. CASE j = k + 1
      BY <2>11, <3>1 DEF f
    <3>2. CASE j # k + 1
      <4>1. j \in 1..k
        BY <3>2
      <4> QED  BY <2>3, <2>4, <2>7, <2>11, <2>12, <4>1 DEF Index
    <3> QED  BY <3>1, <3>2
  <2>14. c.nextIndex # NoIndex => Age(s, d.nextIndex) <= Age(s, c.nextIndex)
    BY <1>3, <2>3, <2>4, <2>11, <2>12 DEF Index
  <2>15. Reads(d, k + 1)
    BY <2>11, <2>13, <2>14
  <2> HIDE DEF Reads
  <2> QED  BY <2>1, <2>2, <2>15
<1>6. Reads(Pumped(c, frames), n)
  <2> HIDE DEF Reads, S, n
  <2>1. 0..n \subseteq S
    BY <1>1, <1>4, <1>5, Counts
  <2> QED  BY <1>1, <1>2, <2>1 DEF S
<1> HIDE DEF S
<1> QED
  BY <1>1, <1>6

LEMMA HoldSet ==
    ASSUME NEW c \in Client
    PROVE  LET d == [c EXCEPT !.freeze.left = ReAsk]
           IN  /\ d \in Client /\ d.decoder = c.decoder /\ d.nextIndex = c.nextIndex
               /\ d.pendingRfi = c.pendingRfi /\ d.passed = c.passed
               /\ Blamed(c) => Blamed(d)
<1> DEFINE h == c.freeze
           fz == [h EXCEPT !.left = ReAsk]
           d == [c EXCEPT !.freeze = fz]
<1>1. h \in [on : BOOLEAN, own : BOOLEAN, left : 0..ReAsk] /\ ReAsk \in 0..ReAsk
  BY LimitsAre DEF Client
<1> HIDE DEF h
<1>2. fz \in [on : BOOLEAN, own : BOOLEAN, left : 0..ReAsk] /\ fz.on = h.on /\ fz.own = h.own
  BY <1>1
<1> HIDE DEF fz
<1>3. /\ d \in Client /\ d.decoder = c.decoder /\ d.nextIndex = c.nextIndex /\ d.freeze = fz
      /\ d.byLoss = c.byLoss /\ d.pendingRfi = c.pendingRfi /\ d.passed = c.passed
  BY <1>2 DEF Client
<1> HIDE DEF d
<1>4. Blamed(c) => Blamed(d)
  BY <1>2, <1>3 DEF Blamed, h
<1> QED
  BY <1>3, <1>4 DEF d, fz, h

LEMMA OpenSet ==
    ASSUME NEW c \in Client, NEW o \in [ask : {"none", "key", "rfi"}, wait : 0..Repeat, left : 0..GiveUp]
    PROVE  LET d == [c EXCEPT !.open = o]
           IN  /\ d \in Client /\ d.freeze = c.freeze /\ d.byLoss = c.byLoss /\ d.decoder = c.decoder
               /\ d.nextIndex = c.nextIndex /\ d.pendingRfi = c.pendingRfi /\ d.passed = c.passed
  BY DEF Client

LEMMA ThrottleSet ==
    ASSUME NEW c \in Client, NEW n \in 0..Throttle
    PROVE  LET d == [c EXCEPT !.throttle = n]
           IN  /\ d \in Client /\ d.freeze = c.freeze /\ d.byLoss = c.byLoss /\ d.decoder = c.decoder
               /\ d.nextIndex = c.nextIndex /\ d.pendingRfi = c.pendingRfi /\ d.passed = c.passed
  BY DEF Client

LEMMA Carries ==
    ASSUME NEW s, NEW c, NEW d, d.nextIndex = c.nextIndex, Tracked(c, s),
           \/ d.pendingRfi = c.pendingRfi /\ d.passed = c.passed
           \/ d.pendingRfi = NoRange /\ d.passed = {}
    PROVE  Tracked(d, s)
  BY DEF Tracked, Noted

(* What a pump sends is an ask from the client as it stands: it awaits the same frame. *)
LEMMA PumpAskSays ==
    ASSUME NEW s \in Index, NEW c, Good(c, s), NEW drop \in BOOLEAN
    PROVE  LET d == PumpAsk(c, drop).client
           IN  Good(d, s) /\ d.nextIndex = c.nextIndex
<1> DEFINE p == Polled(c, drop)
           ask == IF c.throttle > 0 THEN "none" ELSE TakeAsk(Wants(c, drop), c.pendingRfi)
           d == PumpAsk(c, drop).client
<1>1. c \in Client /\ Blamed(c) /\ Fed(c) /\ Tracked(c, s)
  BY DEF Good
<1>2. /\ p \in Client /\ Blamed(p) /\ p.decoder = c.decoder
      /\ p.nextIndex = c.nextIndex /\ p.pendingRfi = c.pendingRfi /\ p.passed = c.passed
  <2>1. CASE drop
    <3>1. p = Arm(c, FALSE)
      BY <2>1 DEF Polled
    <3> HIDE DEF p
    <3> QED  BY <1>1, <3>1, ArmSays
  <2>2. CASE ~drop /\ c.freeze.on /\ c.freeze.left = 0
    <3>1. p = [c EXCEPT !.freeze.left = ReAsk]
      BY <2>2 DEF Polled
    <3> HIDE DEF p
    <3> QED  BY <1>1, <3>1, HoldSet
  <2>3. CASE ~drop /\ ~(c.freeze.on /\ c.freeze.left = 0)
    <3>1. p = c
      BY <2>3 DEF Polled
    <3> HIDE DEF p
    <3> QED  BY <1>1, <3>1
  <2> QED  BY <2>1, <2>2, <2>3
<1>3. ask \in {"none", "key", "rfi"}
  BY DEF TakeAsk
<1>4. CASE ask # "none"
  <2>1. d = Asked(p, ask)
    BY <1>4 DEF PumpAsk
  <2> HIDE DEF p, ask, d
  <2>2. /\ d \in Client /\ d.freeze = p.freeze /\ d.byLoss = p.byLoss /\ d.decoder = p.decoder
        /\ d.nextIndex = p.nextIndex /\ d.pendingRfi = NoRange /\ d.passed = {}
    BY <1>2, <1>3, <2>1, AskedSays
  <2>3. Blamed(d) /\ Fed(d)
    BY <1>1, <1>2, <2>2 DEF Blamed, Fed
  <2>4. Tracked(d, s)
    BY <1>1, <1>2, <2>2, Carries
  <2> QED  BY <1>2, <2>2, <2>3, <2>4 DEF Good, d
<1>5. CASE ask = "none"
  <2> DEFINE o == Resend(p.open)
  <2>1. d = [p EXCEPT !.open = o]
    BY <1>5 DEF PumpAsk
  <2>2. o \in [ask : {"none", "key", "rfi"}, wait : 0..Repeat, left : 0..GiveUp]
    <3>1. p.open \in [ask : {"none", "key", "rfi"}, wait : 0..Repeat, left : 0..GiveUp]
      BY <1>2 DEF Client
    <3> HIDE DEF p
    <3>2. o \in {NoOpenAsk, [p.open EXCEPT !.wait = Repeat], p.open}
      BY <3>1 DEF Resend, Resends
    <3> QED  BY <3>1, <3>2, LimitsAre DEF NoOpenAsk
  <2> HIDE DEF p, ask, d, o
  <2>4. /\ d \in Client /\ d.freeze = p.freeze /\ d.byLoss = p.byLoss /\ d.decoder = p.decoder
        /\ d.nextIndex = p.nextIndex /\ d.pendingRfi = p.pendingRfi /\ d.passed = p.passed
    BY <1>2, <2>1, <2>2, OpenSet
  <2>5. Blamed(d) /\ Fed(d)
    BY <1>1, <1>2, <2>4 DEF Blamed, Fed
  <2>6. Tracked(d, s)
    BY <1>1, <1>2, <2>4, Carries
  <2> QED  BY <1>2, <2>4, <2>5, <2>6 DEF Good, d
<1> QED
  BY <1>3, <1>4, <1>5

(***************************************************************************)
(* The link.                                                               *)
(***************************************************************************)
LEMMA ArrivalsAre ==
    ASSUME NEW s \in Index, NEW n, Carried(wire, s, n), NEW places \in Bursts
    PROVE  /\ Arrivals(places) \in Seq(Frame)
           /\ DOMAIN Arrivals(places) = DOMAIN places /\ (Arrivals(places) = <<>> <=> places = <<>>)
           /\ DOMAIN places = 1..Len(places) /\ Len(places) \in Nat
           /\ \A i \in DOMAIN places :
                /\ places[i] \in DOMAIN wire
                /\ Arrivals(places)[i].index = wire[places[i]].index
                /\ Sound(Arrivals(places)[i], s, n)
                /\ Arrivals(places)[i].late =>
                    \/ n # NoIndex /\ Age(s, n) < Age(s, Arrivals(places)[i].index)
                    \/ \E j \in 1..i - 1 : Age(s, Arrivals(places)[j].index) < Age(s, Arrivals(places)[i].index)
<1> DEFINE a == Arrivals(places)
           overtaken(i) == \E j \in 1..i - 1 : places[j] > places[i]
<1>1. PICK m \in 0..Len(wire) : places \in [1..m -> DOMAIN wire]
  BY DEF Bursts
<1>2. wire \in Seq(Frame) /\ Len(wire) \in Nat /\ DOMAIN wire = 1..Len(wire)
  BY DEF Carried
<1>3. DOMAIN places = 1..m /\ m \in Nat /\ \A i \in 1..m : places[i] \in DOMAIN wire /\ wire[places[i]] \in Frame
  BY <1>1, <1>2
<1>4. Len(places) = m
  BY <1>1, <1>2
<1>5. ASSUME NEW i \in 1..m
      PROVE  /\ a[i] \in Frame /\ a[i].index = wire[places[i]].index
             /\ a[i].late => wire[places[i]].late \/ overtaken(i)
  <2> DEFINE f == wire[places[i]]
             over == overtaken(i)
  <2>1. a[i] = [f EXCEPT !.late = f.late \/ over]
    BY <1>3 DEF Arrivals
  <2>2. f \in Frame /\ over \in BOOLEAN
    BY <1>3
  <2> HIDE DEF a, f, over
  <2>3. f.late \/ over \in BOOLEAN
    BY <2>2 DEF Frame
  <2>4. a[i] \in Frame /\ a[i].index = f.index /\ a[i].late = (f.late \/ over)
    BY <2>1, <2>2, <2>3 DEF Frame
  <2> QED  BY <2>4 DEF f, over
<1>6. a = [i \in 1..m |-> a[i]]
  BY <1>3 DEF Arrivals
<1> HIDE DEF a
<1>7. a \in Seq(Frame) /\ DOMAIN a = 1..m /\ Len(a) = m
  BY <1>3, <1>5, <1>6
<1>8. ASSUME NEW i \in 1..m
      PROVE  /\ Sound(a[i], s, n)
             /\ a[i].late => \/ n # NoIndex /\ Age(s, n) < Age(s, a[i].index)
                             \/ \E j \in 1..i - 1 : Age(s, a[j].index) < Age(s, a[i].index)
  <2>1. /\ Sound(wire[places[i]], s, n)
        /\ wire[places[i]].late => n # NoIndex /\ Age(s, n) < Age(s, wire[places[i]].index)
    BY <1>3 DEF Carried
  <2>2. Sound(a[i], s, n)
    BY <1>5, <2>1 DEF Sound
  <2>3. ASSUME NEW j \in 1..i - 1, places[j] > places[i]
        PROVE  Age(s, a[j].index) < Age(s, a[i].index)
    <3>1. j \in 1..m /\ places[j] \in DOMAIN wire /\ places[i] \in DOMAIN wire
      BY <1>3
    <3>2. places[i] < places[j]
      BY <1>2, <2>3, <3>1
    <3>3. Age(s, wire[places[j]].index) < Age(s, wire[places[i]].index)
      BY <3>1, <3>2 DEF Carried
    <3> QED  BY <1>5, <3>1, <3>3
  <2> QED  BY <1>5, <2>1, <2>2, <2>3
<1>9. a = <<>> <=> places = <<>>
  BY <1>1, <1>3, <1>7
<1> QED
  BY <1>3, <1>4, <1>5, <1>7, <1>8, <1>9 DEF a

(* What stays behind keeps its order, and what is overtaken is behind what was read. *)
LEMMA LeftSays ==
    ASSUME NEW s \in Index, NEW n, Carried(wire, s, n), NEW places \in Bursts, NEW rest \in Rests(places),
           NEW d, n # NoIndex => d # NoIndex /\ Age(s, d) <= Age(s, n),
           n = NoIndex \/ n \in Index, d = NoIndex \/ d \in Index,
           \A i \in DOMAIN places : d # NoIndex /\ Age(s, d) < Age(s, wire[places[i]].index)
    PROVE  Carried(Left(rest, places), s, d)
<1> DEFINE w == Left(rest, places)
           overtaken(k) == \E i \in DOMAIN places : places[i] > rest[k]
<1>1. PICK m \in 0..Len(wire) : rest \in [1..m -> DOMAIN wire]
  BY DEF Bursts, Rests
<1>2. wire \in Seq(Frame) /\ Len(wire) \in Nat /\ DOMAIN wire = 1..Len(wire)
  BY DEF Carried
<1>3. /\ DOMAIN rest = 1..m /\ m \in Nat
      /\ \A i \in 1..m : rest[i] \in DOMAIN wire /\ wire[rest[i]] \in Frame
      /\ \A i, j \in 1..m : i < j => rest[i] < rest[j]
  BY <1>1, <1>2 DEF Rests
<1>4. \A i \in DOMAIN places : places[i] \in DOMAIN wire
  BY ArrivalsAre
<1>5. ASSUME NEW k \in 1..m
      PROVE  /\ w[k] \in Frame /\ w[k].index = wire[rest[k]].index
             /\ w[k].late => wire[rest[k]].late \/ overtaken(k)
  <2> DEFINE f == wire[rest[k]]
             over == overtaken(k)
  <2>1. w[k] = [f EXCEPT !.late = f.late \/ over]
    BY <1>3 DEF Left
  <2>2. f \in Frame /\ over \in BOOLEAN
    BY <1>3
  <2> HIDE DEF w, f, over
  <2>3. f.late \/ over \in BOOLEAN
    BY <2>2 DEF Frame
  <2>4. w[k] \in Frame /\ w[k].index = f.index /\ w[k].late = (f.late \/ over)
    BY <2>1, <2>2, <2>3 DEF Frame
  <2> QED  BY <2>4 DEF f, over
<1>6. w = [k \in 1..m |-> w[k]]
  BY <1>3 DEF Left
<1> HIDE DEF w
<1>7. w \in Seq(Frame) /\ DOMAIN w = 1..m
  BY <1>3, <1>5, <1>6
<1>8. ASSUME NEW k \in 1..m
      PROVE  Sound(w[k], s, d) /\ (w[k].late => d # NoIndex /\ Age(s, d) < Age(s, w[k].index))
  <2>1. /\ Sound(wire[rest[k]], s, n)
        /\ wire[rest[k]].late => n # NoIndex /\ Age(s, n) < Age(s, wire[rest[k]].index)
    BY <1>3 DEF Carried
  <2>2. Sound(w[k], s, d)
    BY <1>5, <2>1 DEF Sound
  <2>3. wire[rest[k]].late => d # NoIndex /\ Age(s, d) < Age(s, w[k].index)
    <3>1. w[k].index \in Index /\ Age(s, w[k].index) \in Index
      BY <1>5, AgeIs DEF Frame
    <3>2. n # NoIndex => Age(s, n) \in Index /\ Age(s, d) \in Index
      BY AgeIs
    <3> QED  BY <1>5, <2>1, <3>1, <3>2 DEF Index
  <2>4. ASSUME NEW i \in DOMAIN places, places[i] > rest[k]
        PROVE  d # NoIndex /\ Age(s, d) < Age(s, w[k].index)
    <3>1. rest[k] < places[i] /\ rest[k] \in DOMAIN wire /\ places[i] \in DOMAIN wire
      BY <1>2, <1>3, <1>4, <2>4
    <3>2. Age(s, wire[places[i]].index) < Age(s, wire[rest[k]].index)
      BY <3>1 DEF Carried
    <3>3. d # NoIndex /\ Age(s, d) < Age(s, wire[places[i]].index)
      OBVIOUS
    <3>6. Age(s, d) \in Index
      BY <3>3, AgeIs
    <3>7. wire[places[i]] \in Frame
      BY <1>2, <3>1
    <3>4. wire[places[i]].index \in Index /\ w[k].index \in Index
      BY <1>5, <3>7 DEF Frame
    <3>5. Age(s, wire[places[i]].index) \in Index /\ Age(s, w[k].index) \in Index
      BY <3>4, AgeIs
    <3> QED  BY <1>5, <3>2, <3>3, <3>5, <3>6 DEF Index
  <2> QED  BY <1>5, <2>2, <2>3, <2>4
<1>9. ASSUME NEW i \in 1..m, NEW j \in 1..m, i < j PROVE Age(s, w[j].index) < Age(s, w[i].index)
  BY <1>3, <1>5, <1>9 DEF Carried
<1> QED
  BY <1>7, <1>8, <1>9 DEF Carried, w

LEMMA FeedbackSays ==
    ASSUME NEW open, NEW again \in BOOLEAN, NEW n \in 0..2, RecoveryInv,
           Feedback(open, again, n) \/ NoFeedback(n)
    PROVE  hostAsk' \in {"none", "anchor", "key"} /\ heard' \in BOOLEAN /\ faults' \in 0..MaxFaults
<1>1. faults \in Nat /\ n \in Nat /\ MaxFaults \in Nat /\ heard \in BOOLEAN /\ hostAsk \in {"none", "anchor", "key"}
  BY LimitsAre DEF RecoveryInv
<1>2. (again /\ heard) \in BOOLEAN
  OBVIOUS
<1>3. CASE NoFeedback(n)
  BY <1>1, <1>3 DEF NoFeedback
<1>4. CASE Feedback(open, again, n)
  <2>1. faults' \in 0..MaxFaults
    BY <1>1, <1>4 DEF Feedback
  <2>2. heard' \in BOOLEAN
    BY <1>2, <1>4, Zenon DEF Feedback
  <2>3. hostAsk' \in {"none", "anchor", "key"}
    BY <1>1, <1>4 DEF Feedback
  <2> QED  BY <2>1, <2>2, <2>3
<1> QED
  BY <1>3, <1>4

LEMMA PumpSays ==
    ASSUME RecoveryInv, NEW places \in Bursts, NEW drop \in BOOLEAN, Pump(places, drop)
    PROVE  RecoveryInv'
<1> DEFINE s == sent
           n == client.nextIndex
           frames == Arrivals(places)
           e == Pumped(client, frames)
           asked == PumpAsk(e, drop)
           d == asked.client
           lost == (IF drop THEN 1 ELSE 0) + (IF InOrder(places) THEN 0 ELSE 1)
<1>1. s \in Index /\ Good(client, s) /\ Carried(wire, s, n)
  BY DEF RecoveryInv
<1>2. /\ frames \in Seq(Frame) /\ DOMAIN frames = DOMAIN places
      /\ \A i \in DOMAIN frames : Sound(frames[i], s, n)
      /\ \A i \in DOMAIN frames : frames[i].late =>
            \/ n # NoIndex /\ Age(s, n) < Age(s, frames[i].index)
            \/ \E j \in 1..i - 1 : Age(s, frames[j].index) < Age(s, frames[i].index)
      /\ \A i \in DOMAIN places : frames[i].index = wire[places[i]].index
  <2> HIDE DEF s, n, frames
  <2> QED  BY <1>1, ArrivalsAre DEF frames
<1>3. /\ Good(e, s)
      /\ \A i \in DOMAIN frames : e.nextIndex # NoIndex /\ Age(s, e.nextIndex) < Age(s, frames[i].index)
      /\ n # NoIndex => e.nextIndex # NoIndex /\ Age(s, e.nextIndex) <= Age(s, n)
  <2> HIDE DEF s, frames
  <2> QED  BY <1>1, <1>2, PumpedSays
<1>4. Good(d, s) /\ d.nextIndex = e.nextIndex
  <2> HIDE DEF s, e
  <2> QED  BY <1>1, <1>3, PumpAskSays
<1>5. PICK rest \in Rests(places) : wire' = Left(rest, places)
  BY DEF Pump
<1>6. client' = d /\ sent' = sent
  BY DEF Pump
<1>7. /\ n = NoIndex \/ n \in Index
      /\ d.nextIndex = NoIndex \/ d.nextIndex \in Index
  BY <1>1, <1>4 DEF Good, Client
<1>8. Carried(wire', s, d.nextIndex)
  <2> HIDE DEF s, n, frames, e, asked, d
  <2>1. \A i \in DOMAIN places :
            d.nextIndex # NoIndex /\ Age(s, d.nextIndex) < Age(s, wire[places[i]].index)
    BY <1>2, <1>3, <1>4
  <2>2. n # NoIndex => d.nextIndex # NoIndex /\ Age(s, d.nextIndex) <= Age(s, n)
    BY <1>3, <1>4
  <2> QED  BY <1>1, <1>5, <1>7, <2>1, <2>2, LeftSays
<1>9. lost \in 0..2
  OBVIOUS
<1>10. Feedback(d.open, ~asked.asks, lost) \/ NoFeedback(lost)
  BY DEF Pump
<1>11. (~asked.asks) \in BOOLEAN
  OBVIOUS
<1>12. hostAsk' \in {"none", "anchor", "key"} /\ heard' \in BOOLEAN /\ faults' \in 0..MaxFaults
  <2> HIDE DEF asked, d, lost
  <2> QED  BY <1>9, <1>10, <1>11, FeedbackSays
<1> HIDE DEF d
<1> QED
  BY <1>1, <1>4, <1>6, <1>8, <1>12 DEF RecoveryInv

(* The host sends: everything in flight is older by one, and the bounds hold on. *)
LEMMA SentSays ==
    ASSUME RecoveryInv, NEW kind \in Kinds, EncoderSends(kind)
    PROVE  RecoveryInv'
<1> DEFINE s == sent
           t == Plus(s, 1)
           n == client.nextIndex
           r == client.pendingRfi
           f == [index |-> s, kind |-> kind, late |-> FALSE]
           w == Append(wire, f)
<1>1. s \in Index /\ Good(client, s) /\ Carried(wire, s, n)
  BY DEF RecoveryInv
<1>2. /\ t \in Index /\ Age(t, s) = 1 /\ (s + 1 < Width => t = s + 1)
      /\ \A i \in Index : Age(s, i) < Width - 1 => Age(t, i) = Age(s, i) + 1
  BY <1>1, Older
<1>3. \A i \in Index : Age(s, i) \in Index
  BY <1>1, AgeIs
<1>4. /\ n = NoIndex => s < MaxGap
      /\ n # NoIndex => n \in Index /\ Age(s, n) <= MaxGap
      /\ \A i \in DOMAIN wire : Age(s, wire[i].index) < Half
      /\ r # NoRange => Age(s, r[1]) < Width - 2
      /\ client' = client /\ wire' = w /\ sent' = t
      /\ heard' = heard /\ faults' = faults /\ hostAsk' \in {"none", "anchor", "key"}
  <2>1. n = NoIndex \/ n \in Index
    BY <1>1 DEF Good, Client
  <2>2. hostAsk \in {"none", "anchor", "key"}
    BY DEF RecoveryInv
  <2> QED  BY <2>1, <2>2 DEF EncoderSends, Ahead, Age, Half
<1>5. client \in Client /\ r \in (Index \X Index) \cup {NoRange} /\ client.passed \in SUBSET Index
  BY <1>1 DEF Good, Client
<1>6. f \in Frame
  BY <1>1 DEF Frame
<1>7. wire \in Seq(Frame) /\ w \in Seq(Frame) /\ Len(w) = Len(wire) + 1 /\ Len(wire) \in Nat
      /\ DOMAIN wire = 1..Len(wire) /\ DOMAIN w = 1..Len(wire) + 1
      /\ w[Len(wire) + 1] = f /\ \A i \in 1..Len(wire) : w[i] = wire[i] /\ wire[i] \in Frame
  BY <1>1, <1>6 DEF Carried
<1>8. \A i \in 1..Len(wire) : Age(t, wire[i].index) = Age(s, wire[i].index) + 1
                             /\ Age(s, wire[i].index) \in Index /\ wire[i].index \in Index
  <2> SUFFICES ASSUME NEW i \in 1..Len(wire)
               PROVE  /\ Age(t, wire[i].index) = Age(s, wire[i].index) + 1
                      /\ Age(s, wire[i].index) \in Index /\ wire[i].index \in Index
    OBVIOUS
  <2>1. wire[i].index \in Index
    BY <1>7 DEF Frame
  <2>2. Age(s, wire[i].index) \in Index /\ Age(s, wire[i].index) < Half
    BY <1>3, <1>4, <1>7, <2>1
  <2>3. Age(s, wire[i].index) < Width - 1
    BY <2>2, LimitsAre DEF Index
  <2> HIDE DEF s, t
  <2> QED  BY <1>2, <2>1, <2>2, <2>3
<1>9. n # NoIndex => Age(t, n) = Age(s, n) + 1
  BY <1>2, <1>3, <1>4, LimitsAre DEF Index
<1>10. n = NoIndex => t = s + 1
  BY <1>1, <1>2, <1>4, LimitsAre DEF Index
<1>11. Tracked(client, t)
  <2>1. CASE n = NoIndex
    <3>1. r = NoRange /\ client.passed = {}
      BY <1>1, <2>1 DEF Good, Tracked
    <3>2. t <= MaxGap
      BY <1>1, <1>4, <1>10, <2>1, LimitsAre DEF Index
    <3> QED  BY <2>1, <3>1, <3>2 DEF Tracked
  <2>2. CASE n # NoIndex
    <3>1. Age(t, n) <= MaxGap + 1
      BY <1>3, <1>4, <1>9, <2>2, LimitsAre DEF Index
    <3>2. Noted(client, s)
      BY <1>1, <2>2 DEF Good, Tracked
    <3>3. CASE r = NoRange
      BY <2>2, <3>1, <3>2, <3>3 DEF Noted, Tracked
    <3>4. CASE r # NoRange
      <4>1. r[1] \in Index /\ r[2] \in Index
        BY <1>5, <3>4
      <4>2. /\ Age(s, r[1]) < Width - 2 /\ Age(s, r[2]) <= Age(s, r[1]) /\ Age(s, n) < Age(s, r[2])
            /\ \A p \in client.passed : Age(s, p) \in Age(s, r[2])..Age(s, r[1])
        BY <1>4, <3>2, <3>4 DEF Noted
      <4>3. Age(s, r[1]) \in Index /\ Age(s, r[2]) \in Index /\ Age(s, n) \in Index
        BY <1>3, <1>4, <2>2, <4>1
      <4>4. Age(t, r[1]) = Age(s, r[1]) + 1 /\ Age(t, r[2]) = Age(s, r[2]) + 1
        BY <1>2, <4>1, <4>2, <4>3, LimitsAre DEF Index
      <4>5. \A p \in client.passed : Age(t, p) \in Age(t, r[2])..Age(t, r[1])
        <5> SUFFICES ASSUME NEW p \in client.passed PROVE Age(t, p) \in Age(t, r[2])..Age(t, r[1])
          OBVIOUS
        <5>1. p \in Index /\ Age(s, p) \in Index /\ Age(s, p) \in Age(s, r[2])..Age(s, r[1])
          BY <1>3, <1>5, <4>2
        <5>2. Age(t, p) = Age(s, p) + 1
          BY <1>2, <4>2, <4>3, <5>1, LimitsAre DEF Index
        <5> QED  BY <4>3, <4>4, <5>1, <5>2, LimitsAre DEF Index
      <4>6. Age(t, r[1]) <= Width - 2 /\ Age(t, r[2]) <= Age(t, r[1]) /\ Age(t, n) < Age(t, r[2])
        BY <1>9, <2>2, <4>2, <4>3, <4>4, LimitsAre DEF Index
      <4> QED  BY <2>2, <3>1, <3>4, <4>5, <4>6 DEF Noted, Tracked
    <3> QED  BY <3>3, <3>4
  <2> QED  BY <2>1, <2>2
<1>12. Carried(w, t, n)
  <2>1. ASSUME NEW i \in 1..Len(wire)
        PROVE  /\ Sound(w[i], t, n)
               /\ w[i].late => n # NoIndex /\ Age(t, n) < Age(t, w[i].index)
    <3>1. /\ Sound(wire[i], s, n) /\ w[i] = wire[i]
          /\ wire[i].late => n # NoIndex /\ Age(s, n) < Age(s, wire[i].index)
          /\ Age(s, wire[i].index) < Half
      BY <1>1, <1>4, <1>7 DEF Carried
    <3>2. Sound(w[i], t, n)
      BY <1>1, <1>8, <1>10, <3>1, LimitsAre, SMTT(40) DEF Sound, Index
    <3>3. n # NoIndex => Age(s, n) \in Index
      BY <1>3, <1>4
    <3> QED  BY <1>8, <1>9, <3>1, <3>2, <3>3 DEF Index
  <2>2. Sound(f, t, n)
    BY <1>1, <1>2, <1>10, LimitsAre DEF Sound, Index
  <2>3. ASSUME NEW i \in DOMAIN w
        PROVE  /\ Sound(w[i], t, n)
               /\ w[i].late => n # NoIndex /\ Age(t, n) < Age(t, w[i].index)
    <3>1. CASE i \in 1..Len(wire)
      BY <2>1, <3>1
    <3>2. CASE i = Len(wire) + 1
      <4>1. w[i] = f /\ ~f.late
        BY <1>7, <3>2
      <4> HIDE DEF w, f
      <4> QED  BY <2>2, <4>1
    <3> QED  BY <1>7, <3>1, <3>2
  <2>4. ASSUME NEW i \in DOMAIN w, NEW j \in DOMAIN w, i < j
        PROVE  Age(t, w[j].index) < Age(t, w[i].index)
    <3>1. i \in 1..Len(wire) /\ w[i] = wire[i]
      BY <1>7, <2>4
    <3>2. CASE j \in 1..Len(wire)
      <4>1. w[j] = wire[j] /\ Age(s, wire[j].index) < Age(s, wire[i].index)
        BY <1>1, <1>7, <2>4, <3>1, <3>2 DEF Carried
      <4>2. Age(t, wire[j].index) = Age(s, wire[j].index) + 1 /\ Age(s, wire[j].index) \in Index
        BY <1>8, <3>2
      <4>3. Age(t, wire[i].index) = Age(s, wire[i].index) + 1 /\ Age(s, wire[i].index) \in Index
        BY <1>8, <3>1
      <4> HIDE DEF s, t, w
      <4> QED  BY <3>1, <4>1, <4>2, <4>3 DEF Index
    <3>3. CASE j = Len(wire) + 1
      <4>1. w[j].index = s /\ Age(s, wire[i].index) \in 1..Half
        BY <1>1, <1>7, <3>1, <3>3 DEF Carried, Sound
      <4>2. Age(t, w[j].index) = 1 /\ Age(t, w[i].index) = Age(s, wire[i].index) + 1
        BY <1>2, <1>8, <3>1, <4>1
      <4> QED  BY <4>1, <4>2, LimitsAre
    <3> QED  BY <1>7, <3>2, <3>3
  <2> QED
    BY <1>7, <2>3, <2>4 DEF Carried
<1>13. Good(client, t)
  BY <1>1, <1>11 DEF Good
<1> HIDE DEF w, t
<1> QED
  BY <1>2, <1>4, <1>12, <1>13 DEF RecoveryInv

LEMMA LoseSays == ASSUME RecoveryInv, Lose PROVE RecoveryInv'
<1>1. PICK i \in DOMAIN wire : wire' = RemoveAt(wire, i) /\ NoFeedback(1) /\ UNCHANGED <<client, sent>>
  BY DEF Lose
<1> DEFINE w == RemoveAt(wire, i)
           n == client.nextIndex
<1>2. Carried(wire, sent, n) /\ wire \in Seq(Frame) /\ Len(wire) \in Nat /\ i \in 1..Len(wire)
  BY DEF RecoveryInv, Carried
<1>3. /\ w \in Seq(Frame) /\ Len(w) = Len(wire) - 1
      /\ \A k \in 1..Len(w) : w[k] = wire[IF k < i THEN k ELSE k + 1]
  <2> DEFINE a == SubSeq(wire, 1, i - 1)
             b == SubSeq(wire, i + 1, Len(wire))
  <2>1. /\ a \in Seq(Frame) /\ Len(a) = i - 1 /\ \A k \in 1..i - 1 : a[k] = wire[k]
        /\ b \in Seq(Frame) /\ Len(b) = Len(wire) - i /\ \A k \in 1..Len(wire) - i : b[k] = wire[i + k]
    BY <1>2
  <2>2. w = a \o b
    BY DEF RemoveAt
  <2> HIDE DEF a, b, w
  <2>3. w \in Seq(Frame) /\ Len(w) = Len(wire) - 1
    BY <1>2, <2>1, <2>2
  <2>4. \A k \in 1..Len(w) : w[k] = IF k < i THEN a[k] ELSE b[k - (i - 1)]
    BY <1>2, <2>1, <2>2, SMTT(40)
  <2>5. \A k \in 1..Len(w) : k >= i => k - (i - 1) \in 1..Len(wire) - i /\ i + (k - (i - 1)) = k + 1
    BY <1>2, <2>3
  <2> SUFFICES ASSUME NEW k \in 1..Len(w) PROVE w[k] = wire[IF k < i THEN k ELSE k + 1]
    BY <2>3
  <2>6. CASE k < i
    BY <1>2, <2>1, <2>3, <2>4, <2>6
  <2>7. CASE k >= i
    <3>1. w[k] = b[k - (i - 1)] /\ k - (i - 1) \in 1..Len(wire) - i
      BY <1>2, <2>3, <2>4, <2>5, <2>7
    <3>2. w[k] = wire[i + (k - (i - 1))]
      BY <2>1, <3>1
    <3> QED  BY <1>2, <2>5, <2>7, <3>2
  <2> QED  BY <1>2, <2>3, <2>6, <2>7
<1>4. Carried(w, sent, n)
  <2> DEFINE At(k) == IF k < i THEN k ELSE k + 1
  <2>1. \A k \in DOMAIN w : At(k) \in DOMAIN wire /\ w[k] = wire[At(k)]
    BY <1>2, <1>3
  <2>2. \A j, k \in DOMAIN w : j < k => At(j) < At(k)
    BY <1>2, <1>3
  <2> HIDE DEF At, w
  <2> QED  BY <1>2, <1>3, <2>1, <2>2 DEF Carried
<1>5. hostAsk' \in {"none", "anchor", "key"} /\ heard' \in BOOLEAN /\ faults' \in 0..MaxFaults
  <2>1. 1 \in 0..2 /\ NoFeedback(1)
    BY <1>1
  <2> QED  BY <2>1, FeedbackSays
<1> HIDE DEF w
<1> QED
  BY <1>1, <1>4, <1>5 DEF RecoveryInv, w

(***************************************************************************)
(* The page's decoder, the clock and a new session.                        *)
(***************************************************************************)

(* A step of the client alone that awaits the same frame. *)
LEMMA ClientSteps ==
    ASSUME RecoveryInv, Good(client', sent), client'.nextIndex = client.nextIndex,
           wire' = wire, sent' = sent,
           hostAsk' \in {"none", "anchor", "key"}, heard' \in BOOLEAN, faults' \in 0..MaxFaults
    PROVE  RecoveryInv'
  BY DEF RecoveryInv

LEMMA RequestSays ==
    ASSUME NEW s, NEW c, Good(c, s)
    PROVE  Good(RequestKeyframe(c), s) /\ RequestKeyframe(c).nextIndex = c.nextIndex
<1> DEFINE a == Arm(c, TRUE)
           d == Asked(a, "key")
<1>1. c \in Client /\ Blamed(c) /\ Fed(c) /\ Tracked(c, s)
  BY DEF Good
<1>2. /\ a \in Client /\ Blamed(a) /\ a.decoder = c.decoder /\ a.nextIndex = c.nextIndex
      /\ a.pendingRfi = c.pendingRfi /\ a.passed = c.passed
  BY <1>1, ArmSays
<1> HIDE DEF a
<1>3. /\ d \in Client /\ d.freeze = a.freeze /\ d.byLoss = a.byLoss /\ d.decoder = a.decoder
      /\ d.nextIndex = a.nextIndex /\ d.pendingRfi = NoRange /\ d.passed = {}
  BY <1>2, AskedSays
<1>4. RequestKeyframe(c) = d
  BY DEF RequestKeyframe, a
<1> HIDE DEF d
<1>5. Blamed(d) /\ Fed(d)
  BY <1>1, <1>2, <1>3 DEF Blamed, Fed
<1>6. Tracked(d, s)
  BY <1>1, <1>2, <1>3, Carries
<1> QED
  BY <1>2, <1>3, <1>4, <1>5, <1>6 DEF Good

(* What the decoder holds may change, as long as nothing late is in it. *)
LEMMA DecoderSet ==
    ASSUME NEW s, NEW c, Good(c, s),
           NEW x \in [up : BOOLEAN, needKey : BOOLEAN, asked : BOOLEAN,
                      queue : Seq([kind : Kinds, late : BOOLEAN])],
           \A i \in DOMAIN x.queue : ~x.queue[i].late
    PROVE  LET d == [c EXCEPT !.decoder = x]
           IN  Good(d, s) /\ d.nextIndex = c.nextIndex
<1> DEFINE d == [c EXCEPT !.decoder = x]
<1>1. c \in Client /\ Blamed(c) /\ Fed(c) /\ Tracked(c, s)
  BY DEF Good
<1>2. /\ d \in Client /\ d.decoder = x /\ d.freeze = c.freeze /\ d.byLoss = c.byLoss
      /\ d.nextIndex = c.nextIndex /\ d.pendingRfi = c.pendingRfi /\ d.passed = c.passed
  BY <1>1 DEF Client
<1> HIDE DEF d
<1>3. Blamed(d) /\ Fed(d)
  BY <1>1, <1>2 DEF Blamed, Fed
<1>4. Tracked(d, s)
  BY <1>1, <1>2, Carries
<1> QED
  BY <1>2, <1>3, <1>4 DEF Good, d

LEMMA WantedSet ==
    ASSUME NEW s, NEW c, Good(c, s)
    PROVE  LET d == [c EXCEPT !.keyWanted = FALSE] IN Good(d, s) /\ d.nextIndex = c.nextIndex
<1> DEFINE d == [c EXCEPT !.keyWanted = FALSE]
<1>1. c \in Client /\ Blamed(c) /\ Fed(c) /\ Tracked(c, s)
  BY DEF Good
<1>2. /\ d \in Client /\ d.decoder = c.decoder /\ d.freeze = c.freeze /\ d.byLoss = c.byLoss
      /\ d.nextIndex = c.nextIndex /\ d.pendingRfi = c.pendingRfi /\ d.passed = c.passed
  BY <1>1 DEF Client
<1> HIDE DEF d
<1>3. Blamed(d) /\ Fed(d) /\ Tracked(d, s)
  BY <1>1, <1>2, Carries DEF Blamed, Fed
<1> QED
  BY <1>2, <1>3 DEF Good, d

(* The decoder's next frame leaves it. *)
LEMMA TailSays ==
    ASSUME NEW s, NEW c, Good(c, s), c.decoder.queue # <<>>
    PROVE  LET x == [c.decoder EXCEPT !.queue = Tail(@)]
           IN  /\ x \in [up : BOOLEAN, needKey : BOOLEAN, asked : BOOLEAN,
                         queue : Seq([kind : Kinds, late : BOOLEAN])]
               /\ \A i \in DOMAIN x.queue : ~x.queue[i].late
<1> DEFINE dec == c.decoder
           q == Tail(dec.queue)
           x == [dec EXCEPT !.queue = q]
<1>1. /\ dec \in [up : BOOLEAN, needKey : BOOLEAN, asked : BOOLEAN,
                  queue : Seq([kind : Kinds, late : BOOLEAN])]
      /\ \A i \in DOMAIN dec.queue : ~dec.queue[i].late
      /\ dec.queue # <<>>
  BY DEF Good, Client, Fed
<1> HIDE DEF dec
<1>2. q \in Seq([kind : Kinds, late : BOOLEAN]) /\ \A i \in DOMAIN q : ~q[i].late
  BY <1>1
<1> HIDE DEF q
<1>3. x \in [up : BOOLEAN, needKey : BOOLEAN, asked : BOOLEAN,
             queue : Seq([kind : Kinds, late : BOOLEAN])] /\ x.queue = q
  BY <1>1, <1>2
<1> HIDE DEF x
<1>4. \A i \in DOMAIN x.queue : ~x.queue[i].late
  BY <1>2, <1>3
<1> QED
  BY <1>3, <1>4 DEF x, q, dec

LEMMA DecodedSays == ASSUME RecoveryInv, Decoded PROVE RecoveryInv'
<1> DEFINE c == client
           lifts == Head(c.decoder.queue).kind # "delta"
           x == [c.decoder EXCEPT !.queue = Tail(@)]
           b == [c EXCEPT !.decoder = x]
           fz == [c.freeze EXCEPT !.on = @ /\ ~lifts]
           loss == c.byLoss /\ ~lifts
           d == [b EXCEPT !.freeze = fz, !.byLoss = loss]
<1>1. Good(c, sent) /\ c \in Client /\ c.decoder.queue # <<>>
  BY DEF RecoveryInv, Good, Decoded
<1>2. /\ x \in [up : BOOLEAN, needKey : BOOLEAN, asked : BOOLEAN,
                queue : Seq([kind : Kinds, late : BOOLEAN])]
      /\ \A i \in DOMAIN x.queue : ~x.queue[i].late
  <2> HIDE DEF c
  <2> QED  BY <1>1, TailSays
<1>3. /\ Good(b, sent) /\ b.nextIndex = c.nextIndex
      /\ b \in Client /\ Fed(b) /\ Tracked(b, sent) /\ b.freeze = c.freeze /\ b.byLoss = c.byLoss
  <2> HIDE DEF c, x
  <2>1. Good(b, sent) /\ b.nextIndex = c.nextIndex
    BY <1>1, <1>2, DecoderSet
  <2> QED  BY <1>1, <2>1 DEF Good, Client
<1>4. client' = d
  BY <1>1 DEF Decoded, Client
<1>5. /\ fz \in [on : BOOLEAN, own : BOOLEAN, left : 0..ReAsk] /\ loss \in BOOLEAN
      /\ fz.on <=> (c.freeze.on /\ ~lifts)
      /\ fz.own = c.freeze.own
  <2> DEFINE h == c.freeze
             on == h.on /\ ~lifts
  <2>1. h \in [on : BOOLEAN, own : BOOLEAN, left : 0..ReAsk] /\ on \in BOOLEAN /\ loss \in BOOLEAN
    BY <1>1 DEF Client
  <2>2. fz = [h EXCEPT !.on = on]
    BY <2>1
  <2> HIDE DEF h, on, fz
  <2>3. fz \in [on : BOOLEAN, own : BOOLEAN, left : 0..ReAsk] /\ fz.on = on /\ fz.own = h.own
    BY <2>1, <2>2
  <2> QED  BY <2>1, <2>3 DEF h, on
<1>6. Blamed(c)
  BY <1>1 DEF Good
<1>7. fz.on => (fz.own <=> ~loss)
  BY <1>5, <1>6 DEF Blamed
<1> HIDE DEF c, lifts, x, b, fz, loss
<1>8. /\ d \in Client /\ d.decoder = b.decoder /\ d.freeze = fz /\ d.byLoss = loss
      /\ d.nextIndex = b.nextIndex /\ d.pendingRfi = b.pendingRfi /\ d.passed = b.passed
  BY <1>3, <1>5 DEF Client
<1> HIDE DEF d
<1>9. Blamed(d) /\ Fed(d)
  BY <1>3, <1>7, <1>8 DEF Blamed, Fed
<1>10. Tracked(d, sent)
  BY <1>3, <1>8, Carries
<1>11. Good(d, sent)
  BY <1>8, <1>9, <1>10 DEF Good
<1> QED
  BY <1>3, <1>4, <1>8, <1>11 DEF Decoded, RecoveryInv, encoderVars, c

LEMMA NoOutputSays == ASSUME RecoveryInv, NoOutput PROVE RecoveryInv'
<1> DEFINE c == client
           a == Arm(c, TRUE)
           x == [c.decoder EXCEPT !.queue = Tail(@)]
           b == [a EXCEPT !.decoder = x]
           o == AskFor("key")
           e == [b EXCEPT !.open = o]
           d == [e EXCEPT !.throttle = Throttle]
<1>1. Good(c, sent) /\ c \in Client /\ c.decoder.queue # <<>>
  BY DEF RecoveryInv, Good, NoOutput
<1>2. /\ x \in [up : BOOLEAN, needKey : BOOLEAN, asked : BOOLEAN,
                queue : Seq([kind : Kinds, late : BOOLEAN])]
      /\ \A i \in DOMAIN x.queue : ~x.queue[i].late
  <2> HIDE DEF c
  <2> QED  BY <1>1, TailSays
<1>3. /\ a \in Client /\ Blamed(a) /\ a.decoder = c.decoder /\ a.nextIndex = c.nextIndex
      /\ a.pendingRfi = c.pendingRfi /\ a.passed = c.passed
  <2> HIDE DEF c
  <2> QED  BY <1>1, ArmSays DEF Good
<1>4. Good(a, sent)
  <2> HIDE DEF c, a
  <2> QED  BY <1>1, <1>3, Carries DEF Good, Fed
<1>5. client' = d
  <2>1. client' = [a EXCEPT !.decoder = [a.decoder EXCEPT !.queue = Tail(@)], !.open = o, !.throttle = Throttle]
    BY DEF NoOutput
  <2> HIDE DEF a, o, c
  <2>2. client' = [a EXCEPT !.decoder = x, !.open = o, !.throttle = Throttle]
    BY <1>3, <2>1
  <2> HIDE DEF x
  <2> QED  BY <1>3, <2>2 DEF Client
<1>6. Good(b, sent) /\ b.nextIndex = c.nextIndex
  <2> HIDE DEF c, a, x
  <2> QED  BY <1>2, <1>3, <1>4, DecoderSet
<1>7. o \in [ask : {"none", "key", "rfi"}, wait : 0..Repeat, left : 0..GiveUp]
  BY LimitsAre DEF AskFor
<1> HIDE DEF c, a, x, b, o
<1>8. /\ e \in Client /\ e.freeze = b.freeze /\ e.byLoss = b.byLoss /\ e.decoder = b.decoder
      /\ e.nextIndex = b.nextIndex /\ e.pendingRfi = b.pendingRfi /\ e.passed = b.passed
  BY <1>6, <1>7, OpenSet DEF Good
<1> HIDE DEF e
<1>9. /\ d \in Client /\ d.freeze = b.freeze /\ d.byLoss = b.byLoss /\ d.decoder = b.decoder
      /\ d.nextIndex = b.nextIndex /\ d.pendingRfi = b.pendingRfi /\ d.passed = b.passed
  <2>1. Throttle \in 0..Throttle /\ e \in Client
    BY <1>8, LimitsAre
  <2> QED  BY <1>8, <2>1, ThrottleSet
<1> HIDE DEF d
<1>10. Good(d, sent)
  BY <1>6, <1>9, Carries DEF Good, Blamed, Fed
<1>11. hostAsk' \in {"none", "anchor", "key"} /\ heard' \in BOOLEAN /\ faults' \in 0..MaxFaults
  <2>1. Feedback(client'.open, FALSE, 1)
    BY DEF NoOutput
  <2>2. 1 \in 0..2 /\ FALSE \in BOOLEAN
    OBVIOUS
  <2> QED  BY <2>1, <2>2, FeedbackSays
<1> QED
  BY <1>5, <1>6, <1>9, <1>10, <1>11 DEF NoOutput, RecoveryInv, c

LEMMA KeyMicrotaskSays == ASSUME RecoveryInv, KeyMicrotask PROVE RecoveryInv'
<1> DEFINE c == client
           b == RequestKeyframe(c)
           d == [b EXCEPT !.keyWanted = FALSE]
<1>1. Good(c, sent)
  BY DEF RecoveryInv
<1>2. client' = d /\ wire' = wire /\ sent' = sent
  BY DEF KeyMicrotask
<1>3. Good(b, sent) /\ b.nextIndex = c.nextIndex
  <2> HIDE DEF c
  <2> QED  BY <1>1, RequestSays
<1>4. Good(d, sent) /\ d.nextIndex = b.nextIndex
  <2> HIDE DEF b
  <2> QED  BY <1>3, WantedSet
<1>5. hostAsk' \in {"none", "anchor", "key"} /\ heard' \in BOOLEAN /\ faults' \in 0..MaxFaults
  <2>1. Feedback(client'.open, FALSE, 0)
    BY DEF KeyMicrotask
  <2>2. 0 \in 0..2 /\ FALSE \in BOOLEAN
    OBVIOUS
  <2> QED  BY <2>1, <2>2, FeedbackSays
<1> HIDE DEF b, d
<1> QED
  BY <1>2, <1>3, <1>4, <1>5, ClientSteps

LEMMA DecoderFailsSays == ASSUME RecoveryInv, DecoderFails PROVE RecoveryInv'
<1> DEFINE c == client
           x == [[c.decoder EXCEPT !.up = FALSE] EXCEPT !.queue = <<>>]
           d == [c EXCEPT !.decoder = x]
<1>1. Good(c, sent) /\ c \in Client
  BY DEF RecoveryInv, Good
<1>2. client' = d /\ wire' = wire /\ sent' = sent
  <2>1. client' = [c EXCEPT !.decoder.up = FALSE, !.decoder.queue = <<>>] /\ wire' = wire /\ sent' = sent
    BY DEF DecoderFails
  <2> HIDE DEF c
  <2> QED  BY <1>1, <2>1 DEF Client
<1>3. /\ x \in [up : BOOLEAN, needKey : BOOLEAN, asked : BOOLEAN,
                queue : Seq([kind : Kinds, late : BOOLEAN])]
      /\ x.queue = <<>>
  <2> DEFINE dec == c.decoder
  <2>1. dec \in [up : BOOLEAN, needKey : BOOLEAN, asked : BOOLEAN,
                 queue : Seq([kind : Kinds, late : BOOLEAN])]
    BY <1>1 DEF Client
  <2> HIDE DEF dec
  <2>2. <<>> \in Seq([kind : Kinds, late : BOOLEAN])
    OBVIOUS
  <2> QED  BY <2>1, <2>2 DEF dec
<1>4. Good(d, sent) /\ d.nextIndex = c.nextIndex
  <2> HIDE DEF c, x
  <2>1. \A i \in DOMAIN x.queue : ~x.queue[i].late
    BY <1>3
  <2> QED  BY <1>1, <1>3, <2>1, DecoderSet
<1>5. hostAsk' \in {"none", "anchor", "key"} /\ heard' \in BOOLEAN /\ faults' \in 0..MaxFaults
  <2>1. NoFeedback(1)
    BY DEF DecoderFails
  <2>2. 1 \in 0..2 /\ FALSE \in BOOLEAN
    OBVIOUS
  <2> QED  BY <2>1, <2>2, FeedbackSays
<1> HIDE DEF d
<1> QED
  BY <1>2, <1>4, <1>5, ClientSteps

LEMMA DecoderRebuiltSays == ASSUME RecoveryInv, DecoderRebuilt PROVE RecoveryInv'
<1> DEFINE c == client
           b == RequestKeyframe(c)
           x == [up |-> TRUE, needKey |-> TRUE, asked |-> TRUE, queue |-> <<>>]
           d == [b EXCEPT !.decoder = x]
<1>1. Good(c, sent)
  BY DEF RecoveryInv
<1>2. client' = d /\ wire' = wire /\ sent' = sent
  BY DEF DecoderRebuilt
<1>3. Good(b, sent) /\ b.nextIndex = c.nextIndex
  <2> HIDE DEF c
  <2> QED  BY <1>1, RequestSays
<1>4. /\ x \in [up : BOOLEAN, needKey : BOOLEAN, asked : BOOLEAN,
                queue : Seq([kind : Kinds, late : BOOLEAN])]
      /\ \A i \in DOMAIN x.queue : ~x.queue[i].late
  OBVIOUS
<1>5. Good(d, sent) /\ d.nextIndex = b.nextIndex
  <2> HIDE DEF b, x
  <2> QED  BY <1>3, <1>4, DecoderSet
<1>6. hostAsk' \in {"none", "anchor", "key"} /\ heard' \in BOOLEAN /\ faults' \in 0..MaxFaults
  <2>1. Feedback(client'.open, FALSE, 0)
    BY DEF DecoderRebuilt
  <2>2. 0 \in 0..2 /\ FALSE \in BOOLEAN
    OBVIOUS
  <2> QED  BY <2>1, <2>2, FeedbackSays
<1> HIDE DEF b, d
<1> QED
  BY <1>2, <1>3, <1>5, <1>6, ClientSteps

LEMMA ClockTickSays == ASSUME RecoveryInv, ClockTick PROVE RecoveryInv'
<1> DEFINE c == client
           h == c.freeze
           o == c.open
           fz == [h EXCEPT !.left = Less(@)]
           oo == [[o EXCEPT !.wait = Less(@)] EXCEPT !.left = Less(@)]
           a == [c EXCEPT !.throttle = Less(@)]
           b == [a EXCEPT !.freeze = fz]
           d == [b EXCEPT !.open = oo]
<1>1. Good(c, sent) /\ c \in Client
  BY DEF RecoveryInv, Good
<1>2. client' = d /\ wire' = wire /\ sent' = sent
      /\ hostAsk' = hostAsk /\ heard' = heard /\ faults' = faults
  <2>1. /\ client' = [c EXCEPT !.throttle = Less(@), !.freeze.left = Less(@), !.open.wait = Less(@), !.open.left = Less(@)]
        /\ wire' = wire /\ sent' = sent /\ hostAsk' = hostAsk /\ heard' = heard /\ faults' = faults
    BY DEF ClockTick, encoderVars
  <2> HIDE DEF c
  <2> QED  BY <1>1, <2>1 DEF Client
<1>3. \A m \in Nat : \A n \in 0..m : Less(n) \in 0..m
  BY DEF Less
<1>4. /\ h \in [on : BOOLEAN, own : BOOLEAN, left : 0..ReAsk] /\ c.throttle \in 0..Throttle
      /\ o \in [ask : {"none", "key", "rfi"}, wait : 0..Repeat, left : 0..GiveUp]
  BY <1>1 DEF Client
<1> HIDE DEF c, h, o
<1>5. fz \in [on : BOOLEAN, own : BOOLEAN, left : 0..ReAsk] /\ fz.on = h.on /\ fz.own = h.own
  <2>1. Less(h.left) \in 0..ReAsk
    BY <1>3, <1>4, LimitsAre
  <2> QED  BY <1>4, <2>1
<1>6. oo \in [ask : {"none", "key", "rfi"}, wait : 0..Repeat, left : 0..GiveUp]
  <2>1. Less(o.wait) \in 0..Repeat /\ Less(o.left) \in 0..GiveUp
    BY <1>3, <1>4, LimitsAre
  <2>2. oo = [[o EXCEPT !.wait = Less(o.wait)] EXCEPT !.left = Less(o.left)]
    BY <1>4
  <2> HIDE DEF oo
  <2> QED  BY <1>4, <2>1, <2>2
<1>7. Less(c.throttle) \in 0..Throttle
  BY <1>3, <1>4, LimitsAre
<1> HIDE DEF fz, oo
<1>8. /\ a \in Client /\ a.freeze = c.freeze /\ a.byLoss = c.byLoss /\ a.decoder = c.decoder
      /\ a.nextIndex = c.nextIndex /\ a.pendingRfi = c.pendingRfi /\ a.passed = c.passed
  <2> DEFINE less == Less(c.throttle)
  <2>1. a = [c EXCEPT !.throttle = less] /\ less \in 0..Throttle
    BY <1>7
  <2> HIDE DEF a, less
  <2> QED  BY <1>1, <2>1, ThrottleSet
<1> HIDE DEF a
<1>9. /\ b \in Client /\ b.freeze = fz /\ b.byLoss = a.byLoss /\ b.decoder = a.decoder
      /\ b.nextIndex = a.nextIndex /\ b.pendingRfi = a.pendingRfi /\ b.passed = a.passed
  BY <1>5, <1>8 DEF Client
<1> HIDE DEF b
<1>10. /\ d \in Client /\ d.freeze = b.freeze /\ d.byLoss = b.byLoss /\ d.decoder = b.decoder
       /\ d.nextIndex = b.nextIndex /\ d.pendingRfi = b.pendingRfi /\ d.passed = b.passed
  BY <1>6, <1>9, OpenSet
<1> HIDE DEF d
<1>11. Blamed(d) /\ Fed(d)
  BY <1>1, <1>5, <1>8, <1>9, <1>10 DEF Good, Blamed, Fed, h
<1>12. Tracked(d, sent)
  BY <1>1, <1>8, <1>9, <1>10, Carries DEF Good
<1>13. Good(d, sent)
  BY <1>10, <1>11, <1>12 DEF Good
<1>14. hostAsk \in {"none", "anchor", "key"} /\ heard \in BOOLEAN /\ faults \in 0..MaxFaults
  BY DEF RecoveryInv
<1> QED
  BY <1>2, <1>8, <1>9, <1>10, <1>13, <1>14, ClientSteps DEF c

LEMMA NewClientIs ==
    ASSUME NEW t \in 0..Throttle
    PROVE  Good(NewClient(t), 0) /\ NewClient(t).nextIndex = NoIndex
<1> DEFINE c == NewClient(t)
<1>1. c \in Client
  BY LimitsAre DEF NewClient, Client, NoOpenAsk
<1>2. /\ c.nextIndex = NoIndex /\ c.pendingRfi = NoRange /\ c.passed = {} /\ ~c.freeze.on
      /\ c.decoder.queue = <<>>
  BY DEF NewClient
<1> HIDE DEF c
<1> QED
  BY <1>1, <1>2, LimitsAre DEF Good, Blamed, Fed, Tracked, c

LEMMA StartsSound ==
    ASSUME NEW s, NEW next
    PROVE  Carried(<<>>, s, next)
  BY DEF Carried

LEMMA ServerHelloSays == ASSUME RecoveryInv, ServerHello PROVE RecoveryInv'
<1> DEFINE d == NewClient(client.throttle)
<1>1. client.throttle \in 0..Throttle /\ faults \in 0..MaxFaults
  BY DEF RecoveryInv, Good, Client
<1>2. Good(d, 0) /\ d.nextIndex = NoIndex
  BY <1>1, NewClientIs
<1>3. /\ client' = d /\ wire' = <<>> /\ sent' = 0
      /\ hostAsk' = "none" /\ heard' = FALSE /\ faults' = faults
  BY DEF ServerHello
<1> HIDE DEF d
<1>4. Good(client', sent')
  BY <1>2, <1>3, Zenon
<1>5. Carried(wire', sent', client'.nextIndex)
  <2>1. Carried(<<>>, sent', client'.nextIndex)
    BY StartsSound
  <2> QED  BY <1>3, <2>1
<1>6. sent' \in Index
  BY <1>3, LimitsAre DEF Index
<1> QED
  BY <1>1, <1>3, <1>4, <1>5, <1>6 DEF RecoveryInv

(***************************************************************************)
(* The invariant.                                                          *)
(***************************************************************************)
LEMMA RecoveryStarts == RecoveryInit => RecoveryInv
<1> SUFFICES ASSUME RecoveryInit PROVE RecoveryInv
  OBVIOUS
<1>1. /\ client = NewClient(0) /\ wire = <<>> /\ sent = 0
      /\ hostAsk = "none" /\ heard = FALSE /\ faults = 0
  BY DEF RecoveryInit
<1>2. Good(NewClient(0), 0)
  <2>1. 0 \in 0..Throttle
    BY LimitsAre
  <2> QED  BY <2>1, NewClientIs
<1>3. Good(client, sent)
  BY <1>1, <1>2, Zenon
<1>4. Carried(wire, sent, client.nextIndex)
  <2>1. Carried(<<>>, sent, client.nextIndex)
    BY StartsSound
  <2> QED  BY <1>1, <2>1
<1>5. sent \in Index /\ faults \in 0..MaxFaults
  BY <1>1, LimitsAre DEF Index
<1> QED
  BY <1>1, <1>3, <1>4, <1>5 DEF RecoveryInv

LEMMA RecoveryKeeps == RecoveryInv /\ [RecoveryNext]_recoveryVars => RecoveryInv'
<1> SUFFICES ASSUME RecoveryInv, [RecoveryNext]_recoveryVars PROVE RecoveryInv'
  OBVIOUS
<1>1. ASSUME NEW places \in Bursts, NEW drop \in BOOLEAN, Pump(places, drop) PROVE RecoveryInv'
  BY <1>1, PumpSays
<1>2. CASE KeyMicrotask
  BY <1>2, KeyMicrotaskSays
<1>3. CASE Decoded
  BY <1>3, DecodedSays
<1>4. CASE NoOutput
  BY <1>4, NoOutputSays
<1>5. CASE DecoderFails
  BY <1>5, DecoderFailsSays
<1>6. CASE DecoderRebuilt
  BY <1>6, DecoderRebuiltSays
<1>7. CASE ClockTick
  BY <1>7, ClockTickSays
<1>8. CASE Lose
  BY <1>8, LoseSays
<1>9. CASE ServerHello
  BY <1>9, ServerHelloSays
<1>10. ASSUME NEW kind \in {"key", "delta", "anchor"}, EncoderSends(kind) PROVE RecoveryInv'
  BY <1>10, SentSays DEF Kinds
<1>11. CASE UNCHANGED recoveryVars
  BY <1>11 DEF recoveryVars, encoderVars, RecoveryInv
<1> QED
  BY <1>1, <1>2, <1>3, <1>4, <1>5, <1>6, <1>7, <1>8, <1>9, <1>10, <1>11 DEF RecoveryNext

THEOREM RecoveryHolds == RecoverySpec => []RecoveryInv
<1>1. RecoveryInit => RecoveryInv
  BY RecoveryStarts
<1>2. RecoveryInv /\ [RecoveryNext]_recoveryVars => RecoveryInv'
  BY RecoveryKeeps
<1> QED
  BY <1>1, <1>2, PTL DEF RecoverySpec

(* Every variable of the client, the link and the host keeps its type. *)
THEOREM RecoveryTyped == RecoverySpec => []RecoveryTypeOK
<1>1. RecoveryInv => RecoveryTypeOK
  <2> SUFFICES ASSUME RecoveryInv PROVE RecoveryTypeOK
    OBVIOUS
  <2>1. client \in Client /\ wire \in Seq(Frame)
    BY DEF RecoveryInv, Good, Carried
  <2>2. \A i \in DOMAIN wire : wire[i] \in Frame
    BY <2>1
  <2> QED
    BY <2>1, <2>2 DEF RecoveryInv, RecoveryTypeOK, Client, Frame, Kinds
<1> QED
  BY <1>1, RecoveryHolds, PTL

(* A straggler never reaches the decoder, whatever order the link delivers in and wherever the
   index wraps (recovery.rs Recovery::on_index, index_gap). *)
THEOREM DecoderNeverRewinds == RecoverySpec => []NeverRewinds
<1>1. RecoveryInv => NeverRewinds
  BY DEF RecoveryInv, Good, Fed, NeverRewinds
<1> QED
  BY <1>1, RecoveryHolds, PTL

(* The next ask names every frame passed over since the last: gaps add up (recovery.rs
   Recovery::on_index and take_ask). *)
THEOREM LossesStayPending == RecoverySpec => []LostIsPending
<1>1. RecoveryInv => LostIsPending
  <2> SUFFICES ASSUME RecoveryInv, client.passed # {}
               PROVE  client.pendingRfi # NoRange /\ client.passed \subseteq RangeOf(client.pendingRfi)
    BY DEF LostIsPending
  <2> DEFINE s == sent
             r == client.pendingRfi
  <2>1. s \in Index /\ client \in Client /\ Tracked(client, s)
    BY DEF RecoveryInv, Good
  <2>2. r # NoRange /\ Noted(client, s)
    BY <2>1 DEF Tracked, Noted
  <2>3. r[1] \in Index /\ r[2] \in Index
    BY <2>1, <2>2 DEF Client
  <2>4. Age(s, r[1]) \in Index /\ Age(s, r[2]) \in Index /\ Age(s, r[2]) <= Age(s, r[1])
    BY <2>1, <2>2, <2>3, AgeIs DEF Noted
  <2>5. (r[2] - r[1]) % Width = Age(s, r[1]) - Age(s, r[2])
    <3> DEFINE e == r[1]
               g == r[2]
    <3>1. e \in Index /\ g \in Index /\ Age(s, g) <= Age(s, e)
      BY <2>3, <2>4
    <3> HIDE DEF e, g, s
    <3>2. (g - e) % Width = Age(s, e) - Age(s, g)
      BY <2>1, <3>1, AheadIs
    <3> QED  BY <3>2 DEF e, g
  <2>6. ASSUME NEW p \in client.passed PROVE p \in RangeOf(r)
    <3> DEFINE e == r[1]
               k == Age(s, e) - Age(s, p)
    <3>1. p \in Index /\ Age(s, p) \in Index /\ Age(s, p) \in Age(s, r[2])..Age(s, e)
      BY <2>1, <2>2, AgeIs DEF Client, Noted
    <3>2. e \in Index /\ Age(s, e) \in Index
      BY <2>3, <2>4
    <3>3. k \in 0..(r[2] - e) % Width /\ k \in -Width..Width /\ Age(s, e) - k = Age(s, p)
      BY <2>4, <2>5, <3>1, <3>2, LimitsAre DEF Index
    <3> HIDE DEF e, k, s
    <3>4. Plus(e, k) \in Index /\ Age(s, Plus(e, k)) = Age(s, p)
      BY <2>1, <3>1, <3>2, <3>3, AgeOfPlus
    <3>5. Plus(e, k) = p
      BY <2>1, <3>1, <3>4, OneAge
    <3> QED  BY <3>3, <3>5 DEF RangeOf, e
  <2> QED
    BY <2>2, <2>6
<1> QED
  BY <1>1, RecoveryHolds, PTL

(* A hold is called the page's own exactly when no loss armed it, in whatever order losses and
   decoder errors come (recovery.rs Freeze). *)
THEOREM BlameHolds == RecoverySpec => []BlameIsRight
<1>1. RecoveryInv => BlameIsRight
  BY DEF RecoveryInv, Good, Blamed, BlameIsRight
<1> QED
  BY <1>1, RecoveryHolds, PTL
=============================================================================
