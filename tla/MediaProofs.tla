---------------------------- MODULE MediaProofs ----------------------------
(***************************************************************************)
(* The components of MCMedia, proved one by one and then together: the     *)
(* types, what a closed pipe or a microphone turned off holds, and how     *)
(* many covers are in the page's hands.                                    *)
(***************************************************************************)
EXTENDS MCMedia, FiniteSetTheorems, SequenceTheorems, WellFoundedInduction, TLAPS

(***************************************************************************)
(* The video pipe.  A frame is pending exactly while one is not closed.    *)
(***************************************************************************)
Rebuilding == {<<"no">>, <<"waits">>} \cup ({"tries"} \X (Nat \ {0}))
Pipes ==
    [plane : 0..MaxPlanes, decoder : {"none", "unconfigured", "configured", "closed"},
     needKey : BOOLEAN, asked : BOOLEAN, hdr : BOOLEAN, hdrChecked : BOOLEAN,
     accel : 1..Accelerations, stuck : BOOLEAN,
     rebuild : Rebuilding,
     pending : BOOLEAN, frames : 0..1, config : Nat, closed : BOOLEAN]
OneFrame(p) == p.pending <=> p.frames = 1
PlanesApart == making \subseteq 1..MaxPlanes /\ alive \subseteq 1..MaxPlanes /\ making \cap alive = {}

VideoInv == pipe \in Pipes /\ OneFrame(pipe) /\ PlanesApart /\ ClosedHoldsNothing

LEMMA RebuildStartsKeeps ==
    ASSUME NEW p \in Pipes
    PROVE  LET q == RebuildStarts(p)
           IN  /\ q \in Pipes /\ q.pending = p.pending /\ q.frames = p.frames
               /\ q.closed = p.closed /\ q.plane = p.plane /\ q.decoder = p.decoder
<1>1. <<"waits">> \in Rebuilding
  BY DEF Rebuilding
<1> QED
  BY <1>1 DEF RebuildStarts, Pipes

LEMMA ConfiguredKeeps ==
    ASSUME NEW p \in Pipes, NEW refused \in BOOLEAN
    PROVE  LET q == Configured(p, refused)
           IN  /\ q \in Pipes /\ q.pending = p.pending /\ q.frames = p.frames /\ q.closed = p.closed
<1> DEFINE q == [p EXCEPT !.needKey = TRUE, !.asked = FALSE, !.stuck = FALSE, !.hdrChecked = FALSE,
                       !.decoder = IF refused THEN "unconfigured" ELSE "configured"]
<1>1. q \in Pipes /\ q.pending = p.pending /\ q.frames = p.frames /\ q.closed = p.closed
  BY DEF Pipes
<1>2. Configured(p, refused) = IF refused THEN RebuildStarts(q) ELSE q
  BY DEF Configured
<1> HIDE DEF q
<1> QED
  BY <1>1, <1>2, RebuildStartsKeeps

LEMMA VideoBounds ==
    ASSUME VideoPipeAssumption PROVE MaxPlanes \in Nat /\ 0 \in 0..MaxPlanes /\ 1 \in 1..Accelerations
  BY DEF VideoPipeAssumption

(* The fields that a frame, a fresh configuration or the end changes. *)
LEMMA PipeShows ==
    ASSUME NEW p \in Pipes, NEW h \in BOOLEAN, NEW b \in BOOLEAN, NEW f \in 0..1
    PROVE  [p EXCEPT !.stuck = TRUE, !.hdrChecked = h, !.pending = b, !.frames = f] \in Pipes
  BY DEF Pipes
LEMMA PipeShown == ASSUME NEW p \in Pipes PROVE [p EXCEPT !.pending = FALSE, !.frames = 0] \in Pipes
<1>1. 0 \in 0..1
  OBVIOUS
<1> QED
  BY <1>1 DEF Pipes
LEMMA PipeEnds ==
    ASSUME NEW p \in Pipes, VideoPipeAssumption
    PROVE  [p EXCEPT !.closed = TRUE, !.decoder = "none", !.plane = NoPlane, !.frames = 0, !.pending = FALSE] \in Pipes
<1>1. NoPlane \in 0..MaxPlanes /\ 0 \in 0..1
  BY VideoBounds DEF NoPlane
<1> QED
  BY <1>1 DEF Pipes
LEMMA PipeOf ==
    ASSUME NEW p \in Pipes, NEW x \in Rebuilding, NEW a \in 1..Accelerations
    PROVE  [[p EXCEPT !.rebuild = x] EXCEPT !.accel = a] \in Pipes
  BY DEF Pipes

(* configure(), of a pipe that is not closed. *)
LEMMA ConfigureKeeps ==
    ASSUME NEW p \in Pipes, OneFrame(p), ~p.closed, PlanesApart, Configure(p),
           alive' \subseteq alive
    PROVE  VideoInv'
<1>1. CASE p.plane = NoPlane
  <2>1. PICK m \in (1..MaxPlanes) \ (making \cup alive) : making' = making \cup {m}
    BY <1>1 DEF Configure
  <2>2. pipe' = p
    BY <1>1 DEF Configure
  <2> QED
    BY <2>1, <2>2 DEF VideoInv, PlanesApart, ClosedHoldsNothing, OneFrame
<1>2. CASE p.plane # NoPlane
  <2>1. PICK refused \in BOOLEAN : pipe' = Configured(p, refused)
    BY <1>2 DEF Configure
  <2>2. making' = making
    BY <1>2 DEF Configure
  <2>3. pipe' \in Pipes /\ OneFrame(pipe)' /\ ~pipe'.closed
    BY <2>1, ConfiguredKeeps DEF OneFrame
  <2> QED
    BY <2>2, <2>3 DEF VideoInv, PlanesApart, ClosedHoldsNothing
<1> QED
  BY <1>1, <1>2

LEMMA VideoFramesKeep ==
    ASSUME VideoInv, VideoPipeAssumption
    PROVE  /\ \A key \in BOOLEAN : Submit(key) => VideoInv'
           /\ \A converted, held \in BOOLEAN : OnFrame(converted, held) => VideoInv'
           /\ Present => VideoInv'
           /\ Close => VideoInv'
<1>1. ASSUME NEW key \in BOOLEAN, Submit(key) PROVE VideoInv'
  BY <1>1 DEF Submit, Pipes, VideoInv, OneFrame, ClosedHoldsNothing, PlanesApart
<1>2. ASSUME NEW converted \in BOOLEAN, NEW held \in BOOLEAN, OnFrame(converted, held) PROVE VideoInv'
  <2> DEFINE h == pipe.hdrChecked \/ pipe.hdr
             b == pipe.pending \/ ~held
             f == IF b THEN 1 ELSE 0
  <2>1. /\ pipe \in Pipes /\ pipe.decoder = "configured" /\ ~pipe.closed
        /\ making' = making /\ alive' = alive
    BY <1>2 DEF OnFrame, VideoInv, ClosedHoldsNothing
  <2>2. h \in BOOLEAN /\ b \in BOOLEAN /\ f \in 0..1
    BY <2>1 DEF Pipes
  <2>3. pipe.frames + 1 - (IF held \/ pipe.pending THEN 1 ELSE 0) = f
    BY DEF Pipes, VideoInv, OneFrame
  <2>4. pipe' = [pipe EXCEPT !.stuck = TRUE, !.hdrChecked = h, !.pending = b, !.frames = f]
    BY <1>2, <2>3 DEF OnFrame
  <2>5. b <=> f = 1
    OBVIOUS
  <2> HIDE DEF h, b, f
  <2>6. pipe' \in Pipes
    BY <2>1, <2>2, <2>4, PipeShows
  <2>7. pipe'.pending = b /\ pipe'.frames = f /\ pipe'.closed = pipe.closed
    BY <2>1, <2>4 DEF Pipes
  <2> QED
    BY <2>1, <2>5, <2>6, <2>7 DEF VideoInv, OneFrame, ClosedHoldsNothing, PlanesApart
<1>3. ASSUME Present PROVE VideoInv'
  <2>1. pipe \in Pipes /\ pipe.frames = 1 /\ ~pipe.closed
    BY <1>3 DEF Present, VideoInv, OneFrame, ClosedHoldsNothing
  <2>2. pipe' = [pipe EXCEPT !.pending = FALSE, !.frames = 0]
    BY <1>3, <2>1 DEF Present
  <2>3. pipe' \in Pipes
    BY <2>1, <2>2, PipeShown
  <2>4. ~pipe'.pending /\ pipe'.frames = 0 /\ ~pipe'.closed
    BY <2>1, <2>2 DEF Pipes
  <2> QED
    BY <1>3, <2>3, <2>4 DEF Present, VideoInv, OneFrame, ClosedHoldsNothing, PlanesApart
<1>4. ASSUME Close PROVE VideoInv'
  <2>1. pipe \in Pipes /\ pipe.frames - (IF pipe.pending THEN 1 ELSE 0) = 0
    BY DEF Pipes, VideoInv, OneFrame
  <2>2. pipe' = [pipe EXCEPT !.closed = TRUE, !.decoder = "none", !.plane = NoPlane, !.frames = 0, !.pending = FALSE]
    BY <1>4, <2>1 DEF Close
  <2>3. pipe' \in Pipes
    BY <2>1, <2>2, PipeEnds
  <2>4. ~pipe'.pending /\ pipe'.frames = 0 /\ pipe'.decoder = "none" /\ pipe'.plane = NoPlane
    BY <2>1, <2>2 DEF Pipes
  <2>5. PlanesApart'
    BY <1>4 DEF Close, PlanesApart, VideoInv
  <2> QED
    BY <2>3, <2>4, <2>5 DEF VideoInv, OneFrame, ClosedHoldsNothing
<1> QED
  BY <1>1, <1>2, <1>3, <1>4

LEMMA RebuildKeeps ==
    ASSUME VideoInv, VideoPipeAssumption
    PROVE  /\ DecoderError => VideoInv'
           /\ RebuildWaited => VideoInv'
           /\ AccelerationRefused => VideoInv'
           /\ RebuildEnds => VideoInv'
<1> USE DEF VideoInv, OneFrame, ClosedHoldsNothing, PlanesApart
<1>1. ASSUME DecoderError PROVE VideoInv'
  <2> DEFINE p == [pipe EXCEPT !.decoder = "closed"]
  <2>1. p \in Pipes /\ OneFrame(p) /\ ~p.closed
    BY <1>1 DEF DecoderError, Pipes
  <2>2. pipe' = RebuildStarts(p) /\ making' = making /\ alive' = alive
    BY <1>1 DEF DecoderError
  <2> HIDE DEF p
  <2> QED
    BY <2>1, <2>2, RebuildStartsKeeps
<1>2. ASSUME RebuildWaited PROVE VideoInv'
  <2>1. <<"tries", pipe.accel + (IF pipe.stuck THEN 0 ELSE 1)>> \in Rebuilding
    BY DEF Pipes, Rebuilding
  <2> QED
    BY <1>2, <2>1 DEF RebuildWaited, Pipes
<1>3. ASSUME AccelerationRefused PROVE VideoInv'
  <2>1. pipe.rebuild \in {"tries"} \X (Nat \ {0})
    BY <1>3 DEF AccelerationRefused, Tries, Pipes, Rebuilding
  <2>2. [pipe.rebuild EXCEPT ![2] = @ + 1] \in {"tries"} \X (Nat \ {0})
    BY <2>1
  <2>3. pipe' = [pipe EXCEPT !.rebuild = [pipe.rebuild EXCEPT ![2] = @ + 1]]
    BY <1>3 DEF AccelerationRefused
  <2> DEFINE r == [pipe.rebuild EXCEPT ![2] = @ + 1]
  <2>4. r \in Rebuilding
    BY <2>2 DEF Rebuilding
  <2> HIDE DEF r
  <2> QED
    BY <1>3, <2>3, <2>4 DEF AccelerationRefused, Pipes, r
<1>4. ASSUME RebuildEnds PROVE VideoInv'
  <2> DEFINE p == [pipe EXCEPT !.rebuild = <<"no">>]
             q == [p EXCEPT !.accel = pipe.rebuild[2]]
  <2>0. <<"no">> \in Rebuilding
    BY DEF Rebuilding
  <2>1. p \in Pipes /\ OneFrame(p) /\ (p.closed => p.decoder = "none" /\ p.frames = 0 /\ p.plane = NoPlane)
    BY <2>0 DEF Pipes
  <2>2. making' = making /\ alive' = alive
    BY <1>4 DEF RebuildEnds
  <2>3. CASE Superseded(p) \/ pipe.rebuild[2] > Accelerations
    <3>1. pipe' = p
      BY <1>4, <2>3 DEF RebuildEnds
    <3> QED
      BY <2>1, <2>2, <3>1
  <2>4. CASE ~Superseded(p) /\ ~(pipe.rebuild[2] > Accelerations)
    <3>1. PICK refused \in BOOLEAN : pipe' = [Configured(q, refused) EXCEPT !.asked = TRUE]
      BY <1>4, <2>4 DEF RebuildEnds
    <3>2. pipe.rebuild \in {"tries"} \X (Nat \ {0})
      BY <1>4 DEF RebuildEnds, Tries, Pipes, Rebuilding
    <3>3. pipe.rebuild[2] \in 1..Accelerations
      BY <2>4, <3>2, VideoPipeAssumption DEF VideoPipeAssumption
    <3>4. q \in Pipes
      BY <2>0, <3>3, PipeOf
    <3>5. ~p.closed /\ q.closed = p.closed /\ q.pending = p.pending /\ q.frames = p.frames
      BY <2>1, <2>4 DEF Pipes, Superseded
    <3> HIDE DEF p, q
    <3>6. Configured(q, refused) \in Pipes /\ OneFrame(Configured(q, refused)) /\ ~Configured(q, refused).closed
      BY <2>1, <3>4, <3>5, ConfiguredKeeps
    <3>7. pipe' \in Pipes /\ OneFrame(pipe)' /\ ~pipe'.closed
      BY <3>1, <3>6 DEF Pipes
    <3> QED
      BY <2>2, <3>7
  <2> QED
    BY <2>3, <2>4
<1> QED
  BY <1>1, <1>2, <1>3, <1>4

LEMMA PlaneKeeps ==
    ASSUME VideoInv, VideoPipeAssumption
    PROVE  /\ OnVideoConfig => VideoInv'
           /\ \A m \in 1..MaxPlanes : PlaneMade(m) \/ PlaneRefused(m) \/ PlaneLost(m) => VideoInv'
<1>1. ASSUME OnVideoConfig PROVE VideoInv'
  <2>1. PICK hdr \in BOOLEAN : Configure([pipe EXCEPT !.accel = 1, !.hdr = hdr, !.config = @ + 1])
    BY <1>1 DEF OnVideoConfig
  <2> DEFINE p == [pipe EXCEPT !.accel = 1, !.hdr = hdr, !.config = @ + 1]
  <2>2. p \in Pipes /\ OneFrame(p) /\ ~p.closed
    <3>1. pipe \in Pipes /\ OneFrame(pipe) /\ ~pipe.closed /\ pipe.config + 1 \in Nat
      BY <1>1 DEF OnVideoConfig, VideoInv, Pipes
    <3> QED
      BY <3>1, VideoBounds DEF Pipes, OneFrame
  <2>3. alive' = alive /\ Configure(p)
    BY <1>1, <2>1 DEF OnVideoConfig
  <2> HIDE DEF p
  <2> QED
    BY <2>2, <2>3, ConfigureKeeps DEF VideoInv
<1>2. ASSUME NEW m \in 1..MaxPlanes, PlaneMade(m) PROVE VideoInv'
  <2>1. m \in making /\ making' = making \ {m}
    BY <1>2 DEF PlaneMade
  <2>2. CASE pipe.closed
    BY <1>2, <2>1, <2>2 DEF PlaneMade, VideoInv, PlanesApart, OneFrame, ClosedHoldsNothing
  <2>3. CASE ~pipe.closed
    <3> DEFINE p == [pipe EXCEPT !.plane = m]
    <3>1. PICK refused \in BOOLEAN : pipe' = Configured(p, refused)
      BY <1>2, <2>3 DEF PlaneMade
    <3>2. p \in Pipes /\ OneFrame(p) /\ ~p.closed
      BY <2>3 DEF VideoInv, Pipes, OneFrame
    <3> HIDE DEF p
    <3>3. pipe' \in Pipes /\ OneFrame(pipe)' /\ ~pipe'.closed
      BY <3>1, <3>2, ConfiguredKeeps DEF OneFrame
    <3>4. PlanesApart'
      BY <1>2, <2>1, <2>3 DEF PlaneMade, VideoInv, PlanesApart
    <3> QED
      BY <3>3, <3>4 DEF VideoInv, ClosedHoldsNothing
  <2> QED
    BY <2>2, <2>3
<1>3. ASSUME NEW m \in 1..MaxPlanes, PlaneRefused(m) PROVE VideoInv'
  BY <1>3 DEF PlaneRefused, VideoInv, PlanesApart, OneFrame, ClosedHoldsNothing
<1>4. ASSUME NEW m \in 1..MaxPlanes, PlaneLost(m) PROVE VideoInv'
  <2> DEFINE p == [pipe EXCEPT !.plane = NoPlane]
  <2>1. p \in Pipes /\ OneFrame(p) /\ ~p.closed
    BY <1>4, VideoPipeAssumption DEF PlaneLost, VideoInv, Pipes, OneFrame, NoPlane, VideoPipeAssumption
  <2>2. Configure(p) /\ alive' = alive \ {pipe.plane}
    BY <1>4 DEF PlaneLost
  <2> HIDE DEF p
  <2> QED
    BY <2>1, <2>2, ConfigureKeeps DEF VideoInv
<1> QED
  BY <1>1, <1>2, <1>3, <1>4

LEMMA VideoPipeKeeps ==
    ASSUME VideoInv, VideoPipeAssumption, VideoPipeNext PROVE VideoInv'
  BY VideoFramesKeep, RebuildKeeps, PlaneKeeps DEF VideoPipeNext

LEMMA VideoPipeStarts == ASSUME VideoPipeAssumption, VideoPipeInit PROVE VideoInv
  BY DEF VideoPipeAssumption, VideoPipeInit, Rebuilding, VideoInv, Pipes, OneFrame, PlanesApart, ClosedHoldsNothing, NoPlane

LEMMA VideoInvTyped == ASSUME VideoInv PROVE VideoPipeTypeOK /\ ClosedHoldsNothing
  BY DEF VideoInv, Pipes, Rebuilding, PlanesApart, VideoPipeTypeOK

(***************************************************************************)
(* The sound.  The sink plays the first of its chunks up to `offset`, and  *)
(* an empty one has none to play; a trim leaves at most what primes it.    *)
(***************************************************************************)
Sounds ==
    [life : {"none", "open", "closed"}, ctx : {"none", "suspended", "running"}, loading : BOOLEAN,
     node : BOOLEAN, decoder : {"none", "configured", "closed"}, rebuilt : BOOLEAN,
     early : 0..MaxEarly, resume : BOOLEAN, hook : BOOLEAN]
Sinks == [chunks : Nat, offset : 0..Chunk - 1, primed : BOOLEAN, over : 0..HalfSecond]
InSink(s) == s \in Sinks /\ (s.chunks = 0 => s.offset = 0)

SoundInv == sound \in Sounds /\ ClosedIsSilent /\ InSink(sink) /\ Queued(sink) <= Cap

LEMMA AudioBounds ==
    ASSUME AudioAssumption
    PROVE  /\ MaxEarly \in Nat /\ HalfSecond \in Nat /\ Chunk \in Nat \ {0} /\ Prime \in Nat /\ Cap \in Nat
           /\ Chunk <= Prime /\ Prime < Cap
  BY DEF AudioAssumption

LEMMA Samples ==
    ASSUME AudioAssumption, NEW n \in Nat
    PROVE  /\ n * Chunk \in Nat /\ (n + 1) * Chunk = n * Chunk + Chunk
           /\ 0 * Chunk = 0 /\ 1 * Chunk = Chunk
           /\ n > 0 => (n - 1) * Chunk = n * Chunk - Chunk /\ n * Chunk >= Chunk
<1>1. Chunk \in Nat
  BY AudioBounds
<1>2. n * Chunk \in Nat /\ (n + 1) * Chunk = n * Chunk + Chunk /\ 0 * Chunk = 0 /\ 1 * Chunk = Chunk
  BY <1>1
<1>3. ASSUME n > 0 PROVE (n - 1) * Chunk = n * Chunk - Chunk /\ n * Chunk >= Chunk
  <2>1. n - 1 \in Nat
    BY <1>3
  <2>2. (n - 1) * Chunk \in Nat /\ ((n - 1) + 1) * Chunk = (n - 1) * Chunk + Chunk /\ (n - 1) + 1 = n
    BY <1>1, <2>1
  <2> QED
    BY <1>1, <1>2, <2>2
<1> QED
  BY <1>2, <1>3

LEMMA QueuedOf ==
    ASSUME AudioAssumption, NEW s, InSink(s)
    PROVE  /\ Queued(s) \in Nat
           /\ s.chunks = 0 => Queued(s) = 0
           /\ s.chunks <= 1 => Queued(s) <= Chunk
           /\ s.chunks > 0 => Queued(s) > 0
<1>1. s.chunks \in Nat /\ s.offset \in 0..Chunk - 1 /\ (s.chunks = 0 => s.offset = 0)
  BY DEF InSink, Sinks
<1>2. Chunk \in Nat \ {0}
  BY AudioBounds
<1>3. s.chunks * Chunk \in Nat /\ 0 * Chunk = 0 /\ 1 * Chunk = Chunk /\ (s.chunks > 0 => s.chunks * Chunk >= Chunk)
  BY <1>1, Samples
<1> DEFINE q == s.chunks * Chunk
<1>4. Queued(s) = q - s.offset
  BY DEF Queued
<1>5. (s.chunks = 0 => q = 0) /\ (s.chunks = 1 => q = Chunk)
  BY <1>3
<1>6. q \in Nat /\ (s.chunks > 0 => q >= Chunk)
  BY <1>3
<1> HIDE DEF q
<1> QED
  BY <1>1, <1>2, <1>4, <1>5, <1>6

LEMMA Lowest ==
    ASSUME NEW T, T \subseteq Nat, T # {}
    PROVE  \E x \in T : \A y \in T : x <= y
<1> DEFINE R == OpToRel(<, Nat)
<1>1. \E x \in T : \A y \in T : ~(<<y, x>> \in R)
  BY NatLessThanWellFounded, WFMin
<1>2. \A x, y \in Nat : <<y, x>> \in R <=> y < x
  BY DEF OpToRel
<1> HIDE DEF R
<1>3. PICK x \in T : \A y \in T : ~(<<y, x>> \in R)
  BY <1>1
<1>4. \A y \in T : ~(y < x)
  BY <1>2, <1>3
<1>5. \A y \in T : x <= y
  BY <1>4
<1> QED
  BY <1>5

LEMMA TrimLeaves ==
    ASSUME AudioAssumption, NEW s, InSink(s)
    PROVE  InSink(Trim(s)) /\ Queued(Trim(s)) <= Prime
<1> DEFINE Fits(n) == (s.chunks - n) * Chunk <= Prime \/ s.chunks - n = 1
           Right(n) == Fits(n) /\ \A k \in 1..n - 1 : ~Fits(k)
           gone == CHOOSE n \in 1..s.chunks : Right(n)
<1>1. s.chunks \in Nat
  BY DEF InSink, Sinks
<1>2. CASE Queued(s) <= Prime \/ s.chunks <= 1
  <2>1. Trim(s) = s
    BY <1>2 DEF Trim
  <2>2. Queued(s) <= Prime
    BY <1>2, QueuedOf, AudioBounds
  <2> QED
    BY <2>1, <2>2
<1>3. CASE ~(Queued(s) <= Prime \/ s.chunks <= 1)
  <2> DEFINE T == {n \in 1..s.chunks : Fits(n)}
  <2>1. s.chunks - 1 \in T
    BY <1>1, <1>3
  <2>2. T \subseteq Nat /\ T # {}
    BY <2>1
  <2>3. PICK n \in T : \A k \in T : n <= k
    BY <2>2, Lowest
  <2>4. n \in 1..s.chunks /\ Fits(n)
    OBVIOUS
  <2>5. ASSUME NEW k \in 1..n - 1 PROVE ~Fits(k)
    <3>1. k \in 1..s.chunks /\ ~(n <= k)
      BY <1>1, <2>4
    <3>2. k \notin T
      BY <2>3, <3>1
    <3> QED
      BY <3>1, <3>2
  <2>6. \E m \in 1..s.chunks : Right(m)
    BY <2>4, <2>5
  <2>7. gone \in 1..s.chunks /\ Right(gone)
    BY <2>6
  <2>8. gone \in 1..s.chunks /\ Fits(gone)
    BY <2>7
  <2>9. Trim(s) = [s EXCEPT !.chunks = @ - gone, !.offset = 0]
    BY <1>3 DEF Trim
  <2> HIDE DEF gone
  <2>10. s.chunks - gone \in Nat /\ 0 \in 0..Chunk - 1
    BY <1>1, <2>8, AudioBounds
  <2>11. Trim(s) \in Sinks /\ Trim(s).offset = 0 /\ Trim(s).chunks = s.chunks - gone
    BY <2>9, <2>10 DEF InSink, Sinks
  <2>12. Queued(Trim(s)) = (s.chunks - gone) * Chunk
    <3>1. (s.chunks - gone) * Chunk \in Nat
      BY <2>10, Samples
    <3>2. Queued(Trim(s)) = (s.chunks - gone) * Chunk - 0
      BY <2>11 DEF Queued
    <3> QED
      BY <3>1, <3>2
  <2>13. (s.chunks - gone) * Chunk <= Prime
    <3>1. 1 * Chunk = Chunk /\ Chunk <= Prime
      BY <2>10, Samples, AudioBounds
    <3> QED
      BY <2>8, <3>1
  <2> QED
    BY <2>11, <2>12, <2>13 DEF InSink
<1> QED
  BY <1>2, <1>3

LEMMA MessageFits ==
    ASSUME AudioAssumption, NEW s, InSink(s)
    PROVE  InSink(Message(s)) /\ Queued(Message(s)) <= Cap
<1> DEFINE got == [s EXCEPT !.chunks = @ + 1]
<1>1. got \in Sinks /\ got.chunks # 0
  BY DEF InSink, Sinks
<1>2. InSink(got)
  BY <1>1 DEF InSink
<1>3. Message(s) = IF Queued(got) > Cap THEN Trim(got) ELSE got
  BY DEF Message
<1> HIDE DEF got
<1>4. Queued(got) \in Nat
  BY <1>2, QueuedOf
<1>5. InSink(Trim(got)) /\ Queued(Trim(got)) <= Prime /\ Queued(Trim(got)) \in Nat
  BY <1>2, TrimLeaves, QueuedOf
<1> QED
  BY <1>2, <1>3, <1>4, <1>5, AudioBounds

LEMMA RenderedFits ==
    ASSUME AudioAssumption, NEW s, InSink(s), Queued(s) <= Cap
    PROVE  InSink(Rendered(s)) /\ Queued(Rendered(s)) <= Cap
<1> DEFINE over == OverFor(s)
           t == IF over > HalfSecond THEN [Trim(s) EXCEPT !.over = 0] ELSE [s EXCEPT !.over = over]
           read == t.offset + 1
<1>1. over \in Nat
  BY DEF OverFor, InSink, Sinks
<1>2. InSink(t) /\ Queued(t) <= Cap
  <2>1. CASE over > HalfSecond
    <3>1. t = [Trim(s) EXCEPT !.over = 0] /\ 0 \in 0..HalfSecond
      BY <2>1, AudioBounds
    <3>2. InSink(Trim(s)) /\ Queued(Trim(s)) <= Prime /\ Queued(Trim(s)) \in Nat
      BY TrimLeaves, QueuedOf
    <3> HIDE DEF t
    <3>3. InSink(t) /\ t.chunks = Trim(s).chunks /\ t.offset = Trim(s).offset
      BY <3>1, <3>2 DEF InSink, Sinks
    <3>4. Queued(t) = Queued(Trim(s))
      BY <3>3 DEF Queued
    <3> QED
      BY <3>2, <3>3, <3>4, AudioBounds
  <2>2. CASE ~(over > HalfSecond)
    <3>1. t = [s EXCEPT !.over = over] /\ over \in 0..HalfSecond
      BY <1>1, <2>2, AudioBounds
    <3> HIDE DEF t, over
    <3>2. InSink(t) /\ t.chunks = s.chunks /\ t.offset = s.offset
      BY <3>1 DEF InSink, Sinks
    <3>3. Queued(t) = Queued(s)
      BY <3>2 DEF Queued
    <3> QED
      BY <3>2, <3>3
  <2> QED
    BY <2>1, <2>2
<1>3. Rendered(s) =
        CASE Queued(t) = 0 -> [NoSink EXCEPT !.over = t.over]
          [] Queued(t) > 0 /\ read = Chunk -> [t EXCEPT !.primed = TRUE, !.chunks = @ - 1, !.offset = 0]
          [] Queued(t) > 0 /\ read < Chunk -> [t EXCEPT !.primed = TRUE, !.offset = read]
  BY DEF Rendered
<1> HIDE DEF t, over
<1>4. /\ t \in Sinks /\ t.chunks \in Nat /\ t.offset \in 0..Chunk - 1
      /\ Queued(t) \in Nat /\ (Queued(t) > 0 => t.chunks > 0) /\ t.over \in 0..HalfSecond
  BY <1>2, QueuedOf DEF InSink, Sinks
<1>5. Chunk \in Nat \ {0} /\ Cap \in Nat
  BY AudioBounds
<1>6. CASE Queued(t) = 0
  <2>1. Rendered(s) = [NoSink EXCEPT !.over = t.over]
    BY <1>3, <1>6
  <2>2. Rendered(s) = [chunks |-> 0, offset |-> 0, primed |-> FALSE, over |-> t.over]
    BY <2>1 DEF NoSink
  <2>3. InSink(Rendered(s)) /\ Rendered(s).chunks = 0
    BY <1>4, <1>5, <2>2 DEF InSink, Sinks
  <2> QED
    BY <1>5, <2>3, QueuedOf
<1>7. CASE Queued(t) > 0 /\ read = Chunk
  <2>1. Rendered(s) = [t EXCEPT !.primed = TRUE, !.chunks = @ - 1, !.offset = 0]
    BY <1>3, <1>4, <1>7
  <2>2. t.chunks - 1 \in Nat /\ 0 \in 0..Chunk - 1
    BY <1>4, <1>5, <1>7
  <2>3. Rendered(s) \in Sinks /\ Rendered(s).offset = 0 /\ Rendered(s).chunks = t.chunks - 1
    BY <1>4, <2>1, <2>2 DEF Sinks
  <2>4. (t.chunks - 1) * Chunk = t.chunks * Chunk - Chunk /\ t.chunks * Chunk \in Nat
    BY <1>4, <1>7, Samples
  <2>5. Queued(Rendered(s)) = (t.chunks - 1) * Chunk - 0 /\ Queued(t) = t.chunks * Chunk - t.offset
    BY <2>3 DEF Queued
  <2> DEFINE all == t.chunks * Chunk
  <2>6. all \in Nat /\ Queued(Rendered(s)) = all - Chunk - 0 /\ Queued(t) = all - t.offset
    BY <2>4, <2>5
  <2> HIDE DEF all
  <2>7. Queued(Rendered(s)) <= Cap
    BY <1>2, <1>4, <1>5, <1>7, <2>6
  <2> QED
    BY <2>3, <2>7 DEF InSink
<1>8. CASE Queued(t) > 0 /\ read < Chunk
  <2>1. Rendered(s) = [t EXCEPT !.primed = TRUE, !.offset = read]
    BY <1>3, <1>4, <1>5, <1>8
  <2>2. read \in 0..Chunk - 1 /\ t.chunks # 0
    BY <1>4, <1>5, <1>8
  <2>3. Rendered(s) \in Sinks /\ Rendered(s).offset = read /\ Rendered(s).chunks = t.chunks
    BY <1>4, <2>1, <2>2 DEF Sinks
  <2>4. t.chunks * Chunk \in Nat
    BY <1>4, Samples
  <2>5. Queued(Rendered(s)) = t.chunks * Chunk - read /\ Queued(t) = t.chunks * Chunk - t.offset
    BY <2>3 DEF Queued
  <2>6. Queued(Rendered(s)) <= Cap
    BY <1>2, <1>4, <1>5, <2>4, <2>5
  <2> QED
    BY <2>2, <2>3, <2>6 DEF InSink
<1>9. read = Chunk \/ read < Chunk
  BY <1>4, <1>5
<1> QED
  BY <1>4, <1>6, <1>7, <1>8, <1>9

LEMMA SoundStarts == ASSUME AudioAssumption, AudioInit PROVE SoundInv
<1>1. 0 \in 0..Chunk - 1 /\ 0 \in 0..HalfSecond /\ 0 \in 0..MaxEarly
  BY AudioBounds
<1>2. InSink(NoSink) /\ NoSink.chunks = 0 /\ NoSound \in Sounds
  BY <1>1 DEF NoSink, NoSound, InSink, Sinks, Sounds
<1>3. Queued(NoSink) <= Cap
  BY <1>2, QueuedOf, AudioBounds
<1> QED
  BY <1>2, <1>3 DEF AudioInit, SoundInv, ClosedIsSilent, NoSound

(* A step of the pipe that leaves the sink. *)
LEMMA PipeSteps ==
    ASSUME SoundInv
    PROVE  /\ Attach => SoundInv'
           /\ LoadFailed => SoundInv'
           /\ Gesture => SoundInv'
           /\ Interrupted => SoundInv'
           /\ BadPacket => SoundInv'
           /\ SecondPasses => SoundInv'
<1>1. ASSUME Attach PROVE SoundInv'
  BY <1>1 DEF Attach, SoundInv, Sounds, ClosedIsSilent
<1>2. ASSUME LoadFailed PROVE SoundInv'
  BY <1>2 DEF LoadFailed, SoundInv, Sounds, ClosedIsSilent
<1>3. ASSUME Gesture PROVE SoundInv'
  BY <1>3 DEF Gesture, SoundInv, Sounds, ClosedIsSilent
<1>4. ASSUME Interrupted PROVE SoundInv'
  BY <1>4 DEF Interrupted, SoundInv, Sounds, ClosedIsSilent
<1>5. ASSUME BadPacket PROVE SoundInv'
  BY <1>5 DEF BadPacket, SoundInv, Sounds, ClosedIsSilent
<1>6. ASSUME SecondPasses PROVE SoundInv'
  BY <1>6 DEF SecondPasses, SoundInv, Sounds, ClosedIsSilent
<1> QED
  BY <1>1, <1>2, <1>3, <1>4, <1>5, <1>6

LEMMA AudioKeeps == ASSUME SoundInv, AudioAssumption, AudioNext PROVE SoundInv'
<1>1. ASSUME Loaded PROVE SoundInv'
  <2>1. CASE StillOpen
    <3>1. sound' = [sound EXCEPT !.loading = FALSE, !.node = TRUE, !.decoder = "configured",
                                 !.resume = TRUE, !.early = 0]
      BY <1>1, <2>1 DEF Loaded
    <3>2. sound.life # "closed" /\ sound \in Sounds /\ 0 \in 0..MaxEarly
      BY <2>1, AudioBounds DEF StillOpen, SoundInv, ClosedIsSilent
    <3>3. sound' \in Sounds /\ sound'.life # "closed"
      BY <3>1, <3>2 DEF Sounds
    <3> DEFINE held == [NoSink EXCEPT !.chunks = sound.early]
    <3>4. sound.early \in Nat /\ 0 \in 0..Chunk - 1 /\ 0 \in 0..HalfSecond
      BY <3>2, AudioBounds DEF Sounds
    <3>5. NoSink \in Sinks /\ NoSink.offset = 0
      BY <3>4 DEF NoSink, Sinks
    <3>6. InSink(held)
      BY <3>4, <3>5 DEF InSink, Sinks
    <3>7. sink' = IF Queued(held) > Cap THEN Trim(held) ELSE held
      BY <1>1, <2>1 DEF Loaded
    <3> HIDE DEF held
    <3>8. Queued(held) \in Nat /\ InSink(Trim(held)) /\ Queued(Trim(held)) <= Prime /\ Queued(Trim(held)) \in Nat
      BY <3>6, QueuedOf, TrimLeaves
    <3>9. InSink(sink') /\ Queued(sink') <= Cap
      BY <3>6, <3>7, <3>8, AudioBounds
    <3> QED
      BY <3>3, <3>9 DEF SoundInv, ClosedIsSilent, InSink, Queued
  <2>2. CASE ~StillOpen
    BY <1>1, <2>2 DEF Loaded, SoundInv, Sounds, ClosedIsSilent
  <2> QED
    BY <2>1, <2>2
<1>2. ASSUME AudioFrame PROVE SoundInv'
  <2>1. sound.hook /\ sound.life # "closed" /\ sound \in Sounds
    BY <1>2 DEF AudioFrame, SoundInv, ClosedIsSilent
  <2>2. sound' \in Sounds /\ sound'.life # "closed"
    <3>1. CASE sound.decoder = "none"
      <4>1. sound' = [sound EXCEPT !.early = IF @ < MaxEarly THEN @ + 1 ELSE @]
        BY <1>2, <3>1 DEF AudioFrame, Rebuilds
      <4>2. (IF sound.early < MaxEarly THEN sound.early + 1 ELSE sound.early) \in 0..MaxEarly
        BY <2>1, AudioBounds DEF Sounds
      <4> QED
        BY <2>1, <4>1, <4>2 DEF Sounds
    <3>2. CASE Rebuilds(sound)
      <4>1. sound' = [sound EXCEPT !.decoder = "configured", !.rebuilt = TRUE]
        BY <1>2, <3>2 DEF AudioFrame, Rebuilds
      <4> QED
        BY <2>1, <4>1 DEF Sounds
    <3>3. CASE sound.decoder # "none" /\ ~Rebuilds(sound)
      BY <1>2, <2>1, <3>3 DEF AudioFrame
    <3> QED
      BY <3>1, <3>2, <3>3
  <2>3. sink' = Message(sink) \/ sink' = sink
    BY <1>2 DEF AudioFrame
  <2>4. InSink(sink') /\ Queued(sink') <= Cap
    BY <2>3, MessageFits DEF SoundInv
  <2> QED
    BY <2>2, <2>4 DEF SoundInv, ClosedIsSilent, InSink, Queued
<1>3. ASSUME Process PROVE SoundInv'
  <2>1. sound' = sound /\ (sink' = Rendered(sink) \/ sink' = sink)
    BY <1>3 DEF Process
  <2>2. InSink(sink') /\ Queued(sink') <= Cap
    BY <2>1, RenderedFits DEF SoundInv
  <2> QED
    BY <2>1, <2>2 DEF SoundInv, ClosedIsSilent, InSink, Queued
<1>4. ASSUME CloseSound PROVE SoundInv'
  <2>1. sound' = [NoSound EXCEPT !.life = "closed", !.loading = sound.loading] /\ sink' = NoSink
    BY <1>4 DEF CloseSound
  <2>2. sound' = [life |-> "closed", ctx |-> "none", loading |-> sound.loading, node |-> FALSE, decoder |-> "none",
                  rebuilt |-> FALSE, early |-> 0, resume |-> FALSE, hook |-> FALSE]
    BY <2>1 DEF NoSound
  <2>3. sound.loading \in BOOLEAN /\ 0 \in 0..MaxEarly /\ 0 \in 0..Chunk - 1 /\ 0 \in 0..HalfSecond
    BY AudioBounds DEF SoundInv, Sounds
  <2>4. sound' \in Sounds /\ ClosedIsSilent'
    BY <2>2, <2>3 DEF Sounds, ClosedIsSilent
  <2>5. InSink(sink') /\ sink'.chunks = 0
    BY <2>1, <2>3 DEF NoSink, InSink, Sinks
  <2>6. Queued(sink') <= Cap
    BY <2>5, QueuedOf, AudioBounds
  <2> QED
    BY <2>4, <2>5, <2>6 DEF SoundInv, InSink, Queued
<1> QED
  BY <1>1, <1>2, <1>3, <1>4, PipeSteps DEF AudioNext

LEMMA SoundInvTyped == ASSUME SoundInv, AudioAssumption PROVE AudioTypeOK /\ ClosedIsSilent
  BY QueuedOf DEF SoundInv, AudioTypeOK, InSink, Sinks, Sounds

(***************************************************************************)
(* The microphone.  A start that no other overtook is the only one that    *)
(* holds anything, and while the prompt is open it holds nothing.          *)
(***************************************************************************)
MicTyped ==
    /\ mic \in [state : {"off", "starting", "on", "denied"}, gen : 0..MaxGen,
                stream : 0..MaxGen, ctx : 0..MaxGen, encoder : 0..MaxGen]
    /\ mic.stream <= mic.gen /\ mic.ctx <= mic.gen /\ mic.encoder <= mic.gen
    /\ starting \in [Gens -> {"none", "prompt", "worklet", "resume"}]
StartsAreOld == \A g \in Gens : starting[g] # "none" => g <= mic.gen /\ (g = mic.gen => mic.state = "starting")
PromptHoldsNothing ==
    \A g \in Gens : g = mic.gen /\ starting[g] = "prompt" => tracks = {} /\ contexts = {} /\ mic.encoder = 0
HeldByThePipe ==
    /\ tracks \subseteq {mic.gen} /\ tracks \subseteq {mic.stream}
    /\ contexts \subseteq {mic.gen} /\ contexts \subseteq {mic.ctx}
    /\ (tracks # {} \/ contexts # {}) => mic.state \in {"starting", "on"}
    /\ mic.state \in {"off", "denied"} => session = "playback" /\ mic.encoder = 0

MicInv == MicTyped /\ StartsAreOld /\ PromptHoldsNothing /\ HeldByThePipe

LEMMA MicStarts == ASSUME MicAssumption, MicInit PROVE MicInv
  BY DEF MicAssumption, MicInit, MicInv, MicTyped, StartsAreOld, PromptHoldsNothing, HeldByThePipe, Gens

LEMMA Stopped ==
    ASSUME MicInv, MicAssumption, mic.gen < MaxGen, Stops(mic.gen + 1),
           starting' \in [Gens -> {"none", "prompt", "worklet", "resume"}],
           \A g \in Gens : starting'[g] # "none" => starting[g] # "none"
    PROVE  MicInv'
<1>1. mic' = [state |-> "off", gen |-> mic.gen + 1, stream |-> 0, ctx |-> 0, encoder |-> 0]
  BY DEF Stops
<1>2. mic.gen \in 0..MaxGen /\ mic.gen + 1 \in 0..MaxGen /\ 0 \in 0..MaxGen
  BY DEF MicAssumption, MicInv, MicTyped
<1>3. /\ mic'.state = "off" /\ mic'.gen = mic.gen + 1
      /\ mic'.stream = 0 /\ mic'.ctx = 0 /\ mic'.encoder = 0
  BY <1>1
<1>4. tracks' = {} /\ contexts' = {} /\ session' = "playback"
  BY DEF Stops, TracksStopped, MicInv, HeldByThePipe
<1>5. MicTyped'
  BY <1>1, <1>2, <1>3 DEF MicTyped
<1>6. StartsAreOld'
  BY <1>2, <1>3 DEF StartsAreOld, MicInv, Gens
<1>7. PromptHoldsNothing' /\ HeldByThePipe'
  BY <1>3, <1>4 DEF PromptHoldsNothing, HeldByThePipe
<1> QED
  BY <1>5, <1>6, <1>7 DEF MicInv

(* An overtaken start gives back what it opened: by then it holds nothing. *)
LEMMA Dropped == ASSUME MicInv, NEW g \in Gens, Overtaken(g), Drop(g) PROVE MicInv'
  BY DEF Drop, Returns, Awaits, Overtaken, MicInv, MicTyped, StartsAreOld, PromptHoldsNothing, HeldByThePipe

LEMMA MicStartKeeps == ASSUME MicInv, MicAssumption, MicStart PROVE MicInv'
<1>1. mic.state \in {"off", "denied"} /\ mic.gen \in 0..MaxGen /\ mic.gen + 1 \in 0..MaxGen
  BY DEF MicStart, MicAssumption, MicInv, MicTyped
<1>2. mic' = [mic EXCEPT !.gen = @ + 1, !.state = "starting"]
  BY DEF MicStart
<1>3. /\ mic'.state = "starting" /\ mic'.gen = mic.gen + 1
      /\ mic'.stream = mic.stream /\ mic'.ctx = mic.ctx /\ mic'.encoder = mic.encoder
  BY <1>2 DEF MicInv, MicTyped
<1>4. starting' = [starting EXCEPT ![mic.gen + 1] = "prompt"]
  BY <1>3 DEF MicStart, Awaits
<1>5. tracks = {} /\ contexts = {} /\ tracks' = {} /\ contexts' = {} /\ mic.encoder = 0
  BY <1>1 DEF MicStart, MicInv, HeldByThePipe
<1>6. MicTyped'
  <2>1. mic' \in [state : {"off", "starting", "on", "denied"}, gen : 0..MaxGen,
                  stream : 0..MaxGen, ctx : 0..MaxGen, encoder : 0..MaxGen]
    BY <1>1, <1>2 DEF MicInv, MicTyped
  <2>2. mic.stream <= mic.gen /\ mic.ctx <= mic.gen /\ mic.encoder <= mic.gen
    BY DEF MicInv, MicTyped
  <2>3. starting' \in [Gens -> {"none", "prompt", "worklet", "resume"}]
    BY <1>4 DEF MicInv, MicTyped
  <2>4. {mic.stream, mic.ctx, mic.encoder} \subseteq 0..MaxGen
    BY DEF MicInv, MicTyped
  <2> QED
    BY <1>1, <1>3, <2>1, <2>2, <2>3, <2>4 DEF MicTyped
<1>7. StartsAreOld'
  BY <1>1, <1>3, <1>4 DEF MicInv, MicTyped, StartsAreOld, Gens
<1>8. PromptHoldsNothing' /\ HeldByThePipe'
  BY <1>3, <1>5 DEF PromptHoldsNothing, HeldByThePipe
<1> QED
  BY <1>6, <1>7, <1>8 DEF MicInv

LEMMA PromptEnds == ASSUME MicInv, MicAssumption, NEW g \in Gens, Denied(g) \/ Granted(g) PROVE MicInv'
<1>1. starting[g] = "prompt" /\ g \in 1..MaxGen
  BY DEF Denied, Granted, Gens
<1>2. ASSUME Overtaken(g) PROVE MicInv'
  <2>1. starting' = [starting EXCEPT ![g] = "none"] /\ UNCHANGED <<mic, tracks, contexts, session>>
    BY <1>2 DEF Denied, Granted, Returns, Awaits
  <2>2. MicTyped' /\ StartsAreOld'
    BY <2>1 DEF MicInv, MicTyped, StartsAreOld
  <2>3. PromptHoldsNothing' /\ HeldByThePipe'
    BY <2>1 DEF MicInv, MicTyped, PromptHoldsNothing, HeldByThePipe
  <2> QED
    BY <2>2, <2>3 DEF MicInv
<1>3. ASSUME ~Overtaken(g) PROVE g = mic.gen /\ mic.state = "starting" /\ tracks = {} /\ contexts = {} /\ mic.encoder = 0
  BY <1>1, <1>3 DEF Overtaken, MicInv, StartsAreOld, PromptHoldsNothing
<1>4. ASSUME ~Overtaken(g), Denied(g) PROVE MicInv'
  <2>1. /\ mic' = [mic EXCEPT !.state = "denied"] /\ starting' = [starting EXCEPT ![g] = "none"]
        /\ tracks' = {} /\ contexts' = {} /\ session' = "playback"
    BY <1>3, <1>4 DEF Denied, Returns, Awaits
  <2>2. /\ mic'.state = "denied" /\ mic'.gen = g /\ mic'.stream = mic.stream
        /\ mic'.ctx = mic.ctx /\ mic'.encoder = 0
    BY <1>3, <1>4, <2>1 DEF MicInv, MicTyped
  <2>3. MicTyped'
    BY <2>1 DEF MicInv, MicTyped
  <2>4. StartsAreOld'
    BY <1>3, <1>4, <2>1, <2>2 DEF MicInv, MicTyped, StartsAreOld
  <2> QED
    BY <2>1, <2>2, <2>3, <2>4 DEF MicInv, PromptHoldsNothing, HeldByThePipe
<1>5. ASSUME ~Overtaken(g), Granted(g) PROVE MicInv'
  <2>1. /\ mic' = [mic EXCEPT !.stream = g, !.ctx = g] /\ starting' = [starting EXCEPT ![g] = "worklet"]
        /\ tracks' = {g} /\ contexts' = {g} /\ session' = session
    BY <1>3, <1>5 DEF Granted, Awaits
  <2>2. /\ mic'.state = "starting" /\ mic'.gen = g /\ mic'.stream = g
        /\ mic'.ctx = g /\ mic'.encoder = 0
    BY <1>3, <1>5, <2>1 DEF MicInv, MicTyped
  <2>3. MicTyped'
    <3>1. g \in 0..MaxGen
      BY <1>1
    <3>2. mic' \in [state : {"off", "starting", "on", "denied"}, gen : 0..MaxGen,
                    stream : 0..MaxGen, ctx : 0..MaxGen, encoder : 0..MaxGen]
      BY <2>1, <3>1 DEF MicInv, MicTyped
    <3> QED
      BY <2>1, <2>2, <3>1, <3>2 DEF MicInv, MicTyped
  <2>4. StartsAreOld'
    BY <1>3, <1>5, <2>1, <2>2 DEF MicInv, MicTyped, StartsAreOld
  <2>5. PromptHoldsNothing'
    BY <2>1, <2>2 DEF MicInv, MicTyped, PromptHoldsNothing
  <2> QED
    BY <2>1, <2>2, <2>3, <2>4, <2>5 DEF MicInv, HeldByThePipe
<1> QED
  BY <1>2, <1>4, <1>5

LEMMA StartGoesOn ==
    ASSUME MicInv, MicAssumption, NEW g \in Gens, WorkletCame(g) \/ Resumed(g) \/ StartFailed(g)
    PROVE  MicInv'
<1>1. starting[g] \in {"worklet", "resume"} /\ g \in 1..MaxGen
  BY DEF WorkletCame, Resumed, StartFailed, Gens
<1>2. ASSUME Overtaken(g) PROVE MicInv'
  BY <1>2, Dropped DEF WorkletCame, Resumed, StartFailed
<1>3. ASSUME ~Overtaken(g) PROVE g = mic.gen /\ mic.state = "starting"
  BY <1>1, <1>3 DEF Overtaken, MicInv, StartsAreOld
<1>4. ASSUME ~Overtaken(g), WorkletCame(g) PROVE MicInv'
  <2>1. /\ mic' = [mic EXCEPT !.encoder = g] /\ starting' = [starting EXCEPT ![g] = "resume"]
        /\ tracks' = tracks /\ contexts' = contexts /\ session' = session
    BY <1>4 DEF WorkletCame, Awaits
  <2>2. /\ mic'.state = "starting" /\ mic'.gen = g /\ mic'.stream = mic.stream
        /\ mic'.ctx = mic.ctx /\ mic'.encoder = g
    BY <1>3, <1>4, <2>1 DEF MicInv, MicTyped
  <2>3. MicTyped'
    BY <1>1, <1>3, <1>4, <2>1, <2>2 DEF MicInv, MicTyped
  <2>4. StartsAreOld' /\ PromptHoldsNothing'
    BY <1>3, <1>4, <2>1, <2>2 DEF MicInv, MicTyped, StartsAreOld, PromptHoldsNothing
  <2> QED
    BY <1>3, <1>4, <2>1, <2>2, <2>3, <2>4 DEF MicInv, HeldByThePipe
<1>5. ASSUME ~Overtaken(g), Resumed(g) PROVE MicInv'
  <2>1. /\ mic' = [mic EXCEPT !.state = "on"] /\ starting' = [starting EXCEPT ![g] = "none"]
        /\ tracks' = tracks /\ contexts' = contexts /\ session' = session
    BY <1>5 DEF Resumed, Returns, Awaits
  <2>2. /\ mic'.state = "on" /\ mic'.gen = g /\ mic'.stream = mic.stream
        /\ mic'.ctx = mic.ctx /\ mic'.encoder = mic.encoder
    BY <1>3, <1>5, <2>1 DEF MicInv, MicTyped
  <2>3. MicTyped'
    BY <1>3, <1>5, <2>1, <2>2 DEF MicInv, MicTyped
  <2>4. StartsAreOld' /\ PromptHoldsNothing'
    BY <1>3, <1>5, <2>1, <2>2 DEF MicInv, MicTyped, StartsAreOld, PromptHoldsNothing
  <2> QED
    BY <1>3, <1>5, <2>1, <2>2, <2>3, <2>4 DEF MicInv, HeldByThePipe
<1>6. ASSUME ~Overtaken(g), StartFailed(g) PROVE MicInv'
  <2>1. mic.gen < MaxGen /\ Stops(mic.gen + 1) /\ starting' = [starting EXCEPT ![g] = "none"]
    BY <1>6 DEF StartFailed, Returns, Awaits
  <2>2. /\ starting' \in [Gens -> {"none", "prompt", "worklet", "resume"}]
        /\ \A h \in Gens : starting'[h] # "none" => starting[h] # "none"
    BY <2>1 DEF MicInv, MicTyped
  <2> QED
    BY <2>1, <2>2, Stopped
<1> QED
  BY <1>2, <1>4, <1>5, <1>6

LEMMA MicKeeps == ASSUME MicInv, MicAssumption, MicNext PROVE MicInv'
<1>1. starting \in [Gens -> {"none", "prompt", "worklet", "resume"}]
  BY DEF MicInv, MicTyped
<1>2. ASSUME MicStop \/ EncoderFailed PROVE MicInv'
  <2>1. mic.gen < MaxGen /\ Stops(mic.gen + 1) /\ starting' = starting
    BY <1>2 DEF MicStop, EncoderFailed
  <2> QED
    BY <1>1, <2>1, Stopped
<1>3. ASSUME SoundOpens PROVE MicInv'
  BY <1>3 DEF SoundOpens, MicInv, MicTyped, StartsAreOld, PromptHoldsNothing, HeldByThePipe
<1> QED
  BY <1>2, <1>3, MicStartKeeps, PromptEnds, StartGoesOn DEF MicNext

LEMMA MicInvTyped == ASSUME MicInv PROVE MicTypeOK /\ MicLetsGo
<1>1. mic.gen \in 0..MaxGen /\ mic.state \in {"off", "starting", "on", "denied"} /\ {mic.stream, mic.ctx, mic.encoder} \subseteq 0..mic.gen
  BY DEF MicInv, MicTyped
<1> QED
  BY <1>1 DEF MicInv, HeldByThePipe, MicTypeOK, MicLetsGo

(***************************************************************************)
(* A pad.                                                                  *)
(***************************************************************************)
Said == {"rest", "pressed"}
OnItsWay == {"rest", "pressed", "gone"}
PadsInv ==
    /\ pad \in [on : BOOLEAN, says : Said, left : 0..MaxChanges] /\ last \in {"none"} \cup Said
    /\ air \in [sent : Seq(OnItsWay), lose : Nat] /\ Len(air.sent) <= PadsInFlight
    /\ hostPad \in OnItsWay

LEMMA TakenOut ==
    ASSUME NEW S, NEW q \in Seq(S), NEW i \in DOMAIN q
    PROVE  RemoveAt(q, i) \in Seq(S) /\ Len(RemoveAt(q, i)) = Len(q) - 1
<1>1. i \in 1..Len(q) /\ Len(q) \in Nat
  OBVIOUS
<1> DEFINE a == SubSeq(q, 1, i - 1)
           b == SubSeq(q, i + 1, Len(q))
<1>2. a \in Seq(S) /\ Len(a) = i - 1
  BY <1>1, SubSeqProperties
<1>3. b \in Seq(S) /\ Len(b) = Len(q) - i
  BY <1>1, SubSeqProperties
<1>4. RemoveAt(q, i) = a \o b
  BY DEF RemoveAt
<1> HIDE DEF a, b
<1>5. a \o b \in Seq(S) /\ Len(a \o b) = Len(a) + Len(b)
  BY <1>2, <1>3, ConcatProperties
<1> QED
  BY <1>1, <1>2, <1>3, <1>4, <1>5

LEMMA Goes ==
    ASSUME PadsInv, PadsAssumption, NEW what \in OnItsWay, Sends(what)
    PROVE  air' \in [sent : Seq(OnItsWay), lose : Nat] /\ Len(air'.sent) <= PadsInFlight
<1>1. air.sent \in Seq(OnItsWay) /\ Len(air.sent) < PadsInFlight /\ air' = [air EXCEPT !.sent = Append(air.sent, what)]
  BY DEF Sends, PadsInv
<1>2. Append(air.sent, what) \in Seq(OnItsWay) /\ Len(Append(air.sent, what)) = Len(air.sent) + 1 /\ Len(air.sent) \in Nat
  BY <1>1, AppendProperties
<1> HIDE DEF OnItsWay
<1>3. air' \in [sent : Seq(OnItsWay), lose : Nat] /\ air'.sent = Append(air.sent, what)
  BY <1>1, <1>2 DEF PadsInv
<1> QED
  BY <1>1, <1>2, <1>3 DEF PadsAssumption

LEMMA PadsKeep == ASSUME PadsInv, PadsAssumption, PadsNext PROVE PadsInv'
<1>1. pad \in [on : BOOLEAN, says : Said, left : 0..MaxChanges] /\ (pad.left > 0 => pad.left - 1 \in 0..MaxChanges)
  BY DEF PadsInv, PadsAssumption
<1>2. ASSUME NEW says \in Said, PadChanges(says) PROVE PadsInv'
  <2>1. pad' \in [on : BOOLEAN, says : Said, left : 0..MaxChanges]
    BY <1>1, <1>2 DEF PadChanges
  <2> QED
    BY <1>2, <2>1 DEF PadChanges, PadsInv
<1>3. ASSUME PadArrives PROVE PadsInv'
  <2>1. pad' \in [on : BOOLEAN, says : Said, left : 0..MaxChanges]
    BY <1>1, <1>3 DEF PadArrives
  <2> QED
    BY <1>3, <2>1 DEF PadArrives, PadsInv
<1>4. ASSUME PadLeaves PROVE PadsInv'
  <2>1. air' \in [sent : Seq(OnItsWay), lose : Nat] /\ Len(air'.sent) <= PadsInFlight
    BY <1>4, Goes DEF PadLeaves, OnItsWay
  <2>2. last' = "none" /\ hostPad' = hostPad /\ pad' = [pad EXCEPT !.on = FALSE, !.left = @ - 1] /\ pad.left > 0
    BY <1>4 DEF PadLeaves, Sends
  <2>3. pad' \in [on : BOOLEAN, says : Said, left : 0..MaxChanges]
    BY <1>1, <2>2
  <2> QED
    BY <2>1, <2>2, <2>3 DEF PadsInv
<1>5. ASSUME NEW says \in Said, NEW due \in BOOLEAN, SendPad(says, due)
      PROVE  /\ air' \in [sent : Seq(OnItsWay), lose : Nat] /\ Len(air'.sent) <= PadsInFlight
             /\ last' \in Said /\ hostPad' = hostPad
  BY <1>5, Goes DEF SendPad, Sends, Said, OnItsWay
<1>6. ASSUME NEW due \in BOOLEAN, Poll(due) PROVE PadsInv'
  <2>1. SendPad(pad.says, due) /\ pad.says \in Said /\ pad' = pad
    BY <1>6 DEF Poll, PadsInv
  <2> QED
    BY <1>5, <2>1 DEF PadsInv
<1>7. ASSUME NEW due \in BOOLEAN, LetGo(due) PROVE PadsInv'
  <2>1. SendPad("rest", due) /\ "rest" \in Said /\ pad.left > 0 /\ pad' = [pad EXCEPT !.left = @ - 1]
    BY <1>7 DEF LetGo, Said
  <2>2. pad' \in [on : BOOLEAN, says : Said, left : 0..MaxChanges]
    BY <1>1, <2>1
  <2> QED
    BY <1>5, <2>1, <2>2 DEF PadsInv
<1>8. ASSUME NEW i \in 1..PadsInFlight, HostTakes(i) PROVE PadsInv'
  <2> DEFINE left == IF snapshots THEN SubSeq(air.sent, i + 1, Len(air.sent)) ELSE RemoveAt(air.sent, i)
  <2>1. /\ air.sent \in Seq(OnItsWay) /\ i \in DOMAIN air.sent /\ hostPad' = air.sent[i]
        /\ air' = [air EXCEPT !.sent = left] /\ pad' = pad /\ last' = last
    BY <1>8 DEF HostTakes, PadsInv
  <2>2. left \in Seq(OnItsWay) /\ Len(left) <= Len(air.sent)
    <3>1. CASE snapshots
      BY <2>1, <3>1, SubSeqProperties
    <3>2. CASE ~snapshots
      BY <2>1, <3>2, TakenOut
    <3> QED
      BY <3>1, <3>2
  <2> HIDE DEF left, OnItsWay
  <2>3. hostPad' \in OnItsWay
    BY <2>1
  <2>4. air' \in [sent : Seq(OnItsWay), lose : Nat] /\ air'.sent = left
    BY <2>1, <2>2 DEF PadsInv
  <2>5. Len(left) \in Nat /\ Len(air.sent) \in Nat /\ Len(air.sent) <= PadsInFlight /\ PadsInFlight \in Nat
    BY <2>1, <2>2 DEF PadsInv, PadsAssumption
  <2> QED
    BY <2>1, <2>2, <2>3, <2>4, <2>5 DEF PadsInv
<1>9. ASSUME NEW i \in 1..PadsInFlight, Lost(i) PROVE PadsInv'
  <2>1. /\ air.sent \in Seq(OnItsWay) /\ i \in DOMAIN air.sent /\ air.lose \in Nat /\ air.lose > 0
        /\ air' = [sent |-> RemoveAt(air.sent, i), lose |-> air.lose - 1] /\ UNCHANGED <<pad, last, hostPad>>
    BY <1>9 DEF Lost, PadsInv
  <2>2. RemoveAt(air.sent, i) \in Seq(OnItsWay) /\ Len(RemoveAt(air.sent, i)) = Len(air.sent) - 1
    BY <2>1, TakenOut
  <2>3. Len(air.sent) \in Nat /\ Len(air.sent) <= PadsInFlight /\ PadsInFlight \in Nat
    BY <2>1 DEF PadsInv, PadsAssumption
  <2> QED
    BY <2>1, <2>2, <2>3 DEF PadsInv
<1> QED
  BY <1>2, <1>3, <1>4, <1>6, <1>7, <1>8, <1>9 DEF PadsNext, Said

LEMMA PadsStart == ASSUME PadsAssumption, PadsInit PROVE PadsInv
  BY DEF PadsAssumption, PadsInit, PadsInv, Said, OnItsWay

LEMMA PadsInvTyped == ASSUME PadsInv PROVE PadsTypeOK
  BY DEF PadsInv, PadsTypeOK, Said, OnItsWay

(***************************************************************************)
(* The window's size.                                                      *)
(***************************************************************************)
WindowInv ==
    /\ window \in [size : Sizes, left : Nat] /\ resize \in [runs : BOOLEAN, size : Sizes]
    /\ live \in [is : {"off", "starts", "on"}, size : Sizes, left : Nat] /\ asked \in Seq(Sizes)

LEMMA WindowStarts == ASSUME WindowAssumption, WindowInit PROVE WindowInv
<1>1. MaxResizes \in Nat /\ MaxStarts \in Nat
  BY DEF WindowAssumption
<1> QED
  BY <1>1 DEF WindowInit, WindowInv

LEMMA WindowKeeps == ASSUME WindowInv, WindowNext PROVE WindowInv'
<1>1. ASSUME Resizes PROVE WindowInv'
  BY <1>1 DEF Resizes, WindowInv
<1>2. ASSUME ResizeTimer PROVE WindowInv'
  <2>1. SizeNow \in Sizes /\ asked \in Seq(Sizes)
    BY DEF SizeNow, WindowInv
  <2>2. asked' \in Seq(Sizes)
    BY <1>2, <2>1, AppendProperties DEF ResizeTimer
  <2> QED
    BY <1>2, <2>2 DEF ResizeTimer, WindowInv
<1>3. ASSUME HostRebuilds PROVE WindowInv'
  <2>1. Head(asked) \in Sizes /\ Tail(asked) \in Seq(Sizes)
    BY <1>3, HeadTailProperties DEF HostRebuilds, WindowInv
  <2> QED
    BY <1>3, <2>1 DEF HostRebuilds, WindowInv
<1>4. ASSUME StreamStarts PROVE WindowInv'
  BY <1>4 DEF StreamStarts, WindowInv
<1>5. ASSUME StreamIsOn PROVE WindowInv'
  BY <1>5 DEF StreamIsOn, WindowInv
<1>6. ASSUME StreamIsOff PROVE WindowInv'
  BY <1>6, EmptySeq DEF StreamIsOff, WindowInv
<1> QED
  BY <1>1, <1>2, <1>3, <1>4, <1>5, <1>6 DEF WindowNext

LEMMA WindowInvTyped == ASSUME WindowInv PROVE WindowTypeOK
  BY DEF WindowInv, WindowTypeOK

(***************************************************************************)
(* The covers.                                                             *)
(***************************************************************************)
Jobs == [of : Racks, id : Titles]
InHand(runs, held) == Len(runs) <= COVERS_DECODING /\ Len(held) + Len(runs) <= 3 * COVERS_PER_FRAME
CoversInv ==
    /\ rack \in Racks /\ art \subseteq Titles /\ artSent \subseteq Titles
    /\ toDecode \in Seq(Jobs) /\ decoding \in Seq(Jobs) /\ covers \in Seq(Jobs)
    /\ InHand(decoding, covers) /\ \A job \in handed : job.of = rack

(* As many start as there is room for, whatever waits. *)
LEMMA DecodesFit ==
    ASSUME CoversAssumption, NEW wait \in Seq(Jobs), NEW runs \in Seq(Jobs), NEW held \in Seq(Jobs),
           InHand(runs, held), DecodeNext(wait, runs, held)
    PROVE  /\ toDecode' \in Seq(Jobs) /\ decoding' \in Seq(Jobs) /\ covers' \in Seq(Jobs)
           /\ Len(decoding') <= COVERS_DECODING /\ Len(covers') + Len(decoding') <= 3 * COVERS_PER_FRAME
<1> DEFINE n == AtMost(Len(wait), Room(Len(runs), Len(held)))
           some == SubSeq(wait, 1, n)
<1>1. toDecode' = SubSeq(wait, n + 1, Len(wait)) /\ decoding' = runs \o some /\ covers' = held
  BY DEF DecodeNext
<1>2. /\ Len(wait) \in Nat /\ Len(runs) \in Nat /\ Len(held) \in Nat
      /\ COVERS_DECODING \in Nat /\ 3 * COVERS_PER_FRAME \in Nat
  BY DEF CoversAssumption
<1>3. /\ n \in 0..Len(wait) /\ n + Len(runs) <= COVERS_DECODING
      /\ n + Len(held) + Len(runs) <= 3 * COVERS_PER_FRAME
  BY <1>2 DEF InHand, AtMost, Room
<1> HIDE DEF n
<1>4. toDecode' \in Seq(Jobs)
  BY <1>1, <1>2, <1>3, SubSeqProperties
<1>5. some \in Seq(Jobs) /\ Len(some) = n
  BY <1>2, <1>3, SubSeqProperties
<1> HIDE DEF some
<1>6. runs \o some \in Seq(Jobs) /\ Len(runs \o some) = Len(runs) + n
  BY <1>5, ConcatProperties
<1> QED
  BY <1>1, <1>2, <1>3, <1>4, <1>6

LEMMA Asked ==
    ASSUME CoversAssumption, NEW o \in Racks, NEW T, T \subseteq Titles, NEW ids \in SetToSeqs(T)
    PROVE  FrameAsked(o, ids) \in Seq(Jobs)
<1>1. IsFiniteSet(T) /\ Cardinality(T) \in Nat
  BY FS_Subset, FS_CardinalityType DEF CoversAssumption
<1>2. ids \in [1..Cardinality(T) -> T]
  BY DEF SetToSeqs
<1>3. FrameAsked(o, ids) \in [1..Cardinality(T) -> Jobs]
  BY <1>2 DEF FrameAsked, Jobs
<1> QED
  BY <1>1, <1>3

LEMMA ListFits ==
    ASSUME CoversAssumption, CoversInv, NEW o \in Racks, NEW shown, shown \subseteq Titles, NEW sent, sent \subseteq Titles,
           ListsCovers(o, shown, sent)
    PROVE  /\ toDecode' \in Seq(Jobs) /\ decoding' \in Seq(Jobs) /\ covers' \in Seq(Jobs)
           /\ InHand(decoding', covers') /\ artSent' \subseteq Titles
<1>1. PICK ids \in SetToSeqs(shown \ sent) : DecodeNext(toDecode \o FrameAsked(o, ids), decoding, covers)
  BY DEF ListsCovers
<1>2. FrameAsked(o, ids) \in Seq(Jobs)
  BY <1>1, Asked
<1>3. toDecode \o FrameAsked(o, ids) \in Seq(Jobs)
  BY <1>2, ConcatProperties DEF CoversInv
<1>4. artSent' \subseteq Titles
  BY DEF ListsCovers
<1> QED
  BY <1>1, <1>3, <1>4, DecodesFit DEF CoversInv, InHand

LEMMA CoversStart == ASSUME CoversAssumption, CoversInit PROVE CoversInv
<1>1. rack \in Racks
  BY DEF CoversInit, CoversAssumption
<1>2. <<>> \in Seq(Jobs) /\ Len(<<>>) = 0
  BY EmptySeq
<1> QED
  BY <1>1, <1>2 DEF CoversInit, CoversAssumption, CoversInv, InHand

LEMMA CoversKeep == ASSUME CoversInv, CoversAssumption, CoversNext PROVE CoversInv'
<1>1. ASSUME ArtCame PROVE CoversInv'
  <2>1. art' \subseteq Titles /\ ListsCovers(rack, art', artSent) /\ rack' = rack /\ handed' = handed
    BY <1>1 DEF ArtCame, CoversInv
  <2> QED
    BY <2>1, ListFits DEF CoversInv, InHand
<1>2. ASSUME LibraryAgain PROVE CoversInv'
  BY <1>2, ListFits DEF LibraryAgain, CoversInv, InHand
<1>3. ASSUME NEW o \in Racks, NEW shown \in {{}, Titles}, LibraryBegins(o, shown) PROVE CoversInv'
  <2>1. shown \subseteq Titles /\ ListsCovers(o, shown, {}) /\ rack' = o /\ art' = shown /\ handed' = {}
    BY <1>3 DEF LibraryBegins
  <2> QED
    BY <2>1, ListFits DEF CoversInv, InHand
<1>4. ASSUME NEW i \in DOMAIN decoding
      PROVE  /\ RemoveAt(decoding, i) \in Seq(Jobs) /\ Len(RemoveAt(decoding, i)) = Len(decoding) - 1
             /\ decoding[i] \in Jobs /\ InHand(RemoveAt(decoding, i), covers)
             /\ InHand(RemoveAt(decoding, i), Append(covers, decoding[i]))
             /\ Append(covers, decoding[i]) \in Seq(Jobs)
  <2>1. RemoveAt(decoding, i) \in Seq(Jobs) /\ Len(RemoveAt(decoding, i)) = Len(decoding) - 1
    BY TakenOut DEF CoversInv
  <2>2. decoding[i] \in Jobs
    BY DEF CoversInv
  <2>3. Append(covers, decoding[i]) \in Seq(Jobs) /\ Len(Append(covers, decoding[i])) = Len(covers) + 1
    BY <2>2, AppendProperties DEF CoversInv
  <2>4. /\ Len(decoding) \in Nat /\ Len(covers) \in Nat
        /\ COVERS_DECODING \in Nat /\ 3 * COVERS_PER_FRAME \in Nat
    BY DEF CoversInv, CoversAssumption
  <2> QED
    BY <2>1, <2>2, <2>3, <2>4 DEF CoversInv, InHand
<1>5. ASSUME NEW i \in DOMAIN decoding, CoverCame(i) PROVE CoversInv'
  <2> DEFINE held == IF rack = decoding[i].of THEN Append(covers, decoding[i]) ELSE covers
  <2>1. DecodeNext(toDecode, RemoveAt(decoding, i), held) /\ UNCHANGED <<rack, art, artSent, handed>>
    BY <1>5 DEF CoverCame
  <2>2. held \in Seq(Jobs) /\ InHand(RemoveAt(decoding, i), held) /\ RemoveAt(decoding, i) \in Seq(Jobs)
    BY <1>4 DEF CoversInv
  <2>3. toDecode \in Seq(Jobs)
    BY DEF CoversInv
  <2> HIDE DEF held
  <2> QED
    BY <2>1, <2>2, <2>3, DecodesFit DEF CoversInv, InHand
<1>6. ASSUME NEW i \in DOMAIN decoding, CoverFailed(i) PROVE CoversInv'
  <2>1. DecodeNext(toDecode, RemoveAt(decoding, i), covers) /\ artSent' \subseteq Titles /\ UNCHANGED <<rack, art, handed>>
    BY <1>6 DEF CoverFailed, CoversInv
  <2>2. InHand(RemoveAt(decoding, i), covers) /\ RemoveAt(decoding, i) \in Seq(Jobs)
    BY <1>4
  <2>3. toDecode \in Seq(Jobs) /\ covers \in Seq(Jobs)
    BY DEF CoversInv
  <2> QED
    BY <2>1, <2>2, <2>3, DecodesFit DEF CoversInv, InHand
<1>7. ASSUME ConsoleFrame PROVE CoversInv'
  <2> DEFINE n == AtMost(COVERS_PER_FRAME, Len(covers))
             rest == SubSeq(covers, n + 1, Len(covers))
  <2>1. /\ DecodeNext(toDecode, decoding, rest) /\ UNCHANGED <<rack, art, artSent>>
        /\ handed' = handed \cup {covers[i] : i \in {j \in 1..n : Gives(covers[j])}}
    BY <1>7 DEF ConsoleFrame, FrameTakes
  <2>2. Len(covers) \in Nat /\ n \in 0..Len(covers)
    BY DEF AtMost, CoversInv, CoversAssumption
  <2> HIDE DEF n
  <2>3. rest \in Seq(Jobs) /\ Len(rest) <= Len(covers) /\ Len(rest) \in Nat
    BY <2>2, SubSeqProperties DEF CoversInv
  <2>4. \A job \in handed' : job.of = rack
    BY <2>1 DEF CoversInv, Gives
  <2> HIDE DEF rest
  <2>5. InHand(decoding, rest) /\ toDecode \in Seq(Jobs) /\ decoding \in Seq(Jobs)
    <3>1. Len(decoding) \in Nat /\ 3 * COVERS_PER_FRAME \in Nat
      BY DEF CoversInv, CoversAssumption
    <3> QED
      BY <2>2, <2>3, <3>1 DEF CoversInv, InHand
  <2> QED
    BY <2>1, <2>3, <2>4, <2>5, DecodesFit DEF CoversInv, InHand
<1> QED
  BY <1>1, <1>2, <1>3, <1>5, <1>6, <1>7 DEF CoversNext

LEMMA CoversInvTyped == ASSUME CoversInv PROVE CoversTypeOK /\ CoversInHand
<1>1. \A q \in {toDecode, decoding, covers} : \A i \in DOMAIN q : q[i] \in Jobs
  BY DEF CoversInv
<1>2. \A job \in Jobs : job.of \in Racks /\ job.id \in Titles
  BY DEF Jobs
<1> QED
  BY <1>1, <1>2 DEF CoversInv, InHand, CoversTypeOK, CoversInHand

(***************************************************************************)
(* The probes and the wakes.                                               *)
(***************************************************************************)
ReachInv ==
    /\ waking \in [DOMAIN waking -> 1..TRIES] /\ DOMAIN waking \subseteq Known
    /\ probe \in [fresh : SUBSET Known, asks : SUBSET Known] /\ config \in {"read", "asks", "owed"}

LEMMA ReachStarts == ASSUME ReachInit PROVE ReachInv
  BY DEF ReachInit, ReachInv

LEMMA ReachKeeps == ASSUME ReachInv, ReachAssumption, ReachNext PROVE ReachInv'
<1>1. ASSUME Probe PROVE ReachInv'
  BY <1>1 DEF Probe, ReachInv
<1>2. ASSUME ConfigAsks \/ ConfigCame PROVE ReachInv'
  BY <1>2 DEF ConfigAsks, ConfigCame, ReachInv
<1>3. ASSUME NEW o \in Known, Probed(o) PROVE ReachInv'
  BY <1>3 DEF Probed, ReachInv
<1>4. ASSUME NEW o \in Known, ReachStale(o) PROVE ReachInv'
  BY <1>4 DEF ReachStale, ReachInv
<1>5. ASSUME NEW o \in Known, Wake(o) PROVE ReachInv'
  <2>1. TRIES \in 1..TRIES
    BY DEF ReachAssumption
  <2> QED
    BY <1>5, <2>1 DEF Wake, ReachInv
<1>6. ASSUME NEW o \in Known, waking' = Without(o), UNCHANGED config, probe' \in [fresh : SUBSET Known, asks : SUBSET Known]
      PROVE  ReachInv'
  BY <1>6 DEF Without, ReachInv
<1>7. ASSUME NEW o \in Known, WakeRefused(o) PROVE ReachInv'
  BY <1>6, <1>7 DEF WakeRefused, ReachInv
<1>8. ASSUME NEW o \in Known, WakeTried(o) PROVE ReachInv'
  <2>1. probe' \in [fresh : SUBSET Known, asks : SUBSET Known] /\ UNCHANGED config
    BY <1>8 DEF WakeTried, Asks, ReachInv
  <2>2. CASE waking[o] > 1 /\ waking' = [waking EXCEPT ![o] = @ - 1]
    <3>1. o \in DOMAIN waking /\ waking[o] - 1 \in 1..TRIES
      BY <1>8, <2>2 DEF WakeTried, ReachInv, ReachAssumption
    <3> QED
      BY <2>1, <2>2, <3>1 DEF ReachInv
  <2>3. CASE waking' = Without(o)
    BY <1>6, <2>1, <2>3
  <2> QED
    BY <1>8, <2>2, <2>3 DEF WakeTried
<1> QED
  BY <1>1, <1>2, <1>3, <1>4, <1>5, <1>7, <1>8 DEF ReachNext

LEMMA ReachInvTyped == ASSUME ReachInv PROVE ReachTypeOK
  BY DEF ReachInv, ReachTypeOK

(***************************************************************************)
(* Together.                                                               *)
(***************************************************************************)
MediaInv == VideoInv /\ SoundInv /\ MicInv
PageInv == PadsInv /\ WindowInv /\ CoversInv /\ ReachInv

LEMMA MediaStands == ASSUME MediaInv, UNCHANGED mediaVars PROVE MediaInv'
<1>1. UNCHANGED <<pipe, making, alive, sound, sink, mic, starting, tracks, contexts, session>>
  BY DEF mediaVars, videoPipeVars, audioVars, micVars
<1>2. VideoInv'
  BY <1>1 DEF MediaInv, VideoInv, OneFrame, PlanesApart, ClosedHoldsNothing
<1>3. SoundInv'
  BY <1>1 DEF MediaInv, SoundInv, ClosedIsSilent, InSink, Queued
<1>4. MicInv'
  BY <1>1 DEF MediaInv, MicInv, MicTyped, StartsAreOld, PromptHoldsNothing, HeldByThePipe
<1> QED
  BY <1>2, <1>3, <1>4 DEF MediaInv

LEMMA PageStands == ASSUME PageInv, UNCHANGED pageVars PROVE PageInv'
<1>1. /\ UNCHANGED <<pad, last, air, hostPad, window, live, resize, asked>>
      /\ UNCHANGED <<rack, art, artSent, toDecode, decoding, covers, handed, waking, probe, config>>
  BY DEF pageVars, padVars, windowVars, coverVars, reachVars
<1> QED
  BY <1>1 DEF PageInv, PadsInv, WindowInv, CoversInv, ReachInv

LEMMA MediaSteps == ASSUME MediaInv, MediaNext PROVE MediaInv'
<1>1. CASE VideoPipeNext /\ UNCHANGED <<audioVars, micVars>>
  <2>1. VideoInv'
    BY <1>1, VideoPipeKeeps, VideoPipeAssumption DEF MediaInv
  <2>2. UNCHANGED <<sound, sink, mic, starting, tracks, contexts, session>>
    BY <1>1 DEF audioVars, micVars
  <2>3. SoundInv'
    BY <2>2 DEF MediaInv, SoundInv, ClosedIsSilent, InSink, Queued
  <2>4. MicInv'
    BY <2>2 DEF MediaInv, MicInv, MicTyped, StartsAreOld, PromptHoldsNothing, HeldByThePipe
  <2> QED
    BY <2>1, <2>3, <2>4 DEF MediaInv
<1>2. CASE AudioNext /\ UNCHANGED <<videoPipeVars, micVars>>
  <2>1. SoundInv'
    BY <1>2, AudioKeeps, AudioAssumption DEF MediaInv
  <2>2. UNCHANGED <<pipe, making, alive, mic, starting, tracks, contexts, session>>
    BY <1>2 DEF videoPipeVars, micVars
  <2>3. VideoInv'
    BY <2>2 DEF MediaInv, VideoInv, OneFrame, PlanesApart, ClosedHoldsNothing
  <2>4. MicInv'
    BY <2>2 DEF MediaInv, MicInv, MicTyped, StartsAreOld, PromptHoldsNothing, HeldByThePipe
  <2> QED
    BY <2>1, <2>3, <2>4 DEF MediaInv
<1>3. CASE MicNext /\ UNCHANGED <<videoPipeVars, audioVars>>
  <2>1. MicInv'
    BY <1>3, MicKeeps, MicAssumption DEF MediaInv
  <2>2. UNCHANGED <<pipe, making, alive, sound, sink>>
    BY <1>3 DEF videoPipeVars, audioVars
  <2>3. VideoInv'
    BY <2>2 DEF MediaInv, VideoInv, OneFrame, PlanesApart, ClosedHoldsNothing
  <2>4. SoundInv'
    BY <2>2 DEF MediaInv, SoundInv, ClosedIsSilent, InSink, Queued
  <2> QED
    BY <2>1, <2>3, <2>4 DEF MediaInv
<1> QED
  BY <1>1, <1>2, <1>3 DEF MediaNext

LEMMA PageSteps == ASSUME PageInv, PageNext PROVE PageInv'
<1>1. ASSUME PadsNext, UNCHANGED <<windowVars, coverVars, reachVars>> PROVE PageInv'
  <2>1. PadsInv'
    BY <1>1, PadsKeep, PadsAssumption DEF PageInv
  <2>2. UNCHANGED <<window, live, resize, asked, rack, art, artSent, toDecode, decoding, covers, handed, waking, probe, config>>
    BY <1>1 DEF windowVars, coverVars, reachVars
  <2> QED
    BY <2>1, <2>2 DEF PageInv, WindowInv, CoversInv, ReachInv
<1>2. ASSUME WindowNext, UNCHANGED <<padVars, coverVars, reachVars>> PROVE PageInv'
  <2>1. WindowInv'
    BY <1>2, WindowKeeps DEF PageInv
  <2>2. UNCHANGED <<pad, last, air, hostPad, rack, art, artSent, toDecode, decoding, covers, handed, waking, probe, config>>
    BY <1>2 DEF padVars, coverVars, reachVars
  <2> QED
    BY <2>1, <2>2 DEF PageInv, PadsInv, CoversInv, ReachInv
<1>3. ASSUME CoversNext, UNCHANGED <<padVars, windowVars, reachVars>> PROVE PageInv'
  <2>1. CoversInv'
    BY <1>3, CoversKeep, CoversAssumption DEF PageInv
  <2>2. UNCHANGED <<pad, last, air, hostPad, window, live, resize, asked, waking, probe, config>>
    BY <1>3 DEF padVars, windowVars, reachVars
  <2> QED
    BY <2>1, <2>2 DEF PageInv, PadsInv, WindowInv, ReachInv
<1>4. ASSUME ReachNext, UNCHANGED <<padVars, windowVars, coverVars>> PROVE PageInv'
  <2>1. ReachInv'
    BY <1>4, ReachKeeps, ReachAssumption DEF PageInv
  <2>2. UNCHANGED <<pad, last, air, hostPad, window, live, resize, asked, rack, art, artSent, toDecode, decoding, covers, handed>>
    BY <1>4 DEF padVars, windowVars, coverVars
  <2> QED
    BY <2>1, <2>2 DEF PageInv, PadsInv, WindowInv, CoversInv
<1> QED
  BY <1>1, <1>2, <1>3, <1>4 DEF PageNext

LEMMA MediaInvariant == Spec => [](MediaInv /\ PageInv)
<1>1. Init => MediaInv /\ PageInv
  BY VideoPipeStarts, SoundStarts, MicStarts, PadsStart, WindowStarts, CoversStart, ReachStarts,
     VideoPipeAssumption, AudioAssumption, MicAssumption, PadsAssumption, WindowAssumption, CoversAssumption
  DEF Init, MediaInv, PageInv
<1>2. MediaInv /\ PageInv /\ [Next]_vars => (MediaInv /\ PageInv)'
  <2> SUFFICES ASSUME MediaInv, PageInv, [Next]_vars PROVE MediaInv' /\ PageInv'
    OBVIOUS
  <2>1. CASE MediaNext /\ UNCHANGED <<part, pageVars>>
    BY <2>1, MediaSteps, PageStands
  <2>2. CASE PageNext /\ UNCHANGED <<part, mediaVars>>
    BY <2>2, PageSteps, MediaStands
  <2>3. CASE UNCHANGED vars
    BY <2>3, PageStands, MediaStands DEF vars
  <2> QED
    BY <2>1, <2>2, <2>3 DEF Next
<1> QED
  BY <1>1, <1>2, PTL DEF Spec

(* MCMedia's types, of all seven components. *)
THEOREM MediaTyped == Spec => []TypeOK
<1>1. MediaInv /\ PageInv => TypeOK
  BY VideoInvTyped, SoundInvTyped, MicInvTyped, PadsInvTyped, WindowInvTyped, CoversInvTyped, ReachInvTyped, AudioAssumption
  DEF MediaInv, PageInv, TypeOK
<1> QED
  BY <1>1, MediaInvariant, PTL

(* A closed pipe, video's (video.ts, close) or sound's (audio.ts, close), holds nothing that what it
   still awaited brings up again, and a microphone turned off no track (mic.ts, stop), in whatever
   order plane, worklet, prompt and the session's end come, and however often it is turned on. *)
THEOREM MediaLetsGo == Spec => []NothingLeftOpen
<1>1. MediaInv => NothingLeftOpen
  BY VideoInvTyped, SoundInvTyped, MicInvTyped, AudioAssumption DEF MediaInv, NothingLeftOpen
<1> QED
  BY <1>1, MediaInvariant, PTL

(* The covers in the page's hands (console.ts, decodeNext and frame) are never more than three
   frames take, for any library, and the console is given none of another shelf's. *)
THEOREM CoversHold == Spec => []CoversInHand
<1>1. PageInv => CoversInHand
  BY CoversInvTyped DEF PageInv
<1> QED
  BY <1>1, MediaInvariant, PTL
=============================================================================
