-------------------------------- MODULE Audio --------------------------------
(***************************************************************************)
(* The host's sound (packages/stream/src/audio.ts): AudioPipe hands each   *)
(* Opus frame to the browser's decoder and the PCM to a worklet, whose     *)
(* ring plays on the audio thread.  The graph comes up while frames        *)
(* already arrive, and a session may end before it is.                     *)
(*                                                                         *)
(* A frame's PCM is queued in the step that decodes it: a pipe that is     *)
(* closed takes nothing of what its decoder still holds.                   *)
(***************************************************************************)
EXTENDS Naturals

CONSTANTS
    MaxEarly,   \* frames held before the worklet is ready: 64
    Chunk,      \* a frame's samples, in render quanta of the audio thread
    Prime,      \* processorOptions.prime, likewise
    Slack,
    Cap,
    HalfSecond

ASSUME AudioAssumption ==
    /\ {MaxEarly, Chunk, Prime, Slack, Cap, HalfSecond} \subseteq Nat \ {0}
    /\ Chunk <= Prime /\ Prime + Slack < Cap

VARIABLES
    sound,   \* AudioPipe
    sink     \* PunktfunkSink

audioVars == <<sound, sink>>

NoSink == [chunks |-> 0, offset |-> 0, primed |-> FALSE, over |-> 0]
NoSound ==
    [life |-> "none", ctx |-> "none", loading |-> FALSE, node |-> FALSE, decoder |-> "none",
     rebuilt |-> FALSE, early |-> 0, resume |-> FALSE, hook |-> FALSE]

AudioInit == sound = NoSound /\ sink = NoSink

(***************************************************************************)
(* The sink: chunks, the first of which is played up to `offset`.          *)
(***************************************************************************)
Queued(s) == s.chunks * Chunk - s.offset

(* trim(prime): whole chunks go, the last never. *)
Trim(s) ==
    LET Fits(n) == (s.chunks - n) * Chunk <= Prime \/ s.chunks - n = 1
    IN  IF Queued(s) <= Prime \/ s.chunks <= 1 THEN s
        ELSE LET gone == CHOOSE n \in 1..s.chunks : Fits(n) /\ \A k \in 1..n - 1 : ~Fits(k)
             IN  [s EXCEPT !.chunks = @ - gone, !.offset = 0]

Message(s) ==
    LET got == [s EXCEPT !.chunks = @ + 1]
    IN  IF Queued(got) > Cap THEN Trim(got) ELSE got

OverFromCap(s) == IF Queued(s) > Cap THEN s.over + 1 ELSE 0   \* mutant
OverFor(s) == IF Queued(s) > Prime + Slack THEN s.over + 1 ELSE 0

(* process, for one quantum. *)
Rendered(s) ==
    LET over == OverFor(s)
        t == IF over > HalfSecond THEN [Trim(s) EXCEPT !.over = 0] ELSE [s EXCEPT !.over = over]
        read == t.offset + 1
    IN  CASE Queued(t) = 0 -> [NoSink EXCEPT !.over = t.over]
          [] Queued(t) > 0 /\ read = Chunk -> [t EXCEPT !.primed = TRUE, !.chunks = @ - 1, !.offset = 0]
          [] Queued(t) > 0 /\ read < Chunk -> [t EXCEPT !.primed = TRUE, !.offset = read]

Process ==
    /\ sound.node /\ sound.ctx = "running"
    /\ sink' = IF sink.primed \/ Queued(sink) >= Prime THEN Rendered(sink) ELSE sink
    /\ UNCHANGED sound

(***************************************************************************)
(* The pipe.                                                               *)
(***************************************************************************)
Attach ==
    /\ sound.life = "none"
    /\ sound' = [sound EXCEPT !.life = "open", !.hook = TRUE, !.ctx = "suspended", !.loading = TRUE]
    /\ UNCHANGED sink

OpensAnyway == TRUE   \* mutant
StillOpen == sound.ctx # "none"

(* open, past its await: the frames that came early are decoded. *)
Loaded ==
    /\ sound.loading
    /\ IF StillOpen
       THEN /\ sound' = [sound EXCEPT !.loading = FALSE, !.node = TRUE, !.decoder = "configured",
                                      !.resume = TRUE, !.early = 0]
            /\ LET held == [NoSink EXCEPT !.chunks = sound.early]
               IN  sink' = IF Queued(held) > Cap THEN Trim(held) ELSE held
       ELSE sound' = [sound EXCEPT !.loading = FALSE] /\ UNCHANGED sink

(* addModule rejects, and nothing asks again. *)
LoadFailed == sound.loading /\ sound' = [sound EXCEPT !.loading = FALSE] /\ UNCHANGED sink

(* A gesture resumes the context; the browser may suspend it. *)
Gesture == sound.resume /\ sound' = [sound EXCEPT !.ctx = "running"] /\ UNCHANGED sink
Interrupted == sound.ctx = "running" /\ sound' = [sound EXCEPT !.ctx = "suspended"] /\ UNCHANGED sink

RebuildNever(s) == FALSE   \* mutant
Rebuilds(s) == s.decoder = "closed" /\ ~s.rebuilt

(* frame, and decode. *)
AudioFrame ==
    LET ready == sound.decoder = "configured" \/ Rebuilds(sound)
    IN  /\ sound.hook
        /\ sound' = CASE sound.decoder = "none"  -> [sound EXCEPT !.early = IF @ < MaxEarly THEN @ + 1 ELSE @]
                      [] Rebuilds(sound)         -> [sound EXCEPT !.decoder = "configured", !.rebuilt = TRUE]
                      [] sound.decoder # "none" /\ ~Rebuilds(sound) -> sound
        /\ sink' = IF ready THEN Message(sink) ELSE sink

(* A bad packet closes a decoder for good: its error comes later. *)
BadPacket == sound.decoder = "configured" /\ sound' = [sound EXCEPT !.decoder = "closed"] /\ UNCHANGED sink

SecondPasses == sound.rebuilt /\ sound' = [sound EXCEPT !.rebuilt = FALSE] /\ UNCHANGED sink

(* close *)
CloseSound ==
    /\ sound.life = "open"
    /\ sound' = [NoSound EXCEPT !.life = "closed", !.loading = sound.loading] /\ sink' = NoSink

AudioNext ==
    \/ Attach \/ Loaded \/ LoadFailed \/ Gesture \/ Interrupted
    \/ AudioFrame \/ BadPacket \/ SecondPasses \/ Process \/ CloseSound

(* The audio thread renders, time passes, and a live session's frames come. *)
AudioFair == WF_audioVars(Process) /\ WF_audioVars(SecondPasses) /\ WF_audioVars(AudioFrame)
AudioSpec == AudioInit /\ [][AudioNext]_audioVars /\ AudioFair

(***************************************************************************)
(* Correctness.                                                            *)
(***************************************************************************)
AudioTypeOK ==
    /\ sound.early \in 0..MaxEarly /\ sink.offset \in 0..Chunk - 1
    /\ sink.chunks \in Nat /\ Queued(sink) <= Cap /\ sink.over \in 0..HalfSecond

(* A pipe closed while its worklet loads brings nothing up afterwards. *)
ClosedIsSilent ==
    sound.life = "closed" =>
        /\ sound.ctx = "none" /\ sound.decoder = "none"
        /\ ~sound.node /\ ~sound.resume /\ ~sound.hook /\ sound.early = 0

(* "Latency cannot creep": a backlog past what the link's jitter needs is played or trimmed off,
   however frames arrive, while the context runs. *)
LatencyFalls ==
    (sound.ctx = "running" /\ Queued(sink) > Prime + Slack)
        ~> (sound.ctx # "running" \/ Queued(sink) <= Prime + Slack)

(* "One bad packet closes a decoder for good ... a fresh one loses only that packet": sound comes
   back while frames do. *)
SoundComesBack == sound.decoder = "closed" ~> sound.decoder # "closed"
=============================================================================
