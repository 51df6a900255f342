--------------------------------- MODULE Mic ---------------------------------
(***************************************************************************)
(* The microphone (packages/stream/src/mic.ts): a start awaits the         *)
(* permission prompt, the worklet and the context in turn, and may be      *)
(* stopped, or stopped and started again, at each.  A pipe dropped with    *)
(* its session goes on as an overtaken start.                              *)
(***************************************************************************)
EXTENDS Naturals

CONSTANT MaxGen   \* bound: starts and stops

ASSUME MicAssumption == MaxGen \in Nat

VARIABLES
    mic,       \* MicPipe: _state, gen, and whose stream, ctx and encoder it holds (0 is null)
    starting,  \* starts under way, by their gen: what each awaits
    tracks,    \* microphone streams that run, by the start that opened them
    contexts,  \* audio contexts open, likewise
    session    \* Safari's navigator.audioSession

micVars == <<mic, starting, tracks, contexts, session>>

Gens == 1..MaxGen
MicInit ==
    /\ mic = [state |-> "off", gen |-> 0, stream |-> 0, ctx |-> 0, encoder |-> 0]
    /\ starting = [g \in Gens |-> "none"] /\ tracks = {} /\ contexts = {} /\ session = "playback"

Awaits(g, stage) == starting' = [starting EXCEPT ![g] = stage]
Returns(g) == Awaits(g, "none")

MicStart ==
    /\ mic.state \in {"off", "denied"} /\ mic.gen < MaxGen
    /\ mic' = [mic EXCEPT !.gen = @ + 1, !.state = "starting"]
    /\ Awaits(mic'.gen, "prompt") /\ session' = "play-and-record" /\ UNCHANGED <<tracks, contexts>>

TracksLeft == tracks   \* mutant
TracksStopped == tracks \ {mic.stream}

(* stop(): with the session too. *)
Stops(gen) ==
    /\ mic' = [state |-> "off", gen |-> gen, stream |-> 0, ctx |-> 0, encoder |-> 0]
    /\ tracks' = TracksStopped /\ contexts' = contexts \ {mic.ctx} /\ session' = "playback"

MicStop ==
    /\ mic.state # "off" /\ mic.gen < MaxGen
    /\ Stops(mic.gen + 1) /\ UNCHANGED starting

OvertakenNever(g) == FALSE   \* mutant
Overtaken(g) == g # mic.gen

Drop(g) ==
    /\ tracks' = tracks \ {g} /\ contexts' = contexts \ {g} /\ Returns(g) /\ UNCHANGED <<mic, session>>

(* getUserMedia. *)
Denied(g) ==
    /\ starting[g] = "prompt" /\ Returns(g) /\ UNCHANGED <<tracks, contexts>>
    /\ IF Overtaken(g) THEN UNCHANGED <<mic, session>>
       ELSE mic' = [mic EXCEPT !.state = "denied"] /\ session' = "playback"

Granted(g) ==
    /\ starting[g] = "prompt" /\ UNCHANGED session
    /\ IF Overtaken(g) THEN Returns(g) /\ UNCHANGED <<mic, tracks, contexts>>
       ELSE /\ mic' = [mic EXCEPT !.stream = g, !.ctx = g]
            /\ tracks' = tracks \cup {g} /\ contexts' = contexts \cup {g} /\ Awaits(g, "worklet")

(* addModule; then the encoder and the graph, up to ctx.resume. *)
WorkletCame(g) ==
    /\ starting[g] = "worklet"
    /\ IF Overtaken(g) THEN Drop(g)
       ELSE mic' = [mic EXCEPT !.encoder = g] /\ Awaits(g, "resume") /\ UNCHANGED <<tracks, contexts, session>>

Resumed(g) ==
    /\ starting[g] = "resume"
    /\ IF Overtaken(g) THEN Drop(g)
       ELSE mic' = [mic EXCEPT !.state = "on"] /\ Returns(g) /\ UNCHANGED <<tracks, contexts, session>>

(* A step that throws: the pipe is stopped, which moves gen on. *)
StartFailed(g) ==
    /\ starting[g] \in {"worklet", "resume"}
    /\ IF Overtaken(g) THEN Drop(g) ELSE mic.gen < MaxGen /\ Stops(mic.gen + 1) /\ Returns(g)

EncoderFailed == mic.encoder # 0 /\ mic.gen < MaxGen /\ Stops(mic.gen + 1) /\ UNCHANGED starting

(* AudioPipe.open, of a session that turns the host's sound on. *)
SoundOpens == session # "playback" /\ session' = "playback" /\ UNCHANGED <<mic, starting, tracks, contexts>>

MicNext ==
    \/ MicStart \/ MicStop \/ EncoderFailed \/ SoundOpens
    \/ \E g \in Gens : Denied(g) \/ Granted(g) \/ WorkletCame(g) \/ Resumed(g) \/ StartFailed(g)

MicSpec == MicInit /\ [][MicNext]_micVars

(***************************************************************************)
(* Correctness.                                                            *)
(***************************************************************************)
MicTypeOK ==
    /\ mic.state \in {"off", "starting", "on", "denied"} /\ mic.gen \in 0..MaxGen
    /\ {mic.stream, mic.ctx, mic.encoder} \subseteq 0..mic.gen

(* "The microphone must not stay open": one that runs is the pipe's own, wanted and not overtaken;
   turned off, nothing captures, and Safari's session plays again. *)
MicLetsGo ==
    /\ tracks \subseteq {mic.gen} /\ contexts \subseteq {mic.gen}
    /\ tracks # {} => mic.state \in {"starting", "on"}
    /\ mic.state \in {"off", "denied"} => session = "playback" /\ mic.encoder = 0
=============================================================================
