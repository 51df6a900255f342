------------------------------ MODULE VideoPipe ------------------------------
(***************************************************************************)
(* The decoder and the plane of one stream: VideoPipe of video.ts.  Making *)
(* a plane and trying accelerations are awaited; meanwhile the host may    *)
(* send another configuration, the GPU may go, the decoder may fail, and   *)
(* the stream may be closed.                                               *)
(***************************************************************************)
EXTENDS Integers, FiniteSets

CONSTANTS
    Accelerations,   \* how many ACCELERATIONS there are
    MaxConfigs,      \* bound: configurations of the host
    MaxPlanes,       \* bound: planes made
    MaxErrors        \* bound: errors of decoders that had produced a frame

ASSUME VideoPipeAssumption == {Accelerations, MaxConfigs, MaxPlanes, MaxErrors} \subseteq Nat \ {0}

VARIABLES
    pipe,      \* the VideoPipe
    making,    \* planes being made: createPlane has yet to resolve
    alive,     \* planes made and not destroyed
    errors,    \* the bounds' counter
    reported   \* what the engine was told: HDR refused, configurations no decoder takes

videoPipeVars == <<pipe, making, alive, errors, reported>>

NoPlane == 0
HdrRefused == 0   \* among the numbers of configurations, in what is reported

(* decoder: as WebCodecs names its states, or none.  frames: those handed to the page and not
   closed; `pending` is one.  rebuild: no, waits (the half second), or the next acceleration to try. *)
VideoPipeInit ==
    /\ pipe = [plane |-> NoPlane, decoder |-> "none", needKey |-> TRUE, asked |-> FALSE,
               hdr |-> FALSE, hdrChecked |-> FALSE, accel |-> 1, stuck |-> FALSE,
               rebuild |-> <<"no">>, pending |-> FALSE, frames |-> 0, config |-> 0, closed |-> FALSE]
    /\ making = {} /\ alive = {} /\ errors = 0 /\ reported = {}

(* rebuild(): one at a time, and none without a plane. *)
RebuildStarts(p) ==
    IF p.rebuild # <<"no">> \/ p.plane = NoPlane THEN p ELSE [p EXCEPT !.rebuild = <<"waits">>]

(* configure() on a plane: a fresh decoder; the configuration it refuses outright is an error. *)
Configured(p, refused) ==
    LET q == [p EXCEPT !.needKey = TRUE, !.asked = FALSE, !.stuck = FALSE, !.hdrChecked = FALSE,
                       !.decoder = IF refused THEN "unconfigured" ELSE "configured"]
    IN  IF refused THEN RebuildStarts(q) ELSE q

(* configure(): with no plane it first makes one. *)
Configure(p) ==
    IF p.plane = NoPlane
    THEN /\ Cardinality(making \cup alive) < MaxPlanes
         /\ \E m \in (1..MaxPlanes) \ (making \cup alive) : making' = making \cup {m}
         /\ pipe' = p
    ELSE /\ \E refused \in BOOLEAN : pipe' = Configured(p, refused)
         /\ UNCHANGED making

(* __pfOnVideoConfig: a Welcome or a Reconfigured.  It starts at hardware again. *)
OnVideoConfig ==
    /\ ~pipe.closed /\ pipe.config < MaxConfigs
    /\ \E hdr \in BOOLEAN :
        Configure([pipe EXCEPT !.accel = 1, !.hdr = hdr, !.config = @ + 1])
    /\ UNCHANGED <<alive, errors, reported>>

PlaneMadeAnyway(m) ==   \* mutant
    /\ m \in making /\ making' = making \ {m} /\ alive' = alive \cup {m}
    /\ \E refused \in BOOLEAN : pipe' = Configured([pipe EXCEPT !.plane = m], refused)
    /\ UNCHANGED <<errors, reported>>
(* createPlane resolves.  A pipe closed meanwhile destroys what was made. *)
PlaneMade(m) ==
    /\ m \in making /\ making' = making \ {m}
    /\ IF pipe.closed THEN UNCHANGED <<pipe, alive>>
       ELSE /\ alive' = alive \cup {m}
            /\ \E refused \in BOOLEAN : pipe' = Configured([pipe EXCEPT !.plane = m], refused)
    /\ UNCHANGED <<errors, reported>>

(* No plane this canvas can hold: the picture stays black. *)
PlaneRefused(m) ==
    m \in making /\ making' = making \ {m} /\ UNCHANGED <<pipe, alive, errors, reported>>

(* replane(): the GPU state of a plane is gone. *)
PlaneLost(m) ==
    /\ m \in alive /\ errors < MaxErrors /\ errors' = errors + 1
    /\ ~pipe.closed /\ pipe.plane # NoPlane
    /\ alive' = alive \ {pipe.plane}
    /\ Configure([pipe EXCEPT !.plane = NoPlane])
    /\ UNCHANGED reported

(* The decoder reports an error and is closed.  A run of them with frames between is bounded. *)
DecoderError ==
    /\ pipe.decoder = "configured"
    /\ IF pipe.stuck THEN errors < MaxErrors /\ errors' = errors + 1 ELSE UNCHANGED errors
    /\ pipe' = RebuildStarts([pipe EXCEPT !.decoder = "closed"])
    /\ UNCHANGED <<making, alive, reported>>

(***************************************************************************)
(* rebuild() goes on.                                                      *)
(***************************************************************************)
RebuildWaited ==
    /\ pipe.rebuild = <<"waits">>
    /\ pipe' = [pipe EXCEPT !.rebuild = <<"tries", pipe.accel + (IF pipe.stuck THEN 0 ELSE 1)>>]
    /\ UNCHANGED <<making, alive, errors, reported>>

Tries == pipe.rebuild[1] = "tries"

(* acceleration(): the browser does not take this one. *)
AccelerationRefused ==
    /\ Tries /\ pipe.rebuild[2] <= Accelerations
    /\ pipe' = [pipe EXCEPT !.rebuild[2] = @ + 1]
    /\ UNCHANGED <<making, alive, errors, reported>>

(* Closed meanwhile, or a working decoder already built. *)
Superseded(p) == p.plane = NoPlane \/ p.decoder = "configured"

RebuildStays ==   \* mutant: `rebuilding` is cleared only by a rebuild that went through
    /\ Tries /\ LET p == [pipe EXCEPT !.rebuild = <<"no">>]
       IN  IF Superseded(p) THEN pipe' = [pipe EXCEPT !.rebuild = <<"superseded">>] /\ UNCHANGED reported
           ELSE IF pipe.rebuild[2] > Accelerations
           THEN pipe' = p /\ reported' = reported \cup {p.config}
           ELSE /\ \E refused \in BOOLEAN :
                    pipe' = [Configured([p EXCEPT !.accel = pipe.rebuild[2]], refused) EXCEPT !.asked = TRUE]
                /\ UNCHANGED reported
    /\ UNCHANGED <<making, alive, errors>>
(* An acceleration is taken, or none is left.  The key frame is asked for here. *)
RebuildEnds ==
    /\ Tries /\ LET p == [pipe EXCEPT !.rebuild = <<"no">>]
       IN  IF Superseded(p) THEN pipe' = p /\ UNCHANGED reported
           ELSE IF pipe.rebuild[2] > Accelerations
           THEN pipe' = p /\ reported' = reported \cup {p.config}
           ELSE /\ \E refused \in BOOLEAN :
                    pipe' = [Configured([p EXCEPT !.accel = pipe.rebuild[2]], refused) EXCEPT !.asked = TRUE]
                /\ UNCHANGED reported
    /\ UNCHANGED <<making, alive, errors>>

(***************************************************************************)
(* Frames.                                                                 *)
(***************************************************************************)

(* submit(): an access unit the decoder takes, or a delta it cannot: the key frame is asked for. *)
Submit(key) ==
    /\ pipe.decoder = "configured"
    /\ pipe' = IF pipe.needKey /\ ~key THEN [pipe EXCEPT !.asked = TRUE] ELSE [pipe EXCEPT !.needKey = FALSE]
    /\ UNCHANGED <<making, alive, errors, reported>>

(* onFrame(): the first proves the acceleration, and of an HDR configure shows whether the engine
   converted it.  A frame the gate holds is closed; one shown takes the place of the pending one. *)
OnFrame(converted, held) ==
    /\ pipe.decoder = "configured" /\ ~pipe.needKey
    /\ pipe' = [pipe EXCEPT
            !.stuck = TRUE, !.hdrChecked = @ \/ pipe.hdr,
            !.pending = @ \/ ~held,
            !.frames = @ + 1 - (IF held \/ pipe.pending THEN 1 ELSE 0)]
    /\ reported' = IF pipe.hdr /\ ~pipe.hdrChecked /\ converted THEN reported \cup {HdrRefused} ELSE reported
    /\ UNCHANGED <<making, alive, errors>>

(* present(): once per animation frame; the frame is closed even if the plane throws. *)
Present ==
    /\ pipe.pending /\ pipe.plane # NoPlane
    /\ pipe' = [pipe EXCEPT !.pending = FALSE, !.frames = @ - 1]
    /\ UNCHANGED <<making, alive, errors, reported>>

Close ==
    /\ ~pipe.closed
    /\ pipe' = [pipe EXCEPT !.closed = TRUE, !.decoder = "none", !.plane = NoPlane,
                            !.frames = @ - (IF pipe.pending THEN 1 ELSE 0), !.pending = FALSE]
    /\ alive' = alive \ {pipe.plane}
    /\ UNCHANGED <<making, errors, reported>>

VideoPipeNext ==
    \/ OnVideoConfig \/ DecoderError \/ RebuildWaited \/ AccelerationRefused \/ RebuildEnds
    \/ \E m \in 1..MaxPlanes : PlaneMade(m) \/ PlaneRefused(m) \/ PlaneLost(m)
    \/ \E key \in BOOLEAN : Submit(key)
    \/ \E converted, held \in BOOLEAN : OnFrame(converted, held)
    \/ Present \/ Close

(* The browser answers whether it takes a configuration, and timers run out. *)
VideoPipeFair ==
    /\ WF_videoPipeVars(RebuildWaited)
    /\ WF_videoPipeVars(RebuildEnds)

VideoPipeSpec == VideoPipeInit /\ [][VideoPipeNext]_videoPipeVars /\ VideoPipeFair

(***************************************************************************)
(* Correctness.                                                            *)
(***************************************************************************)
VideoPipeTypeOK ==
    /\ pipe.plane \in 0..MaxPlanes /\ pipe.decoder \in {"none", "unconfigured", "configured", "closed"}
    /\ pipe.accel \in 1..Accelerations /\ pipe.rebuild[1] \in {"no", "waits", "tries"}
    /\ making \subseteq 1..MaxPlanes /\ alive \subseteq 1..MaxPlanes /\ making \cap alive = {}
    /\ pipe.frames \in 0..1

(* A closed pipe holds no decoder, no frame and no plane, whatever was awaited as it closed. *)
ClosedHoldsNothing == pipe.closed => pipe.decoder = "none" /\ pipe.frames = 0 /\ pipe.plane = NoPlane

(* A decoder that failed is replaced, or the engine is told that no decoder takes this stream,
   unless the plane went or the stream ended: whatever came between the steps of a rebuild. *)
Dead == pipe.decoder \in {"unconfigured", "closed"} /\ pipe.plane # NoPlane
DecoderComesBack == Dead ~> (~Dead \/ pipe.config \in reported)
==============================================================================
