------------------------------- MODULE MCMedia -------------------------------
(* What comes late, or again, or not at all, side by side: the video pipe, the host's sound and the
   microphone; a pad and the window's size; the console's covers, and the probes and wakes of the
   host list.  A behaviour is one of them, picked at the start; the others stay at one of their
   first states. *)
EXTENDS VideoPipe, Audio, Mic, Pads, WindowSize, Covers, Reach

VARIABLE part

mediaVars == <<videoPipeVars, audioVars, micVars>>
pageVars == <<padVars, windowVars, coverVars, reachVars>>
vars == <<part, mediaVars, pageVars>>

Media == {"video", "audio", "mic"}
Page == {"pads", "window", "covers", "reach"}

Init ==
    /\ part \in Media \cup Page
    /\ VideoPipeInit /\ AudioInit /\ MicInit
    /\ PadsInit /\ WindowInit /\ CoversInit /\ ReachInit
    /\ (part # "pads" => snapshots) /\ (part # "reach" => config = "owed")
    /\ (part # "window" => follow /\ window.size = CHOOSE s \in Sizes : TRUE)

MediaNext ==
    \/ part = "video" /\ VideoPipeNext /\ UNCHANGED <<audioVars, micVars>>
    \/ part = "audio" /\ AudioNext /\ UNCHANGED <<videoPipeVars, micVars>>
    \/ part = "mic" /\ MicNext /\ UNCHANGED <<videoPipeVars, audioVars>>

PageNext ==
    \/ part = "pads" /\ PadsNext /\ UNCHANGED <<windowVars, coverVars, reachVars>>
    \/ part = "window" /\ WindowNext /\ UNCHANGED <<padVars, coverVars, reachVars>>
    \/ part = "covers" /\ CoversNext /\ UNCHANGED <<padVars, windowVars, reachVars>>
    \/ part = "reach" /\ ReachNext /\ UNCHANGED <<padVars, windowVars, coverVars>>

Next ==
    \/ part \in Media /\ MediaNext /\ UNCHANGED <<part, pageVars>>
    \/ part \in Page /\ PageNext /\ UNCHANGED <<part, mediaVars>>

(* What is fair of a component changes nothing before its first step. *)
Fair ==
    /\ VideoPipeFair /\ AudioFair
    /\ PadsFair /\ WindowFair /\ CoversFair /\ ReachFair

Spec == Init /\ [][Next]_vars /\ Fair

TypeOK ==
    /\ VideoPipeTypeOK /\ AudioTypeOK /\ MicTypeOK
    /\ PadsTypeOK /\ WindowTypeOK /\ CoversTypeOK /\ ReachTypeOK

(* Closed with its session, or turned off, a pipe holds no decoder, graph, microphone or timer,
   and what it still waits for brings none of them up again. *)
NothingLeftOpen == ClosedHoldsNothing /\ ClosedIsSilent /\ MicLetsGo

(* The picture and the sound go on: a decoder that failed is replaced, sound neither falls behind
   nor stays silent while frames come, and a bad packet's decoder is made again. *)
MediaComesBack == DecoderComesBack /\ LatencyFalls /\ SoundComesBack

(* The page catches up with what it waits for: the window's size, the pad as it is held, the covers
   of a library that gave room, and the hosts it probes and wakes. *)
PageCatchesUp == StillIsFollowed /\ PadSettles /\ CoversGoOver /\ WaitsEnd
=============================================================================
