------------------------------- MODULE Engine -------------------------------
(***************************************************************************)
(* The engine of packages/stream (engine.ts): the verbs a page calls, the  *)
(* answers it awaits, the one carrier it dials and the control frames that *)
(* drive the session in wasm (session.rs).  JavaScript runs one callback   *)
(* at a time, so each callback is one action; everything awaited is in     *)
(* flight in a variable and may come back after the engine moved on.       *)
(***************************************************************************)
EXTENDS Naturals, FiniteSets

CONSTANTS
    Origins,        \* management origins of the hosts
    WtOrigins,      \* those whose plane address is known, so WebTransport can dial it
    BridgeOrigins,  \* those the page's server bridges over a WebSocket
    TunnelOrigins,  \* those reached by the plane's tunnel (a packaged page)
    Seats,          \* certificate hashes of the seats a door redirects to
    Identities,     \* long-lived host identities a plane may attest
    Expectations,   \* what a link may pin a connect to: identities, or None
    Codecs,         \* what this browser says it decodes
    DefaultCodec,   \* H.264: what CODECS holds before any offer, and where none is left
    Hasty,          \* the page may connect anew with a key load or a dial still under way
    HdrDisplay,     \* HDR is offered, and may come back converted by the browser
    None,
    MaxEpoch,       \* bound: resets (connects and disconnects)
    MaxLoads,       \* bound: key loads in flight when a verb adds one
    MaxHosts        \* bound: Host objects made

ASSUME EngineAssumption ==
    /\ WtOrigins \subseteq Origins /\ BridgeOrigins \subseteq Origins
    /\ TunnelOrigins \subseteq Origins
    /\ Expectations \subseteq Identities \cup {None}
    /\ HdrDisplay \in BOOLEAN /\ Hasty \in BOOLEAN
    /\ None \notin Origins \cup Seats \cup Identities /\ Origins \cap Seats = {}
    /\ MaxEpoch \in Nat /\ MaxLoads \in Nat /\ MaxHosts \in Nat

VARIABLES
    state,          \* EngineState.kind
    origin, expect, epoch,
    plane,          \* the identity the fetched plane attests; its hash is the origin's own
    seatPlane,      \* the seat this stream is dialled to, when the host is a door
    pendingPin, pendingKnock, pendingStream, streamed,  \* the origin each was asked for
    pairing, settled, offeredSince, knockSince,
    refused, offer, hdr,            \* codec bits refused; CODECS in wasm; the HDR restart
    boundHash, keyEpoch, keyLoads,  \* key loads in flight, by the hash they bind
    cred, credHash,                 \* the wasm credential's phase and its host_fp
    carrier, fallback, silence, wsHint,
    session, video,                 \* the wasm session's phase; is there a VideoPipe
    host, hosts,                    \* this.host (0: null), and how many were made
    connects, infos, renewals, prints,  \* awaits in flight
    pinned,         \* history: the fingerprint stored when this connect read it
    stored,         \* fingerprints in localStorage
    asked, admitted \* history: how long the session's Hello is out; hosts that let us in

pend   == <<pendingPin, pendingKnock, pendingStream, streamed>>
target == <<origin, expect, epoch, plane, pinned>>
flags  == <<pairing, settled, offeredSince, knockSince>>
codecs == <<refused, offer, hdr>>
key    == <<boundHash, keyEpoch, keyLoads>>
line   == <<carrier, fallback, silence, wsHint>>
wasm   == <<session, video, asked>>
known  == <<stored, admitted>>
hostly == <<host, hosts, infos>>
vars   == <<state, target, seatPlane, pend, flags, codecs, key, cred, credHash, line, wasm,
            hostly, connects, renewals, prints, known>>

Kinds == {"idle", "bad-address", "reaching", "unreachable", "blocked", "untrusted",
          "connecting", "needs-pairing", "pairing", "awaiting-approval", "paired",
          "pair-refused", "ready", "starting", "streaming", "forgotten", "error"}
Clock == {"unset", "recent", "expired"}   \* a timestamp against the budget that reads it
Hashes == Origins \cup Seats              \* plane certificates: a box's is its origin's
NoCarrier == [kind |-> "none", phase |-> "gone", to |-> None, origin |-> None]
CarrierOf(kind, to) == [kind |-> kind, phase |-> "opening", to |-> to, origin |-> origin]

Init ==
    /\ state = "idle" /\ origin = None /\ expect = None /\ epoch = 0
    /\ plane = None /\ pinned = None /\ seatPlane = None
    /\ pendingPin = None /\ pendingKnock = None /\ pendingStream = None /\ streamed = None
    /\ pairing = FALSE /\ settled = FALSE /\ offeredSince = "unset" /\ knockSince = "unset"
    /\ refused = {} /\ offer = {DefaultCodec} /\ hdr = IF HdrDisplay THEN "can" ELSE "cannot"
    /\ boundHash = None /\ keyEpoch = 0 /\ keyLoads = [h \in Hashes |-> 0]
    /\ cred = "Empty" /\ credHash = None
    /\ carrier = NoCarrier /\ fallback = None /\ silence = FALSE /\ wsHint = {}
    /\ session = "Idle" /\ video = FALSE /\ asked = "unset"
    /\ host = 0 /\ hosts = 0 /\ infos = {} /\ connects = {} /\ renewals = {} /\ prints = {}
    /\ stored \in [Origins -> Identities \cup {None}]
    /\ admitted = {o \in Origins : stored[o] # None}

(***************************************************************************)
(* Pieces of handlers.  k is the kind the state has once the caller is     *)
(* done, unless the dial inside fails.                                     *)
(***************************************************************************)

(* pf_wt_close. *)
CloseCarrier == carrier' = NoCarrier

KeepWasm == UNCHANGED <<session, asked>>   \* mutant
ResetWasm == session' = "Idle" /\ asked' = "unset"   \* pf_session_reset
StopSession == ResetWasm /\ video' = FALSE

(* openCarrier refused by the browser, with nothing to give way to. *)
RefusedToDial ==
    /\ carrier' = NoCarrier /\ fallback' = None /\ silence' = FALSE
    /\ wsHint' = wsHint \ {origin} /\ state' = "error"

OpenWs(k, to) ==
    \/ /\ origin \in BridgeOrigins
       /\ carrier' = CarrierOf("ws", to) /\ fallback' = None /\ silence' = FALSE
       /\ state' = k /\ UNCHANGED wsHint
    \/ RefusedToDial

OpenWt(k, to) ==
    \/ /\ carrier' = CarrierOf("wt", to)
       /\ IF origin \in BridgeOrigins THEN fallback' = to /\ silence' = TRUE
                                    ELSE fallback' = None /\ silence' = FALSE
       /\ state' = k /\ UNCHANGED wsHint
    \/ IF origin \in BridgeOrigins THEN OpenWs(k, to) ELSE RefusedToDial

(* dial(true): seat is seatPlane as it stands now. *)
DialNow(k, seat) ==
    LET to == IF seat = None THEN origin ELSE seat IN
    IF origin \in WtOrigins \ wsHint THEN OpenWt(k, to) ELSE OpenWs(k, to)

(* dial(): a paired, bridged host whose pass this page lacks is renewed first; the pass stays
   lacking while a renewal is in flight. *)
Bridged == host # 0 /\ stored[origin] # None /\ origin \in BridgeOrigins
Renewal(k) == [epoch |-> epoch, host |-> host, kind |-> k]

Dial(k, seat) ==
    \/ plane = None /\ state' = k /\ UNCHANGED <<line, renewals>>
    \/ /\ plane # None /\ Bridged
       /\ renewals' = renewals \cup {Renewal(k)} /\ state' = k /\ UNCHANGED line
    \/ /\ plane # None /\ (Bridged => \A r \in renewals : r.host # host)
       /\ DialNow(k, seat) /\ UNCHANGED renewals

BindKey(hash) ==
    /\ boundHash' = hash /\ keyEpoch' = epoch
    /\ keyLoads' = [keyLoads EXCEPT ![hash] = @ + 1]

BindAndDial(k, hash, seat) ==
    IF plane = None \/ hash = boundHash
    THEN Dial(k, seat) /\ UNCHANGED key
    ELSE BindKey(hash) /\ state' = k /\ UNCHANGED <<line, renewals>>

(* connect up to its first await, reset() included; the caller gives the carrier, the store,
   and the PIN and request for access that survive. *)
Reach(o, e) ==
    /\ epoch' = epoch + 1 /\ origin' = o /\ expect' = e /\ state' = "reaching"
    /\ plane' = None /\ pinned' = None
    /\ seatPlane' = None /\ boundHash' = None /\ host' = 0
    /\ pairing' = FALSE /\ settled' = FALSE
    /\ offeredSince' = "unset" /\ knockSince' = "unset" /\ pendingStream' = None
    /\ silence' = FALSE /\ fallback' = None
    /\ ResetWasm
    /\ connects' = connects \cup
         {[epoch |-> epoch + 1, at |-> IF o \in TunnelOrigins THEN "boot" ELSE "reach",
           known |-> None]}
    /\ UNCHANGED <<streamed, codecs, keyEpoch, keyLoads, cred, credHash, wsHint, video, hosts,
                   infos, renewals, prints, admitted>>

(* disconnect(). *)
LeaveHost ==
    /\ StopSession /\ CloseCarrier /\ silence' = FALSE /\ fallback' = None
    /\ pendingPin' = None /\ pendingKnock' = None /\ pendingStream' = None
    /\ epoch' = epoch + 1 /\ origin' = None /\ plane' = None /\ pinned' = None /\ seatPlane' = None
    /\ boundHash' = None /\ host' = 0 /\ pairing' = FALSE /\ settled' = FALSE
    /\ offeredSince' = "unset" /\ knockSince' = "unset" /\ state' = "idle"
    /\ UNCHANGED <<expect, streamed, codecs, keyEpoch, keyLoads, cred, credHash, wsHint,
                   hosts, infos, connects, renewals, prints, admitted>>

(***************************************************************************)
(* Verbs.                                                                  *)
(***************************************************************************)
Room == epoch < MaxEpoch
Calm == Hasty \/ \A h \in Hashes : keyLoads[h] = 0

KeptAnyway(o, p) == p   \* mutant
Kept(o, p) == IF o = origin THEN p ELSE None   \* held for one host, never sent to another
Connect(o, e) ==
    /\ Room /\ Calm /\ (Hasty \/ carrier.phase \in {"gone", "ctl"})
    /\ Reach(o, e)
    /\ pendingPin' = Kept(o, pendingPin) /\ pendingKnock' = Kept(o, pendingKnock)
    /\ UNCHANGED <<carrier, stored>>

ConnectBadAddress ==
    /\ state' = "bad-address"
    /\ UNCHANGED <<target, seatPlane, pend, flags, codecs, key, cred, credHash, line, wasm,
                   hostly, connects, renewals, prints, known>>

(* pair() and requestAccess() where nothing is dialled yet. *)
AskNow(k) ==
    /\ state = "needs-pairing" /\ Dial(k, seatPlane)
    /\ UNCHANGED <<target, seatPlane, pendingStream, streamed, flags, codecs, key, cred,
                   credHash, wasm, hostly, connects, prints, known>>

(* ... and where the host has closed: the stale pairing goes, and the ask waits for a
   reconnect to the same target. *)
AskAgain ==
    /\ state \in {"forgotten", "pair-refused"} /\ Room /\ Calm /\ Reach(origin, expect)
    /\ stored' = [stored EXCEPT ![origin] = None] /\ CloseCarrier

Pair == pendingPin' = origin /\ UNCHANGED pendingKnock /\ (AskNow("pairing") \/ AskAgain)

RequestAccess ==
    pendingKnock' = origin /\ UNCHANGED pendingPin /\ (AskNow("awaiting-approval") \/ AskAgain)

CancelRequest ==
    /\ state = "awaiting-approval"
    /\ pendingKnock' = None /\ knockSince' = "unset"
    /\ StopSession /\ CloseCarrier /\ state' = "needs-pairing"
    /\ UNCHANGED <<target, seatPlane, pendingPin, pendingStream, streamed, pairing, settled,
                   offeredSince, codecs, key, cred, credHash, fallback, silence, wsHint,
                   hostly, connects, renewals, prints, known>>

Loading == \E h \in Hashes : keyLoads[h] >= MaxLoads

(* pf_session_codecs: an empty mask offers H.264. *)
Offerable == Codecs \cup {DefaultCodec}
Offer(mask) == IF mask = {} THEN {DefaultCodec} ELSE mask

StartStream ==
    /\ state = "ready" /\ ~Loading /\ hosts < MaxHosts
    /\ refused' = {} /\ offer' = Offer(Codecs) /\ UNCHANGED hdr
    /\ streamed' = origin /\ pendingStream' = origin /\ seatPlane' = None
    /\ BindAndDial("starting", origin, None)
    /\ UNCHANGED <<target, pendingPin, pendingKnock, flags, cred, credHash, wasm, hostly,
                   connects, prints, known>>

(* leave() and the pad chord that ends a stream. *)
Leave ==
    /\ state \in {"starting", "streaming"}
    /\ IF host = 0
       THEN LeaveHost /\ Room /\ UNCHANGED stored
       ELSE /\ StopSession /\ pendingStream' = None /\ CloseCarrier /\ state' = "ready"
            /\ UNCHANGED <<target, seatPlane, pendingPin, pendingKnock, streamed, flags, codecs,
                           key, cred, credHash, fallback, silence, wsHint, hostly, connects,
                           renewals, prints, known>>

Disconnect == Room /\ LeaveHost /\ UNCHANGED stored

(* forget(o). *)
Forget(o) ==
    /\ stored[o] # None /\ stored' = [stored EXCEPT ![o] = None]
    /\ IF o = origin
       THEN LeaveHost /\ Room
       ELSE UNCHANGED <<state, target, seatPlane, pend, flags, codecs, key, cred, credHash,
                        line, wasm, hostly, connects, renewals, prints, admitted>>

(***************************************************************************)
(* The awaits of connect.  One a newer reset outdated says nothing.        *)
(***************************************************************************)
Await(c, at) == connects' = (connects \ {c}) \cup {[c EXCEPT !.at = at]}
Stale(c) == c.epoch # epoch

connectRest == <<pend, flags, codecs, cred, credHash, line, wasm, hostly, renewals, prints,
                 known, seatPlane, origin, expect, epoch>>

ConnectSays(c, k) == connects' = connects \ {c} /\ state' = k /\ UNCHANGED <<plane, pinned, key>>

(* The host is trusted: load the key before the connection. *)
Trusted(c) == connects' = connects \ {c} /\ state' = "connecting" /\ BindKey(origin)

ReachAnswered(c) ==
    /\ c.at = "reach"
    /\ \/ Stale(c) /\ ConnectSays(c, state)
       \/ /\ ~Stale(c)
          /\ \/ \E k \in {"unreachable", "blocked", "error"} : ConnectSays(c, k)
             \/ Await(c, "plane") /\ UNCHANGED <<state, plane, pinned, key>>
    /\ UNCHANGED connectRest

(* What the plane is held against: the stored fingerprint, else the link's. *)
WantedStored == stored[origin]   \* mutant
Wanted == IF stored[origin] # None THEN stored[origin] ELSE expect

(* The plane arrived, or not; without an attestation it ends the connect. *)
PlaneAnswered(c) ==
    /\ c.at \in {"plane", "boot"}
    /\ \/ Stale(c) /\ ConnectSays(c, state)
       \/ ~Stale(c) /\ ConnectSays(c, "error")
       \/ ~Stale(c) /\ c.at = "boot" /\ ConnectSays(c, "unreachable")
       \/ ~Stale(c) /\ \E id \in Identities :
            /\ plane' = id /\ pinned' = stored[origin]
            /\ IF None \in {stored[origin], expect} \/ stored[origin] = expect
               THEN IF Wanted = None THEN Trusted(c)
                    ELSE /\ connects' = (connects \ {c})
                            \cup {[epoch |-> epoch, at |-> "verify", known |-> Wanted]}
                         /\ UNCHANGED <<state, key>>
               ELSE connects' = connects \ {c} /\ state' = "untrusted" /\ UNCHANGED key
    /\ UNCHANGED connectRest

Verified(c) ==
    /\ c.at = "verify"
    /\ \/ Stale(c) /\ ConnectSays(c, state)
       \/ ~Stale(c) /\ ConnectSays(c, "untrusted")
       \/ ~Stale(c) /\ plane = c.known /\ Trusted(c) /\ UNCHANGED <<plane, pinned>>
    /\ UNCHANGED connectRest

(***************************************************************************)
(* The device key, the management API, a renewed pass and the digest of a  *)
(* host's identity come back.                                              *)
(***************************************************************************)
Loaded(h) == keyLoads[h] > 0 /\ keyLoads' = [keyLoads EXCEPT ![h] = @ - 1]
KeyIsOurs == origin # None /\ keyEpoch = epoch

(* onDeviceReady, after pf_device_set bound the credential to h. *)
KeyLoaded(h) ==
    /\ Loaded(h) /\ credHash' = h /\ cred' = "Ready"
    /\ \/ /\ ~KeyIsOurs
          /\ UNCHANGED <<state, line, renewals, hostly>>
       \/ /\ KeyIsOurs /\ \E p \in {pendingPin, pendingKnock, pendingStream} : p # None
          /\ Dial(state, seatPlane) /\ UNCHANGED hostly
       \/ /\ KeyIsOurs /\ pendingPin = None /\ pendingKnock = None /\ pendingStream = None
          /\ IF stored[origin] = None
             THEN state' = "needs-pairing" /\ UNCHANGED hostly
             ELSE /\ hosts' = hosts + 1 /\ host' = hosts + 1
                  /\ infos' = infos \cup {hosts + 1} /\ UNCHANGED state
          /\ UNCHANGED <<line, renewals>>
    /\ UNCHANGED <<target, seatPlane, pend, flags, codecs, boundHash, keyEpoch, wasm,
                   connects, prints, known>>

KeyFailureSilent == UNCHANGED state   \* mutant
KeyFailure == state' = IF KeyIsOurs THEN "error" ELSE state
KeyFailed(h) ==
    /\ Loaded(h) /\ KeyFailure
    /\ UNCHANGED <<target, seatPlane, pend, flags, codecs, boundHash, keyEpoch, cred, credHash,
                   line, wasm, hostly, connects, renewals, prints, known>>

(* settle(): the info of one Host came back, or what it was refused with. *)
InfoAnswered(i) ==
    /\ infos' = infos \ {i}
    /\ IF host = i THEN state' \in {"ready", "forgotten", "error"} ELSE UNCHANGED state
    /\ UNCHANGED <<target, seatPlane, pend, flags, codecs, key, cred, credHash, line, wasm,
                   host, hosts, connects, renewals, prints, known>>

RenewalEnded(r) ==
    /\ renewals' = renewals \ {r}
    /\ IF epoch = r.epoch /\ host = r.host /\ state = r.kind
       THEN DialNow(state, seatPlane) ELSE UNCHANGED <<state, line>>
    /\ UNCHANGED <<target, seatPlane, pend, flags, codecs, key, cred, credHash, wasm, hostly,
                   connects, prints, known>>

(* hostFingerprint asked of the current plane, if there is one. *)
PrintsBlind(then) == {[origin |-> origin, identity |-> plane, then |-> then]}   \* mutant
Prints(then) ==
    IF plane = None THEN {} ELSE {[origin |-> origin, identity |-> plane, then |-> then]}

(* hostFingerprint resolved: the host is pinned, and a ceremony's end shows. *)
ShowsAnyway(p) == p.then = "paired"   \* mutant
Shows(p) == p.then = "paired" /\ origin = p.origin
Printed(p) ==
    /\ prints' = prints \ {p}
    /\ stored' = [stored EXCEPT ![p.origin] = p.identity]
    /\ state' = IF Shows(p) THEN "paired" ELSE state
    /\ UNCHANGED <<target, seatPlane, pend, flags, codecs, key, cred, credHash, line, wasm,
                   hostly, connects, renewals, admitted>>

(***************************************************************************)
(* The carrier.                                                            *)
(***************************************************************************)
Hello == session' = "Offered" /\ video' = TRUE /\ asked' = "recent"

(* onControlStream: say what this dial was for. *)
Speak ==
    LET ctl == [carrier EXCEPT !.phase = "ctl"] IN
    \/ /\ pendingStream # None /\ pendingStream' = None /\ Hello
       /\ carrier' = ctl
       /\ UNCHANGED <<state, pendingPin, pendingKnock, streamed, flags, cred>>
    \/ /\ pendingStream = None /\ pendingKnock # None
       /\ pendingKnock' = None /\ streamed' = pendingKnock /\ knockSince' = "recent"
       /\ state' = "awaiting-approval" /\ Hello /\ carrier' = ctl
       /\ UNCHANGED <<pendingPin, pendingStream, pairing, settled, offeredSince, cred>>
    \/ /\ pendingStream = None /\ pendingKnock = None /\ pendingPin # None
       /\ pendingPin' = None /\ pairing' = TRUE /\ settled' = FALSE /\ cred' = "Pairing"
       /\ state' = "pairing" /\ carrier' = ctl
       /\ UNCHANGED <<pendingKnock, pendingStream, streamed, offeredSince, knockSince, wasm>>
    \/ /\ pendingStream = None /\ pendingKnock = None /\ pendingPin = None
       /\ carrier' = NoCarrier
       /\ UNCHANGED <<state, pend, flags, cred, wasm>>

Hinted == wsHint' = IF carrier.kind = "ws" THEN wsHint \cup {carrier.origin}
                                          ELSE wsHint \ {carrier.origin}

OpenedKeepsFallback == Hinted /\ silence' = FALSE /\ UNCHANGED fallback   \* mutant
Opened == Hinted /\ silence' = FALSE /\ fallback' = None

(* A WebSocket that opens has its control stream at once. *)
WsOpens ==
    /\ carrier.phase = "opening" /\ carrier.kind = "ws" /\ Speak
    /\ Opened
    /\ UNCHANGED <<target, seatPlane, codecs, key, credHash, hostly, connects, renewals,
                   prints, known>>

WtOpens ==
    /\ carrier.phase = "opening" /\ carrier.kind = "wt"
    /\ carrier' = [carrier EXCEPT !.phase = "open"]
    /\ Opened
    /\ UNCHANGED <<state, target, seatPlane, pend, flags, codecs, key, cred, credHash, wasm,
                   hostly, connects, renewals, prints, known>>

WtControlOpens ==
    /\ carrier.phase = "open" /\ Speak
    /\ UNCHANGED <<fallback, silence, wsHint, target, seatPlane, codecs, key, credHash, hostly,
                   connects, renewals, prints, known>>

(* WT_SILENCE_MS passed. A timer whose carrier was closed finds it gone. *)
SilencePasses ==
    /\ silence
    /\ IF carrier = NoCarrier
       THEN silence' = FALSE /\ UNCHANGED <<state, carrier, fallback, wsHint>>
       ELSE OpenWs(state, fallback)
    /\ UNCHANGED <<target, seatPlane, pend, flags, codecs, key, cred, credHash, wasm, hostly,
                   connects, renewals, prints, known>>

(* onClosed(NEVER_OPENED). *)
NeverOpens ==
    /\ carrier.phase = "opening"
    /\ IF fallback # None
       THEN OpenWs(state, fallback) /\ UNCHANGED wasm
       ELSE /\ StopSession /\ state' = "error" /\ carrier' = NoCarrier
            /\ wsHint' = IF carrier.kind = "ws" THEN wsHint \ {origin} ELSE wsHint
            /\ UNCHANGED <<fallback, silence>>
    /\ UNCHANGED <<target, seatPlane, pend, flags, codecs, key, cred, credHash, hostly,
                   connects, renewals, prints, known>>

(***************************************************************************)
(* onClosed with what the host or the transport said: a code, and whether  *)
(* a reason came with it.                                                  *)
(***************************************************************************)
Codes == {"lost", "denied", "placement", "other"}
Deaf == {"idle", "needs-pairing", "ready", "paired", "pair-refused", "forgotten", "error"}

DroppedHalf == state' = "error" /\ UNCHANGED wasm   \* mutant
Dropped == state' = "error" /\ StopSession

Closed(code, said) ==
    \/ /\ state = "awaiting-approval" /\ knockSince' = "unset" /\ StopSession
       /\ IF code = "placement"
          THEN prints' = prints \cup Prints("pinned") /\ state' = "paired"
          ELSE state' = "pair-refused" /\ UNCHANGED prints
       /\ UNCHANGED <<pairing, settled, offeredSince>>
    \/ /\ state = "pairing"
       /\ IF ~settled /\ said
          THEN settled' = TRUE /\ pairing' = FALSE /\ state' = "pair-refused"
          ELSE UNCHANGED <<settled, pairing, state>>
       /\ UNCHANGED <<offeredSince, knockSince, wasm, prints>>
    \/ state \in Deaf /\ UNCHANGED <<state, flags, wasm, prints>>
    \/ /\ state \notin Deaf \cup {"awaiting-approval", "pairing"}
       /\ IF code = "denied"
          THEN state' = "forgotten" /\ UNCHANGED wasm
          ELSE Dropped
       /\ UNCHANGED <<flags, prints>>

Talking == carrier.phase = "ctl"

(* Once the device is admitted, and only then, the host looks for a seat. *)
Admits(code) ==
    admitted' = IF code = "placement" /\ session = "Offered"
                THEN admitted \cup {carrier.origin} ELSE admitted

closedRest == <<target, seatPlane, pend, codecs, key, cred, credHash, fallback, silence, hostly,
                connects, renewals, stored>>

(* The transport closes. *)
CarrierCloses(code, said) ==
    /\ carrier.phase \in {"open", "ctl"} /\ (code = "placement" => session = "Offered")
    /\ carrier' = NoCarrier
    /\ wsHint' = IF code = "lost" /\ carrier.kind = "ws" THEN wsHint \ {origin} ELSE wsHint
    /\ Closed(code, said) /\ Admits(code) /\ UNCHANGED closedRest

(* `Refused` on the control stream, or on one the host opened, which may come first. *)
HostRefuses(code, said) ==
    /\ carrier.phase \in {"open", "ctl"}
    /\ code # "lost" /\ (code = "placement" => session = "Offered")
    /\ Closed(code, said) /\ Admits(code)
    /\ UNCHANGED <<carrier, wsHint, closedRest>>

(***************************************************************************)
(* Frames of the host on the control stream (session.rs, on_frame).        *)
(***************************************************************************)
framed == <<target, seatPlane, pend, flags, codecs, key, credHash, fallback, silence, wsHint,
            hostly, connects, renewals, prints, stored>>

(* ServerHello. *)
HostAccepts ==
    /\ Talking /\ session = "Offered" /\ session' = "Live"
    /\ admitted' = admitted \cup {carrier.origin}
    /\ UNCHANGED <<state, carrier, cred, video, asked, framed>>

(* A frame over its bound, or a ServerHello or Redirect this page cannot read. *)
HostGarbles ==
    /\ Talking /\ session # "Failed" /\ session' = "Failed"
    /\ UNCHANGED <<state, carrier, cred, video, asked, admitted, framed>>

(* PairChallenge and PairResult: the ceremony ends Paired only for a host that proved the PIN. *)
HostSettlesPairing(ok) ==
    /\ Talking /\ cred = "Pairing"
    /\ cred' = IF ok THEN "Paired" ELSE "Failed"
    /\ admitted' = IF ok THEN admitted \cup {carrier.origin} ELSE admitted
    /\ UNCHANGED <<state, carrier, wasm, framed>>

(* Redirect, and onRedirect on the microtask after it; seat None is a hash no page can pin. *)
HostRedirects(seat) ==
    /\ Talking /\ session = "Offered"
    /\ IF state # "starting" \/ streamed = None
       THEN /\ session' = "Idle"
            /\ UNCHANGED <<state, seatPlane, pendingStream, key, line, renewals, video, asked>>
       ELSE IF seatPlane # None \/ seat = None
       THEN /\ StopSession /\ state' = "error"
            /\ UNCHANGED <<seatPlane, pendingStream, key, line, renewals>>
       ELSE /\ seatPlane' = seat /\ pendingStream' = streamed
            /\ ResetWasm /\ UNCHANGED video
            /\ BindKey(seat) /\ CloseCarrier
            /\ UNCHANGED <<state, fallback, silence, wsHint, renewals>>
    /\ UNCHANGED <<target, pendingPin, pendingKnock, streamed, flags, codecs, cred, credHash,
                   hostly, connects, prints, known>>

(***************************************************************************)
(* The decoder, the frame loop and the clock.                              *)
(***************************************************************************)
(* restart(): the same stream on a fresh connection to the box. *)
RestartOldOffer(codecsLeft) ==   \* mutant
    /\ StopSession /\ UNCHANGED offer
    /\ pendingStream' = streamed /\ seatPlane' = None
    /\ BindAndDial("starting", origin, None)
RestartOnTop(codecsLeft) ==      \* mutant
    /\ offer' = Offer(codecsLeft) /\ UNCHANGED wasm
    /\ pendingStream' = streamed /\ seatPlane' = None
    /\ BindAndDial("starting", origin, None)
Restart(codecsLeft) ==
    /\ StopSession /\ offer' = Offer(codecsLeft)
    /\ pendingStream' = streamed /\ seatPlane' = None
    /\ BindAndDial("starting", origin, None)

(* The decoder callback: no acceleration for the stream's codec c. *)
Undecodable(c) ==
    /\ video /\ session = "Live" /\ state \in {"starting", "streaming"}
    /\ refused' = refused \cup {c}
    /\ IF c \notin refused /\ Codecs \ refused' # {}
       THEN Restart(Codecs \ refused')
       ELSE /\ StopSession /\ state' = "error" /\ CloseCarrier
            /\ UNCHANGED <<offer, pendingStream, seatPlane, key, fallback, silence, wsHint,
                           renewals>>
    /\ UNCHANGED <<target, pendingPin, pendingKnock, streamed, flags, hdr, cred, credHash,
                   hostly, connects, prints, known>>

(* The browser converted an HDR frame itself; restartInSdr runs on a timer of its own. *)
HdrConverted ==
    /\ hdr = "can" /\ video /\ session = "Live" /\ hdr' = "due"
    /\ UNCHANGED <<state, target, seatPlane, pend, flags, refused, offer, key, cred, credHash,
                   line, wasm, hostly, connects, renewals, prints, known>>

RestartInSdr ==
    /\ hdr = "due" /\ hdr' = "cannot"
    /\ IF state \in {"starting", "streaming"} /\ streamed # None
       THEN Restart(Codecs \ refused)
       ELSE UNCHANGED <<state, offer, pendingStream, seatPlane, key, line, wasm, renewals>>
    /\ UNCHANGED <<target, pendingPin, pendingKnock, streamed, flags, refused, cred, credHash,
                   hostly, connects, prints, known>>

(* updateSession, in a frame that found the kind k after pumpCredential. *)
KnockNeverOver == FALSE   \* mutant
KnockIsOver == knockSince = "expired"
GraceNever(k) == offeredSince' = "recent" /\ state' = k   \* mutant
Grace(k) ==
    IF offeredSince = "expired"
    THEN offeredSince' = "unset" /\ state' = "forgotten"
    ELSE offeredSince' = "recent" /\ state' = k

UpdateSession(k) ==
    \/ /\ session = "Offered" /\ knockSince # "unset" /\ UNCHANGED offeredSince
       /\ IF KnockIsOver
          THEN knockSince' = "unset" /\ StopSession /\ CloseCarrier /\ state' = "pair-refused"
          ELSE state' = k /\ UNCHANGED <<knockSince, wasm, carrier>>
    \/ /\ session = "Offered" /\ knockSince = "unset" /\ ~pairing'
       /\ Grace(k) /\ UNCHANGED <<knockSince, wasm, carrier>>
    \/ /\ session = "Failed" /\ StopSession /\ state' = "error" /\ CloseCarrier
       /\ UNCHANGED <<offeredSince, knockSince>>
    \/ /\ session = "Live" /\ offeredSince' = "unset" /\ knockSince' = "unset"
       /\ state' = IF video THEN "streaming" ELSE k
       /\ UNCHANGED <<wasm, carrier>>
    \/ /\ session = "Idle" \/ (session = "Offered" /\ knockSince = "unset" /\ pairing')
       /\ state' = k /\ UNCHANGED <<offeredSince, knockSince, wasm, carrier>>

(* pumpCredential, then updateSession. *)
Frame ==
    LET verdict  == pairing /\ ~settled /\ plane # None /\ cred \in {"Paired", "Failed"}
        failed   == verdict /\ cred = "Failed"
        approved == session = "Live" /\ knockSince # "unset"
    IN /\ origin # None
       /\ settled' = (settled \/ verdict) /\ pairing' = (pairing /\ ~failed)
       /\ prints' = prints \cup (IF verdict /\ ~failed THEN Prints("paired") ELSE {})
                           \cup (IF approved THEN Prints("pinned") ELSE {})
       /\ UpdateSession(IF failed THEN "pair-refused" ELSE state)
       /\ UNCHANGED <<target, seatPlane, pend, codecs, key, cred, credHash, fallback, silence,
                      wsHint, hostly, connects, renewals, known>>

timeless == <<state, target, seatPlane, pend, pairing, settled, codecs, key, cred, credHash,
              line, session, video, hostly, connects, renewals, prints, known>>
Elapse(t) == IF t = "recent" THEN "expired" ELSE t

(* OFFERED_GRACE_MS pass. *)
GracePasses ==
    /\ offeredSince' = Elapse(offeredSince) /\ asked' = Elapse(asked)
    /\ UNCHANGED <<knockSince, timeless>>

(* KNOCK_BUDGET_MS pass. *)
BudgetPasses ==
    /\ offeredSince' = Elapse(offeredSince) /\ asked' = Elapse(asked)
    /\ knockSince' = Elapse(knockSince) /\ UNCHANGED timeless

Verbs ==
    \/ \E o \in Origins, e \in Expectations \cup {None} : Connect(o, e)
    \/ ConnectBadAddress \/ Pair \/ RequestAccess \/ CancelRequest
    \/ StartStream \/ Leave \/ Disconnect \/ \E o \in Origins : Forget(o)

Answers ==
    \/ \E c \in connects : ReachAnswered(c) \/ PlaneAnswered(c) \/ Verified(c)
    \/ \E h \in Hashes : KeyLoaded(h) \/ KeyFailed(h)
    \/ \E i \in infos : InfoAnswered(i)
    \/ \E r \in renewals : RenewalEnded(r)
    \/ \E p \in prints : Printed(p)

Network ==
    \/ WsOpens \/ WtOpens \/ WtControlOpens \/ SilencePasses \/ NeverOpens
    \/ \E code \in Codes, said \in BOOLEAN : CarrierCloses(code, said) \/ HostRefuses(code, said)
    \/ HostAccepts \/ HostGarbles \/ \E ok \in BOOLEAN : HostSettlesPairing(ok)
    \/ \E seat \in Seats \cup {None} : HostRedirects(seat)

Page ==
    \/ \E c \in Offerable : Undecodable(c)
    \/ HdrConverted \/ RestartInSdr \/ Frame \/ GracePasses \/ BudgetPasses

Next == Verbs \/ Answers \/ Network \/ Page

Spec == Init /\ [][Next]_vars

(* The browser runs frames and timers and answers what it was asked; a dial opens, or fails; the
   host may stay silent. *)
Fairness ==
    /\ WF_vars(Frame) /\ WF_vars(GracePasses) /\ WF_vars(BudgetPasses)
    /\ WF_vars(SilencePasses) /\ WF_vars(Answers)
    /\ WF_vars(WsOpens \/ WtOpens \/ NeverOpens) /\ WF_vars(WtControlOpens)
FairSpec == Spec /\ Fairness

(***************************************************************************)
(* Correctness.                                                            *)
(***************************************************************************)

(* Every variable holds what the code's types allow. *)
TypeTarget ==
    /\ origin \in Origins \cup {None} /\ expect \in Identities \cup {None} /\ epoch \in Nat
    /\ plane \in Identities \cup {None} /\ pinned \in Identities \cup {None}
    /\ seatPlane \in Seats \cup {None}
TypePend ==
    /\ pendingPin \in Origins \cup {None} /\ pendingKnock \in Origins \cup {None}
    /\ pendingStream \in Origins \cup {None} /\ streamed \in Origins \cup {None}
TypeFlags ==
    /\ pairing \in BOOLEAN /\ settled \in BOOLEAN
    /\ offeredSince \in Clock /\ knockSince \in Clock
TypeCodecs ==
    /\ refused \in SUBSET Offerable /\ offer \in SUBSET Offerable
    /\ hdr \in {"can", "due", "cannot"}
TypeKey ==
    /\ boundHash \in Hashes \cup {None} /\ keyEpoch \in Nat /\ keyLoads \in [Hashes -> Nat]
    /\ cred \in {"Empty", "Ready", "Pairing", "Paired", "Failed"}
    /\ credHash \in Hashes \cup {None}
TypeLine ==
    /\ carrier \in {NoCarrier} \cup
         [kind : {"wt", "ws"}, phase : {"opening", "open", "ctl"}, to : Hashes, origin : Origins]
    /\ fallback \in Hashes \cup {None} /\ silence \in BOOLEAN /\ wsHint \in SUBSET Origins
TypeWasm ==
    /\ session \in {"Idle", "Offered", "Live", "Failed"} /\ video \in BOOLEAN /\ asked \in Clock
TypeAwaits ==
    /\ host \in Nat /\ hosts \in Nat /\ infos \in SUBSET Nat
    /\ connects \in SUBSET [epoch : Nat, at : {"reach", "boot", "plane", "verify"},
                             known : Identities \cup {None}]
    /\ renewals \in SUBSET [epoch : Nat, host : Nat, kind : Kinds]
TypePrints ==
    /\ prints \in SUBSET [origin : Origins, identity : Identities, then : {"paired", "pinned"}]
    /\ stored \in [Origins -> Identities \cup {None}] /\ admitted \in SUBSET Origins
TypeOK ==
    /\ state \in Kinds /\ TypeTarget /\ TypePend /\ TypeFlags /\ TypeCodecs /\ TypeKey
    /\ TypeLine /\ TypeWasm /\ TypeAwaits /\ TypePrints

(* A PIN, a request for access or a stream asked for is held for the host it was asked of:
   connect, disconnect, a reconnect and a redirect never leave one for another host to get. *)
OneHost == \A p \in {pendingPin, pendingKnock, pendingStream} : p # None => p = origin

(* "Refuse before dialling": a dial is made only with a plane this connect fetched and checked,
   never while its checks are out, and never to a host that attests another identity than the
   fingerprint stored here or the one a link named. *)
Dialled == carrier' # carrier /\ carrier'.phase = "opening"
Cleared ==
    /\ \A c \in connects : Stale(c)
    /\ plane # None
    /\ \A fp \in {pinned, expect} \ {None} : plane = fp
TrustBeforeDial == [][Dialled => Cleared']_vars

(* The page stores a fingerprint, and shows `paired`, only for a host that let this device in
   (by PIN, by approval, or by refusing only where the stream plays), late answers included. *)
NothingClaimed ==
    /\ \A o \in Origins : stored[o] # None => o \in admitted
    /\ state = "paired" => origin \in admitted

(* A stream shown is the current host's: asked of it, and accepted by it. A host left or replaced
   while its session ran never shows as the next host's stream. *)
StreamIsOurs == state = "streaming" => streamed = origin /\ origin \in admitted

(* Nothing restarts over a session still up: while the page shows a stream its session is the one
   the host answered, and a decoder is there to take it. *)
StreamingIsLive == state = "streaming" => video /\ session \in {"Live", "Failed"}

(* A Hello out while a stream starts offers every codec but those that failed to decode, through
   fallbacks, reconnects and a door's redirect: H.264 where none is left, since a stream that a
   request for access began keeps what failed in the one before. *)
OfferLeavesOut ==
    state = "starting" /\ session = "Offered" =>
        offer = IF Codecs \subseteq refused THEN {DefaultCodec} ELSE Codecs \ refused

(* An error ends the session with it.  engine.ts:1260: "The wasm session goes too: a refusal leaves
   it `Offered`, which would read as a forgotten pairing later." *)
ErrorStops == [][state # "error" /\ state' = "error" => session' \in {"Idle", "Failed"}]_vars

(* The bridge replaces a WebTransport only while it is still opening, and for the same plane: no
   timer and no late failure takes down a carrier that has opened. *)
FallbackWhileOpening ==
    fallback # None /\ carrier # NoCarrier =>
        carrier.kind = "wt" /\ carrier.phase = "opening" /\ carrier.to = fallback

(* The host may never answer, and is never waited for forever: a connect comes to a state a
   person can act on, a stream asked for starts or fails, a request for access ends. *)
ConnectSettles ==
    state \in {"reaching", "connecting"} ~> ~(state \in {"reaching", "connecting"})
StartSettles == (state = "starting") ~> (state # "starting")
KnockSettles ==
    (state = "awaiting-approval" /\ session = "Offered")
        ~> ~(state = "awaiting-approval" /\ session = "Offered")

(***************************************************************************)
(* What comments of the code say and the code does not do.                 *)
(***************************************************************************)

(* engine.ts:1230: the ceremony's own verdict "is authoritative": a page whose ceremony ended
   Paired is not told it was refused. *)
VerdictIsAuthoritative ==
    [][state = "pairing" /\ cred = "Paired" => state' # "pair-refused"]_vars

(* engine.ts:63: `Offered` may last OFFERED_GRACE_MS before it reads as a refused credential. *)
FullGrace ==
    [][state # "forgotten" /\ state' = "forgotten" /\ carrier' = carrier
         /\ offeredSince = "expired" /\ offeredSince' = "unset" => asked = "expired"]_vars

(* engine.ts:621: what the next Hello offers is "this browser's codecs less those it refused". *)
HelloOffersAll == session = "Offered" => offer = Codecs \ refused

(* engine.ts:517: a pairing "ends in `paired` or `pair-refused`" (or anything else). *)
PairingSettles == (state = "pairing") ~> (state # "pairing")

=============================================================================
