---------------------------- MODULE EngineAsked -----------------------------
(***************************************************************************)
(* What a page asked of a host stays that host's (OneHost), what it shows  *)
(* and stores of one was said by that host (NothingClaimed, StreamIsOurs), *)
(* and what it has under way goes on one at a time (StreamingIsLive,       *)
(* ErrorStops, OfferLeavesOut), for every number of hosts, seats, codecs   *)
(* and resets.  Few are inductive: a redirect and a restart ask for the    *)
(* stream again from what was streamed, which is the current host's only   *)
(* while a session or a state says so (Asked); a verdict is shown frames   *)
(* after the host gave it, and stored answers after that (Heard), and a    *)
(* dial may open for a host since replaced (Apart); and any late answer    *)
(* may dial or end in an error, so while one is out no session may be up   *)
(* (Alone).                                                                *)
(***************************************************************************)
EXTENDS EngineProofs

(* What was asked for is the current host's, and so is the stream a session or a state is about. *)
Asked ==
    /\ OneHost
    /\ pendingStream # None => streamed = pendingStream
    /\ session \in {"Offered", "Live"} => streamed = origin
    /\ state \in {"starting", "streaming"} => streamed = origin

(* Every dial leaves the state its caller names, or an error. *)
LEMMA DialNowSays ==
    ASSUME NEW k, NEW seat, DialNow(k, seat)
    PROVE  state' \in {k, "error"}
  BY DEF DialNow, OpenWt, OpenWs, RefusedToDial

(* ... also behind the renewal of a pass. *)
LEMMA DialSays ==
    ASSUME NEW k, NEW seat, Dial(k, seat)
    PROVE  state' \in {k, "error"}
  BY DialNowSays DEF Dial

(* ... also behind a key load. *)
LEMMA BindAndDialSays ==
    ASSUME NEW k, NEW hash, NEW seat, BindAndDial(k, hash, seat)
    PROVE  state' \in {k, "error"}
  BY DialSays DEF BindAndDial

(* Where nothing new is asked and no stream begins, what holds of what was asked still does. *)
LEMMA AskedKept ==
    ASSUME Asked, UNCHANGED <<origin, pend>>, session' \in {session, "Idle", "Failed"},
           state' \in {"starting", "streaming"} => state' = state
    PROVE  Asked'
  BY DEF Asked, OneHost, pend

(* disconnect forgets what was asked. *)
LEMMA AskedLeaving == ASSUME LeaveHost PROVE Asked'
  BY DEF LeaveHost, StopSession, ResetWasm, Asked, OneHost

(* connect, whichever verb runs it. *)
LEMMA AskedReaching ==
    ASSUME NEW o, NEW e, Reach(o, e), \A p \in {pendingPin', pendingKnock'} : p # None => p = o
    PROVE  Asked'
  BY DEF Reach, ResetWasm, Asked, OneHost

(* The verbs, one step each. *)
LEMMA AskedVerbs == ASSUME Asked, Verbs PROVE Asked'
<1>1. ASSUME NEW o, NEW e, Connect(o, e) PROVE Asked'
  BY <1>1, AskedReaching DEF Connect, Kept, Asked, OneHost
<1>2. ASSUME ConnectBadAddress PROVE Asked'
  BY <1>2, AskedKept DEF ConnectBadAddress, target, wasm
<1>3. ASSUME NEW k \in {"pairing", "awaiting-approval"}, AskNow(k),
             pendingPin' \in {pendingPin, origin}, pendingKnock' \in {pendingKnock, origin}
      PROVE  Asked'
  BY <1>3, DialSays DEF AskNow, target, wasm, Asked, OneHost
<1>4. ASSUME AskAgain,
             pendingPin' \in {pendingPin, origin}, pendingKnock' \in {pendingKnock, origin}
      PROVE  Asked'
  BY <1>4, AskedReaching DEF AskAgain, Asked, OneHost
<1>5. ASSUME Pair \/ RequestAccess PROVE Asked'
  BY <1>5, <1>3, <1>4 DEF Pair, RequestAccess
<1>6. ASSUME CancelRequest PROVE Asked'
  BY <1>6 DEF CancelRequest, StopSession, ResetWasm, target, Asked, OneHost
<1>7. ASSUME StartStream PROVE Asked'
  BY <1>7, BindAndDialSays DEF StartStream, target, wasm, Asked, OneHost
<1>8. ASSUME Leave PROVE Asked'
  BY <1>8, AskedLeaving DEF Leave, StopSession, ResetWasm, target, Asked, OneHost
<1>9. ASSUME NEW o, Forget(o) PROVE Asked'
  BY <1>9, AskedLeaving, AskedKept DEF Forget, target, wasm
<1> QED
  BY <1>1, <1>2, <1>5, <1>6, <1>7, <1>8, <1>9, AskedLeaving DEF Verbs, Disconnect

(* Late answers ask for nothing. *)
LEMMA AskedAnswers == ASSUME Asked, Answers PROVE Asked'
<1>1. ASSUME NEW c, ReachAnswered(c) \/ PlaneAnswered(c) \/ Verified(c) PROVE Asked'
  <2>1. UNCHANGED <<origin, pend, session>>
    BY <1>1 DEF ReachAnswered, PlaneAnswered, Verified, connectRest, wasm
  <2>2. state' \in {"starting", "streaming"} => state' = state
    BY <1>1 DEF ReachAnswered, PlaneAnswered, Verified, ConnectSays, Trusted
  <2> QED
    BY <2>1, <2>2, AskedKept
<1>2. ASSUME NEW h, KeyLoaded(h) \/ KeyFailed(h) PROVE Asked'
  <2>1. UNCHANGED <<origin, pend, session>>
    BY <1>2 DEF KeyLoaded, KeyFailed, target, wasm
  <2>2. state' \in {"starting", "streaming"} => state' = state
    BY <1>2, DialSays DEF KeyLoaded, KeyFailed, KeyFailure
  <2> QED
    BY <2>1, <2>2, AskedKept
<1>3. ASSUME NEW i, InfoAnswered(i) PROVE Asked'
  BY <1>3, AskedKept DEF InfoAnswered, target, wasm
<1>4. ASSUME NEW r, RenewalEnded(r) PROVE Asked'
  BY <1>4, DialNowSays, AskedKept DEF RenewalEnded, target, wasm
<1>5. ASSUME NEW p, Printed(p) PROVE Asked'
  BY <1>5, AskedKept DEF Printed, target, wasm
<1> QED
  BY <1>1, <1>2, <1>3, <1>4, <1>5 DEF Answers

(* The carrier's events and the host's frames: only a redirect asks again. *)
LEMMA AskedNetwork == ASSUME Asked, Network PROVE Asked'
<1>1. ASSUME UNCHANGED origin, Speak PROVE Asked'
  BY <1>1 DEF Speak, Hello, wasm, pend, Asked, OneHost
<1>2. ASSUME WtOpens PROVE Asked'
  BY <1>2, AskedKept DEF WtOpens, target, wasm
<1>3. ASSUME SilencePasses PROVE Asked'
  BY <1>3, AskedKept DEF SilencePasses, OpenWs, RefusedToDial, target, wasm
<1>4. ASSUME NeverOpens PROVE Asked'
  BY <1>4, AskedKept DEF NeverOpens, OpenWs, RefusedToDial, StopSession, ResetWasm, target, wasm
<1>5. ASSUME NEW code, NEW said, CarrierCloses(code, said) \/ HostRefuses(code, said)
      PROVE  Asked'
  <2>1. UNCHANGED <<origin, pend>> /\ Closed(code, said)
    BY <1>5 DEF CarrierCloses, HostRefuses, closedRest, target
  <2>2. session' \in {session, "Idle"} /\ (state' \in {"starting", "streaming"} => state' = state)
    BY <2>1 DEF Closed, StopSession, ResetWasm, Dropped, wasm
  <2> QED
    BY <2>1, <2>2, AskedKept
<1>6. ASSUME HostAccepts PROVE Asked'
  BY <1>6 DEF HostAccepts, framed, target, pend, Asked, OneHost
<1>7. ASSUME HostGarbles PROVE Asked'
  BY <1>7, AskedKept DEF HostGarbles, framed, target
<1>8. ASSUME NEW ok, HostSettlesPairing(ok) PROVE Asked'
  BY <1>8, AskedKept DEF HostSettlesPairing, framed, target, wasm
<1>9. ASSUME NEW seat, HostRedirects(seat) PROVE Asked'
  BY <1>9 DEF HostRedirects, StopSession, ResetWasm, target, Asked, OneHost
<1> QED
  BY <1>1, <1>2, <1>3, <1>4, <1>5, <1>6, <1>7, <1>8, <1>9
     DEF Network, WsOpens, WtControlOpens, target

(* The decoder and the frame loop: only a restart asks again. *)
LEMMA AskedPage == ASSUME Asked, Page PROVE Asked'
<1>1. ASSUME NEW left, Restart(left), UNCHANGED <<origin, pendingPin, pendingKnock, streamed>>,
             streamed = origin
      PROVE  Asked'
  BY <1>1, BindAndDialSays DEF Restart, StopSession, ResetWasm, Asked, OneHost
<1>2. ASSUME NEW c, Undecodable(c) PROVE Asked'
  BY <1>2, <1>1, AskedKept DEF Undecodable, StopSession, ResetWasm, target, pend, Asked
<1>3. ASSUME HdrConverted PROVE Asked'
  BY <1>3, AskedKept DEF HdrConverted, target, wasm
<1>4. ASSUME RestartInSdr PROVE Asked'
  BY <1>4, <1>1, AskedKept DEF RestartInSdr, target, pend, wasm, Asked
<1>5. ASSUME Frame PROVE Asked'
  <2>1. PICK k : UpdateSession(k) /\ k \in {"pair-refused", state}
    BY <1>5 DEF Frame
  <2>2. /\ session' \in {session, "Idle"}
        /\ state' \in {"starting", "streaming"} => state' = state \/ session = "Live"
    BY <2>1 DEF UpdateSession, Grace, StopSession, ResetWasm, wasm
  <2>3. UNCHANGED <<origin, pend>>
    BY <1>5 DEF Frame, target
  <2> QED
    BY <2>2, <2>3 DEF Asked, OneHost, pend
<1>6. ASSUME GracePasses \/ BudgetPasses PROVE Asked'
  BY <1>6, AskedKept DEF GracePasses, BudgetPasses, timeless, target
<1> QED
  BY <1>2, <1>3, <1>4, <1>5, <1>6 DEF Page

LEMMA AskedHolds == Spec => []Asked
<1>1. Init => Asked
  BY DEF Init, Asked, OneHost
<1>2. Asked /\ [Next]_vars => Asked'
  <2>1. Asked /\ UNCHANGED vars => Asked'
    BY AskedKept DEF vars, target, wasm
  <2> QED
    BY <2>1, AskedVerbs, AskedAnswers, AskedNetwork, AskedPage DEF Next
<1> QED
  BY <1>1, <1>2, PTL DEF Spec

(* A PIN, a request for access or a stream asked for is only ever held for the current host. *)
THEOREM OneHostHolds == Spec => []OneHost
<1>1. Asked => OneHost
  BY DEF Asked
<1> QED
  BY <1>1, AskedHolds, PTL

(* Who said what.  A host that let us in is a fact from the frame that says so on, and each later
   claim rests on one before it: a live session, a ceremony's verdict, a digest on its way to the
   store, the store.  The frames of a session or a ceremony come from the current host, or are of
   no matter to a host that let us in before. *)
HeardFrom == Talking /\ (session = "Offered" \/ (pairing /\ cred = "Pairing"))
Heard ==
    /\ NothingClaimed
    /\ \A p \in prints : p.origin \in admitted
    /\ session = "Live" \/ state = "streaming" \/ (pairing /\ cred = "Paired") => origin \in admitted
    /\ HeardFrom => carrier.origin = origin \/ origin \in admitted

(* A page that connects anew over a dial leaves one on its way to another host. It opens to nothing
   asked of the current one, unless that let us in before: what is asked of it is asked once its
   plane is known, and dials. *)
Elsewhere == carrier.phase \in {"opening", "open"} /\ carrier.origin # origin
Unasked == pendingPin = None /\ pendingKnock = None /\ pendingStream = None
Apart ==
    /\ keyEpoch <= epoch /\ \A c \in connects : c.at = "verify" => c.known # None
    /\ host # 0 \/ state = "ready" => origin \in admitted
    /\ Elsewhere =>
         /\ session = "Idle" /\ (keyEpoch = epoch \/ state = "needs-pairing" => plane # None)
         /\ origin \in admitted \/ (Unasked /\ state # "starting")

(* A step that says nothing new keeps what was heard. *)
Unsaid ==
    /\ UNCHANGED admitted /\ prints' \subseteq prints
    /\ \A o \in Origins : stored'[o] \in {stored[o], None}
    /\ origin' = origin \/ (state' \in {"idle", "reaching"} /\ session' = "Idle" /\ ~pairing')
    /\ state' \in {"paired", "streaming"} => state' = state
    /\ session' \in {session, "Idle", "Failed"}
    /\ pairing' => pairing /\ (cred' \in {cred, "Ready"})

LEMMA HeardKept ==
    ASSUME Heard, Unsaid, Talking' => UNCHANGED <<carrier, origin>> \/ ~HeardFrom'
    PROVE  Heard'
<1>1. NothingClaimed'
  BY DEF Heard, Unsaid, NothingClaimed
<1>2. \A p \in prints' : p.origin \in admitted'
  BY DEF Heard, Unsaid
<1>3. session' = "Live" \/ state' = "streaming" \/ (pairing' /\ cred' = "Paired")
        => origin' \in admitted'
  BY DEF Heard, Unsaid
<1>4. HeardFrom' => carrier'.origin = origin' \/ origin' \in admitted'
  BY DEF Heard, Unsaid, HeardFrom, Talking
<1> QED
  BY <1>1, <1>2, <1>3, <1>4 DEF Heard

(* A dial is silent until it opens: no carrier it makes is talking. *)
SameVoice == Talking' => carrier' = carrier

LEMMA DialIsSilent ==
    ASSUME NEW k, NEW seat, Dial(k, seat) \/ DialNow(k, seat) PROVE SameVoice
<1>1. DialNow(k, seat) => SameVoice
  BY DialNowMoves DEF SameVoice, Talking, NoCarrier
<1> QED
  BY <1>1 DEF Dial, SameVoice, line

LEMMA BindAndDialIsSilent ==
    ASSUME NEW k, NEW hash, NEW seat, BindAndDial(k, hash, seat) PROVE SameVoice
  BY DialIsSilent DEF BindAndDial, SameVoice, line

(* The verbs claim nothing, and a reset forgets what the host said. *)
LEMMA HeardVerbs == ASSUME TInv, Heard, Verbs PROVE Heard'
<1>1. ASSUME NEW o, NEW e, Reach(o, e), \A h \in Origins : stored'[h] \in {stored[h], None}
      PROVE  Heard'
  <2>1. Unsaid /\ ~HeardFrom'
    BY <1>1 DEF Reach, ResetWasm, Unsaid, HeardFrom
  <2> QED
    BY <2>1, HeardKept
<1>2. ASSUME NEW o \in Origins, stored' = [stored EXCEPT ![o] = None]
      PROVE  \A h \in Origins : stored'[h] \in {stored[h], None}
  BY <1>2 DEF TInv, TypeOK, TypePrints
<1>3. ASSUME LeaveHost, \A h \in Origins : stored'[h] \in {stored[h], None} PROVE Heard'
  <2>1. Unsaid /\ ~HeardFrom'
    BY <1>3 DEF LeaveHost, StopSession, ResetWasm, Unsaid, HeardFrom
  <2> QED
    BY <2>1, HeardKept
<1>4. ASSUME NEW o, NEW e, Connect(o, e) PROVE Heard'
  BY <1>1, <1>4 DEF Connect
<1>5. ASSUME NEW k \in {"pairing", "awaiting-approval"}, AskNow(k) PROVE Heard'
  <2>1. Unsaid /\ UNCHANGED origin
    BY <1>5, DialSays DEF AskNow, Unsaid, target, flags, wasm, known
  <2>2. SameVoice
    BY <1>5, DialIsSilent DEF AskNow
  <2> QED
    BY <2>1, <2>2, HeardKept DEF SameVoice
<1>6. ASSUME AskAgain PROVE Heard'
  <2>1. origin \in Origins
    BY <1>6, Chosen DEF AskAgain
  <2> QED
    BY <1>1, <1>2, <1>6, <2>1 DEF AskAgain
<1>7. ASSUME Pair \/ RequestAccess PROVE Heard'
  BY <1>5, <1>6, <1>7 DEF Pair, RequestAccess
<1>8. ASSUME ConnectBadAddress \/ CancelRequest \/ (Leave /\ host # 0)
             \/ (\E o \in Origins : Forget(o) /\ o # origin)
      PROVE  Heard'
  <2>1. Unsaid /\ UNCHANGED origin
    BY <1>2, <1>8 DEF ConnectBadAddress, CancelRequest, Leave, Forget, StopSession, ResetWasm,
                      Unsaid, target, flags, wasm, known
  <2>2. carrier' \in {carrier, NoCarrier}
    BY <1>8 DEF ConnectBadAddress, CancelRequest, Leave, Forget, CloseCarrier, line
  <2> QED
    BY <2>1, <2>2, HeardKept DEF Talking, NoCarrier
<1>9. ASSUME StartStream PROVE Heard'
  <2>1. Unsaid /\ UNCHANGED origin
    BY <1>9, BindAndDialSays DEF StartStream, Unsaid, target, flags, wasm, known
  <2>2. SameVoice
    BY <1>9, BindAndDialIsSilent DEF StartStream
  <2> QED
    BY <2>1, <2>2, HeardKept DEF SameVoice
<1>10. ASSUME Disconnect \/ (Leave /\ host = 0) \/ (\E o \in Origins : Forget(o) /\ o = origin)
       PROVE  Heard'
  BY <1>2, <1>3, <1>10 DEF Disconnect, Leave, Forget
<1> QED
  BY <1>4, <1>7, <1>8, <1>9, <1>10 DEF Verbs

(* Of the late answers only a digest says something, and it is of a host that let us in. *)
LEMMA HeardAnswers == ASSUME Heard, Answers PROVE Heard'
<1>1. ASSUME NEW c, ReachAnswered(c) \/ PlaneAnswered(c) \/ Verified(c) PROVE Heard'
  <2>1. UNCHANGED <<origin, carrier>>
    BY <1>1 DEF ReachAnswered, PlaneAnswered, Verified, connectRest, line
  <2>2. UNCHANGED <<flags, cred, wasm, prints, known>>
    BY <1>1 DEF ReachAnswered, PlaneAnswered, Verified, connectRest
  <2>3. state' \in {state, "unreachable", "blocked", "error", "untrusted", "connecting"}
    BY <1>1 DEF ReachAnswered, PlaneAnswered, Verified, ConnectSays, Trusted
  <2>4. Unsaid
    BY <2>1, <2>2, <2>3 DEF Unsaid, flags, wasm, known
  <2> QED
    BY <2>1, <2>4, HeardKept
<1>2. ASSUME NEW h, KeyLoaded(h) \/ KeyFailed(h) PROVE Heard'
  <2>1. Unsaid /\ UNCHANGED origin
    BY <1>2, DialSays DEF KeyLoaded, KeyFailed, KeyFailure, Unsaid, target, flags, wasm, known
  <2>2. SameVoice
    BY <1>2, DialIsSilent DEF KeyLoaded, KeyFailed, SameVoice, line
  <2> QED
    BY <2>1, <2>2, HeardKept DEF SameVoice
<1>3. ASSUME NEW i, InfoAnswered(i) PROVE Heard'
  BY <1>3, HeardKept DEF InfoAnswered, Unsaid, target, flags, line, wasm, known
<1>4. ASSUME NEW r, RenewalEnded(r) PROVE Heard'
  <2>1. Unsaid /\ UNCHANGED origin
    BY <1>4, DialNowSays DEF RenewalEnded, Unsaid, target, flags, wasm, known
  <2>2. SameVoice
    BY <1>4, DialIsSilent DEF RenewalEnded, SameVoice, line
  <2> QED
    BY <2>1, <2>2, HeardKept DEF SameVoice
<1>5. ASSUME NEW p \in prints, Printed(p) PROVE Heard'
  <2>1. p.origin \in admitted
    BY DEF Heard
  <2>2. NothingClaimed'
    BY <1>5, <2>1 DEF Printed, Shows, Heard, NothingClaimed, target
  <2>3. /\ UNCHANGED <<origin, pairing, cred, carrier, session, admitted>> /\ prints' \subseteq prints
        /\ state' \in {state, "paired"}
    BY <1>5 DEF Printed, target, flags, line, wasm
  <2> QED
    BY <2>2, <2>3 DEF Heard, HeardFrom, Talking
<1> QED
  BY <1>1, <1>2, <1>3, <1>4, <1>5 DEF Answers

(* The carrier and the host: what a frame or a close says is said by the current host, whom a
   carrier that has something to say (Apart) and a Hello or a ceremony out (HeardFrom) are for. *)
LEMMA HeardNetwork == ASSUME TInv, Apart, Heard, Network PROVE Heard'
<1>1. ASSUME carrier.phase \in {"opening", "open"}, Speak, UNCHANGED <<origin, prints, known>>
      PROVE  Heard'
  <2>1. carrier' \in {NoCarrier, [carrier EXCEPT !.phase = "ctl"]}
    BY <1>1 DEF Speak
  <2>2. Talking' => carrier'.origin = origin' \/ origin' \in admitted'
    BY <1>1, <2>1, Chosen DEF Apart, Elsewhere, Unasked, Speak, Talking, NoCarrier, known
  <2>3. /\ session' \in {session, "Offered"} /\ state' \in {state, "awaiting-approval", "pairing"}
        /\ pairing' /\ cred' = "Paired" => pairing /\ cred = "Paired"
    BY <1>1 DEF Speak, Hello, flags, wasm
  <2> QED
    BY <1>1, <2>2, <2>3 DEF Heard, HeardFrom, NothingClaimed, known
<1>2. ASSUME WsOpens \/ WtControlOpens PROVE Heard'
  BY <1>1, <1>2 DEF WsOpens, WtControlOpens, target
<1>3. ASSUME WtOpens PROVE Heard'
  <2>1. ~Talking'
    BY <1>3, Chosen DEF WtOpens, Talking
  <2> QED
    BY <1>3, <2>1, HeardKept DEF WtOpens, Unsaid, target, flags, wasm, known
<1>4. ASSUME SilencePasses \/ NeverOpens PROVE Heard'
  <2>1. Unsaid /\ UNCHANGED origin
    BY <1>4 DEF SilencePasses, NeverOpens, OpenWs, RefusedToDial, StopSession, ResetWasm, Unsaid,
                target, flags, wasm, known
  <2>2. Talking' => carrier' = carrier
    BY <1>4, WsMoves DEF SilencePasses, NeverOpens, Talking, NoCarrier
  <2> QED
    BY <2>1, <2>2, HeardKept
<1>5. ASSUME NEW code, NEW said, CarrierCloses(code, said) \/ HostRefuses(code, said)
      PROVE  Heard'
  <2>1. Closed(code, said) /\ Admits(code) /\ carrier' \in {carrier, NoCarrier}
    BY <1>5 DEF CarrierCloses, HostRefuses
  <2>2. UNCHANGED <<origin, cred, stored>>
    BY <1>5 DEF CarrierCloses, HostRefuses, closedRest, target
  <2>3. code = "placement" => origin \in admitted'
    <3>1. code = "placement" => session = "Offered" /\ carrier.phase \in {"open", "ctl"}
      BY <1>5 DEF CarrierCloses, HostRefuses
    <3> QED
      BY <2>1, <3>1 DEF Admits, Apart, Elsewhere, Heard, HeardFrom, Talking
  <2>4. admitted \subseteq admitted'
    BY <2>1 DEF Admits
  <2>5. /\ session' \in {session, "Idle"} /\ (pairing' => pairing)
        /\ state' \in {"paired", "streaming"} => state' = state \/ code = "placement"
        /\ \A p \in prints' : p \in prints \/ (p.origin = origin /\ code = "placement")
    BY <2>1 DEF Closed, Dropped, StopSession, ResetWasm, Prints, flags, wasm
  <2>6. NothingClaimed'
    BY <2>2, <2>3, <2>4, <2>5 DEF Heard, NothingClaimed
  <2>7. HeardFrom' => carrier'.origin = origin' \/ origin' \in admitted'
    BY <2>1, <2>2, <2>4, <2>5 DEF Heard, HeardFrom, Talking, NoCarrier
  <2> QED
    BY <2>2, <2>3, <2>4, <2>5, <2>6, <2>7 DEF Heard
<1>6. ASSUME HostAccepts \/ \E ok \in BOOLEAN : HostSettlesPairing(ok) PROVE Heard'
  <2>1. /\ Talking /\ UNCHANGED <<origin, state, pairing, prints, stored, carrier>>
        /\ admitted \subseteq admitted'
    BY <1>6 DEF HostAccepts, HostSettlesPairing, framed, target, flags
  <2>2. \/ /\ session = "Offered" /\ session' = "Live" /\ cred' = cred
           /\ admitted' = admitted \cup {carrier.origin}
        \/ /\ cred = "Pairing" /\ session' = session
           /\ cred' = "Failed" \/ (cred' = "Paired" /\ admitted' = admitted \cup {carrier.origin})
    BY <1>6 DEF HostAccepts, HostSettlesPairing, wasm
  <2>3. session' = "Live" \/ state' = "streaming" \/ (pairing' /\ cred' = "Paired")
          => origin' \in admitted'
    BY <2>1, <2>2 DEF Heard, HeardFrom
  <2>4. HeardFrom' => carrier'.origin = origin' \/ origin' \in admitted'
    BY <2>1, <2>2 DEF Heard, HeardFrom, Talking
  <2> QED
    BY <2>1, <2>3, <2>4 DEF Heard, NothingClaimed
<1>7. ASSUME HostGarbles PROVE Heard'
  BY <1>7, HeardKept DEF HostGarbles, framed, Unsaid, target, flags, known
<1>8. ASSUME NEW seat, HostRedirects(seat) PROVE Heard'
  <2>1. Unsaid /\ UNCHANGED origin
    BY <1>8 DEF HostRedirects, StopSession, ResetWasm, Unsaid, target, flags, known
  <2>2. carrier' \in {carrier, NoCarrier}
    BY <1>8 DEF HostRedirects, CloseCarrier, line
  <2> QED
    BY <2>1, <2>2, HeardKept DEF Talking, NoCarrier
<1> QED
  BY <1>2, <1>3, <1>4, <1>5, <1>6, <1>7, <1>8 DEF Network

(* The page shows a verdict, and has a digest made for the store, only of what was heard. *)
LEMMA HeardPage == ASSUME Heard, Page PROVE Heard'
<1>1. ASSUME NEW c, Undecodable(c) \/ RestartInSdr PROVE Heard'
  <2>1. Unsaid /\ UNCHANGED origin
    BY <1>1, BindAndDialSays DEF Undecodable, RestartInSdr, Restart, StopSession, ResetWasm, Unsaid,
                                 target, flags, wasm, known
  <2>2. SameVoice \/ carrier' = NoCarrier
    BY <1>1, BindAndDialIsSilent DEF Undecodable, RestartInSdr, Restart, CloseCarrier, SameVoice,
                                     line
  <2> QED
    BY <2>1, <2>2, HeardKept DEF SameVoice, Talking, NoCarrier
<1>2. ASSUME HdrConverted \/ GracePasses \/ BudgetPasses PROVE Heard'
  BY <1>2, HeardKept DEF HdrConverted, GracePasses, BudgetPasses, timeless, Unsaid, target, flags,
                         line, wasm, known
<1>3. ASSUME Frame PROVE Heard'
  <2>1. PICK k : UpdateSession(k) /\ k \in {"pair-refused", state}
    BY <1>3 DEF Frame
  <2>2. UNCHANGED <<origin, cred, admitted, stored>> /\ (pairing' => pairing)
    BY <1>3 DEF Frame, target, known
  <2>3. /\ session' \in {session, "Idle"} /\ carrier' \in {carrier, NoCarrier}
        /\ state' \in {"paired", "streaming"} =>
             state' = state \/ (state' = "streaming" /\ session = "Live")
    BY <2>1 DEF UpdateSession, Grace, StopSession, ResetWasm, CloseCarrier, wasm
  <2>4. \A p \in prints' : p \in prints \/ (p.origin = origin /\ origin \in admitted)
    BY <1>3 DEF Frame, Prints, Heard
  <2>5. NothingClaimed'
    BY <2>2, <2>3 DEF Heard, NothingClaimed
  <2>6. HeardFrom' => carrier'.origin = origin' \/ origin' \in admitted'
    BY <2>2, <2>3 DEF Heard, HeardFrom, Talking, NoCarrier
  <2> QED
    BY <2>2, <2>3, <2>4, <2>5, <2>6 DEF Heard
<1> QED
  BY <1>1, <1>2, <1>3 DEF Page

LEMMA HeardStep == ASSUME TInv, Apart, Heard, [Next]_vars PROVE Heard'
<1>1. UNCHANGED vars => Heard'
  BY HeardKept DEF vars, Unsaid, target, flags, line, wasm, known
<1> QED
  BY <1>1, HeardVerbs, HeardAnswers, HeardNetwork, HeardPage DEF Next

(* A step within a connect: it takes no dial elsewhere, and asks nothing past one. *)
Within ==
    /\ UNCHANGED <<origin, epoch>> /\ admitted \subseteq admitted' /\ (plane' = plane \/ plane' # None)
    /\ \A c \in connects' : c \in connects \/ c.at # "verify" \/ c.known # None
    /\ host' # 0 \/ state' = "ready" => host # 0 \/ state = "ready" \/ origin \in admitted
    /\ keyEpoch' \in {keyEpoch, epoch}
    /\ Elsewhere' =>
         /\ Elsewhere /\ session' \in {session, "Idle"} /\ (keyEpoch' = keyEpoch \/ plane' # None)
         /\ state' = "needs-pairing" => state = "needs-pairing" \/ keyEpoch = epoch
         /\ origin \in admitted \/ (UNCHANGED <<pendingPin, pendingKnock, pendingStream>>
                                    /\ (state' = "starting" => state = "starting"))

LEMMA ApartKept == ASSUME TInv, Apart, Within PROVE Apart'
<1>1. keyEpoch' <= epoch' /\ \A c \in connects' : c.at = "verify" => c.known # None
  BY DEF Apart, Within, TInv, TypeOK, TypeTarget
<1>2. host' # 0 \/ state' = "ready" => origin' \in admitted'
  BY DEF Apart, Within
<1>3. ASSUME Elsewhere'
      PROVE  /\ session' = "Idle" /\ (keyEpoch' = epoch' \/ state' = "needs-pairing" => plane' # None)
             /\ origin' \in admitted' \/ (Unasked' /\ state' # "starting")
  BY <1>3 DEF Apart, Within, Unasked
<1> QED
  BY <1>1, <1>2, <1>3 DEF Apart

(* A dial is to the current host; where none is made, its plane is missing or its pass renewed. *)
LEMMA DialStays ==
    ASSUME NEW k, NEW seat, Dial(k, seat), UNCHANGED origin, Elsewhere'
    PROVE  Elsewhere /\ (plane = None \/ stored[origin] # None)
<1>1. DialNow(k, seat) => ~Elsewhere'
  BY DialNowMoves DEF Elsewhere, NoCarrier
<1> QED
  BY <1>1 DEF Dial, Bridged, line, Elsewhere

(* ... and a key is loaded where the plane is known. *)
LEMMA BindAndDialStays ==
    ASSUME NEW k, NEW hash, NEW seat, BindAndDial(k, hash, seat), UNCHANGED origin
    PROVE  /\ keyEpoch' \in {keyEpoch, epoch} /\ (keyEpoch' = keyEpoch \/ plane # None)
           /\ Elsewhere' => Elsewhere
  BY DialStays DEF BindAndDial, BindKey, key, line, Elsewhere

(* The verbs: connect alone may leave a dial elsewhere. *)
LEMMA ApartVerbs == ASSUME TInv, Heard, Apart, Verbs PROVE Apart'
<1>a. \A o \in Origins : stored[o] # None => o \in admitted
  BY DEF Heard, NothingClaimed
<1>1. ASSUME NEW o, NEW e, Reach(o, e), Elsewhere' => Unasked' \/ o \in admitted PROVE Apart'
  <2>1. /\ keyEpoch \in Nat /\ epoch \in Nat /\ keyEpoch' = keyEpoch /\ epoch' = epoch + 1
        /\ origin' = o /\ admitted' = admitted /\ state' = "reaching" /\ session' = "Idle" /\ host' = 0
    BY <1>1 DEF Reach, ResetWasm, TInv, TypeOK, TypeTarget, TypeKey
  <2>2. \A c \in connects' : c.at = "verify" => c.known # None
    BY <1>1 DEF Reach, Apart
  <2> QED
    BY <1>1, <2>1, <2>2 DEF Apart
<1>2. ASSUME LeaveHost PROVE Apart'
  <2>1. keyEpoch \in Nat /\ epoch \in Nat /\ keyEpoch' = keyEpoch /\ epoch' = epoch + 1
    BY <1>2 DEF LeaveHost, TInv, TypeOK, TypeTarget, TypeKey
  <2> QED
    BY <1>2, <2>1 DEF LeaveHost, CloseCarrier, NoCarrier, Elsewhere, Apart
<1>3. ASSUME NEW o, NEW e, Connect(o, e) PROVE Apart'
  <2>1. Reach(o, e) /\ carrier' = carrier /\ pendingStream' = None
        /\ pendingPin' = Kept(o, pendingPin) /\ pendingKnock' = Kept(o, pendingKnock)
    BY <1>3 DEF Connect, Reach
  <2>2. Elsewhere' => Unasked' \/ o \in admitted
    <3>1. CASE o = origin
      BY <2>1, <3>1 DEF Kept, Elsewhere, Unasked, Apart, Reach
    <3>2. CASE o # origin
      BY <2>1, <3>2 DEF Kept, Unasked
    <3> QED  BY <3>1, <3>2
  <2> QED
    BY <1>1, <2>1, <2>2
<1>4. ASSUME AskAgain PROVE Apart'
  BY <1>1, <1>4 DEF AskAgain, CloseCarrier, NoCarrier, Elsewhere
<1>5. ASSUME NEW k \in {"pairing", "awaiting-approval"}, AskNow(k),
             pendingPin' \in {pendingPin, origin}, pendingKnock' \in {pendingKnock, origin}
      PROVE  Apart'
  <2>1. /\ UNCHANGED <<origin, epoch, plane, admitted, connects, host, keyEpoch, session>>
        /\ state = "needs-pairing" /\ state' \in {k, "error"} /\ Dial(k, seatPlane)
    BY <1>5, DialSays DEF AskNow, target, wasm, known, hostly, key
  <2>2. ASSUME Elsewhere' PROVE Elsewhere /\ origin \in admitted
    <3>1. Elsewhere /\ (plane = None \/ stored[origin] # None)
      BY <2>1, <2>2, DialStays
    <3>2. origin \in Origins
      BY <2>1, Chosen
    <3> QED
      BY <1>a, <2>1, <3>1, <3>2 DEF Apart
  <2> QED
    BY <2>1, <2>2, ApartKept DEF Within
<1>6. ASSUME Pair \/ RequestAccess PROVE Apart'
  BY <1>4, <1>5, <1>6 DEF Pair, RequestAccess
<1>7. ASSUME CancelRequest PROVE Apart'
  <2>1. ~Elsewhere' /\ UNCHANGED <<origin, epoch, plane, admitted, connects, host, keyEpoch>>
        /\ state' = "needs-pairing"
    BY <1>7 DEF CancelRequest, CloseCarrier, NoCarrier, Elsewhere, target, known, hostly, key
  <2> QED
    BY <2>1, ApartKept DEF Within
<1>8. ASSUME ConnectBadAddress \/ (\E o \in Origins : Forget(o) /\ o # origin) PROVE Apart'
  <2>1. /\ UNCHANGED <<origin, epoch, plane, admitted, connects, host, keyEpoch, session, carrier>>
        /\ UNCHANGED pend /\ state' \in {state, "bad-address"}
    BY <1>8 DEF ConnectBadAddress, Forget, target, wasm, known, hostly, key, line
  <2> QED
    BY <2>1, ApartKept DEF Within, Elsewhere, pend
<1>9. ASSUME StartStream PROVE Apart'
  <2>1. /\ UNCHANGED <<origin, epoch, plane, admitted, connects, host, session>>
        /\ state = "ready" /\ state' \in {"starting", "error"} /\ BindAndDial("starting", origin, None)
    BY <1>9, BindAndDialSays DEF StartStream, target, wasm, known, hostly
  <2>2. origin \in admitted
    BY <2>1 DEF Apart
  <2> QED
    BY <2>1, <2>2, BindAndDialStays, ApartKept DEF Within
<1>10. ASSUME Leave, host # 0 PROVE Apart'
  <2>1. ~Elsewhere' /\ UNCHANGED <<origin, epoch, plane, admitted, connects, host, keyEpoch>>
    BY <1>10 DEF Leave, CloseCarrier, NoCarrier, Elsewhere, target, known, hostly, key
  <2> QED
    BY <1>10, <2>1, ApartKept DEF Within
<1> QED
  BY <1>2, <1>3, <1>6, <1>7, <1>8, <1>9, <1>10 DEF Verbs, Disconnect, Forget, Leave

(* Late answers: a key is loaded, and a host held, once the plane is known; and a host only with a
   fingerprint stored. *)
LEMMA ApartAnswers == ASSUME TInv, Heard, Apart, Answers PROVE Apart'
<1>1. ASSUME NEW c \in connects, ReachAnswered(c) \/ PlaneAnswered(c) \/ Verified(c) PROVE Apart'
  <2>1. UNCHANGED <<origin, epoch, admitted, host, session, carrier, pend>>
    BY <1>1 DEF ReachAnswered, PlaneAnswered, Verified, connectRest, wasm, line, known, hostly
  <2>2. state' \in {state, "unreachable", "blocked", "error", "untrusted", "connecting"}
    BY <1>1 DEF ReachAnswered, PlaneAnswered, Verified, ConnectSays, Trusted
  <2>3. plane' = plane \/ plane' # None
    BY <1>1, EngineAssumption DEF ReachAnswered, PlaneAnswered, Verified, ConnectSays, EngineAssumption
  <2>4. \A d \in connects' : d \in connects \/ d.at # "verify" \/ d.known # None
    <3>1. CASE ReachAnswered(c)
      <4>1. c \in [epoch : Nat, at : {"reach", "boot", "plane", "verify"}, known : Identities \cup {None}]
        BY DEF TInv, TypeOK, TypeAwaits
      <4>2. [c EXCEPT !.at = "plane"].at # "verify"
        BY <4>1
      <4>3. connects' \subseteq connects \cup {[c EXCEPT !.at = "plane"]}
        BY <3>1 DEF ReachAnswered, ConnectSays, Await
      <4> QED
        BY <4>2, <4>3
    <3>2. CASE PlaneAnswered(c)
      <4>1. \/ connects' \subseteq connects
            \/ Wanted # None /\ connects' \subseteq
                 connects \cup {[epoch |-> epoch, at |-> "verify", known |-> Wanted]}
        BY <3>2 DEF PlaneAnswered, ConnectSays, Trusted
      <4> QED
        BY <4>1
    <3>3. CASE Verified(c)
      BY <3>3 DEF Verified, ConnectSays, Trusted
    <3> QED
      BY <1>1, <3>1, <3>2, <3>3
  <2>5. keyEpoch' = keyEpoch \/ (keyEpoch' = epoch /\ plane' # None)
    BY <1>1, EngineAssumption
       DEF ReachAnswered, PlaneAnswered, Verified, ConnectSays, Trusted, Await, BindKey, key,
           EngineAssumption, Apart
  <2> QED
    BY <2>1, <2>2, <2>3, <2>4, <2>5, ApartKept DEF Within, Elsewhere, pend
<1>2. ASSUME NEW h, KeyLoaded(h) PROVE Apart'
  <2>1. UNCHANGED <<origin, epoch, plane, admitted, connects, keyEpoch, session, pend>>
    BY <1>2 DEF KeyLoaded, target, wasm, known
  <2>2. Elsewhere' => Elsewhere
    BY <1>2, <2>1, DialStays DEF KeyLoaded, line, Elsewhere
  <2>3. host' # 0 => host # 0 \/ origin \in admitted
    <3>1. host' = host \/ (origin # None /\ stored[origin] # None)
      BY <1>2 DEF KeyLoaded, hostly, KeyIsOurs
    <3> QED
      BY <3>1 DEF Heard, NothingClaimed, TInv, TypeOK, TypeTarget
  <2>4. state' \in {state, "error"} \/ (state' = "needs-pairing" /\ keyEpoch = epoch)
    BY <1>2, DialSays DEF KeyLoaded, KeyIsOurs
  <2> QED
    BY <2>1, <2>2, <2>3, <2>4, ApartKept DEF Within, pend
<1>3. ASSUME NEW i \in infos, InfoAnswered(i) PROVE Apart'
  <2>1. /\ UNCHANGED <<origin, epoch, plane, admitted, connects, host, keyEpoch, session, carrier, pend>>
        /\ state' = state \/ (host = i /\ state' \in {"ready", "forgotten", "error"})
    BY <1>3 DEF InfoAnswered, target, wasm, known, line, key
  <2>2. i # 0
    BY <1>3 DEF TInv, Linked
  <2> QED
    BY <2>1, <2>2, ApartKept DEF Within, Elsewhere, pend
<1>4. ASSUME NEW h, KeyFailed(h) PROVE Apart'
  <2>1. /\ UNCHANGED <<origin, epoch, plane, admitted, connects, host, keyEpoch, session, carrier, pend>>
        /\ state' \in {state, "error"}
    BY <1>4 DEF KeyFailed, KeyFailure, target, wasm, known, line, hostly
  <2> QED
    BY <2>1, ApartKept DEF Within, Elsewhere, pend
<1>5. ASSUME NEW r, RenewalEnded(r) PROVE Apart'
  <2>1. /\ UNCHANGED <<origin, epoch, plane, admitted, connects, host, keyEpoch, session, pend>>
        /\ state' \in {state, "error"}
    BY <1>5, DialNowSays DEF RenewalEnded, target, wasm, known, hostly, key
  <2>2. Elsewhere' => Elsewhere
    BY <1>5, <2>1, DialNowMoves DEF RenewalEnded, Elsewhere, line, NoCarrier
  <2> QED
    BY <2>1, <2>2, ApartKept DEF Within, pend
<1>6. ASSUME NEW p, Printed(p) PROVE Apart'
  <2>1. /\ UNCHANGED <<origin, epoch, plane, admitted, connects, host, keyEpoch, session, carrier, pend>>
        /\ state' \in {state, "paired"}
    BY <1>6 DEF Printed, target, wasm, line, hostly, key
  <2> QED
    BY <2>1, ApartKept DEF Within, Elsewhere, pend
<1> QED
  BY <1>1, <1>2, <1>3, <1>4, <1>5, <1>6 DEF Answers

(* The carrier and the host: one that speaks is open, and none falls back elsewhere. *)
LEMMA ApartNetwork == ASSUME TInv, Apart, Network PROVE Apart'
<1>a. UNCHANGED <<origin, epoch, plane, connects, host>>
  BY DEF Network, WsOpens, WtOpens, WtControlOpens, SilencePasses, NeverOpens, CarrierCloses,
         HostRefuses, HostAccepts, HostGarbles, HostSettlesPairing, HostRedirects, closedRest, framed,
         target, hostly
<1>b. admitted \subseteq admitted'
  BY DEF Network, WsOpens, WtOpens, WtControlOpens, SilencePasses, NeverOpens, CarrierCloses,
         HostRefuses, Admits, HostAccepts, HostGarbles, HostSettlesPairing, HostRedirects, framed, known
<1>1. ASSUME ~Elsewhere', state' \notin {"ready"} \ {state}, keyEpoch' \in {keyEpoch, epoch} PROVE Apart'
  BY <1>a, <1>b, <1>1, ApartKept DEF Within
<1>2. ASSUME WsOpens \/ WtControlOpens PROVE Apart'
  <2>1. keyEpoch' = keyEpoch /\ Speak
    BY <1>2 DEF WsOpens, WtControlOpens, key
  <2>2. ~Elsewhere' /\ state' \in {state, "awaiting-approval", "pairing"}
    <3>1. carrier' \in {NoCarrier, [carrier EXCEPT !.phase = "ctl"]}
      BY <2>1 DEF Speak
    <3>2. carrier'.phase \in {"gone", "ctl"}
      BY <1>2, <3>1, Chosen DEF NoCarrier, WsOpens, WtControlOpens
    <3> QED
      BY <2>1, <3>2 DEF Elsewhere, Speak
  <2> QED
    BY <1>1, <2>1, <2>2
<1>3. ASSUME WtOpens PROVE Apart'
  <2>1. /\ UNCHANGED <<state, session, keyEpoch, pend>>
        /\ carrier.phase = "opening" /\ carrier' = [carrier EXCEPT !.phase = "open"]
    BY <1>3 DEF WtOpens, wasm, key
  <2>2. carrier'.origin = carrier.origin
    BY <2>1
  <2> QED
    BY <1>a, <1>b, <2>1, <2>2, ApartKept DEF Within, Elsewhere, pend
<1>4. ASSUME SilencePasses \/ NeverOpens PROVE Apart'
  <2>1. /\ keyEpoch' = keyEpoch /\ state' \in {state, "error"}
        /\ carrier' = NoCarrier \/ (carrier'.phase = "opening" /\ carrier'.origin = origin)
    <3>1. \/ OpenWs(state, fallback)
          \/ carrier' = NoCarrier /\ state' \in {state, "error"}
      BY <1>4 DEF SilencePasses, NeverOpens
    <3>2. keyEpoch' = keyEpoch
      BY <1>4 DEF SilencePasses, NeverOpens, key
    <3> QED
      BY <3>1, <3>2, WsMoves DEF OpenWs, RefusedToDial
  <2> QED
    BY <1>1, <1>a, <2>1 DEF Elsewhere, NoCarrier
<1>5. ASSUME NEW code, NEW said, CarrierCloses(code, said) \/ HostRefuses(code, said) PROVE Apart'
  <2>1. /\ keyEpoch' = keyEpoch /\ UNCHANGED pend /\ Closed(code, said) /\ carrier' \in {carrier, NoCarrier}
    BY <1>5 DEF CarrierCloses, HostRefuses, closedRest, key
  <2>2. /\ session' \in {session, "Idle"}
        /\ state' \in {state, "paired", "pair-refused", "forgotten", "error"}
    BY <2>1 DEF Closed, Dropped, StopSession, ResetWasm, wasm
  <2> QED
    BY <1>a, <1>b, <2>1, <2>2, ApartKept DEF Within, Elsewhere, NoCarrier, pend
<1>6. ASSUME HostAccepts \/ HostGarbles \/ \E ok \in BOOLEAN : HostSettlesPairing(ok) PROVE Apart'
  <2>1. ~Elsewhere' /\ state' = state /\ keyEpoch' = keyEpoch
    BY <1>6 DEF HostAccepts, HostGarbles, HostSettlesPairing, framed, key, Talking, Elsewhere
  <2> QED
    BY <1>1, <2>1
<1>7. ASSUME NEW seat, HostRedirects(seat) PROVE Apart'
  <2>1. ~Elsewhere' /\ state' \in {state, "error"} /\ keyEpoch' \in {keyEpoch, epoch}
    BY <1>7 DEF HostRedirects, BindKey, CloseCarrier, NoCarrier, key, line, Talking, Elsewhere
  <2> QED
    BY <1>1, <2>1
<1> QED
  BY <1>2, <1>3, <1>4, <1>5, <1>6, <1>7 DEF Network

(* The decoder and the frame loop: a restart is of a session heard, or of a stream still starting. *)
LEMMA ApartPage == ASSUME TInv, Heard, Apart, Page PROVE Apart'
<1>1. ASSUME NEW left, Restart(left), session = "Live" \/ state \in {"starting", "streaming"},
             UNCHANGED <<origin, epoch, plane, admitted, connects, host>>
      PROVE  Apart'
  <2>1. /\ BindAndDial("starting", origin, None) /\ state' \in {"starting", "error"} /\ session' = "Idle"
    BY <1>1, BindAndDialSays DEF Restart, StopSession, ResetWasm
  <2>2. Elsewhere => origin \in admitted
    BY <1>1 DEF Heard, Apart
  <2> QED
    BY <1>1, <2>1, <2>2, BindAndDialStays, ApartKept DEF Within
<1>2. ASSUME NEW c, Undecodable(c) PROVE Apart'
  <2>1. UNCHANGED <<origin, epoch, plane, admitted, connects, host>> /\ session = "Live"
    BY <1>2 DEF Undecodable, target, known, hostly
  <2>2. \/ Restart(Codecs \ refused')
        \/ ~Elsewhere' /\ state' = "error" /\ keyEpoch' = keyEpoch
    BY <1>2 DEF Undecodable, CloseCarrier, NoCarrier, Elsewhere, key
  <2> QED
    BY <1>1, <2>1, <2>2, ApartKept DEF Within
<1>3. ASSUME RestartInSdr PROVE Apart'
  <2>1. UNCHANGED <<origin, epoch, plane, admitted, connects, host>>
    BY <1>3 DEF RestartInSdr, target, known, hostly
  <2>2. \/ state \in {"starting", "streaming"} /\ Restart(Codecs \ refused)
        \/ UNCHANGED <<state, session, carrier, keyEpoch, pend>>
    BY <1>3 DEF RestartInSdr, line, wasm, key, pend
  <2> QED
    BY <1>1, <2>1, <2>2, ApartKept DEF Within, Elsewhere, pend
<1>4. ASSUME HdrConverted \/ GracePasses \/ BudgetPasses PROVE Apart'
  <2>1. UNCHANGED <<origin, epoch, plane, admitted, connects, host, state, session, carrier, keyEpoch, pend>>
    BY <1>4 DEF HdrConverted, GracePasses, BudgetPasses, timeless, target, known, hostly, line, wasm, key
  <2> QED
    BY <2>1, ApartKept DEF Within, Elsewhere, pend
<1>5. ASSUME Frame PROVE Apart'
  <2>1. PICK k : UpdateSession(k) /\ k \in {"pair-refused", state}
    BY <1>5 DEF Frame
  <2>2. UNCHANGED <<origin, epoch, plane, admitted, connects, host, keyEpoch, pend>>
    BY <1>5 DEF Frame, target, known, hostly, key
  <2>3. /\ session' \in {session, "Idle"} /\ carrier' \in {carrier, NoCarrier}
        /\ state' \in {state, "pair-refused", "forgotten", "error", "streaming"}
    BY <2>1 DEF UpdateSession, Grace, StopSession, ResetWasm, CloseCarrier, wasm
  <2> QED
    BY <2>2, <2>3, ApartKept DEF Within, Elsewhere, NoCarrier, pend
<1> QED
  BY <1>2, <1>3, <1>4, <1>5 DEF Page

LEMMA ApartStep == ASSUME TInv, Heard, Apart, [Next]_vars PROVE Apart'
<1>1. UNCHANGED vars => Apart'
  BY ApartKept DEF vars, Within, Elsewhere, target, pend, line, wasm, hostly, key, known
<1> QED
  BY <1>1, ApartVerbs, ApartAnswers, ApartNetwork, ApartPage DEF Next

LEMMA HeardHolds == Spec => []Heard
<1>1. Init => Heard /\ Apart
  BY DEF Init, Heard, HeardFrom, NothingClaimed, Talking, NoCarrier, Apart, Elsewhere
<1>2. TInv /\ Apart /\ Heard /\ [Next]_vars => Apart' /\ Heard'
  BY ApartStep, HeardStep
<1> QED
  BY <1>1, <1>2, Typing, PTL DEF Spec

(* No step, late answer or carrier of another host stores a host, or shows it as paired, that did
   not let this device in. *)
THEOREM NothingIsClaimed == Spec => []NothingClaimed
  BY HeardHolds, PTL DEF Heard

(* ... nor shows a stream that was asked of another host, or that the current one did not accept. *)
THEOREM StreamHolds == Spec => []StreamIsOurs
<1>1. Asked /\ Heard => StreamIsOurs
  BY DEF Asked, Heard, StreamIsOurs
<1> QED
  BY <1>1, AskedHolds, HeardHolds, PTL

(* What a Hello for a stream offers is set as the stream is asked for and as it restarts. *)
Offers == state = "starting" => offer = Offer(Codecs \ refused)

(* A step that changes no codec and starts no stream keeps it. *)
LEMMA OffersKept ==
    ASSUME Offers, UNCHANGED <<refused, offer>>, state' = "starting" => state = "starting"
    PROVE  Offers'
  BY DEF Offers

LEMMA OffersStep == ASSUME Offers, [Next]_vars PROVE Offers'
<1>1. ASSUME NEW o, NEW e, Reach(o, e) PROVE Offers'
  BY <1>1 DEF Reach, Offers
<1>2. ASSUME LeaveHost PROVE Offers'
  BY <1>2 DEF LeaveHost, Offers
<1>3. CASE Verbs
  <2>1. ASSUME NEW k \in {"pairing", "awaiting-approval"}, AskNow(k) PROVE Offers'
    BY <2>1, DialSays DEF AskNow, Offers
  <2>2. ASSUME StartStream PROVE Offers'
    <3>1. Codecs \ refused' = Codecs /\ offer' = Offer(Codecs)
      BY <2>2 DEF StartStream
    <3> QED
      BY <3>1 DEF Offers, Offer
  <2>3. ASSUME CancelRequest \/ ConnectBadAddress \/ (Leave /\ host # 0) PROVE Offers'
    BY <2>3 DEF CancelRequest, ConnectBadAddress, Leave, Offers
  <2>4. ASSUME NEW o, Forget(o) PROVE Offers'
    BY <1>2, <2>4, OffersKept DEF Forget, codecs
  <2> QED
    BY <1>1, <1>2, <1>3, <2>1, <2>2, <2>3, <2>4
       DEF Verbs, Connect, Pair, RequestAccess, AskAgain, Leave, Disconnect
<1>4. CASE Answers
  <2>1. ASSUME NEW c, ReachAnswered(c) \/ PlaneAnswered(c) \/ Verified(c) PROVE Offers'
    <3>1. UNCHANGED codecs
      BY <2>1 DEF ReachAnswered, PlaneAnswered, Verified, connectRest
    <3>2. state' \in {state, "unreachable", "blocked", "error", "untrusted", "connecting"}
      BY <2>1 DEF ReachAnswered, PlaneAnswered, Verified, ConnectSays, Trusted
    <3> QED
      BY <3>1, <3>2, OffersKept DEF codecs
  <2>2. ASSUME NEW h, KeyLoaded(h) \/ KeyFailed(h) PROVE Offers'
    BY <2>2, DialSays, OffersKept DEF KeyLoaded, KeyFailed, KeyFailure, codecs
  <2>3. ASSUME NEW i, InfoAnswered(i) PROVE Offers'
    BY <2>3, OffersKept DEF InfoAnswered, codecs
  <2>4. ASSUME NEW r, RenewalEnded(r) PROVE Offers'
    BY <2>4, DialNowSays, OffersKept DEF RenewalEnded, codecs
  <2>5. ASSUME NEW p, Printed(p) PROVE Offers'
    BY <2>5, OffersKept DEF Printed, codecs
  <2> QED
    BY <1>4, <2>1, <2>2, <2>3, <2>4, <2>5 DEF Answers
<1>5. CASE Network
  <2>1. UNCHANGED codecs
    BY <1>5 DEF Network, WsOpens, WtOpens, WtControlOpens, SilencePasses, NeverOpens, CarrierCloses,
                HostRefuses, closedRest, HostAccepts, HostGarbles, HostSettlesPairing, framed,
                HostRedirects
  <2>2. state' = "starting" => state = "starting"
    BY <1>5 DEF Network, WsOpens, WtOpens, WtControlOpens, Speak, SilencePasses, NeverOpens, OpenWs,
                RefusedToDial, CarrierCloses, HostRefuses, Closed, Dropped, HostAccepts, HostGarbles,
                HostSettlesPairing, framed, HostRedirects
  <2> QED
    BY <2>1, <2>2, OffersKept DEF codecs
<1>6. CASE Page
  <2>1. ASSUME NEW c, Undecodable(c) PROVE Offers'
    BY <2>1 DEF Undecodable, Restart, Offers
  <2>2. ASSUME RestartInSdr PROVE Offers'
    BY <2>2, OffersKept DEF RestartInSdr, Restart, Offers
  <2>3. ASSUME Frame PROVE Offers'
    <3>1. PICK k : UpdateSession(k) /\ k \in {"pair-refused", state}
      BY <2>3 DEF Frame
    <3> QED
      BY <2>3, <3>1, OffersKept DEF Frame, UpdateSession, Grace, codecs
  <2>4. ASSUME HdrConverted \/ GracePasses \/ BudgetPasses PROVE Offers'
    BY <2>4, OffersKept DEF HdrConverted, GracePasses, BudgetPasses, timeless, codecs
  <2> QED
    BY <1>6, <2>1, <2>2, <2>3, <2>4 DEF Page
<1>7. CASE UNCHANGED vars
  BY <1>7, OffersKept DEF vars, codecs
<1> QED
  BY <1>3, <1>4, <1>5, <1>6, <1>7 DEF Next

(* A stream that starts offers every codec but those that failed to decode, and always one. *)
THEOREM OfferHolds == Spec => []OfferLeavesOut
<1>1. Init => Offers
  BY DEF Init, Offers
<1>2. Offers => OfferLeavesOut
  BY DEF Offers, OfferLeavesOut, Offer
<1> QED
  BY <1>1, <1>2, OffersStep, PTL DEF Spec


(* What the page has under way goes on one at a time: a connect, the load of a key, the asking of
   a host, the renewal of a pass, a dial, a session.  So a step of one finds nothing of another:
   an error finds no session up, and nothing dials over a stream.  OneLine leaves out a page that
   does two of them at once: one that leaves a stream while the key for a redirect is loaded and
   asks for another, and one that leaves a bridged stream and asks for another before the timer of
   an SDR restart has run. *)
OneLine == ~Hasty /\ Seats = {} /\ (HdrDisplay => BridgeOrigins = {})

Checking == \E c \in connects : ~Stale(c)
Loads    == keyEpoch = epoch /\ \E h \in Hashes : keyLoads[h] > 0
Asking   == host \in infos
Renewing == \E r \in renewals : r.epoch = epoch /\ r.host = host
Dialling == carrier.phase \in {"opening", "open"}
Up       == session \in {"Offered", "Live"}
Busy     == {"needs-pairing", "awaiting-approval", "ready", "starting", "streaming"}

OneLoad == \A h, g \in Hashes : keyLoads[h] > 0 /\ keyLoads[g] > 0 => h = g /\ keyLoads[h] = 1
OneAtATime ==
    /\ Up => ~Dialling /\ ~Renewing
    /\ Dialling => ~Renewing
    /\ Loads \/ Asking => ~Up /\ ~Dialling /\ ~Renewing /\ state \notin Busy
    /\ Loads => host = 0
    /\ Checking => \A h \in Hashes : keyLoads[h] = 0
    /\ OneLoad

(* A state a person acts in has no session but its own. *)
InState ==
    /\ Up => video
    /\ state \in {"ready", "needs-pairing"} => ~Up /\ ~Dialling
    /\ state = "streaming" => ~Dialling /\ video /\ session \in {"Live", "Failed"}
    /\ state = "ready" => host # 0
    /\ state \in {"needs-pairing", "awaiting-approval"} => host = 0
    /\ Loads \/ host # 0 \/ Dialling \/ Up \/ state \in Busy => boundHash = origin

(* A paired host asks for no PIN or access; only it has passes renewed, for its stream alone. *)
Paired ==
    /\ host # 0 => pendingPin = None /\ pendingKnock = None /\ stored[origin] # None
    /\ host <= hosts /\ \A r \in renewals : r.host <= hosts
    /\ \A r \in renewals :
         r.epoch = epoch /\ r.host = host => r.kind = "starting" /\ origin \in BridgeOrigins
    /\ hdr # "cannot" => HdrDisplay

Alone == OneAtATime /\ InState /\ Paired

(* What every step keeps besides, which other theorems have. *)
Known == TInv /\ Trust /\ FallbackWhileOpening

(* An error ends the session with it. *)
ErrorEnds == state # "error" /\ state' = "error" => session' \in {"Idle", "Failed"}
Stands == Alone' /\ ErrorEnds

(* A step that starts nothing. *)
Quieter ==
    /\ UNCHANGED <<origin, epoch, keyEpoch, boundHash, host, hosts>>
    /\ (Up' => Up) /\ (Dialling' => Dialling) /\ (Checking' => Checking)
    /\ infos' \subseteq infos /\ renewals' \subseteq renewals
    /\ keyLoads' = keyLoads \/ \E h \in Hashes : Loaded(h)
    /\ (video' = video) \/ ~Up'
    /\ stored[origin] # None => stored'[origin] # None
    /\ pendingPin' \in {pendingPin, None} /\ pendingKnock' \in {pendingKnock, None}
    /\ hdr' # "cannot" => hdr # "cannot"

(* The states such a step may lead to. *)
Onward ==
    \/ state' \notin Busy
    \/ state' = state /\ (state = "streaming" => video' = video /\ session' \in {session, "Live", "Failed"})
    \/ state' = "streaming" /\ session = "Live" /\ session' = "Live" /\ video' = video
    \/ state' = "ready" /\ host # 0 /\ host \notin infos' /\ ~Up' /\ ~Dialling'
    \/ state' = "needs-pairing" /\ state = "awaiting-approval" /\ ~Up' /\ ~Dialling'

(* Fewer loads are under way when one is answered. *)
LEMMA FewerLoads ==
    ASSUME TInv, keyLoads' = keyLoads \/ \E h \in Hashes : Loaded(h)
    PROVE  \A h \in Hashes : keyLoads'[h] \in Nat /\ keyLoads[h] \in Nat /\ keyLoads'[h] <= keyLoads[h]
  BY DEF TInv, TypeOK, TypeKey, Loaded

LEMMA QuieterKept == ASSUME Known, Alone, Quieter, Onward PROVE Alone'
<1>1. \A h \in Hashes : keyLoads'[h] \in Nat /\ keyLoads[h] \in Nat /\ keyLoads'[h] <= keyLoads[h]
  BY FewerLoads DEF Known, Quieter
<1>2. (Loads' => Loads) /\ (Asking' => Asking) /\ (Renewing' => Renewing)
  BY <1>1 DEF Loads, Asking, Renewing, Quieter
<1>3. Up => ~Loads /\ ~Asking /\ ~Dialling /\ video /\ boundHash = origin
  BY DEF Alone, OneAtATime, InState
<1>4. host # 0 => ~Loads /\ boundHash = origin
  BY DEF Alone, OneAtATime, InState
<1>5. OneAtATime'
  <2>1. (Up' => ~Dialling' /\ ~Renewing') /\ (Dialling' => ~Renewing') /\ (Loads' => host' = 0)
    BY <1>2 DEF Alone, OneAtATime, Quieter
  <2>2. Loads' \/ Asking' => ~Up' /\ ~Dialling' /\ ~Renewing'
    BY <1>2 DEF Alone, OneAtATime, Quieter
  <2>3. Loads' \/ Asking' => state' \notin Busy
    <3>1. Loads \/ Asking => state \notin Busy /\ ~Up
      BY DEF Alone, OneAtATime
    <3> QED
      BY <1>2, <1>4, <3>1 DEF Onward, Quieter, Busy, Up, Asking
  <2>4. Checking' => \A h \in Hashes : keyLoads'[h] = 0
    BY <1>1 DEF Alone, OneAtATime, Quieter
  <2>5. OneLoad'
    BY <1>1 DEF Alone, OneAtATime, OneLoad
  <2> QED
    BY <2>1, <2>2, <2>3, <2>4, <2>5 DEF OneAtATime
<1>6. InState'
  <2>1. Up' => video'
    BY DEF Alone, InState, Quieter
  <2>2. state' \in {"ready", "needs-pairing"} => ~Up' /\ ~Dialling'
    BY DEF Alone, InState, Quieter, Onward, Busy
  <2>3. state' = "streaming" => ~Dialling' /\ video' /\ session' \in {"Live", "Failed"}
    BY <1>3 DEF Alone, InState, Quieter, Onward, Busy, Up
  <2>4. (state' = "ready" => host' # 0) /\ (state' \in {"needs-pairing", "awaiting-approval"} => host' = 0)
    BY DEF Alone, InState, Quieter, Onward, Busy
  <2>5. Loads' \/ host' # 0 \/ Dialling' \/ Up' \/ state' \in Busy => boundHash' = origin'
    <3>1. Loads \/ host # 0 \/ Dialling \/ Up \/ state \in Busy => boundHash = origin
      BY DEF Alone, InState
    <3>2. state' \in Busy => state \in Busy \/ Up \/ host # 0
      BY DEF Onward, Busy, Up
    <3> QED
      BY <1>2, <3>1, <3>2 DEF Quieter
  <2> QED
    BY <2>1, <2>2, <2>3, <2>4, <2>5 DEF InState
<1>7. Paired'
  BY DEF Alone, Paired, Quieter
<1> QED
  BY <1>5, <1>6, <1>7 DEF Alone

(* Nothing else is under way where a dial begins, and the key is bound to the host. *)
Free == ~Loads /\ ~Asking /\ ~Checking /\ ~Up /\ boundHash = origin

(* A dial, or the renewal before it: k is the state its caller names. *)
LEMMA DialsAlone ==
    ASSUME Known, Alone, NEW k, NEW seat,
           Dial(k, seat) \/ (DialNow(k, seat) /\ renewals' \subseteq renewals /\ ~Renewing'),
           UNCHANGED <<origin, epoch, host, hosts, stored>>, Free', OneLoad',
           Dialling => origin \notin BridgeOrigins,
           k = "starting" \/ (host = 0 /\ k \notin {"ready", "needs-pairing", "streaming"}),
           host # 0 => pendingPin' = None /\ pendingKnock' = None, hdr' # "cannot" => HdrDisplay
    PROVE  Alone' /\ (state' = "error" => ~Up')
<1>1. state' \in {k, "error"} /\ state' \notin {"ready", "needs-pairing", "streaming"}
  BY DialSays, DialNowSays
<1>2. Bridged => host # 0 /\ origin \in BridgeOrigins
  BY DEF Bridged
<1>3. \A r \in renewals' : r \in renewals \/ (r = Renewal(k) /\ Bridged)
  BY DEF Dial
<1>4. Dialling' => ~Renewing'
  <2>1. CASE UNCHANGED <<line, renewals>>
    BY <2>1 DEF Alone, OneAtATime, Dialling, Renewing, line
  <2>2. CASE Bridged /\ UNCHANGED line
    BY <1>2, <2>2 DEF Dialling, line
  <2>3. CASE (Bridged => \A r \in renewals : r.host # host) /\ UNCHANGED renewals
    <3>1. \A r \in renewals : r.host # 0 /\ (r.epoch = epoch /\ r.host = host => Bridged)
      BY DEF Known, TInv, Linked, Alone, Paired, Bridged
    <3> QED
      BY <2>3, <3>1 DEF Renewing
  <2> QED
    BY <2>1, <2>2, <2>3 DEF Dial
<1>5. OneAtATime'
  BY <1>4 DEF OneAtATime, Free
<1>6. InState'
  <2>1. state' = "awaiting-approval" => host' = 0
    BY <1>1
  <2> QED
    BY <1>1, <2>1 DEF InState, Free
<1>7. Paired'
  <2>1. host' # 0 => pendingPin' = None /\ pendingKnock' = None /\ stored'[origin'] # None
    BY DEF Alone, Paired
  <2>2. host' <= hosts' /\ \A r \in renewals' : r.host <= hosts'
    BY <1>3 DEF Alone, Paired, Renewal
  <2>3. \A r \in renewals' :
          r.epoch = epoch' /\ r.host = host' => r.kind = "starting" /\ origin' \in BridgeOrigins
    BY <1>2, <1>3 DEF Alone, Paired, Renewal
  <2> QED
    BY <2>1, <2>2, <2>3 DEF Paired
<1> QED
  BY <1>5, <1>6, <1>7 DEF Alone, Free

(* A reset: connect, whichever verb runs it. *)
LEMMA ReachesAlone ==
    ASSUME Known, Alone, NEW o, NEW e, Reach(o, e), \A h \in Hashes : keyLoads[h] = 0,
           carrier'.phase \notin {"opening", "open"}
    PROVE  Alone' /\ state' = "reaching"
<1>1. /\ host' = 0 /\ hosts' = hosts /\ renewals' = renewals /\ infos' = infos /\ state' = "reaching"
      /\ session' = "Idle" /\ keyLoads' = keyLoads /\ hdr' = hdr
  BY DEF Reach, ResetWasm, codecs
<1>2. ~Up' /\ ~Dialling' /\ ~Loads' /\ OneLoad' /\ state' \notin Busy
  BY <1>1 DEF Up, Dialling, Loads, OneLoad, Busy
<1>3. ~Asking' /\ ~Renewing'
  BY <1>1 DEF Asking, Renewing, Known, TInv, Linked
<1>4. OneAtATime'
  BY <1>1, <1>2, <1>3 DEF OneAtATime
<1>5. InState'
  BY <1>1, <1>2 DEF InState, Busy
<1>6. Paired'
  <2>1. hosts \in Nat /\ \A r \in renewals : r.host # 0 /\ r.host <= hosts
    BY DEF Known, TInv, TypeOK, TypeAwaits, Linked, Alone, Paired
  <2> QED
    BY <1>1, <2>1 DEF Paired, Alone
<1> QED
  BY <1>1, <1>4, <1>5, <1>6 DEF Alone

(* disconnect: what was under way is of an epoch that is over. *)
LEMMA LeavesAlone ==
    ASSUME Known, Alone, LeaveHost
    PROVE  Alone' /\ state' = "idle"
<1>1. /\ host' = 0 /\ hosts' = hosts /\ renewals' = renewals /\ infos' = infos /\ state' = "idle"
      /\ session' = "Idle" /\ keyLoads' = keyLoads /\ hdr' = hdr /\ carrier' = NoCarrier
      /\ epoch' = epoch + 1 /\ keyEpoch' = keyEpoch /\ connects' = connects
  BY DEF LeaveHost, StopSession, ResetWasm, CloseCarrier, codecs
<1>2. epoch \in Nat /\ keyEpoch \in Nat /\ keyEpoch <= epoch
      /\ \A c \in connects : c.epoch \in Nat /\ c.epoch <= epoch
  BY DEF Known, TInv, TypeOK, TypeTarget, TypeKey, TypeAwaits, Linked, Trust, Begun
<1>3. ~Up' /\ ~Dialling' /\ ~Loads' /\ OneLoad' /\ state' \notin Busy /\ ~Checking'
  BY <1>1, <1>2 DEF Up, Dialling, Loads, OneLoad, Busy, Checking, Stale, NoCarrier, Alone, OneAtATime
<1>4. ~Asking' /\ ~Renewing'
  BY <1>1 DEF Asking, Renewing, Known, TInv, Linked
<1>5. OneAtATime'
  BY <1>1, <1>3, <1>4 DEF OneAtATime
<1>6. InState'
  BY <1>1, <1>3 DEF InState, Busy
<1>7. Paired'
  <2>1. hosts \in Nat /\ \A r \in renewals : r.host # 0 /\ r.host <= hosts
    BY DEF Known, TInv, TypeOK, TypeAwaits, Linked, Alone, Paired
  <2> QED
    BY <1>1, <2>1 DEF Paired, Alone
<1> QED
  BY <1>1, <1>5, <1>6, <1>7 DEF Alone

(* A state a person acts in has nothing else under way. *)
LEMMA BusyIsFree ==
    ASSUME Known, Alone, state \in Busy
    PROVE  ~Loads /\ ~Asking /\ ~Checking /\ boundHash = origin
<1>1. origin # None /\ ~Cleared => ~Checking
  BY DEF Known, Trust, Quiet, Busy
<1>2. origin # None
  BY EngineAssumption, Chosen DEF Known, Busy
<1>3. Cleared => ~Checking
  BY DEF Cleared, Checking
<1> QED
  BY <1>1, <1>2, <1>3 DEF Alone, OneAtATime, InState

(* A session that is not up has ended. *)
LEMMA EndsWell == ASSUME TInv', state' = "error" => ~Up' PROVE ErrorEnds
  BY DEF ErrorEnds, Up, TInv, TypeOK, TypeWasm

(* The verbs, one step each. *)
LEMMA AloneVerbs == ASSUME OneLine, Known, TInv', Alone, Verbs PROVE Stands
<1>1. ASSUME Calm PROVE \A h \in Hashes : keyLoads[h] = 0
  BY <1>1 DEF Calm, OneLine
<1>2. ASSUME NEW o, NEW e, Connect(o, e) PROVE Stands
  <2>1. carrier'.phase \notin {"opening", "open"} /\ Calm /\ Reach(o, e)
    BY <1>2 DEF Connect, OneLine
  <2> QED
    BY <1>1, <2>1, ReachesAlone DEF Stands, ErrorEnds
<1>3. ASSUME AskAgain PROVE Stands
  <2>1. carrier'.phase \notin {"opening", "open"} /\ Calm /\ Reach(origin, expect)
    BY <1>3 DEF AskAgain, CloseCarrier, NoCarrier
  <2> QED
    BY <1>1, <2>1, ReachesAlone DEF Stands, ErrorEnds
<1>4. ASSUME NEW k \in {"pairing", "awaiting-approval"}, AskNow(k) PROVE Stands
  <2>1. /\ state = "needs-pairing" /\ Dial(k, seatPlane)
        /\ UNCHANGED <<target, flags, codecs, key, wasm, hostly, connects, known>>
    BY <1>4 DEF AskNow
  <2>2. ~Up /\ ~Dialling /\ host = 0
    BY <2>1 DEF Alone, InState
  <2>3. ~Loads /\ ~Asking /\ ~Checking /\ boundHash = origin
    BY <2>1, BusyIsFree DEF Busy
  <2>4. Free' /\ OneLoad'
    BY <2>1, <2>2, <2>3 DEF Free, OneLoad, Alone, OneAtATime, Loads, Asking, Checking, Stale, Up,
                            target, key, wasm, hostly
  <2>5. UNCHANGED <<origin, epoch, host, hosts, stored, hdr>> /\ (hdr # "cannot" => HdrDisplay)
    BY <2>1 DEF target, hostly, known, codecs, Alone, Paired
  <2>6. Alone' /\ (state' = "error" => ~Up')
    BY <2>1, <2>2, <2>4, <2>5, DialsAlone
  <2> QED
    BY <2>6, EndsWell DEF Stands
<1>5. ASSUME Pair \/ RequestAccess PROVE Stands
  BY <1>3, <1>4, <1>5 DEF Pair, RequestAccess
<1>6. ASSUME ConnectBadAddress PROVE Stands
  <2>1. Quieter /\ state' = "bad-address"
    BY <1>6 DEF ConnectBadAddress, Quieter, Up, Dialling, Checking, Stale, target, key, line, wasm,
                hostly, known, pend, codecs
  <2> QED
    BY <2>1, QuieterKept DEF Onward, Busy, Stands, ErrorEnds
<1>7. ASSUME CancelRequest PROVE Stands
  <2>1. Quieter /\ state' = "needs-pairing" /\ state = "awaiting-approval" /\ ~Up' /\ ~Dialling'
    BY <1>7 DEF CancelRequest, StopSession, ResetWasm, CloseCarrier, NoCarrier, Quieter, Up, Dialling,
                Checking, Stale, target, key, hostly, known, codecs
  <2> QED
    BY <2>1, QuieterKept DEF Onward, Stands, ErrorEnds
<1>8. ASSUME Leave, host # 0 PROVE Stands
  <2>1. Quieter /\ state' = "ready" /\ state \in Busy /\ ~Up' /\ ~Dialling' /\ infos' = infos
    BY <1>8 DEF Leave, StopSession, ResetWasm, CloseCarrier, NoCarrier, Quieter, Up, Dialling,
                Checking, Stale, target, key, hostly, known, codecs, Busy
  <2>2. host \notin infos
    BY <2>1, BusyIsFree DEF Asking
  <2> QED
    BY <1>8, <2>1, <2>2, QuieterKept DEF Onward, Stands, ErrorEnds
<1>9. ASSUME LeaveHost PROVE Stands
  BY <1>9, LeavesAlone DEF Stands, ErrorEnds
<1>10. ASSUME StartStream PROVE Stands
  <2>1. /\ state = "ready" /\ BindAndDial("starting", origin, None)
        /\ UNCHANGED <<target, pendingPin, pendingKnock, hdr, wasm, hostly, connects, known>>
    BY <1>10 DEF StartStream
  <2>2. ~Up /\ ~Dialling /\ host # 0 /\ pendingPin = None /\ pendingKnock = None
    BY <2>1 DEF Alone, InState, Paired
  <2>3. ~Loads /\ ~Asking /\ ~Checking /\ boundHash = origin
    BY <2>1, BusyIsFree DEF Busy
  <2>4. Dial("starting", None) /\ UNCHANGED key
    BY <2>1, <2>3 DEF BindAndDial
  <2>5. Free' /\ OneLoad'
    BY <2>1, <2>2, <2>3, <2>4 DEF Free, OneLoad, Alone, OneAtATime, Loads, Asking, Checking, Stale, Up,
                            target, key, wasm, hostly
  <2>6. UNCHANGED <<origin, epoch, host, hosts, stored>> /\ (hdr' # "cannot" => HdrDisplay)
    BY <2>1 DEF target, hostly, known, Alone, Paired
  <2>7. Alone' /\ (state' = "error" => ~Up')
    BY <2>1, <2>2, <2>4, <2>5, <2>6, DialsAlone
  <2> QED
    BY <2>7, EndsWell DEF Stands
<1>11. ASSUME NEW o, Forget(o), o # origin PROVE Stands
  <2>1. Quieter /\ state' = state
    BY <1>11 DEF Forget, Quieter, Up, Dialling, Checking, Stale, target, key, line, wasm,
                hostly, pend, codecs
  <2>2. UNCHANGED <<video, session>>
    BY <1>11 DEF Forget, wasm
  <2> QED
    BY <2>1, <2>2, QuieterKept DEF Onward, Stands, ErrorEnds
<1> QED
  BY <1>2, <1>5, <1>6, <1>7, <1>8, <1>9, <1>10, <1>11 DEF Verbs, Leave, Disconnect, Forget

(* While a connect checks its host, nothing else is under way. *)
LEMMA CheckingIsQuiet == ASSUME Known, Checking PROVE Quiet
<1>1. origin # None /\ ~Cleared
  BY DEF Known, TInv, Linked, Checking, Stale, Cleared
<1> QED
  BY <1>1 DEF Known, Trust

(* The awaits of a connect: the last of them begins to load the key. *)
LEMMA AloneAwaits ==
    ASSUME OneLine, Known, Alone, NEW c \in connects,
           ReachAnswered(c) \/ PlaneAnswered(c) \/ Verified(c)
    PROVE  Stands
<1>1. UNCHANGED connectRest
  BY DEF ReachAnswered, PlaneAnswered, Verified
<1>2. UNCHANGED <<origin, epoch, host, hosts, infos, renewals, session, video, carrier, stored,
                  pendingPin, pendingKnock, hdr>>
  BY <1>1 DEF connectRest, pend, codecs, line, wasm, hostly, known
<1>3. CASE Stale(c)
  <2>1. connects' = connects \ {c} /\ UNCHANGED <<state, key>>
    BY <1>3 DEF ReachAnswered, PlaneAnswered, Verified, ConnectSays
  <2>2. Quieter
    BY <1>2, <2>1 DEF Quieter, Up, Dialling, Checking, Stale, key
  <2> QED
    BY <1>2, <2>1, <2>2, QuieterKept DEF Onward, Stands, ErrorEnds
<1>4. CASE ~Stale(c)
  <2>1. Quiet /\ origin \in Hashes /\ \A h \in Hashes : keyLoads[h] = 0
    <3>1. Checking
      BY <1>4 DEF Checking
    <3>2. origin \in Hashes
      BY <1>4 DEF Known, TInv, Linked, Stale, TypeOK, TypeTarget, Hashes
    <3> QED
      BY <3>1, <3>2, CheckingIsQuiet DEF Alone, OneAtATime
  <2>2. ~Up' /\ ~Dialling' /\ ~Renewing' /\ host' = 0 /\ ~Asking'
    BY <1>2, <2>1 DEF Quiet, Up, Dialling, Renewing, Asking, Known, TInv, Linked
  <2>3. CASE Trusted(c)
    <3>1. /\ connects' = connects \ {c} /\ state' = "connecting" /\ boundHash' = origin
          /\ keyLoads' = [keyLoads EXCEPT ![origin] = @ + 1]
      BY <2>3 DEF Trusted, BindKey
    <3>2. OneLoad'
      BY <2>1, <3>1 DEF OneLoad, Known, TInv, TypeOK, TypeKey
    <3>3. ~Checking'
      BY <1>2, <1>4, <3>1 DEF Checking, Stale, Known, Trust, Begun
    <3>4. OneAtATime' /\ InState' /\ Paired'
      BY <1>2, <2>2, <3>1, <3>2, <3>3 DEF OneAtATime, InState, Paired, Busy, Alone
    <3> QED
      BY <3>1, <3>4 DEF Alone, Stands, ErrorEnds
  <2>4. CASE ~Trusted(c)
    <3>1. /\ UNCHANGED key
          /\ state' \in {state, "unreachable", "blocked", "error", "untrusted"}
      BY <1>4, <2>4 DEF ReachAnswered, PlaneAnswered, Verified, ConnectSays, Await
    <3>2. Checking
      BY <1>4 DEF Checking
    <3>3. Quieter
      BY <1>2, <3>1, <3>2 DEF Quieter, Up, Dialling, key
    <3>4. Onward
      BY <1>2, <3>1 DEF Onward, Busy
    <3> QED
      BY <1>2, <2>1, <3>3, <3>4, QuieterKept DEF Quiet, Stands, ErrorEnds
  <2> QED
    BY <2>3, <2>4
<1> QED
  BY <1>3, <1>4

(* The key: the dial it was loaded for, the PIN a person is asked for, or the asking of a host. *)
LEMMA AloneKeys ==
    ASSUME OneLine, Known, TInv', Alone, NEW h \in Hashes, KeyLoaded(h) \/ KeyFailed(h)
    PROVE  Stands
<1>1. /\ Loaded(h)
      /\ UNCHANGED <<origin, epoch, keyEpoch, boundHash, connects, session, video, stored,
                     pendingPin, pendingKnock, pendingStream, hdr>>
  BY DEF KeyLoaded, KeyFailed, target, pend, codecs, wasm, known
<1>2. ~Checking /\ ~Checking'
  <2>1. keyLoads[h] # 0
    BY <1>1 DEF Loaded, Known, TInv, TypeOK, TypeKey
  <2> QED
    BY <1>1, <2>1 DEF Alone, OneAtATime, Checking, Stale
<1>3. CASE ~KeyIsOurs \/ KeyFailed(h)
  <2>1. UNCHANGED <<hostly, line, renewals>> /\ state' \in {state, "error"}
        /\ (state' # state => KeyIsOurs)
    BY <1>3 DEF KeyLoaded, KeyFailed, KeyFailure
  <2>2. Quieter
    BY <1>1, <2>1 DEF Quieter, Up, Dialling, Checking, Stale, hostly, line
  <2>3. state' # state => ~Up'
    BY <1>1, <2>1 DEF KeyIsOurs, Loaded, Loads, Alone, OneAtATime, Up
  <2>4. ErrorEnds
    BY <2>1, <2>3, EndsWell DEF ErrorEnds
  <2>5. Onward
    BY <1>1, <2>1 DEF Onward, Busy
  <2> QED
    BY <2>2, <2>4, <2>5, QuieterKept DEF Stands
<1>4. CASE KeyIsOurs /\ KeyLoaded(h)
  <2>1. Loads /\ keyEpoch = epoch
    BY <1>1, <1>4 DEF KeyIsOurs, Loaded, Loads
  <2>2. ~Up /\ ~Dialling /\ ~Renewing /\ ~Asking /\ state \notin Busy /\ host = 0 /\ boundHash = origin
    BY <2>1 DEF Alone, OneAtATime, InState, Asking, Known, TInv, Linked
  <2>3. \A g \in Hashes : keyLoads'[g] = 0
    <3>1. \A g \in Hashes : keyLoads[g] \in Nat
      BY DEF Known, TInv, TypeOK, TypeKey
    <3>2. keyLoads[h] = 1 /\ \A g \in Hashes : g # h => keyLoads[g] = 0
      BY <1>1, <3>1 DEF Loaded, Alone, OneAtATime, OneLoad
    <3>3. keyLoads' = [keyLoads EXCEPT ![h] = @ - 1]
      BY <1>1 DEF Loaded
    <3> QED
      BY <3>2, <3>3 DEF Known, TInv, TypeOK, TypeKey
  <2>4. ~Loads' /\ OneLoad' /\ ~Up'
    BY <1>1, <2>2, <2>3 DEF Loads, OneLoad, Up
  <2>5. CASE Dial(state, seatPlane) /\ UNCHANGED hostly
    <3>1. Free'
      BY <1>1, <1>2, <2>2, <2>4, <2>5 DEF Free, Asking, hostly
    <3>2. state \notin {"ready", "needs-pairing", "streaming"}
      BY <2>2 DEF Busy
    <3>3. UNCHANGED <<origin, epoch, host, hosts, stored>> /\ (hdr' # "cannot" => HdrDisplay)
      BY <1>1, <2>5 DEF hostly, Alone, Paired
    <3>4. Alone' /\ (state' = "error" => ~Up')
      BY <2>2, <2>4, <2>5, <3>1, <3>2, <3>3, DialsAlone
    <3> QED
      BY <3>4, EndsWell DEF Stands
  <2>6. CASE state' = "needs-pairing" /\ UNCHANGED <<hostly, line, renewals>>
    <3>1. ~Dialling' /\ ~Renewing' /\ ~Asking' /\ host' = 0 /\ hosts' = hosts
      BY <1>1, <2>2, <2>6 DEF Dialling, Renewing, Asking, hostly, line
    <3>2. OneAtATime' /\ InState'
      BY <1>1, <1>2, <2>2, <2>4, <2>6, <3>1 DEF OneAtATime, InState, Busy
    <3>3. Paired'
      BY <1>1, <2>6, <3>1 DEF Alone, Paired, hostly
    <3> QED
      BY <2>6, <3>2, <3>3 DEF Alone, Stands, ErrorEnds
  <2>7. CASE /\ pendingPin = None /\ pendingKnock = None /\ stored[origin] # None
             /\ hosts' = hosts + 1 /\ host' = hosts + 1 /\ UNCHANGED <<state, line, renewals>>
    <3>1. hosts \in Nat /\ \A r \in renewals : r.host \in Nat /\ r.host <= hosts
      BY DEF Known, TInv, TypeOK, TypeAwaits, Alone, Paired
    <3>2. \A r \in renewals' : r.host # host' /\ r.host <= hosts'
      BY <2>7, <3>1
    <3>3. ~Renewing' /\ ~Dialling' /\ host' <= hosts'
      BY <2>2, <2>7, <3>1, <3>2 DEF Renewing, Dialling, line
    <3>4. OneAtATime' /\ InState'
      BY <1>1, <1>2, <2>2, <2>4, <2>7, <3>3 DEF OneAtATime, InState, Busy
    <3>5. Paired'
      BY <1>1, <2>7, <3>2, <3>3 DEF Alone, Paired
    <3> QED
      BY <2>7, <3>4, <3>5 DEF Alone, Stands, ErrorEnds
  <2> QED
    BY <1>4, <2>5, <2>6, <2>7 DEF KeyLoaded
<1> QED
  BY <1>3, <1>4

(* Late answers: each finds its own await, and the renewal of a pass nothing but the stream it is
   for. *)
LEMMA AloneAnswers == ASSUME OneLine, Known, TInv', Alone, Answers PROVE Stands
<1>1. ASSUME NEW i \in infos, InfoAnswered(i) PROVE Stands
  <2>1. Quieter /\ UNCHANGED <<session, video, carrier>>
    BY <1>1 DEF InfoAnswered, Quieter, Up, Dialling, Checking, Stale, target, key, line, wasm, known,
                pend, codecs
  <2>2. CASE host = i
    <3>1. ~Up /\ ~Dialling /\ host # 0 /\ host \notin infos' /\ state' \in {"ready", "forgotten", "error"}
      BY <1>1, <2>2 DEF InfoAnswered, Asking, Alone, OneAtATime, Known, TInv, Linked
    <3>2. Onward
      BY <2>1, <3>1 DEF Onward, Busy, Up, Dialling
    <3>3. ErrorEnds
      BY <2>1, <3>1, EndsWell DEF Up
    <3> QED
      BY <2>1, <3>2, <3>3, QuieterKept DEF Stands
  <2>3. CASE host # i
    BY <1>1, <2>1, <2>3, QuieterKept DEF InfoAnswered, Onward, Stands, ErrorEnds
  <2> QED
    BY <2>2, <2>3
<1>2. ASSUME NEW r \in renewals, RenewalEnded(r) PROVE Stands
  <2>1. /\ UNCHANGED <<origin, epoch, keyEpoch, boundHash, keyLoads, host, hosts, infos, connects,
                       session, video, stored, pendingPin, pendingKnock, hdr>>
        /\ renewals' = renewals \ {r}
    BY <1>2 DEF RenewalEnded, target, key, hostly, wasm, known, pend, codecs
  <2>2. CASE epoch = r.epoch /\ host = r.host /\ state = r.kind
    <3>1. Renewing /\ DialNow(state, seatPlane) /\ r.kind = "starting"
      BY <1>2, <2>2 DEF RenewalEnded, Renewing, Alone, Paired
    <3>2. ~Renewing'
      <4>1. ASSUME NEW q \in renewals, q.epoch = epoch, q.host = host PROVE q = r
        <5>1. q.kind = r.kind
          BY <2>2, <4>1 DEF Alone, Paired
        <5> QED
          BY <2>2, <4>1, <5>1 DEF Known, TInv, TypeOK, TypeAwaits
      <4> QED
        BY <2>1, <4>1 DEF Renewing
    <3>3. ~Up /\ ~Dialling
      BY <3>1 DEF Alone, OneAtATime
    <3>4. ~Loads /\ ~Asking /\ ~Checking /\ boundHash = origin
      BY <2>2, <3>1, BusyIsFree DEF Busy
    <3>5. Free' /\ OneLoad'
      BY <2>1, <3>3, <3>4 DEF Free, Loads, Asking, Checking, Stale, Up, OneLoad, Alone, OneAtATime
    <3>6. /\ host # 0 => pendingPin' = None /\ pendingKnock' = None
          /\ hdr' # "cannot" => HdrDisplay
      BY <2>1 DEF Alone, Paired
    <3>7. Alone' /\ (state' = "error" => ~Up')
      BY <2>1, <2>2, <3>1, <3>2, <3>3, <3>5, <3>6, DialsAlone
    <3> QED
      BY <3>7, EndsWell DEF Stands
  <2>3. CASE ~(epoch = r.epoch /\ host = r.host /\ state = r.kind)
    <3>1. Quieter /\ state' = state
      BY <1>2, <2>1, <2>3 DEF RenewalEnded, Quieter, Up, Dialling, Checking, Stale, line
    <3> QED
      BY <2>1, <3>1, QuieterKept DEF Onward, Stands, ErrorEnds
  <2> QED
    BY <2>2, <2>3
<1>3. ASSUME NEW p \in prints, Printed(p) PROVE Stands
  <2>1. stored[origin] # None => stored'[origin] # None
    BY <1>3, EngineAssumption DEF Printed, Known, TInv, TypeOK, TypePrints
  <2>2. Quieter /\ UNCHANGED <<session, video>>
    BY <1>3, <2>1 DEF Printed, Quieter, Up, Dialling, Checking, Stale, target, key, line, wasm,
                      hostly, pend, codecs
  <2> QED
    BY <1>3, <2>2, QuieterKept DEF Printed, Onward, Busy, Stands, ErrorEnds
<1> QED
  BY <1>1, <1>2, <1>3, AloneAwaits, AloneKeys DEF Answers

(* What the control stream says as it opens. *)
LEMMA SpeaksAlone ==
    ASSUME Known, Alone, Dialling, Speak,
           UNCHANGED <<target, key, codecs, hostly, connects, renewals, known>>
    PROVE  Stands
<1>1. /\ ~Up /\ ~Renewing /\ ~Loads /\ ~Asking /\ boundHash = origin
      /\ state \notin {"ready", "needs-pairing", "streaming"}
  BY DEF Alone, OneAtATime, InState
<1>2. ~Checking
  BY CheckingIsQuiet DEF Quiet, Dialling
<1>3. /\ ~Renewing' /\ ~Loads' /\ ~Asking' /\ ~Checking' /\ boundHash' = origin'
      /\ host' = host /\ hosts' = hosts /\ OneLoad'
  BY <1>1, <1>2 DEF target, key, hostly, Renewing, Loads, Asking, Checking, Stale, Alone, OneAtATime,
                    OneLoad
<1>4. ~Dialling'
  <2>1. carrier' \in {NoCarrier, [carrier EXCEPT !.phase = "ctl"]}
    BY DEF Speak
  <2>2. carrier \in [kind : {"wt", "ws"}, phase : {"opening", "open", "ctl"}, to : Hashes, origin : Origins]
    BY Chosen DEF Known, Dialling
  <2> QED
    BY <2>1, <2>2 DEF Dialling, NoCarrier
<1>5. /\ state' \in {state, "awaiting-approval", "pairing"}
      /\ state' = "awaiting-approval" => state = state' \/ pendingKnock # None
      /\ (Up' => video') \/ UNCHANGED wasm
      /\ pendingPin' \in {pendingPin, None} /\ pendingKnock' \in {pendingKnock, None}
  BY DEF Speak, Hello, pend
<1>6. OneAtATime'
  BY <1>3, <1>4 DEF OneAtATime
<1>7. InState'
  <2>1. state' = "awaiting-approval" => host' = 0
    BY <1>3, <1>5 DEF Alone, InState, Paired
  <2>2. Up' => video'
    BY <1>1, <1>5 DEF Up, wasm
  <2> QED
    BY <1>1, <1>3, <1>4, <1>5, <2>1, <2>2 DEF InState
<1>8. Paired'
  BY <1>3, <1>5 DEF Alone, Paired, target, known, codecs
<1> QED
  BY <1>5, <1>6, <1>7, <1>8 DEF Alone, Stands, ErrorEnds

(* The carrier and the host: only a carrier that opens begins a session. *)
LEMMA AloneNetwork == ASSUME OneLine, Known, TInv', Alone, Network PROVE Stands
<1>1. ASSUME WsOpens \/ WtControlOpens PROVE Stands
  BY <1>1, SpeaksAlone DEF WsOpens, WtControlOpens, Dialling
<1>2. ASSUME WtOpens PROVE Stands
  <2>1. Quieter /\ UNCHANGED <<state, session, video>>
    BY <1>2 DEF WtOpens, Quieter, Up, Dialling, Checking, Stale, target, key, wasm, hostly, known,
                pend, codecs
  <2> QED
    BY <2>1, QuieterKept DEF Onward, Stands, ErrorEnds
<1>3. ASSUME SilencePasses \/ NeverOpens PROVE Stands
  <2>1. UNCHANGED <<origin, epoch, keyEpoch, boundHash, keyLoads, host, hosts, infos, connects,
                    renewals, stored, pendingPin, pendingKnock, hdr>>
    BY <1>3 DEF SilencePasses, NeverOpens, target, key, hostly, known, pend, codecs
  <2>2. CASE UNCHANGED <<state, carrier, wasm>>
    BY <2>1, <2>2, QuieterKept DEF wasm, Quieter, Up, Dialling, Checking, Stale, Onward, Stands, ErrorEnds
  <2>3. CASE ~UNCHANGED <<state, carrier, wasm>>
    <3>1. Dialling
      BY <1>3, <2>3, Chosen DEF SilencePasses, NeverOpens, Known, TInv, Linked, FallbackWhileOpening,
                                Dialling, wasm
    <3>2. ~Up /\ ~Up' /\ (UNCHANGED video \/ state' = "error") /\ state' \in {state, "error"}
      BY <1>3, <3>1 DEF SilencePasses, NeverOpens, OpenWs, RefusedToDial, StopSession, ResetWasm, wasm,
                        Up, Alone, OneAtATime
    <3>3. Quieter
      BY <2>1, <3>1, <3>2 DEF Quieter, Checking, Stale
    <3>4. Onward
      BY <3>1, <3>2 DEF Onward, Busy, Alone, InState
    <3> QED
      BY <3>2, <3>3, <3>4, QuieterKept, EndsWell DEF Stands
  <2> QED
    BY <2>2, <2>3
<1>4. ASSUME NEW code, NEW said, CarrierCloses(code, said) \/ HostRefuses(code, said) PROVE Stands
  <2>1. /\ UNCHANGED <<origin, epoch, keyEpoch, boundHash, keyLoads, host, hosts, infos, connects,
                       renewals, stored, pendingPin, pendingKnock, hdr>>
        /\ carrier' \in {carrier, NoCarrier} /\ Closed(code, said)
    BY <1>4 DEF CarrierCloses, HostRefuses, closedRest, target, key, hostly, pend, codecs
  <2>2. /\ session' = "Idle" \/ UNCHANGED wasm
        /\ state' = state \/ (state' \notin Busy /\ (state' = "error" => session' = "Idle"))
        /\ state = "streaming" => state' # state
    BY <2>1 DEF Closed, Dropped, StopSession, ResetWasm, Busy, Deaf
  <2>3. Quieter
    BY <2>1, <2>2 DEF Quieter, Up, Dialling, Checking, Stale, NoCarrier, wasm
  <2> QED
    BY <2>2, <2>3, QuieterKept DEF Onward, Stands, ErrorEnds
<1>5. ASSUME HostAccepts \/ HostGarbles \/ \E ok \in BOOLEAN : HostSettlesPairing(ok) PROVE Stands
  <2>1. /\ UNCHANGED <<origin, epoch, keyEpoch, boundHash, keyLoads, host, hosts, infos, connects,
                       renewals, stored, pendingPin, pendingKnock, hdr, state, video, carrier>>
        /\ \/ session' = session
           \/ session = "Offered" /\ session' = "Live"
           \/ session' = "Failed"
    BY <1>5 DEF HostAccepts, HostGarbles, HostSettlesPairing, framed, target, key, hostly, pend, codecs,
                wasm
  <2>2. Quieter
    BY <2>1 DEF Quieter, Up, Dialling, Checking, Stale
  <2> QED
    BY <2>1, <2>2, QuieterKept DEF Onward, Stands, ErrorEnds
<1>6. ASSUME HostRedirects(None) PROVE Stands
  <2>1. UNCHANGED <<origin, epoch, keyEpoch, boundHash, keyLoads, host, hosts, infos, connects,
                    renewals, stored, pendingPin, pendingKnock, hdr, carrier>>
    BY <1>6 DEF HostRedirects, target, key, line, hostly, known, pend, codecs
  <2>2. session' = "Idle" /\ (state' = "error" \/ UNCHANGED <<state, video>>) /\ session = "Offered"
    BY <1>6 DEF HostRedirects, StopSession, ResetWasm
  <2>3. Quieter
    BY <2>1, <2>2 DEF Quieter, Up, Dialling, Checking, Stale
  <2>4. state # "streaming"
    BY <2>2 DEF Alone, InState
  <2> QED
    BY <2>2, <2>3, <2>4, QuieterKept DEF Onward, Busy, Stands, ErrorEnds
<1> QED
  BY <1>1, <1>2, <1>3, <1>4, <1>5, <1>6 DEF Network, OneLine

(* A restart stops the session before it dials. *)
LEMMA RestartsAlone ==
    ASSUME Known, TInv', Alone, NEW left, Restart(left), state \in {"starting", "streaming"},
           Dialling => origin \notin BridgeOrigins, hdr' # "cannot" => HdrDisplay,
           UNCHANGED <<target, pendingPin, pendingKnock, hostly, connects, known>>
    PROVE  Stands
<1>1. ~Loads /\ ~Asking /\ ~Checking /\ boundHash = origin
  BY BusyIsFree DEF Busy
<1>2. Dial("starting", None) /\ UNCHANGED key /\ session' = "Idle"
  BY <1>1 DEF Restart, BindAndDial, StopSession, ResetWasm
<1>3. Free' /\ OneLoad'
  BY <1>1, <1>2 DEF Free, OneLoad, Alone, OneAtATime, Loads, Asking, Checking, Stale, Up, target, key,
                    hostly
<1>4. UNCHANGED <<origin, epoch, host, hosts, stored>>
      /\ (host # 0 => pendingPin' = None /\ pendingKnock' = None)
  BY DEF target, hostly, known, Alone, Paired
<1>5. Alone' /\ (state' = "error" => ~Up')
  BY <1>2, <1>3, <1>4, DialsAlone
<1> QED
  BY <1>5, EndsWell DEF Stands

(* The decoder, the timers and the frame loop. *)
LEMMA AlonePage == ASSUME OneLine, Known, TInv', Alone, Page PROVE Stands
<1>1. ASSUME NEW c, Undecodable(c) PROVE Stands
  <2>1. /\ Up /\ state \in {"starting", "streaming"}
        /\ UNCHANGED <<target, pendingPin, pendingKnock, hostly, connects, known, hdr>>
    BY <1>1 DEF Undecodable, Up
  <2>2. CASE \E left : Restart(left)
    BY <2>1, <2>2, RestartsAlone DEF Alone, OneAtATime, Paired
  <2>3. CASE /\ StopSession /\ state' = "error" /\ CloseCarrier /\ UNCHANGED <<key, renewals>>
    <3>1. Quieter
      BY <2>1, <2>3 DEF StopSession, ResetWasm, CloseCarrier, NoCarrier, Quieter, Up, Dialling,
                        Checking, Stale, target, key, hostly, known
    <3> QED
      BY <2>3, <3>1, QuieterKept DEF StopSession, ResetWasm, Onward, Busy, Stands, ErrorEnds
  <2> QED
    BY <1>1, <2>2, <2>3 DEF Undecodable
<1>2. ASSUME HdrConverted \/ GracePasses \/ BudgetPasses PROVE Stands
  <2>1. Quieter /\ UNCHANGED <<state, session, video>>
    BY <1>2 DEF HdrConverted, GracePasses, BudgetPasses, timeless, Quieter, Up, Dialling, Checking,
                Stale, target, key, line, wasm, hostly, known, pend, codecs
  <2> QED
    BY <2>1, QuieterKept DEF Onward, Stands, ErrorEnds
<1>3. ASSUME RestartInSdr PROVE Stands
  <2>1. UNCHANGED <<target, pendingPin, pendingKnock, hostly, connects, known>>
        /\ hdr = "due" /\ hdr' = "cannot"
    BY <1>3 DEF RestartInSdr
  <2>2. BridgeOrigins = {}
    BY <2>1 DEF Alone, Paired, OneLine
  <2>3. CASE Restart(Codecs \ refused) /\ state \in {"starting", "streaming"}
    BY <2>1, <2>2, <2>3, RestartsAlone
  <2>4. CASE UNCHANGED <<state, key, line, wasm, renewals>>
    <3>1. Quieter
      BY <2>1, <2>4 DEF Quieter, Up, Dialling, Checking, Stale, target, key, line, wasm, hostly, known
    <3> QED
      BY <2>4, <3>1, QuieterKept DEF wasm, Onward, Stands, ErrorEnds
  <2> QED
    BY <1>3, <2>3, <2>4 DEF RestartInSdr
<1>4. ASSUME Frame PROVE Stands
  <2>1. PICK k : UpdateSession(k) /\ k \in {"pair-refused", state}
    BY <1>4 DEF Frame
  <2>2. UNCHANGED <<origin, epoch, keyEpoch, boundHash, keyLoads, host, hosts, infos, connects,
                    renewals, stored, pendingPin, pendingKnock, hdr>>
    BY <1>4 DEF Frame, target, key, hostly, known, pend, codecs
  <2>3. \/ /\ session' = "Idle" /\ carrier' = NoCarrier /\ state' \in {"pair-refused", "error"}
        \/ /\ UNCHANGED <<wasm, carrier>>
           /\ \/ state' \in {"forgotten", "pair-refused"}
              \/ state' = state /\ session # "Live"
              \/ session = "Live" /\ (video => state' = "streaming")
    BY <2>1 DEF UpdateSession, Grace, StopSession, ResetWasm, CloseCarrier
  <2>4. session = "Live" => video
    BY DEF Alone, InState, Up
  <2>5. Quieter
    BY <2>2, <2>3 DEF Quieter, Up, Dialling, Checking, Stale, NoCarrier, wasm
  <2>6. Onward /\ ErrorEnds
    BY <2>3, <2>4 DEF Onward, Busy, ErrorEnds, wasm
  <2> QED
    BY <2>5, <2>6, QuieterKept DEF Stands
<1> QED
  BY <1>1, <1>2, <1>3, <1>4 DEF Page

LEMMA AloneStep == ASSUME OneLine, Known, TInv', Alone, [Next]_vars PROVE Stands
<1>1. CASE UNCHANGED vars
  <2>1. Quieter /\ UNCHANGED <<state, session, video>>
    BY <1>1 DEF vars, Quieter, Up, Dialling, Checking, Stale, target, key, line, wasm, hostly, known,
                pend, codecs
  <2> QED
    BY <2>1, QuieterKept DEF Onward, Stands, ErrorEnds
<1> QED
  BY <1>1, AloneVerbs, AloneAnswers, AloneNetwork, AlonePage DEF Next

LEMMA AloneHolds == ASSUME OneLine PROVE Spec => []Alone /\ [][ErrorEnds]_vars
<1>1. Init => Alone
  BY DEF Init, Alone, OneAtATime, OneLoad, InState, Paired, Loads, Asking, Renewing, Dialling, Up, Busy,
         Checking, NoCarrier
<1>2. TInv /\ TInv' /\ Trust /\ FallbackWhileOpening /\ Alone /\ [Next]_vars => Alone' /\ [ErrorEnds]_vars
  BY AloneStep DEF Known, Stands
<1>3. ~Hasty
  BY DEF OneLine
<1>4. TInv /\ Trust /\ [Next]_vars => Trust'
  BY <1>3, TrustStep
<1> QED
  BY <1>1, <1>2, <1>4, TrustInit, Typing, FallbackHolds, PTL DEF Spec

(* Nothing restarts or dials over a stream on show: its session is up, and its decoder there. *)
THEOREM StreamingHolds == ASSUME OneLine PROVE Spec => []StreamingIsLive
<1>1. Alone => StreamingIsLive
  BY DEF Alone, InState, StreamingIsLive
<1> QED
  BY <1>1, AloneHolds, PTL

(* No error, of an await, a dial, a decoder or the host, leaves a session up behind it. *)
THEOREM ErrorsHold == ASSUME OneLine PROVE Spec => ErrorStops
<1>1. [ErrorEnds]_vars => [state # "error" /\ state' = "error" => session' \in {"Idle", "Failed"}]_vars
  BY DEF ErrorEnds
<1> QED
  BY <1>1, AloneHolds, PTL DEF ErrorStops

=============================================================================
