---------------------------- MODULE EngineProofs ----------------------------
EXTENDS Engine, TLAPS

(***************************************************************************)
(* The engine's variables hold what its types allow, for every number of   *)
(* hosts, seats, codecs and resets.  TypeOK alone is not inductive: what a *)
(* dial, a renewal or a timer does is typed only because each of them      *)
(* implies a host is chosen (Linked).                                      *)
(***************************************************************************)

(* With no host chosen nothing is dialled, fetched or awaited; an await belongs to an epoch that
   has begun, and the current epoch's to a host. *)
Linked ==
    /\ origin = None => plane = None /\ carrier = NoCarrier /\ host = 0
                        /\ state \in {"idle", "bad-address"}
    /\ \A c \in connects : c.epoch <= epoch /\ (c.epoch = epoch => origin # None)
    /\ \A r \in renewals : r.host # 0
    /\ 0 \notin infos
    /\ silence => fallback # None

TInv == TypeOK /\ Linked

(* What an action leaves alone keeps its type. *)
LEMMA Undisturbed ==
    ASSUME TypeOK
    PROVE  /\ target' = target /\ seatPlane' = seatPlane => TypeTarget'
           /\ pend' = pend => TypePend'
           /\ flags' = flags => TypeFlags'
           /\ codecs' = codecs => TypeCodecs'
           /\ key' = key /\ cred' = cred /\ credHash' = credHash => TypeKey'
           /\ line' = line => TypeLine'
           /\ wasm' = wasm => TypeWasm'
           /\ hostly' = hostly /\ connects' = connects /\ renewals' = renewals => TypeAwaits'
           /\ prints' = prints /\ known' = known => TypePrints'
<1>1. target' = target /\ seatPlane' = seatPlane => TypeTarget'
  BY DEF TypeOK, TypeTarget, target
<1>2. pend' = pend => TypePend'
  BY DEF TypeOK, TypePend, pend
<1>3. flags' = flags => TypeFlags'
  BY DEF TypeOK, TypeFlags, flags
<1>4. codecs' = codecs => TypeCodecs'
  BY DEF TypeOK, TypeCodecs, codecs
<1>5. key' = key /\ cred' = cred /\ credHash' = credHash => TypeKey'
  BY DEF TypeOK, TypeKey, key
<1>6. line' = line => TypeLine'
  BY DEF TypeOK, TypeLine, line
<1>7. wasm' = wasm => TypeWasm'
  BY DEF TypeOK, TypeWasm, wasm
<1>8. hostly' = hostly /\ connects' = connects /\ renewals' = renewals => TypeAwaits'
  BY DEF TypeOK, TypeAwaits, hostly
<1>9. prints' = prints /\ known' = known => TypePrints'
  BY DEF TypeOK, TypePrints, known
<1> QED
  BY <1>1, <1>2, <1>3, <1>4, <1>5, <1>6, <1>7, <1>8, <1>9

(* A dial installs a carrier of the current host, or none. *)
LEMMA Carriers ==
    ASSUME origin \in Origins, NEW k \in {"wt", "ws"}, NEW to \in Hashes
    PROVE  CarrierOf(k, to) \in
             [kind : {"wt", "ws"}, phase : {"opening", "open", "ctl"}, to : Hashes,
              origin : Origins]
  BY DEF CarrierOf

(* The bridge dialled for the current host, or refused. *)
LEMMA OpensWs ==
    ASSUME TypeOK, origin \in Origins, NEW k, NEW to \in Hashes, OpenWs(k, to)
    PROVE  TypeLine' /\ state' \in {k, "error"} /\ ~silence'
<1>1. carrier' \in {NoCarrier, CarrierOf("ws", to)} /\ fallback' = None /\ silence' = FALSE
      /\ wsHint' \in {wsHint, wsHint \ {origin}} /\ state' \in {k, "error"}
  BY DEF OpenWs, RefusedToDial
<1>2. wsHint' \in SUBSET Origins
  BY <1>1 DEF TypeOK, TypeLine
<1> QED
  BY <1>1, <1>2, Carriers DEF TypeLine

(* WebTransport dialled, with the bridge behind it where there is one. *)
LEMMA OpensWt ==
    ASSUME TypeOK, origin \in Origins, NEW k, NEW to \in Hashes, OpenWt(k, to)
    PROVE  TypeLine' /\ state' \in {k, "error"} /\ (silence' => fallback' # None)
<1>1. CASE OpenWs(k, to) \/ RefusedToDial
  BY <1>1, OpensWs DEF OpenWs
<1>2. CASE /\ carrier' = CarrierOf("wt", to) /\ UNCHANGED wsHint /\ state' = k
           /\ IF origin \in BridgeOrigins THEN fallback' = to /\ silence' = TRUE
                                        ELSE fallback' = None /\ silence' = FALSE
  <2>1. wsHint' \in SUBSET Origins
    BY <1>2 DEF TypeOK, TypeLine
  <2>2. silence' \in BOOLEAN /\ fallback' \in Hashes \cup {None} /\ (silence' => fallback' # None)
    BY <1>2, EngineAssumption DEF Hashes
  <2> QED
    BY <1>2, <2>1, <2>2, Carriers DEF TypeLine
<1> QED
  BY <1>1, <1>2 DEF OpenWt

(* Whichever dial the hint picks. *)
LEMMA DialsNow ==
    ASSUME TypeOK, origin \in Origins, NEW k, NEW seat \in Seats \cup {None}, DialNow(k, seat)
    PROVE  TypeLine' /\ state' \in {k, "error"} /\ (silence' => fallback' # None)
<1> DEFINE to == IF seat = None THEN origin ELSE seat
<1>1. to \in Hashes
  BY DEF Hashes
<1> HIDE DEF to
<1>2. OpenWt(k, to) \/ OpenWs(k, to)
  BY DEF DialNow, to
<1> QED
  BY <1>1, <1>2, OpensWs, OpensWt

(* A dial, at once or behind the renewal of a pass. *)
LEMMA Dials ==
    ASSUME TInv, NEW k \in Kinds, NEW seat \in Seats \cup {None}, Dial(k, seat)
    PROVE  /\ TypeLine' /\ state' \in {k, "error"} /\ (silence' => fallback' # None)
           /\ renewals' \in SUBSET [epoch : Nat, host : Nat, kind : Kinds]
           /\ \A r \in renewals' : r.host # 0
           /\ origin = None => state' = k /\ UNCHANGED line
<1> USE DEF TInv
<1>1. CASE state' = k /\ UNCHANGED <<line, renewals>>
  BY <1>1 DEF TypeOK, TypeLine, TypeAwaits, Linked, line
<1>2. CASE /\ plane # None /\ Bridged
           /\ renewals' = renewals \cup {Renewal(k)} /\ state' = k /\ UNCHANGED line
  <2>1. Renewal(k) \in [epoch : Nat, host : Nat, kind : Kinds] /\ Renewal(k).host # 0
    BY <1>2 DEF TypeOK, TypeTarget, TypeAwaits, Renewal, Bridged
  <2>2. plane # None /\ TypeLine' /\ (silence' => fallback' # None)
    BY <1>2 DEF TypeOK, TypeLine, Linked, line
  <2> QED
    BY <1>2, <2>1, <2>2 DEF TypeOK, TypeAwaits, Linked
<1>3. CASE plane # None /\ DialNow(k, seat) /\ UNCHANGED renewals
  <2>1. origin \in Origins
    BY <1>3 DEF TypeOK, TypeTarget, Linked
  <2> QED
    BY <1>3, <2>1, DialsNow, EngineAssumption DEF TypeOK, TypeAwaits, Linked
<1> QED
  BY <1>1, <1>2, <1>3 DEF Dial

(* A key load is counted under the hash it binds. *)
LEMMA BindsKey ==
    ASSUME TypeOK, NEW h \in Hashes, BindKey(h)
    PROVE  boundHash' \in Hashes /\ keyEpoch' \in Nat /\ keyLoads' \in [Hashes -> Nat]
  BY DEF TypeOK, TypeKey, TypeTarget, BindKey

(* A dial behind a key load when the plane's hash is another. *)
LEMMA BindsAndDials ==
    ASSUME TInv, NEW k \in Kinds, NEW h \in Hashes, NEW seat \in Seats \cup {None},
           BindAndDial(k, h, seat)
    PROVE  /\ TypeLine' /\ state' \in {k, "error"} /\ (silence' => fallback' # None)
           /\ boundHash' \in Hashes \cup {None} /\ keyEpoch' \in Nat
           /\ keyLoads' \in [Hashes -> Nat]
           /\ renewals' \in SUBSET [epoch : Nat, host : Nat, kind : Kinds]
           /\ \A r \in renewals' : r.host # 0
           /\ origin = None => state' = k /\ UNCHANGED line
<1>1. CASE Dial(k, seat) /\ UNCHANGED key
  BY <1>1, Dials DEF TInv, TypeOK, TypeKey, key
<1>2. CASE BindKey(h) /\ state' = k /\ UNCHANGED <<line, renewals>>
  <2>1. TypeLine' /\ (silence' => fallback' # None)
    BY <1>2 DEF TInv, TypeOK, TypeLine, Linked, line
  <2> QED
    BY <1>2, <2>1, BindsKey DEF TInv, TypeOK, TypeAwaits, Linked
<1> QED
  BY <1>1, <1>2 DEF BindAndDial

(* What an action leaves alone stays linked. *)
LEMMA LinkedKept ==
    ASSUME Linked, origin = None => state' \in {"idle", "bad-address"},
           UNCHANGED <<origin, epoch, plane, carrier, fallback, silence, host, connects, infos,
                       renewals>>
    PROVE  Linked'
  BY DEF Linked

(* Where a host is chosen, what is linked to having none holds of itself. *)
LEMMA LinkedChosen ==
    ASSUME Linked, origin' # None, UNCHANGED <<epoch, connects, infos, renewals>>,
           silence' => fallback' # None
    PROVE  Linked'
  BY DEF Linked

(* A carrier, a plane, a Host or a state in the middle of something: a host is chosen. *)
LEMMA Chosen ==
    ASSUME TInv
    PROVE  /\ carrier # NoCarrier \/ plane # None \/ host # 0
                \/ state \notin {"idle", "bad-address"} => origin \in Origins
           /\ carrier.phase \in {"opening", "open", "ctl"} => carrier # NoCarrier
           /\ carrier # NoCarrier =>
                carrier \in [kind : {"wt", "ws"}, phase : {"opening", "open", "ctl"},
                             to : Hashes, origin : Origins]
  BY DEF TInv, TypeOK, TypeTarget, TypeLine, Linked, NoCarrier

(* connect, by a page or by a pairing asked for again. *)
LEMMA Reaches ==
    ASSUME TInv, NEW o \in Origins, NEW e \in Identities \cup {None}, Reach(o, e),
           pendingPin' \in Origins \cup {None}, pendingKnock' \in Origins \cup {None},
           carrier' \in {carrier, NoCarrier}, stored' \in [Origins -> Identities \cup {None}]
    PROVE  TInv'
<1> USE DEF TInv, TypeOK
<1>1. TypeTarget' /\ state' \in Kinds
  BY EngineAssumption DEF TypeTarget, Reach, Kinds
<1>2. TypePend'
  BY DEF TypePend, Reach
<1>3. TypeFlags'
  BY DEF TypeFlags, Reach, Clock
<1>4. TypeKey'
  BY DEF TypeKey, Reach
<1>5. TypeLine'
  BY DEF TypeLine, Reach
<1>6. TypeWasm'
  BY DEF TypeWasm, Reach, ResetWasm, Clock
<1>7. TypeAwaits'
  BY DEF TypeAwaits, TypeTarget, Reach
<1>8. TypePrints'
  BY DEF TypePrints, Reach
<1>9. Linked'
  <2>1. origin' # None /\ epoch' = epoch + 1 /\ epoch \in Nat
    BY EngineAssumption DEF TypeTarget, Reach
  <2>2. \A c \in connects : c.epoch <= epoch /\ c.epoch \in Nat
    BY DEF Linked, TypeAwaits
  <2>3. \A c \in connects' : c.epoch <= epoch'
    BY <2>1, <2>2 DEF Reach
  <2> QED
    BY <2>1, <2>3 DEF Linked, Reach
<1>10. TypeCodecs'
  BY Undisturbed DEF Reach
<1> QED
  BY <1>1, <1>2, <1>3, <1>4, <1>5, <1>6, <1>7, <1>8, <1>9, <1>10

(* disconnect, by a page or inside leave and forget. *)
LEMMA Leaves ==
    ASSUME TInv, LeaveHost, stored' \in [Origins -> Identities \cup {None}]
    PROVE  TInv'
<1> USE DEF TInv, TypeOK, LeaveHost
<1>1. TypeTarget' /\ state' \in Kinds
  BY DEF TypeTarget, Kinds
<1>2. TypePend'
  BY DEF TypePend
<1>3. TypeFlags'
  BY DEF TypeFlags, Clock
<1>4. TypeKey'
  BY DEF TypeKey
<1>5. TypeLine'
  BY DEF TypeLine, CloseCarrier
<1>6. TypeWasm'
  BY DEF TypeWasm, StopSession, ResetWasm, Clock
<1>7. TypeAwaits'
  BY DEF TypeAwaits
<1>8. TypePrints'
  BY DEF TypePrints
<1>9. Linked'
  <2>1. \A c \in connects : c.epoch < epoch' /\ c.epoch # epoch'
    BY DEF Linked, TypeAwaits, TypeTarget
  <2> QED
    BY <2>1 DEF Linked, CloseCarrier, TypeAwaits, TypeTarget
<1>10. TypeCodecs'
  BY Undisturbed
<1> QED
  BY <1>1, <1>2, <1>3, <1>4, <1>5, <1>6, <1>7, <1>8, <1>9, <1>10

(* The verbs, one step each. *)
LEMMA VerbsTyped == ASSUME TInv, Verbs PROVE TInv'
<1>1. ASSUME NEW o \in Origins, NEW e \in Expectations \cup {None}, Connect(o, e) PROVE TInv'
  <2>1. /\ pendingPin' \in Origins \cup {None} /\ pendingKnock' \in Origins \cup {None}
        /\ carrier' = carrier /\ stored' \in [Origins -> Identities \cup {None}]
    BY <1>1 DEF Connect, Kept, TInv, TypeOK, TypePend, TypePrints
  <2> QED
    BY <1>1, <2>1, Reaches, EngineAssumption DEF Connect
<1>2. ASSUME ConnectBadAddress PROVE TInv'
  <2>1. Linked'
    BY <1>2, LinkedKept DEF TInv, ConnectBadAddress, target, line, hostly
  <2> QED
    BY <1>2, <2>1, Undisturbed DEF TInv, TypeOK, ConnectBadAddress, Kinds
<1>3. ASSUME NEW k \in {"pairing", "awaiting-approval"}, AskNow(k),
             pendingPin' \in {pendingPin, origin}, pendingKnock' \in {pendingKnock, origin}
      PROVE  TInv'
  <2>1. origin \in Origins /\ k \in Kinds /\ seatPlane \in Seats \cup {None}
    BY <1>3, Chosen DEF AskNow, Kinds, TInv, TypeOK, TypeTarget
  <2>2. TypePend'
    BY <1>3, <2>1 DEF AskNow, TInv, TypeOK, TypePend
  <2>3. /\ TypeLine' /\ state' \in Kinds /\ (silence' => fallback' # None)
        /\ renewals' \in SUBSET [epoch : Nat, host : Nat, kind : Kinds]
        /\ \A r \in renewals' : r.host # 0
    BY <1>3, <2>1, Dials DEF AskNow, Kinds
  <2>4. TypeAwaits'
    BY <1>3, <2>3 DEF AskNow, TInv, TypeOK, TypeAwaits, hostly
  <2>5. Linked'
    BY <1>3, <2>1, <2>3, EngineAssumption DEF AskNow, TInv, Linked, target, hostly
  <2> QED
    BY <1>3, <2>2, <2>3, <2>4, <2>5, Undisturbed DEF TInv, TypeOK, AskNow
<1>4. ASSUME AskAgain,
             pendingPin' \in {pendingPin, origin}, pendingKnock' \in {pendingKnock, origin}
      PROVE  TInv'
  <2>1. origin \in Origins
    BY <1>4, Chosen DEF AskAgain
  <2>2. /\ pendingPin' \in Origins \cup {None} /\ pendingKnock' \in Origins \cup {None}
        /\ stored' \in [Origins -> Identities \cup {None}] /\ expect \in Identities \cup {None}
    BY <1>4, <2>1 DEF AskAgain, TInv, TypeOK, TypePend, TypePrints, TypeTarget
  <2> QED
    BY <1>4, <2>1, <2>2, Reaches DEF AskAgain, CloseCarrier
<1>5. ASSUME Pair \/ RequestAccess PROVE TInv'
  BY <1>5, <1>3, <1>4 DEF Pair, RequestAccess
<1>6. ASSUME CancelRequest PROVE TInv'
  <2>1. TypePend' /\ TypeFlags' /\ TypeWasm' /\ state' \in Kinds
    BY <1>6 DEF CancelRequest, StopSession, ResetWasm, TInv, TypeOK, TypePend, TypeFlags,
       TypeWasm, Clock, Kinds
  <2>2. TypeLine'
    BY <1>6 DEF CancelRequest, CloseCarrier, TInv, TypeOK, TypeLine
  <2>3. origin \in Origins
    BY <1>6, Chosen DEF CancelRequest
  <2>4. Linked'
    BY <1>6, <2>3, LinkedChosen, EngineAssumption DEF CancelRequest, TInv, Linked, target, hostly
  <2> QED
    BY <1>6, <2>1, <2>2, <2>4, Undisturbed DEF TInv, TypeOK, CancelRequest
<1>7. ASSUME StartStream PROVE TInv'
  <2>1. origin \in Origins /\ origin \in Hashes /\ "starting" \in Kinds
    BY <1>7, Chosen DEF StartStream, Kinds, Hashes
  <2>2. /\ TypeLine' /\ state' \in {"starting", "error"} /\ (silence' => fallback' # None)
        /\ boundHash' \in Hashes \cup {None} /\ keyEpoch' \in Nat /\ keyLoads' \in [Hashes -> Nat]
        /\ renewals' \in SUBSET [epoch : Nat, host : Nat, kind : Kinds]
        /\ \A r \in renewals' : r.host # 0
    BY <1>7, <2>1, BindsAndDials DEF StartStream
  <2>3. TypeCodecs' /\ TypePend' /\ TypeTarget'
    BY <1>7, <2>1
    DEF StartStream, Offer, Offerable, TInv, TypeOK, TypeCodecs, TypePend, TypeTarget, target
  <2>4. TypeKey' /\ TypeAwaits'
    BY <1>7, <2>2 DEF StartStream, TInv, TypeOK, TypeKey, TypeAwaits, hostly
  <2>5. Linked'
    BY <1>7, <2>1, <2>2, EngineAssumption DEF StartStream, TInv, Linked, target, hostly
  <2> QED
    BY <1>7, <2>2, <2>3, <2>4, <2>5, Undisturbed DEF TInv, TypeOK, StartStream, Kinds
<1>8. ASSUME Leave PROVE TInv'
  <2>1. CASE host = 0
    BY <1>8, <2>1, Leaves DEF Leave, TInv, TypeOK, TypePrints
  <2>2. CASE host # 0
    <3>1. TypePend' /\ TypeWasm' /\ state' \in Kinds
      BY <1>8, <2>2 DEF Leave, StopSession, ResetWasm, TInv, TypeOK, TypePend, TypeWasm,
         Clock, Kinds
    <3>2. TypeLine'
      BY <1>8, <2>2 DEF Leave, CloseCarrier, TInv, TypeOK, TypeLine
    <3>3. origin \in Origins
      BY <2>2, Chosen
    <3>4. Linked'
      BY <1>8, <2>2, <3>3, LinkedChosen, EngineAssumption DEF Leave, TInv, Linked, target, hostly
    <3> QED
      BY <1>8, <2>2, <3>1, <3>2, <3>4, Undisturbed DEF TInv, TypeOK, Leave
  <2> QED
    BY <2>1, <2>2
<1>9. ASSUME NEW o \in Origins, Forget(o) PROVE TInv'
  <2>1. stored' \in [Origins -> Identities \cup {None}]
    BY <1>9 DEF Forget, TInv, TypeOK, TypePrints
  <2>2. CASE o = origin
    BY <1>9, <2>1, <2>2, Leaves DEF Forget
  <2>3. CASE o # origin
    <3>1. TypePrints'
      BY <1>9, <2>1, <2>3 DEF Forget, TInv, TypeOK, TypePrints
    <3>2. Linked'
      BY <1>9, <2>3, LinkedKept DEF TInv, Linked, Forget, target, line, hostly
    <3> QED
      BY <1>9, <2>3, <3>1, <3>2, Undisturbed DEF TInv, TypeOK, Forget
  <2> QED
    BY <2>2, <2>3
<1>10. ASSUME Disconnect PROVE TInv'
  BY <1>10, Leaves DEF Disconnect, TInv, TypeOK, TypePrints
<1> QED
  BY <1>1, <1>2, <1>5, <1>6, <1>7, <1>8, <1>9, <1>10 DEF Verbs

(* An await that comes back is gone, or goes on to its next step. *)
LEMMA AnswersTyped == ASSUME TInv, Answers PROVE TInv'
<1>1. ASSUME NEW c \in connects, ReachAnswered(c) \/ PlaneAnswered(c) \/ Verified(c) PROVE TInv'
  <2>1. /\ state' \in Kinds
        /\ plane' \in Identities \cup {None} /\ pinned' \in Identities \cup {None}
        /\ UNCHANGED connectRest /\ (~Stale(c) => origin \in Origins)
        /\ (origin = None => UNCHANGED <<state, plane, key>>)
    <3>1. ~Stale(c) => origin \in Origins
      BY DEF TInv, Linked, Stale, TypeOK, TypeTarget
    <3>2. (~Stale(c) \/ UNCHANGED <<state, plane, key, pinned>>) /\ UNCHANGED connectRest
      BY <1>1 DEF ReachAnswered, PlaneAnswered, Verified, ConnectSays
    <3>3. state' \in Kinds
      BY <1>1 DEF ReachAnswered, PlaneAnswered, Verified, ConnectSays, Trusted, TInv, TypeOK, Kinds
    <3>4. plane' \in Identities \cup {None} /\ pinned' \in Identities \cup {None}
      BY <1>1, <3>1 DEF ReachAnswered, PlaneAnswered, Verified, ConnectSays, Trusted, TInv, TypeOK,
         TypeTarget, TypePrints
    <3> QED
      BY <3>1, <3>2, <3>3, <3>4, EngineAssumption
  <2>2. TypeKey'
    <3>1. CASE UNCHANGED key
      BY <1>1, <3>1, Undisturbed DEF ReachAnswered, PlaneAnswered, Verified, connectRest, TInv
    <3>2. CASE ~Stale(c) /\ BindKey(origin)
      BY <2>1, <3>2, BindsKey DEF connectRest, TInv, TypeOK, TypeKey, Hashes
    <3> QED
      BY <1>1, <3>1, <3>2 DEF ReachAnswered, PlaneAnswered, Verified, ConnectSays, Trusted
  <2>3. \A d \in connects' : /\ d \in [epoch : Nat, at : {"reach", "boot", "plane", "verify"},
                                        known : Identities \cup {None}]
                             /\ \/ d \in connects
                                \/ d.epoch = c.epoch
    <3>1. \/ connects' = connects \ {c}
          \/ \E at \in {"plane", "verify"} :
               connects' = (connects \ {c}) \cup {[c EXCEPT !.at = at]}
          \/ ~Stale(c) /\ connects' =
               (connects \ {c}) \cup {[epoch |-> epoch, at |-> "verify", known |-> Wanted]}
      BY <1>1 DEF ReachAnswered, PlaneAnswered, Verified, ConnectSays, Trusted, Await
    <3>2. c \in [epoch : Nat, at : {"reach", "boot", "plane", "verify"},
                 known : Identities \cup {None}]
      BY DEF TInv, TypeOK, TypeAwaits
    <3>3. ~Stale(c) => Wanted \in Identities \cup {None}
      BY <2>1 DEF Wanted, TInv, TypeOK, TypeTarget, TypePrints
    <3>4. ~Stale(c) => epoch = c.epoch /\ epoch \in Nat
      BY DEF Stale, TInv, TypeOK, TypeTarget
    <3> QED
      BY <3>1, <3>2, <3>3, <3>4 DEF TInv, TypeOK, TypeAwaits
  <2>4. TypeAwaits' /\ TypeTarget'
    BY <2>1, <2>3 DEF connectRest, hostly, TInv, TypeOK, TypeAwaits, TypeTarget
  <2>5. Linked'
    BY <2>1, <2>3 DEF connectRest, hostly, line, TInv, Linked, Stale
  <2> QED
    BY <2>1, <2>2, <2>4, <2>5, Undisturbed DEF connectRest, TInv, TypeOK
<1>2. ASSUME NEW h \in Hashes, KeyLoaded(h) \/ KeyFailed(h) PROVE TInv'
  <2>1. TypeKey'
    <3>1. keyLoads' \in [Hashes -> Nat]
      BY <1>2 DEF KeyLoaded, KeyFailed, Loaded, TInv, TypeOK, TypeKey
    <3> QED
      BY <1>2, <3>1 DEF KeyLoaded, KeyFailed, TInv, TypeOK, TypeKey
  <2>2. CASE KeyIsOurs /\ KeyLoaded(h) /\ Dial(state, seatPlane) /\ UNCHANGED hostly
    <3>1. /\ TypeLine' /\ state' \in Kinds /\ (silence' => fallback' # None)
          /\ renewals' \in SUBSET [epoch : Nat, host : Nat, kind : Kinds]
          /\ \A r \in renewals' : r.host # 0
      BY <2>2, Dials DEF TInv, TypeOK, TypeTarget, Kinds
    <3>2. TypeAwaits' /\ Linked'
      BY <2>2, <3>1 DEF KeyLoaded, KeyIsOurs, TInv, TypeOK, TypeAwaits, Linked, hostly, target
    <3> QED
      BY <2>1, <2>2, <3>1, <3>2, Undisturbed DEF KeyLoaded, TInv, TypeOK
  <2>3. CASE /\ KeyIsOurs /\ KeyLoaded(h) /\ hosts' = hosts + 1 /\ host' = hosts + 1
             /\ infos' = infos \cup {hosts + 1} /\ UNCHANGED <<state, line, renewals>>
    <3>1. TypeAwaits' /\ Linked'
      BY <2>3 DEF KeyLoaded, KeyIsOurs, TInv, TypeOK, TypeAwaits, Linked, line, target
    <3> QED
      BY <2>1, <2>3, <3>1, Undisturbed DEF KeyLoaded, TInv, TypeOK
  <2>4. CASE /\ KeyLoaded(h) \/ KeyFailed(h)
             /\ UNCHANGED <<hostly, line, renewals>>
             /\ state' = state \/ (KeyIsOurs /\ state' \in {"needs-pairing", "error"})
    <3>1. Linked'
      BY <2>4, LinkedKept DEF KeyLoaded, KeyFailed, KeyIsOurs, TInv, Linked, hostly, line, target
    <3> QED
      BY <2>1, <2>4, <3>1, Undisturbed DEF KeyLoaded, KeyFailed, TInv, TypeOK, Kinds
  <2>5. CASE KeyLoaded(h)
    BY <2>5, <2>2, <2>3, <2>4 DEF KeyLoaded
  <2>6. CASE KeyFailed(h)
    BY <2>6, <2>4 DEF KeyFailed, KeyFailure
  <2> QED
    BY <1>2, <2>5, <2>6
<1>3. ASSUME NEW i \in infos, InfoAnswered(i) PROVE TInv'
  <2>1. TypeAwaits' /\ state' \in Kinds
    BY <1>3 DEF InfoAnswered, TInv, TypeOK, TypeAwaits, Kinds
  <2>2. Linked'
    BY <1>3 DEF InfoAnswered, TInv, Linked, line, target
  <2> QED
    BY <1>3, <2>1, <2>2, Undisturbed DEF InfoAnswered, TInv, TypeOK
<1>4. ASSUME NEW r \in renewals, RenewalEnded(r) PROVE TInv'
  <2>1. TypeAwaits'
    BY <1>4 DEF RenewalEnded, TInv, TypeOK, TypeAwaits, hostly
  <2>2. CASE DialNow(state, seatPlane) /\ host = r.host
    <3>1. origin \in Origins
      BY <2>2, Chosen DEF TInv, Linked
    <3>2. TypeLine' /\ state' \in Kinds /\ (silence' => fallback' # None)
      BY <2>2, <3>1, DialsNow DEF TInv, TypeOK, TypeTarget, Kinds
    <3>3. Linked'
      BY <1>4, <3>1, <3>2, EngineAssumption DEF RenewalEnded, TInv, Linked, hostly, target
    <3> QED
      BY <1>4, <2>1, <3>2, <3>3, Undisturbed DEF RenewalEnded, TInv, TypeOK
  <2>3. CASE UNCHANGED <<state, line>>
    <3>1. Linked'
      BY <1>4, <2>3 DEF RenewalEnded, TInv, Linked, hostly, target, line
    <3> QED
      BY <1>4, <2>1, <2>3, <3>1, Undisturbed DEF RenewalEnded, TInv, TypeOK
  <2> QED
    BY <1>4, <2>2, <2>3 DEF RenewalEnded
<1>5. ASSUME NEW p \in prints, Printed(p) PROVE TInv'
  <2>1. p \in [origin : Origins, identity : Identities, then : {"paired", "pinned"}]
    BY DEF TInv, TypeOK, TypePrints
  <2>2. TypePrints' /\ state' \in Kinds
    BY <1>5, <2>1 DEF Printed, TInv, TypeOK, TypePrints, Kinds
  <2>3. Linked'
    BY <1>5, <2>1, LinkedKept, EngineAssumption
    DEF Printed, Shows, TInv, Linked, hostly, line, target
  <2> QED
    BY <1>5, <2>2, <2>3, Undisturbed DEF Printed, TInv, TypeOK
<1> QED
  BY <1>1, <1>2, <1>3, <1>4, <1>5 DEF Answers

Lines == [kind : {"wt", "ws"}, phase : {"opening", "open", "ctl"}, to : Hashes, origin : Origins]

(* A digest is asked of a plane only where a host is chosen. *)
LEMMA PrintsTyped ==
    ASSUME TInv, NEW then \in {"paired", "pinned"}
    PROVE  Prints(then) \in
             SUBSET [origin : Origins, identity : Identities, then : {"paired", "pinned"}]
  BY DEF Prints, TInv, TypeOK, TypeTarget, Linked

(* What the control stream says as it opens. *)
LEMMA Speaks ==
    ASSUME TInv, carrier \in Lines, UNCHANGED origin, Speak
    PROVE  /\ TypePend' /\ TypeFlags' /\ TypeWasm' /\ state' \in Kinds
           /\ cred' \in {cred, "Pairing"} /\ carrier' \in Lines \cup {NoCarrier}
<1> DEFINE ctl == [carrier EXCEPT !.phase = "ctl"]
<1>1. ctl \in Lines
  BY DEF Lines
<1> HIDE DEF ctl
<1>2. cred' \in {cred, "Pairing"} /\ carrier' \in {ctl, NoCarrier}
  BY DEF Speak, ctl
<1>3. TypePend'
  BY DEF Speak, pend, TInv, TypeOK, TypePend
<1>4. TypeFlags'
  BY DEF Speak, flags, TInv, TypeOK, TypeFlags, Clock
<1>5. TypeWasm'
  BY DEF Speak, Hello, wasm, TInv, TypeOK, TypeWasm, Clock
<1>6. state' \in Kinds
  BY DEF Speak, TInv, TypeOK, Kinds
<1> QED
  BY <1>1, <1>2, <1>3, <1>4, <1>5, <1>6

(* The carrier's events and the host's frames, one step each. *)
LEMMA NetworkTyped == ASSUME TInv, Network PROVE TInv'
<1> USE DEF TInv, TypeOK
<1>0. carrier \in Lines => origin \in Origins /\ origin # None /\ carrier.origin \in Origins
  BY Chosen, EngineAssumption DEF Lines, NoCarrier
<1>1. carrier.phase \in {"opening", "open", "ctl"} => carrier \in Lines
  BY Chosen DEF Lines
<1>2. ASSUME carrier \in Lines, Speak, wsHint' \in SUBSET Origins, silence' \in BOOLEAN,
             fallback' \in Hashes \cup {None}, silence' => fallback' # None,
             UNCHANGED <<target, seatPlane, codecs, key, credHash, hostly, connects, renewals,
                         prints, known>>
      PROVE  TInv'
  <2>1. UNCHANGED origin
    BY <1>2 DEF target
  <2>2. /\ TypePend' /\ TypeFlags' /\ TypeWasm' /\ state' \in Kinds
        /\ cred' \in {cred, "Pairing"} /\ carrier' \in Lines \cup {NoCarrier}
    BY <1>2, <2>1, Speaks
  <2>3. TypeLine'
    BY <1>2, <2>2 DEF TypeLine, Lines
  <2>4. TypeKey'
    BY <1>2, <2>2 DEF TypeKey, key
  <2>5. Linked'
    BY <1>0, <1>2, LinkedChosen DEF target, hostly
  <2> QED
    BY <1>2, <2>2, <2>3, <2>4, <2>5, Undisturbed
<1>3. ASSUME WsOpens PROVE TInv'
  <2>1. wsHint' \in SUBSET Origins /\ silence' \in BOOLEAN /\ fallback' = None /\ ~silence'
    BY <1>0, <1>1, <1>3 DEF WsOpens, Opened, Hinted, TypeLine
  <2> QED
    BY <1>1, <1>2, <1>3, <2>1 DEF WsOpens
<1>4. ASSUME WtOpens PROVE TInv'
  <2>1. carrier \in Lines /\ carrier' = [carrier EXCEPT !.phase = "open"]
    BY <1>1, <1>4 DEF WtOpens
  <2>2. carrier' \in Lines
    BY <2>1 DEF Lines
  <2>3. wsHint' \in SUBSET Origins /\ silence' = FALSE /\ fallback' = None
    BY <1>0, <2>1, <1>4 DEF WtOpens, Opened, Hinted, TypeLine
  <2>4. TypeLine'
    BY <2>2, <2>3 DEF TypeLine, Lines
  <2>5. Linked'
    BY <1>0, <1>4, <2>1, <2>3, LinkedChosen DEF WtOpens, target, hostly
  <2> QED
    BY <1>4, <2>4, <2>5, Undisturbed DEF WtOpens
<1>5. ASSUME WtControlOpens PROVE TInv'
  <2>1. wsHint' \in SUBSET Origins /\ silence' \in BOOLEAN /\ fallback' \in Hashes \cup {None}
        /\ (silence' => fallback' # None)
    BY <1>5 DEF WtControlOpens, TypeLine, Linked
  <2> QED
    BY <1>1, <1>2, <1>5, <2>1 DEF WtControlOpens
<1>6. ASSUME origin \in Origins, NEW to \in Hashes, OpenWs(state, to),
             UNCHANGED <<target, seatPlane, pend, flags, codecs, key, cred, credHash, wasm,
                         hostly, connects, renewals, prints, known>>
      PROVE  TInv'
  <2>1. TypeLine' /\ state' \in {state, "error"} /\ ~silence'
    BY <1>6, OpensWs
  <2>2. Linked'
    BY <1>6, <2>1, LinkedChosen, EngineAssumption DEF target, hostly
  <2> QED
    BY <1>6, <2>1, <2>2, Undisturbed DEF Kinds
<1>7. ASSUME SilencePasses PROVE TInv'
  <2>1. CASE carrier = NoCarrier
    <3>1. TypeLine'
      BY <1>7, <2>1 DEF SilencePasses, TypeLine
    <3>2. Linked'
      BY <1>7, <2>1 DEF SilencePasses, Linked, target, hostly
    <3> QED
      BY <1>7, <2>1, <3>1, <3>2, Undisturbed DEF SilencePasses
  <2>2. CASE carrier # NoCarrier
    <3>1. fallback \in Hashes /\ origin \in Origins
      BY <1>7, <2>2, Chosen DEF SilencePasses, TypeLine, Linked
    <3> QED
      BY <1>6, <1>7, <2>2, <3>1 DEF SilencePasses
  <2> QED
    BY <2>1, <2>2
<1>8. ASSUME NeverOpens PROVE TInv'
  <2>1. origin \in Origins /\ origin # None
    BY <1>0, <1>1, <1>8 DEF NeverOpens
  <2>2. CASE fallback # None
    <3>1. fallback \in Hashes
      BY <2>2 DEF TypeLine
    <3> QED
      BY <1>6, <1>8, <2>1, <2>2, <3>1 DEF NeverOpens
  <2>3. CASE fallback = None
    <3>1. TypeWasm' /\ state' \in Kinds
      BY <1>8, <2>3 DEF NeverOpens, StopSession, ResetWasm, TypeWasm, Clock, Kinds
    <3>2. TypeLine'
      BY <1>8, <2>3 DEF NeverOpens, TypeLine
    <3>3. Linked'
      BY <1>8, <2>1, <2>3 DEF NeverOpens, Linked, target, hostly
    <3> QED
      BY <1>8, <2>3, <3>1, <3>2, <3>3, Undisturbed DEF NeverOpens
  <2> QED
    BY <2>2, <2>3
<1>9. ASSUME NEW code, NEW said, Closed(code, said)
      PROVE  /\ TypeFlags' /\ TypeWasm' /\ state' \in Kinds
             /\ prints' \in SUBSET [origin : Origins, identity : Identities,
                                    then : {"paired", "pinned"}]
  <2>1. TypeFlags'
    BY <1>9 DEF Closed, flags, TypeFlags, Clock
  <2>2. TypeWasm'
    BY <1>9 DEF Closed, Dropped, StopSession, ResetWasm, wasm, TypeWasm, Clock
  <2>3. state' \in Kinds
    BY <1>9 DEF Closed, Dropped, Kinds
  <2>4. prints' \in {prints, prints \cup Prints("pinned")}
    BY <1>9 DEF Closed
  <2> QED
    BY <2>1, <2>2, <2>3, <2>4, PrintsTyped DEF TypePrints
<1>10. ASSUME NEW code, NEW said, CarrierCloses(code, said) \/ HostRefuses(code, said) PROVE TInv'
  <2>1. carrier \in Lines
    BY <1>1, <1>10 DEF CarrierCloses, HostRefuses, Talking
  <2>2. Closed(code, said) /\ Admits(code) /\ UNCHANGED closedRest
    BY <1>10 DEF CarrierCloses, HostRefuses
  <2>3. /\ TypeFlags' /\ TypeWasm' /\ state' \in Kinds
        /\ prints' \in SUBSET [origin : Origins, identity : Identities,
                               then : {"paired", "pinned"}]
    BY <1>9, <2>2
  <2>4. TypePrints'
    BY <1>0, <2>1, <2>2, <2>3 DEF Admits, closedRest, TypePrints
  <2>5. TypeLine'
    BY <1>10 DEF CarrierCloses, HostRefuses, closedRest, TypeLine
  <2>6. Linked'
    BY <1>0, <2>1, <2>2, LinkedChosen DEF closedRest, target, hostly, Linked
  <2> QED
    BY <2>2, <2>3, <2>4, <2>5, <2>6, Undisturbed DEF closedRest
<1>11. ASSUME carrier \in Lines, UNCHANGED <<state, framed>>, carrier' = carrier,
              session' \in {session, "Live", "Failed"}, UNCHANGED <<video, asked>>,
              cred' \in {cred, "Paired", "Failed"},
              admitted' \in {admitted, admitted \cup {carrier.origin}}
       PROVE  TInv'
  <2>1. TypeWasm' /\ TypeKey' /\ TypePrints'
    BY <1>0, <1>11 DEF framed, key, TypeWasm, TypeKey, TypePrints
  <2>2. TypeLine'
    BY <1>11 DEF framed, TypeLine
  <2>3. Linked'
    BY <1>0, <1>11, LinkedChosen DEF framed, target, hostly, Linked
  <2> QED
    BY <1>11, <2>1, <2>2, <2>3, Undisturbed DEF framed
<1>12. ASSUME HostAccepts \/ HostGarbles PROVE TInv'
  BY <1>1, <1>11, <1>12 DEF HostAccepts, HostGarbles, Talking
<1>13. ASSUME NEW ok \in BOOLEAN, HostSettlesPairing(ok) PROVE TInv'
  BY <1>1, <1>11, <1>13 DEF HostSettlesPairing, Talking, wasm
<1>14. ASSUME NEW seat \in Seats \cup {None}, HostRedirects(seat) PROVE TInv'
  <2>1. carrier \in Lines
    BY <1>1, <1>14 DEF HostRedirects, Talking
  <2>2. state' \in Kinds /\ TypeWasm'
    BY <1>14 DEF HostRedirects, StopSession, ResetWasm, Kinds, TypeWasm, Clock
  <2>3. TypeTarget' /\ TypePend'
    BY <1>14 DEF HostRedirects, target, TypeTarget, TypePend
  <2>4. UNCHANGED key \/ (seat \in Hashes /\ BindKey(seat))
    BY <1>14 DEF HostRedirects, Hashes
  <2>5. TypeKey'
    BY <1>14, <2>4, BindsKey DEF HostRedirects, TypeKey, key
  <2>6. TypeLine'
    BY <1>14 DEF HostRedirects, CloseCarrier, line, TypeLine
  <2>7. Linked'
    BY <1>0, <1>14, <2>1, LinkedChosen DEF HostRedirects, line, target, hostly, Linked
  <2> QED
    BY <1>14, <2>2, <2>3, <2>5, <2>6, <2>7, Undisturbed DEF HostRedirects
<1> QED
  BY <1>3, <1>4, <1>5, <1>7, <1>8, <1>10, <1>12, <1>13, <1>14 DEF Network

(* The decoder, the frame loop and the clock, one step each. *)
LEMMA PageTyped == ASSUME TInv, Page PROVE TInv'
<1> USE DEF TInv, TypeOK
<1>1. ASSUME origin \in Origins, NEW left \in SUBSET Codecs, Restart(left),
             refused' \in SUBSET Offerable, hdr' \in {"can", "due", "cannot"},
             UNCHANGED <<target, pendingPin, pendingKnock, streamed, flags, cred, credHash,
                         hostly, connects, prints, known>>
      PROVE  TInv'
  <2>1. origin \in Hashes /\ "starting" \in Kinds
    BY <1>1 DEF Hashes, Kinds
  <2>2. /\ TypeLine' /\ state' \in {"starting", "error"} /\ (silence' => fallback' # None)
        /\ boundHash' \in Hashes \cup {None} /\ keyEpoch' \in Nat /\ keyLoads' \in [Hashes -> Nat]
        /\ renewals' \in SUBSET [epoch : Nat, host : Nat, kind : Kinds]
        /\ \A r \in renewals' : r.host # 0
    BY <1>1, <2>1, BindsAndDials DEF Restart
  <2>3. TypeCodecs' /\ TypePend' /\ TypeTarget'
    BY <1>1 DEF Restart, Offer, Offerable, TypeCodecs, TypePend, TypeTarget, target
  <2>4. TypeKey' /\ TypeAwaits'
    BY <1>1, <2>2 DEF TypeKey, TypeAwaits, hostly
  <2>5. TypeWasm'
    BY <1>1 DEF Restart, StopSession, ResetWasm, TypeWasm, Clock
  <2>6. Linked'
    BY <1>1, <2>2, EngineAssumption DEF Linked, target, hostly
  <2> QED
    BY <1>1, <2>2, <2>3, <2>4, <2>5, <2>6, Undisturbed DEF Kinds
<1>2. ASSUME NEW c \in Offerable, Undecodable(c) PROVE TInv'
  <2>1. origin \in Origins /\ origin # None
    BY <1>2, Chosen, EngineAssumption DEF Undecodable
  <2>2. refused' \in SUBSET Offerable /\ Codecs \ refused' \in SUBSET Codecs
    BY <1>2 DEF Undecodable, TypeCodecs
  <2>3. CASE Restart(Codecs \ refused')
    BY <1>1, <1>2, <2>1, <2>2, <2>3 DEF Undecodable, TypeCodecs
  <2>4. CASE /\ StopSession /\ state' = "error" /\ CloseCarrier
             /\ UNCHANGED <<offer, pendingStream, seatPlane, key, fallback, silence, wsHint,
                            renewals>>
    <3>1. TypeCodecs' /\ TypePend' /\ TypeTarget'
      BY <1>2, <2>2, <2>4 DEF Undecodable, TypeCodecs, TypePend, TypeTarget, target
    <3>2. TypeWasm' /\ state' \in Kinds
      BY <2>4 DEF StopSession, ResetWasm, TypeWasm, Clock, Kinds
    <3>3. TypeLine'
      BY <2>4 DEF CloseCarrier, TypeLine
    <3>4. Linked'
      BY <1>2, <2>1, <2>4, LinkedChosen DEF Undecodable, Linked, target, hostly
    <3> QED
      BY <1>2, <2>4, <3>1, <3>2, <3>3, <3>4, Undisturbed DEF Undecodable
  <2> QED
    BY <1>2, <2>3, <2>4 DEF Undecodable
<1>3. ASSUME HdrConverted PROVE TInv'
  <2>1. TypeCodecs'
    BY <1>3 DEF HdrConverted, TypeCodecs
  <2>2. Linked'
    BY <1>3, LinkedKept DEF Linked, HdrConverted, target, line, hostly
  <2> QED
    BY <1>3, <2>1, <2>2, Undisturbed DEF HdrConverted
<1>4. ASSUME RestartInSdr PROVE TInv'
  <2>1. CASE state \in {"starting", "streaming"} /\ Restart(Codecs \ refused)
    <3>1. origin \in Origins
      BY <2>1, Chosen
    <3> QED
      BY <1>1, <1>4, <2>1, <3>1 DEF RestartInSdr, TypeCodecs
  <2>2. CASE UNCHANGED <<state, offer, pendingStream, seatPlane, key, line, wasm, renewals>>
    <3>1. TypeCodecs' /\ TypePend' /\ TypeTarget'
      BY <1>4, <2>2 DEF RestartInSdr, TypeCodecs, TypePend, TypeTarget, target
    <3>2. Linked'
      BY <1>4, <2>2, LinkedKept DEF RestartInSdr, Linked, target, line, hostly
    <3> QED
      BY <1>4, <2>2, <3>1, <3>2, Undisturbed DEF RestartInSdr
  <2> QED
    BY <1>4, <2>1, <2>2 DEF RestartInSdr
<1>5. ASSUME Frame PROVE TInv'
  <2>1. origin \in Origins /\ origin # None
    BY <1>5 DEF Frame, TypeTarget
  <2>2. /\ prints' \subseteq prints \cup Prints("paired") \cup Prints("pinned")
        /\ UNCHANGED <<target, seatPlane, pend, codecs, key, cred, credHash, fallback, silence,
                       wsHint, hostly, connects, renewals, known>>
    BY <1>5 DEF Frame
  <2>3. PICK k : UpdateSession(k) /\ k \in {"pair-refused", state}
    BY <1>5 DEF Frame
  <2>4. state' \in Kinds
    BY <2>3 DEF UpdateSession, Grace, Kinds
  <2>5. settled' \in BOOLEAN /\ pairing' \in BOOLEAN
    BY <1>5 DEF Frame, TypeFlags
  <2>6. offeredSince' \in Clock /\ knockSince' \in Clock
    BY <2>3 DEF UpdateSession, Grace, TypeFlags, Clock
  <2>7. TypeWasm'
    BY <2>3 DEF UpdateSession, StopSession, ResetWasm, wasm, TypeWasm, Clock
  <2>8. carrier' \in {carrier, NoCarrier}
    BY <2>3 DEF UpdateSession, CloseCarrier
  <2>9. TypeLine'
    BY <2>2, <2>8 DEF TypeLine
  <2>10. TypePrints'
    BY <2>2, PrintsTyped DEF TypePrints, known
  <2>11. Linked'
    BY <2>1, <2>2, LinkedChosen DEF target, hostly, Linked
  <2> QED
    BY <2>2, <2>4, <2>5, <2>6, <2>7, <2>9, <2>10, <2>11, Undisturbed DEF TypeFlags
<1>6. ASSUME GracePasses \/ BudgetPasses PROVE TInv'
  <2>1. pairing' \in BOOLEAN /\ settled' \in BOOLEAN /\ offeredSince' \in Clock
        /\ knockSince' \in Clock
    BY <1>6 DEF GracePasses, BudgetPasses, timeless, Elapse, TypeFlags, Clock
  <2>2. TypeWasm'
    BY <1>6 DEF GracePasses, BudgetPasses, timeless, Elapse, TypeWasm, Clock
  <2>3. Linked'
    BY <1>6, LinkedKept DEF GracePasses, BudgetPasses, timeless, Linked, target, line, hostly
  <2> QED
    BY <1>6, <2>1, <2>2, <2>3, Undisturbed DEF GracePasses, BudgetPasses, timeless, TypeFlags
<1> QED
  BY <1>2, <1>3, <1>4, <1>5, <1>6 DEF Page

(* A fresh page. *)
LEMMA InitTyped == ASSUME Init PROVE TInv
<1>1. /\ TypeTarget /\ TypePend /\ TypeFlags /\ state \in Kinds
  BY DEF Init, TypeTarget, TypePend, TypeFlags, Clock, Kinds
<1>2. TypeCodecs
  BY EngineAssumption DEF Init, TypeCodecs, Offerable
<1>3. TypeKey /\ TypeLine /\ TypeWasm
  BY DEF Init, TypeKey, TypeLine, TypeWasm, Clock
<1>4. TypeAwaits /\ TypePrints
  BY DEF Init, TypeAwaits, TypePrints
<1>5. Linked
  BY DEF Init, Linked
<1> QED
  BY <1>1, <1>2, <1>3, <1>4, <1>5 DEF TInv, TypeOK

(* The types hold of every reachable state, with what they rest on. *)
THEOREM Typing == Spec => []TInv
<1>1. TInv /\ [Next]_vars => TInv'
  <2>1. ASSUME TInv, UNCHANGED vars PROVE TInv'
    <3>1. Linked'
      BY <2>1, LinkedKept DEF TInv, Linked, vars, target, line, hostly
    <3> QED
      BY <2>1, <3>1, Undisturbed DEF TInv, TypeOK, vars
  <2> QED
    BY <2>1, VerbsTyped, AnswersTyped, NetworkTyped, PageTyped DEF Next
<1> QED
  BY <1>1, InitTyped, PTL DEF Spec

(* No sequence of verbs, late answers and closes takes a variable of the engine, or an await it
   left in flight, out of its type. *)
THEOREM TypeCorrect == Spec => []TypeOK
  BY Typing, PTL DEF TInv

(***************************************************************************)
(* No dial before the host is trusted, for every number of hosts, seats,   *)
(* codecs and resets, where the page does not connect anew over a key load *)
(* or a dial (~Hasty).  Dials are started in many handlers; the invariant  *)
(* is that while a connect is checking its host none of them can run       *)
(* (Quiet), and that a dial still under way is to the current host.        *)
(***************************************************************************)

(* A key, a renewal and a connect belong to an epoch that has begun; an epoch has one connect,
   and its verification is held against every fingerprint there is. *)
Begun ==
    /\ keyEpoch <= epoch
    /\ \A r \in renewals : r.epoch <= epoch
    /\ \A c, d \in connects : c.epoch = d.epoch => c = d
    /\ \A c \in connects : ~Stale(c) /\ c.at = "verify" =>
         c.known # None /\ \A fp \in {pinned, expect} \ {None} : fp = c.known

(* Nothing this engine waits for, or may be asked for, can dial. *)
Quiet ==
    /\ keyEpoch # epoch /\ host = 0 /\ fallback = None
    /\ \A r \in renewals : r.epoch # epoch
    /\ session \in {"Idle", "Failed"} /\ carrier.phase \notin {"opening", "open"}
    /\ state \notin {"needs-pairing", "awaiting-approval", "ready", "starting", "streaming"}

(* A dial still under way is to the current host. *)
LineIsOurs == carrier.phase \in {"opening", "open"} => carrier.origin = origin

Trust ==
    /\ Begun
    /\ origin # None /\ ~Cleared => Quiet
    /\ LineIsOurs

(* How a step may leave the carrier. *)
Moves ==
    \/ carrier' \in {carrier, NoCarrier}
    \/ carrier'.phase = "opening" /\ carrier'.origin = origin
    \/ carrier.phase \in {"opening", "open"} /\ carrier'.origin = carrier.origin

SameTarget == UNCHANGED <<origin, expect, epoch, plane, pinned, connects>>
KeysOfNow ==
    /\ keyEpoch' \in {keyEpoch, epoch}
    /\ \A r \in renewals' : r \in renewals \/ r.epoch = epoch

(* A step that leaves the target alone keeps the trust in it, if it keeps what is quiet quiet. *)
LEMMA Steady ==
    ASSUME TInv, Trust, SameTarget, KeysOfNow, Moves, origin # None /\ Quiet => Quiet'
    PROVE  Trust'
<1>1. Begun'
  BY DEF SameTarget, KeysOfNow, Trust, Begun, Stale, TInv, TypeOK, TypeTarget, TypeKey
<1>2. Cleared' <=> Cleared
  BY DEF SameTarget, Cleared, Stale
<1>3. LineIsOurs'
  BY DEF SameTarget, Moves, Trust, LineIsOurs, NoCarrier
<1> QED
  BY <1>1, <1>2, <1>3 DEF SameTarget, Trust

(* A reset leaves nothing that can dial, and only its own connect is to be answered. *)
LEMMA TrustReaching ==
    ASSUME TInv, Trust, NEW o, NEW e, Reach(o, e),
           carrier' = NoCarrier \/ (carrier' = carrier /\ carrier.phase \notin {"opening", "open"})
    PROVE  Trust' /\ Moves
<1>1. epoch \in Nat /\ keyEpoch \in Nat /\ epoch' = epoch + 1 /\ keyEpoch' = keyEpoch
      /\ renewals' = renewals
  BY DEF Reach, TInv, TypeOK, TypeTarget, TypeKey
<1>2. \A r \in renewals : r.epoch <= epoch /\ r.epoch \in Nat
  BY DEF Trust, Begun, TInv, TypeOK, TypeAwaits
<1>3. PICK at \in {"boot", "reach"} :
        connects' = connects \cup {[epoch |-> epoch + 1, at |-> at, known |-> None]}
  BY DEF Reach
<1> DEFINE d == [epoch |-> epoch + 1, at |-> at, known |-> None]
<1>4. \A c \in connects : c.epoch <= epoch /\ c.epoch \in Nat
  BY DEF TInv, Linked, TypeOK, TypeAwaits
<1>5. \A c \in connects' : c = d \/ (c \in connects /\ c.epoch # d.epoch /\ c.epoch # epoch')
  BY <1>1, <1>3, <1>4
<1>6. Begun'
  BY <1>1, <1>2, <1>3, <1>5 DEF Trust, Begun, Stale
<1>7. Quiet'
  BY <1>1, <1>2 DEF Reach, ResetWasm, Quiet, Trust, Begun, NoCarrier
<1>8. LineIsOurs' /\ Moves
  BY DEF LineIsOurs, Moves, NoCarrier
<1> QED
  BY <1>6, <1>7, <1>8 DEF Trust

(* disconnect leaves no host to dial. *)
LEMMA TrustLeaving ==
    ASSUME TInv, Trust, LeaveHost
    PROVE  Trust' /\ Moves
<1>1. epoch \in Nat /\ keyEpoch \in Nat /\ epoch' = epoch + 1 /\ keyEpoch' = keyEpoch
      /\ renewals' = renewals /\ connects' = connects /\ origin' = None
  BY DEF LeaveHost, TInv, TypeOK, TypeTarget, TypeKey
<1>2. \A r \in renewals : r.epoch <= epoch /\ r.epoch \in Nat
  BY DEF Trust, Begun, TInv, TypeOK, TypeAwaits
<1>3. \A c \in connects : c.epoch # epoch'
  BY <1>1 DEF TInv, Linked, TypeOK, TypeAwaits
<1>4. Begun'
  BY <1>1, <1>2, <1>3 DEF Trust, Begun, Stale
<1>5. LineIsOurs' /\ Moves
  BY DEF LeaveHost, CloseCarrier, LineIsOurs, Moves, NoCarrier
<1> QED
  BY <1>1, <1>4, <1>5 DEF Trust

(* A dial goes to the current host, and its renewal is of this epoch. *)
LEMMA WsMoves ==
    ASSUME NEW k, NEW to, OpenWs(k, to)
    PROVE  carrier' = NoCarrier \/ (carrier'.phase = "opening" /\ carrier'.origin = origin)
<1>1. carrier' \in {NoCarrier, CarrierOf("ws", to)}
  BY DEF OpenWs, RefusedToDial
<1> QED
  BY <1>1 DEF CarrierOf

(* ... whichever carrier the hint picks. *)
LEMMA DialNowMoves ==
    ASSUME NEW k, NEW seat, DialNow(k, seat)
    PROVE  carrier' = NoCarrier \/ (carrier'.phase = "opening" /\ carrier'.origin = origin)
<1>1. PICK to : OpenWt(k, to) \/ OpenWs(k, to)
  BY DEF DialNow
<1>2. OpenWs(k, to) \/ carrier' \in {NoCarrier, CarrierOf("wt", to)}
  BY <1>1 DEF OpenWt, RefusedToDial
<1> QED
  BY <1>2, WsMoves DEF CarrierOf

(* ... also behind the renewal of a pass. *)
LEMMA DialMoves ==
    ASSUME NEW k, NEW seat, Dial(k, seat)
    PROVE  Moves /\ \A r \in renewals' : r \in renewals \/ r.epoch = epoch
  BY DialNowMoves DEF Dial, Moves, line, Renewal

(* ... also behind a key load. *)
LEMMA BindAndDialMoves ==
    ASSUME NEW k, NEW hash, NEW seat, BindAndDial(k, hash, seat)
    PROVE  Moves /\ KeysOfNow
<1>1. CASE Dial(k, seat) /\ UNCHANGED key
  BY <1>1, DialMoves DEF KeysOfNow, key
<1>2. CASE BindKey(hash) /\ UNCHANGED <<line, renewals>>
  BY <1>2 DEF BindKey, KeysOfNow, Moves, line
<1> QED
  BY <1>1, <1>2 DEF BindAndDial

(* The verbs, one step each. *)
LEMMA TrustVerbs == ASSUME TInv, Trust, ~Hasty, Verbs PROVE Trust' /\ Moves
<1>1. ASSUME NEW o, NEW e, Connect(o, e) PROVE Trust' /\ Moves
  <2>1. carrier.phase \notin {"opening", "open"} /\ carrier' = carrier
    BY <1>1 DEF Connect
  <2> QED
    BY <1>1, <2>1, TrustReaching DEF Connect
<1>2. ASSUME AskAgain PROVE Trust' /\ Moves
  BY <1>2, TrustReaching DEF AskAgain, CloseCarrier
<1>3. ASSUME LeaveHost PROVE Trust' /\ Moves
  BY <1>3, TrustLeaving
<1>4. ASSUME ConnectBadAddress PROVE Trust' /\ Moves
  <2>1. SameTarget /\ KeysOfNow /\ Moves
    BY <1>4 DEF ConnectBadAddress, SameTarget, KeysOfNow, Moves, target, key, line
  <2>2. Quiet => Quiet'
    BY <1>4 DEF ConnectBadAddress, Quiet, target, key, line, hostly, wasm
  <2> QED
    BY <2>1, <2>2, Steady
<1>5. ASSUME NEW k, AskNow(k) PROVE Trust' /\ Moves
  <2>1. SameTarget /\ KeysOfNow /\ Moves
    BY <1>5, DialMoves DEF AskNow, SameTarget, KeysOfNow, target, key
  <2> QED
    BY <1>5, <2>1, Steady DEF AskNow, Quiet
<1>6. ASSUME Pair \/ RequestAccess PROVE Trust' /\ Moves
  BY <1>6, <1>2, <1>5 DEF Pair, RequestAccess
<1>7. ASSUME CancelRequest PROVE Trust' /\ Moves
  <2>1. SameTarget /\ KeysOfNow /\ Moves
    BY <1>7 DEF CancelRequest, CloseCarrier, SameTarget, KeysOfNow, Moves, target, key
  <2> QED
    BY <1>7, <2>1, Steady DEF CancelRequest, Quiet
<1>8. ASSUME StartStream PROVE Trust' /\ Moves
  <2>1. SameTarget /\ KeysOfNow /\ Moves
    BY <1>8, BindAndDialMoves DEF StartStream, SameTarget, target
  <2> QED
    BY <1>8, <2>1, Steady DEF StartStream, Quiet
<1>9. ASSUME Leave, host # 0 PROVE Trust' /\ Moves
  <2>1. SameTarget /\ KeysOfNow /\ Moves
    BY <1>9 DEF Leave, CloseCarrier, SameTarget, KeysOfNow, Moves, target, key
  <2> QED
    BY <1>9, <2>1, Steady DEF Quiet
<1>10. ASSUME NEW o, Forget(o), o # origin PROVE Trust' /\ Moves
  <2>1. SameTarget /\ KeysOfNow /\ Moves
    BY <1>10 DEF Forget, SameTarget, KeysOfNow, Moves, target, key, line
  <2>2. Quiet => Quiet'
    BY <1>10 DEF Forget, Quiet, target, key, line, hostly, wasm
  <2> QED
    BY <2>1, <2>2, Steady
<1>11. ASSUME Leave \/ Disconnect \/ \E o \in Origins : Forget(o) PROVE Trust' /\ Moves
  BY <1>3, <1>9, <1>10, <1>11 DEF Leave, Disconnect, Forget
<1> QED
  BY <1>1, <1>4, <1>6, <1>7, <1>8, <1>11 DEF Verbs

(* An await that came back: the connect goes on, ends, or is trusted, and nothing else moved. *)
LEMMA TrustAwaits ==
    ASSUME TInv, Trust, NEW c \in connects,
           ReachAnswered(c) \/ PlaneAnswered(c) \/ Verified(c)
    PROVE  Trust' /\ Moves
<1> USE DEF TInv, Trust
<1>1. /\ UNCHANGED <<epoch, origin, expect, renewals, session, host, carrier, fallback>> /\ Moves
    BY DEF ReachAnswered, PlaneAnswered, Verified, connectRest, line, wasm, hostly, Moves
<1>2. LineIsOurs'
  BY <1>1 DEF LineIsOurs
<1>3. CASE Stale(c) /\ connects' = connects \ {c} /\ UNCHANGED <<state, plane, pinned, key>>
  <2>1. Begun'
    BY <1>1, <1>3 DEF Begun, Stale, key
  <2>2. Cleared' <=> Cleared
    BY <1>1, <1>3 DEF Cleared, Stale
  <2>3. Quiet => Quiet'
    BY <1>1, <1>3 DEF Quiet, key
  <2> QED
    BY <1>1, <1>2, <2>1, <2>2, <2>3
<1>4. CASE ~Stale(c)
  <2>1. origin # None /\ ~Cleared /\ Quiet
    <3>1. origin # None
      BY <1>4 DEF Linked, Stale
    <3>2. ~Cleared
      BY <1>4 DEF Cleared
    <3> QED
      BY <3>1, <3>2
  <2>2. state' \notin {"needs-pairing", "awaiting-approval", "ready", "starting", "streaming"}
    BY <2>1, <1>4 DEF ReachAnswered, PlaneAnswered, Verified, ConnectSays, Trusted, Quiet
  <2>3. \A d \in connects \ {c} : d.epoch # epoch
    BY <1>4 DEF Begun, Stale
  <2>4. CASE Trusted(c) /\ plane' # None /\ \A fp \in {pinned', expect} \ {None} : plane' = fp
    <3>1. connects' = connects \ {c} /\ keyEpoch' = epoch
      BY <2>4 DEF Trusted, BindKey
    <3>2. Cleared'
      BY <1>1, <2>3, <2>4, <3>1 DEF Cleared, Stale
    <3>3. Begun'
      <4>1. keyEpoch' <= epoch'
        BY <1>1, <3>1 DEF TypeOK, TypeTarget
      <4>2. /\ \A r \in renewals' : r.epoch <= epoch'
            /\ \A a, b \in connects' : a.epoch = b.epoch => a = b
        BY <1>1, <3>1 DEF Begun
      <4>3. \A d \in connects' : Stale(d)'
        BY <3>2 DEF Cleared
      <4> QED
        BY <4>1, <4>2, <4>3 DEF Begun
    <3> QED
      BY <1>1, <1>2, <3>2, <3>3
  <2>5. ASSUME UNCHANGED key,
               connects' = connects \ {c}
                 \/ \E d : /\ d.epoch = epoch /\ connects' = (connects \ {c}) \cup {d}
                           /\ d.at = "verify" =>
                                /\ d.known # None
                                /\ \A fp \in {pinned', expect} \ {None} : fp = d.known
        PROVE  Trust' /\ Moves
    <3>1. Begun'
      BY <1>1, <2>3, <2>5 DEF Begun, Stale, key
    <3>2. Quiet'
      BY <1>1, <2>1, <2>2, <2>5 DEF Quiet, key
    <3> QED
      BY <1>1, <1>2, <3>1, <3>2
  <2>6. c \in [epoch : Nat, at : {"reach", "boot", "plane", "verify"},
               known : Identities \cup {None}] /\ c.epoch = epoch
    BY <1>4 DEF Stale, TypeOK, TypeAwaits
  <2>7. CASE ReachAnswered(c)
    <3>1. UNCHANGED key /\ (connects' = connects \ {c}
            \/ connects' = (connects \ {c}) \cup {[c EXCEPT !.at = "plane"]})
      BY <1>4, <2>7 DEF ReachAnswered, ConnectSays, Await
    <3>2. [c EXCEPT !.at = "plane"].epoch = epoch /\ [c EXCEPT !.at = "plane"].at = "plane"
      BY <2>6
    <3> QED
      BY <2>5, <3>1, <3>2
  <2>8. CASE PlaneAnswered(c)
    <3>1. \/ UNCHANGED key /\ connects' = connects \ {c}
          \/ /\ plane' \in Identities /\ pinned' = stored[origin] /\ Wanted = None /\ Trusted(c)
          \/ /\ UNCHANGED key /\ pinned' = stored[origin] /\ Wanted # None
             /\ connects' = (connects \ {c})
                             \cup {[epoch |-> epoch, at |-> "verify", known |-> Wanted]}
             /\ None \in {stored[origin], expect} \/ stored[origin] = expect
      BY <1>4, <2>8 DEF PlaneAnswered, ConnectSays
    <3>2. CASE plane' \in Identities /\ pinned' = stored[origin] /\ Wanted = None /\ Trusted(c)
      BY <2>4, <3>2, EngineAssumption DEF Wanted
    <3>3. CASE /\ UNCHANGED key /\ pinned' = stored[origin] /\ Wanted # None
               /\ connects' = (connects \ {c})
                               \cup {[epoch |-> epoch, at |-> "verify", known |-> Wanted]}
               /\ None \in {stored[origin], expect} \/ stored[origin] = expect
      <4> DEFINE d == [epoch |-> epoch, at |-> "verify", known |-> Wanted]
      <4>1. d.epoch = epoch /\ d.known = Wanted
        OBVIOUS
      <4>2. \A fp \in {pinned', expect} \ {None} : fp = Wanted
        BY <3>3 DEF Wanted
      <4> QED
        BY <2>5, <3>3, <4>1, <4>2
    <3> QED
      BY <2>5, <3>1, <3>2, <3>3
  <2>9. CASE Verified(c)
    <3>1. \/ UNCHANGED key /\ connects' = connects \ {c}
          \/ c.at = "verify" /\ plane = c.known /\ Trusted(c) /\ UNCHANGED <<plane, pinned>>
      BY <1>4, <2>9 DEF Verified, ConnectSays
    <3>2. CASE c.at = "verify" /\ plane = c.known /\ Trusted(c) /\ UNCHANGED <<plane, pinned>>
      <4>1. \A fp \in {pinned', expect} \ {None} : plane' = fp
        BY <1>4, <3>2 DEF Begun
      <4>2. plane' # None
        BY <1>4, <3>2 DEF Begun
      <4> QED
        BY <2>4, <3>2, <4>1, <4>2
    <3> QED
      BY <2>5, <3>1, <3>2
  <2> QED
    BY <2>7, <2>8, <2>9
<1> QED
  BY <1>3, <1>4 DEF ReachAnswered, PlaneAnswered, Verified, ConnectSays

(* Late answers: a key of another epoch and a renewal of another Host dial nothing. *)
LEMMA TrustAnswers == ASSUME TInv, Trust, Answers PROVE Trust' /\ Moves
<1>1. ASSUME NEW h, KeyLoaded(h) \/ KeyFailed(h) PROVE Trust' /\ Moves
  <2>1. SameTarget
    BY <1>1 DEF KeyLoaded, KeyFailed, SameTarget, target
  <2>2. KeysOfNow /\ Moves
    BY <1>1, DialMoves DEF KeyLoaded, KeyFailed, KeysOfNow, Moves, line
  <2>3. origin # None /\ Quiet => Quiet'
    BY <1>1 DEF KeyLoaded, KeyFailed, KeyFailure, KeyIsOurs, Quiet, target, line, wasm, hostly
  <2> QED
    BY <2>1, <2>2, <2>3, Steady
<1>2. ASSUME NEW i \in infos, InfoAnswered(i) PROVE Trust' /\ Moves
  <2>1. SameTarget /\ KeysOfNow /\ Moves
    BY <1>2 DEF InfoAnswered, SameTarget, KeysOfNow, Moves, target, key, line
  <2>2. i # 0
    BY DEF TInv, Linked
  <2>3. Quiet => Quiet'
    BY <1>2, <2>2 DEF InfoAnswered, Quiet, target, key, line, wasm
  <2> QED
    BY <2>1, <2>3, Steady
<1>3. ASSUME NEW r \in renewals, RenewalEnded(r) PROVE Trust' /\ Moves
  <2>1. SameTarget /\ KeysOfNow /\ Moves
    BY <1>3, DialNowMoves DEF RenewalEnded, SameTarget, KeysOfNow, Moves, target, key, line
  <2>2. Quiet => Quiet'
    BY <1>3 DEF RenewalEnded, Quiet, target, key, line, wasm, hostly
  <2> QED
    BY <2>1, <2>2, Steady
<1>4. ASSUME NEW p, Printed(p) PROVE Trust' /\ Moves
  <2>1. SameTarget /\ KeysOfNow /\ Moves
    BY <1>4 DEF Printed, SameTarget, KeysOfNow, Moves, target, key, line
  <2>2. Quiet => Quiet'
    BY <1>4 DEF Printed, Quiet, target, key, line, wasm, hostly
  <2> QED
    BY <2>1, <2>2, Steady
<1> QED
  BY <1>1, <1>2, <1>3, <1>4, TrustAwaits DEF Answers

(* The carrier's events and the host's frames, one step each. *)
LEMMA TrustNetwork == ASSUME TInv, Trust, Network PROVE Trust' /\ Moves
<1>1. carrier.phase \in {"opening", "open", "ctl"} => carrier \in Lines
  BY Chosen DEF Lines
<1>2. ASSUME carrier.phase \in {"opening", "open"}, Speak, SameTarget, KeysOfNow
      PROVE  Trust' /\ Moves
  <2>1. carrier' \in {NoCarrier, [carrier EXCEPT !.phase = "ctl"]}
    BY <1>2 DEF Speak
  <2>2. Moves
    BY <1>1, <1>2, <2>1 DEF Moves, Lines
  <2> QED
    BY <1>2, <2>2, Steady DEF Quiet
<1>3. ASSUME WsOpens \/ WtControlOpens PROVE Trust' /\ Moves
  <2>1. SameTarget /\ KeysOfNow
    BY <1>3 DEF WsOpens, WtControlOpens, SameTarget, KeysOfNow, target, key
  <2> QED
    BY <1>2, <1>3, <2>1 DEF WsOpens, WtControlOpens
<1>4. ASSUME WtOpens PROVE Trust' /\ Moves
  <2>1. SameTarget /\ KeysOfNow
    BY <1>4 DEF WtOpens, SameTarget, KeysOfNow, target, key
  <2>2. carrier.phase = "opening" /\ carrier' = [carrier EXCEPT !.phase = "open"]
    BY <1>4 DEF WtOpens
  <2>3. Moves
    BY <1>1, <2>2 DEF Moves, Lines
  <2> QED
    BY <2>1, <2>2, <2>3, Steady DEF Quiet
<1>5. ASSUME SilencePasses PROVE Trust' /\ Moves
  <2>1. SameTarget /\ KeysOfNow
    BY <1>5 DEF SilencePasses, SameTarget, KeysOfNow, target, key
  <2>2. Moves
    BY <1>5, WsMoves DEF SilencePasses, Moves
  <2>3. ~Quiet
    BY <1>5 DEF SilencePasses, Quiet, TInv, Linked
  <2> QED
    BY <2>1, <2>2, <2>3, Steady
<1>6. ASSUME NeverOpens PROVE Trust' /\ Moves
  <2>1. SameTarget /\ KeysOfNow
    BY <1>6 DEF NeverOpens, SameTarget, KeysOfNow, target, key
  <2>2. Moves
    BY <1>6, WsMoves DEF NeverOpens, Moves
  <2>3. ~Quiet
    BY <1>6 DEF NeverOpens, Quiet
  <2> QED
    BY <2>1, <2>2, <2>3, Steady
<1>7. ASSUME NEW code, NEW said, CarrierCloses(code, said) \/ HostRefuses(code, said)
      PROVE  Trust' /\ Moves
  <2>1. SameTarget /\ KeysOfNow /\ Moves
    BY <1>7 DEF CarrierCloses, HostRefuses, closedRest, SameTarget, KeysOfNow, Moves, target, key
  <2>2. Closed(code, said) /\ UNCHANGED closedRest /\ carrier' \in {carrier, NoCarrier}
    BY <1>7 DEF CarrierCloses, HostRefuses
  <2>3. Quiet => session' \in {"Idle", "Failed"} /\ state' \notin
          {"needs-pairing", "awaiting-approval", "ready", "starting", "streaming"}
    BY <2>2 DEF Closed, Dropped, StopSession, ResetWasm, Quiet, wasm
  <2>4. Quiet => Quiet'
    BY <2>2, <2>3 DEF Quiet, closedRest, key, hostly, target, NoCarrier
  <2> QED
    BY <2>1, <2>4, Steady
<1>8. ASSUME HostAccepts \/ HostGarbles \/ \E ok \in BOOLEAN : HostSettlesPairing(ok)
      PROVE  Trust' /\ Moves
  <2>1. SameTarget /\ KeysOfNow /\ Moves
    BY <1>8 DEF HostAccepts, HostGarbles, HostSettlesPairing, framed, SameTarget, KeysOfNow,
       Moves, target, key
  <2>2. Quiet => Quiet'
    BY <1>8 DEF HostAccepts, HostGarbles, HostSettlesPairing, framed, Quiet, target, key, wasm,
       hostly
  <2> QED
    BY <2>1, <2>2, Steady
<1>9. ASSUME NEW seat, HostRedirects(seat) PROVE Trust' /\ Moves
  <2>1. SameTarget
    BY <1>9 DEF HostRedirects, SameTarget, target
  <2>2. KeysOfNow
    BY <1>9 DEF HostRedirects, KeysOfNow, BindKey, key
  <2>3. Moves
    BY <1>9 DEF HostRedirects, CloseCarrier, Moves, line
  <2>4. ~Quiet
    BY <1>9 DEF HostRedirects, Quiet
  <2> QED
    BY <2>1, <2>2, <2>3, <2>4, Steady
<1> QED
  BY <1>3, <1>4, <1>5, <1>6, <1>7, <1>8, <1>9 DEF Network

(* The decoder and the frame loop: a restart needs a stream of this host. *)
LEMMA TrustPage == ASSUME TInv, Trust, Page PROVE Trust' /\ Moves
<1>1. ASSUME NEW c, Undecodable(c) PROVE Trust' /\ Moves
  <2>1. SameTarget /\ ~Quiet
    BY <1>1 DEF Undecodable, SameTarget, Quiet, target
  <2>2. KeysOfNow /\ Moves
    BY <1>1, BindAndDialMoves DEF Undecodable, Restart, CloseCarrier, KeysOfNow, Moves, key
  <2> QED
    BY <2>1, <2>2, Steady
<1>2. ASSUME HdrConverted PROVE Trust' /\ Moves
  <2>1. SameTarget /\ KeysOfNow /\ Moves /\ (Quiet => Quiet')
    BY <1>2 DEF HdrConverted, SameTarget, KeysOfNow, Moves, Quiet, target, key, line, wasm, hostly
  <2> QED
    BY <2>1, Steady
<1>3. ASSUME RestartInSdr PROVE Trust' /\ Moves
  <2>1. SameTarget
    BY <1>3 DEF RestartInSdr, SameTarget, target
  <2>2. KeysOfNow /\ Moves
    BY <1>3, BindAndDialMoves DEF RestartInSdr, Restart, KeysOfNow, Moves, key, line
  <2>3. Quiet => Quiet'
    BY <1>3 DEF RestartInSdr, Quiet, target, key, line, wasm, hostly
  <2> QED
    BY <2>1, <2>2, <2>3, Steady
<1>4. ASSUME Frame PROVE Trust' /\ Moves
  <2>1. SameTarget /\ KeysOfNow
    BY <1>4 DEF Frame, SameTarget, KeysOfNow, target, key
  <2>2. PICK k : UpdateSession(k) /\ k \in {"pair-refused", state}
    BY <1>4 DEF Frame
  <2>3. Moves
    BY <2>2 DEF UpdateSession, CloseCarrier, Moves
  <2>4. Quiet => /\ session' \in {"Idle", "Failed"} /\ carrier' \in {carrier, NoCarrier}
                 /\ state' \in {"pair-refused", "error", state}
    BY <2>2 DEF UpdateSession, StopSession, ResetWasm, CloseCarrier, Quiet, wasm
  <2>5. Quiet => Quiet'
    BY <1>4, <2>4 DEF Frame, Quiet, target, key, hostly, NoCarrier
  <2> QED
    BY <2>1, <2>3, <2>5, Steady
<1>5. ASSUME GracePasses \/ BudgetPasses PROVE Trust' /\ Moves
  <2>1. SameTarget /\ KeysOfNow /\ Moves /\ (Quiet => Quiet')
    BY <1>5 DEF GracePasses, BudgetPasses, timeless, SameTarget, KeysOfNow, Moves, Quiet, target,
       key, line, hostly
  <2> QED
    BY <2>1, Steady
<1> QED
  BY <1>1, <1>2, <1>3, <1>4, <1>5 DEF Page

(* Every step. *)
LEMMA TrustStep == ASSUME TInv, Trust, ~Hasty, [Next]_vars PROVE Trust' /\ Moves
<1>1. ASSUME UNCHANGED vars PROVE Trust' /\ Moves
  <2>1. SameTarget /\ KeysOfNow /\ Moves /\ (Quiet => Quiet')
    BY <1>1 DEF vars, SameTarget, KeysOfNow, Moves, Quiet, target, key, line, wasm, hostly
  <2> QED
    BY <2>1, Steady
<1> QED
  BY <1>1, TrustVerbs, TrustAnswers, TrustNetwork, TrustPage DEF Next

(* A fresh page waits for nothing. *)
LEMMA TrustInit == ASSUME Init PROVE Trust
  BY DEF Init, Trust, Begun, LineIsOurs, NoCarrier

(* Every dial is made with a plane this connect fetched, checked, and found to attest what the
   stored fingerprint and the link say. *)
THEOREM TrustHolds == ASSUME ~Hasty PROVE Spec => TrustBeforeDial
<1>1. TInv /\ Trust /\ [Next]_vars => Trust'
  BY TrustStep
<1>2. TInv' /\ Trust' => [Dialled => Cleared']_vars
  <2>1. ASSUME TInv', Trust', Dialled PROVE Cleared'
    <3>1. carrier'.phase = "opening"
      BY <2>1 DEF Dialled
    <3>2. origin' # None
      BY <2>1, <3>1 DEF TInv, Linked, NoCarrier
    <3> QED
      BY <2>1, <3>1, <3>2 DEF Trust, Quiet
  <2> QED
    BY <2>1
<1> QED
  BY <1>1, <1>2, TrustInit, Typing, PTL DEF Spec, TrustBeforeDial

(***************************************************************************)
(* What a silent WebTransport gives way to.  A carrier is replaced by its  *)
(* fallback only while it opens, whoever connects and when: no step sets   *)
(* one and leaves the other of another dial (Guarded).                     *)
(***************************************************************************)
Guarded ==
    \/ carrier' = NoCarrier \/ fallback' = None \/ UNCHANGED <<carrier, fallback>>
    \/ carrier'.kind = "wt" /\ carrier'.phase = "opening" /\ carrier'.to = fallback'

(* A dial sets both, or a renewal and a key load put it off. *)
LEMMA DialGuards == ASSUME NEW k, NEW seat, Dial(k, seat) \/ DialNow(k, seat) PROVE Guarded
<1>1. ASSUME NEW to, OpenWs(k, to) PROVE Guarded
  BY <1>1 DEF OpenWs, RefusedToDial, Guarded
<1>2. ASSUME NEW to, OpenWt(k, to) PROVE Guarded
  BY <1>1, <1>2 DEF OpenWt, RefusedToDial, CarrierOf, Guarded
<1>3. DialNow(k, seat) => Guarded
  BY <1>1, <1>2 DEF DialNow
<1> QED
  BY <1>3 DEF Dial, Guarded, line

(* ... also behind a key load. *)
LEMMA BindAndDialGuards ==
    ASSUME NEW k, NEW hash, NEW seat, BindAndDial(k, hash, seat) PROVE Guarded
  BY DialGuards DEF BindAndDial, Guarded, line

(* Every step, group by group. *)
LEMMA StepGuards == ASSUME FallbackWhileOpening, [Next]_vars PROVE Guarded
<1> USE DEF line, CloseCarrier
<1>1. CASE UNCHANGED vars
  BY <1>1 DEF vars, Guarded
<1>2. ASSUME Verbs PROVE Guarded
  <2>1. ASSUME NEW o, NEW e, Reach(o, e) \/ LeaveHost PROVE Guarded
    BY <2>1 DEF Reach, LeaveHost, Guarded
  <2>2. ASSUME Pair \/ RequestAccess PROVE Guarded
    BY <2>1, <2>2, DialGuards DEF Pair, RequestAccess, AskNow, AskAgain
  <2>3. ASSUME ConnectBadAddress \/ CancelRequest \/ StartStream \/ Leave PROVE Guarded
    BY <2>1, <2>3, BindAndDialGuards
       DEF ConnectBadAddress, CancelRequest, StartStream, Leave, Guarded
  <2>4. ASSUME NEW o, Forget(o) PROVE Guarded
    BY <2>1, <2>4 DEF Forget, Guarded
  <2> QED
    BY <1>2, <2>1, <2>2, <2>3, <2>4 DEF Verbs, Connect, Disconnect
<1>3. ASSUME Answers PROVE Guarded
  <2>1. ASSUME NEW c, ReachAnswered(c) \/ PlaneAnswered(c) \/ Verified(c) PROVE Guarded
    BY <2>1 DEF ReachAnswered, PlaneAnswered, Verified, connectRest, Guarded
  <2>2. ASSUME NEW h, KeyLoaded(h) \/ KeyFailed(h) PROVE Guarded
    BY <2>2, DialGuards DEF KeyLoaded, KeyFailed, Guarded
  <2>3. ASSUME NEW r, RenewalEnded(r) PROVE Guarded
    BY <2>3, DialGuards DEF RenewalEnded, Guarded
  <2>4. ASSUME NEW x, InfoAnswered(x) \/ Printed(x) PROVE Guarded
    BY <2>4 DEF InfoAnswered, Printed, Guarded
  <2> QED
    BY <1>3, <2>1, <2>2, <2>3, <2>4 DEF Answers
<1>4. ASSUME Network PROVE Guarded
  <2>1. ASSUME WsOpens \/ WtOpens PROVE Guarded
    BY <2>1 DEF WsOpens, WtOpens, Opened, Guarded
  <2>2. ASSUME WtControlOpens PROVE Guarded
    <3>1. fallback = None
      BY <2>2 DEF WtControlOpens, FallbackWhileOpening, NoCarrier
    <3> QED
      BY <2>2, <3>1 DEF WtControlOpens, Guarded
  <2>3. ASSUME SilencePasses \/ NeverOpens PROVE Guarded
    BY <2>3 DEF SilencePasses, NeverOpens, OpenWs, RefusedToDial, Guarded
  <2>4. ASSUME NEW code, NEW said, CarrierCloses(code, said) \/ HostRefuses(code, said)
        PROVE  Guarded
    BY <2>4 DEF CarrierCloses, HostRefuses, closedRest, Guarded
  <2>5. ASSUME HostAccepts \/ HostGarbles \/ \E ok \in BOOLEAN : HostSettlesPairing(ok)
        PROVE  Guarded
    BY <2>5 DEF HostAccepts, HostGarbles, HostSettlesPairing, framed, Guarded
  <2>6. ASSUME NEW seat, HostRedirects(seat) PROVE Guarded
    BY <2>6 DEF HostRedirects, Guarded
  <2> QED
    BY <1>4, <2>1, <2>2, <2>3, <2>4, <2>5, <2>6 DEF Network
<1>5. ASSUME Page PROVE Guarded
  <2>1. ASSUME NEW c, Undecodable(c) \/ RestartInSdr PROVE Guarded
    BY <2>1, BindAndDialGuards DEF Undecodable, RestartInSdr, Restart, Guarded
  <2>2. ASSUME HdrConverted \/ GracePasses \/ BudgetPasses PROVE Guarded
    BY <2>2 DEF HdrConverted, GracePasses, BudgetPasses, timeless, Guarded
  <2>3. ASSUME Frame PROVE Guarded
    BY <2>3 DEF Frame, UpdateSession, Guarded
  <2> QED
    BY <1>5, <2>1, <2>2, <2>3 DEF Page
<1> QED
  BY <1>1, <1>2, <1>3, <1>4, <1>5 DEF Next

(* No timer and no late failure of a WebTransport takes down a carrier that has opened, or dials
   another plane than the one it was for, also where the page connects anew over a dial. *)
THEOREM FallbackHolds == Spec => []FallbackWhileOpening
<1>1. Init => FallbackWhileOpening
  BY DEF Init, FallbackWhileOpening
<1>2. FallbackWhileOpening /\ [Next]_vars => FallbackWhileOpening'
  BY StepGuards DEF Guarded, FallbackWhileOpening
<1> QED
  BY <1>1, <1>2, PTL DEF Spec
=============================================================================
