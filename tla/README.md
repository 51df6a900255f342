# A formal model of punktfunk's browser client

TLA+ modules, TLC runs and TLAPS proofs about the repository in `src/`: the browser client of the
punktfunk game streaming host, and the page server beside it. Paths below are relative to the
repository; `engine.ts` is `src/packages/stream/src/engine.ts`, `app.ts` and `console.ts` are those
of `src/apps/web/src`.

| Files | What they are |
|---|---|
| `Engine.tla` | the engine: verbs, awaits, the carrier, control frames, the frame loop |
| `WsLeg.tla`, `RxRing.tla`, `RxQueue.tla` | the browser's leg of a bridged session; the datagram path, and the queue it promises to be |
| `Recovery.tla` | lost frames, asks and the held picture |
| `VideoPipe.tla`, `Audio.tla`, `Mic.tla` | the decoder, the host's sound, the microphone |
| `Keyboard.tla`, `Pads.tla`, `Cursor.tla` | keys, buttons and fingers; a pad over a lossy link; whose pointer shows |
| `Tunnel.tla`, `PagePass.tla`, `Prefs.tla`, `WhoPlays.tla` | management calls; the browser's pass; stored settings; who plays |
| `App.tla`, `Shelf.tla`, `Reach.tla`, `WindowSize.tla` | the web app: flows and the profile gate; its lists; probes and wakes; the stream that follows the window |
| `Console.tla`, `Covers.tla`, `WakeCard.tla`, `Sweep.tla`, `Field.tla` | the page side of the gamepad console on a TV |
| `Lanes.tla`, `Passes.tla`, `Meter.tla`, `Bridge.tla` | the page server: places, passes, meters, one relay |
| `MCEngine.tla`, `MCWire.tla`, `MCMedia.tla`, `MCPage.tla`, `*.cfg` | instances for TLC |
| `EngineProofs.tla`, `EngineAsked.tla`, `RecoveryProofs.tla`, `MediaProofs.tla`, `CarrierProofs.tla`, `ServerProofs.tla`, `ScreenProofs.tla`, `PageProofs.tla` | theorems and proofs |
| `PROJECT.json` | components, runs, mutants, the map from definitions to lines, findings, hazards, theorems |

## 1. Inventory

The repository ships three things: `@punktfunk/stream` (an engine in TypeScript over a session in
Rust compiled to wasm), a web app on it, and a page server that proxies and bridges hosts.

| Component | State it keeps | Operations | Talks to | Module |
|---|---|---|---|---|
| **Engine** `engine.ts` | `EngineState`, the target, what is pending for the next dial, the seat, clocks, refused codecs | `connect`, `pair`, `requestAccess`, `startStream`, `leave`, `disconnect`, `forget`; answers of its awaits; carrier callbacks; `frame` | everything below | `Engine` |
| **Session** `rust/session.rs` | phase, codecs to offer, reassembly, feedback | `hello`, `ctl_recv`, `pump`, `reset` | ring, decoder | `Engine`, `RxRing`, `Recovery` |
| **Credential** `rust/credential.rs`, `pf-glue.ts` | the device key, the plane it is bound to, the ceremony | `device_init`, `pair_begin`, signing | IndexedDB, WebCrypto | `Engine` |
| **Receive ring** `rust/transport.rs`, `carrier/feed.ts` | 256 slots, `head`, `tail`, `dropped` | claim, commit, lost, pop, reset | carrier, pump | `RxRing` |
| **Carriers** `carrier/wt.ts`, `carrier/ws.ts` | one connection, its pings | open, close, send | browser, host, page server | `WsLeg`, `Engine` |
| **Recovery** `rust/recovery.rs` | expected index, lost range, the open ask | on_index, take_ask, on_frame, resend | pump | `Recovery` |
| **Video, sound, microphone** `video.ts`, `audio.ts`, `mic.ts` | decoders, graphs, queues, what is awaited | attach, access unit, error, rebuild, start, stop | browser, engine | `VideoPipe`, `Audio`, `Mic` |
| **Input, pointer** `input.ts`, `cursor.ts`, `rust/input.rs` | keys, buttons, fingers, pads; who draws the pointer | DOM events, polls, frames | session | `Keyboard`, `Pads`, `Cursor` |
| **Hosts on this page** `pf-connect.ts`, `host.ts`, `pass.ts`, `tunnel.ts` | fingerprints, passes, picks, tunnelled requests | reach, verify, calls, renew | hosts, page server | `Engine`, `PagePass`, `WhoPlays`, `Tunnel` |
| **Settings, profiles** `settings.ts`, `profiles.ts` | what differs from the defaults; who plays | load, set, reset, decide | storage | `Prefs`, `WhoPlays` |
| **Web app** `app.ts` | the screen, what waits on a host, gates, lists, probes, timers | clicks, renders, answers | engine, hosts | `App`, `Shelf`, `Reach`, `WindowSize` |
| **Console's page side** `console.ts` | steps that wait, covers, the wake card, a sweep, a field | requests, screens, frames | the console in wasm, app | `Console`, `Covers`, `WakeCard`, `Sweep`, `Field` |
| **Page server** `server/src` | passes, meters, two pools, one relay per session | admit, prove, dial, relay | hosts, browsers | `Lanes`, `Passes`, `Meter`, `Bridge` |

JavaScript and the wasm session run on one thread, so a callback is atomic and the order of
callbacks is free. What makes the client hard is that nearly everything it starts is answered
later: by then a person may have left, paired, chosen another host, changed tabs or the stream may
have ended. In the server tasks run in parallel over shared pools, and a relay's pumps race its
end. The network loses, delays and reorders; decoders, GPUs and storage fail.

What makes each part correct:

- **Engine**: dials only a host it has checked; what was asked of one host never reaches another;
  a late answer moves nothing that is no longer its own; a host that never answers is not waited
  for for ever; an error leaves nothing running; a restart offers what may still work.
- **Ring and carriers**: a bounded queue, through wrapping, overflow and resets; no false loss; no
  stall; an end is said once, and a dead leg ends.
- **Recovery and media**: a frame behind is never decoded; every loss is asked for; the picture and
  the sound come back; what is closed holds nothing.
- **Input**: the host holds only what the person holds; exactly one pointer shows.
- **Page**: who is dialled, shown and played as is who was asked; nothing waits past what it was
  for; what is kept is what was given; nothing leaks or floods.
- **Page server**: a place is always given back; a refusal takes nothing; what a host said before
  closing reaches the page.

The hazards these answer are listed with their lines in `PROJECT.json`.

## 2. Shape of the project

One module per component, each with its `Init`, one action per handler or answer, `Next`, its
fairness, type invariant and properties under its own names (`LanesInit`, `LanesNext`, ...), so
that modules can be put together. Constants carry named assumptions as weak as the code justifies.

Components that act on each other through much state are one module: the engine with its carrier,
its hosts and the session's phase; a session with its ring; recovery with the decoder's reports;
`Lanes` with the whole life of a bridge session. Where the meeting is narrow, each module states
what it needs of the other as its environment, as freely as the other may behave: `App` and
`Console` see the engine's states in every order the engine may take them, `PagePass` sees a server
that extends, makes or loses passes, `Bridge` a page that may stop reading.

`MCWire`, `MCMedia` and `MCPage` put independent components side by side. A behaviour of theirs is
one of the components, picked at the start (`part`); the others stay as they began. So each run
checks every component over all of its own behaviours and none of their product, which would add
states and no cases. Merged properties there are conjunctions, named in the module.

Conventions: a microtask runs in the step that queued it; a frame of the host or of the page is one
step; history variables, marked so where they are declared, record only what a property needs.
Operators marked *mutant* are plausible bugs; `PROJECT.json` pairs one with each property of a
passing run, and where several properties are merged the modules hold one for each of the others
(`OverFromCap`, `SlotByCount`, `KeepPin`, ...).

## 3. The engine

### State and actions

`Engine.tla` has one variable per field that decides something, under the field's name, and one
action per verb, callback or answer. The parts of `engine.ts` that only draw, listen, play or count
are left out. These differ from the source:

| Model | Source |
|---|---|
| `connects`, `infos`, `renewals`, `prints`, `keyLoads` | calls in flight: the awaits of `connect`, `host.info()`, `renewPass`, `hostFingerprint`, `pf_device_init` |
| `carrier.phase` opening, open, ctl | `carrier.open()` pending; WebTransport open; control stream open. A carrier closed is `NoCarrier`: it says nothing more (`wt.ts`, `ws.ts` guard their callbacks) |
| `fallback`, `silence` | the closure and timer of `openCarrier` |
| `session`, `video`, `cred`, `credHash`, `offer` | the wasm session's phase, whether a `VideoPipe` exists, the credential's phase and bound hash, `CODECS` |
| `hdr` | whether HDR may come back converted, and the `setTimeout` that then restarts in SDR |
| clocks unset, recent, expired | `offeredSince`, `knockSince` against the budgets that read them |
| `wsHint` | `carrierHint` = "ws" |
| `pinned`, `asked`, `admitted` | history only: the fingerprint a connect read, how long the Hello is out, the hosts that let this device in |

What a host's plane attests is an identity; its certificate hash is named by its origin. A host is
outside `src/`: at any time it may accept, refuse, redirect, settle a ceremony, close or be silent,
except that it looks for a seat only once it has admitted the device (the comment at `engine.ts:48`),
which is what `admitted` records. `PairChallenge` and `PairResult` are one step. A `Refused` or
`Redirect` is handled in the microtask after its frame, so it is one step with it. Whether a page
holds a pass is free at each dial, but lacking while a renewal for that host runs.

**What a page may do.** Any verb at any time, in every order the engine's own guards allow.
`Leave` is offered where the app offers it, while a stream starts or runs. `Hasty` says whether the
page may connect anew while a key load or a dial is under way. Nothing in the engine forbids it and
the app's quiet library browsing can do it, so the properties that hold regardless are checked with
`Hasty = TRUE` (`engine_hosts`); a hasty page makes the engine break two of its own comments (1029
and 1099, below). `TrustBeforeDial` is checked and proved for a page that
waits.

### Runs

Every run is exhaustive within `MaxEpoch` = 2 resets (connects, reconnects and disconnects),
`MaxLoads` = 1 key load of a hash in flight when a verb adds one, and `MaxHosts` = 2 management
clients. Two resets are what it takes for an answer to be late: one connect asks, another
supersedes it. Each run keeps only the constants its
question needs.

| Run | Instance | Shows |
|---|---|---|
| `engine_hosts` | two hosts, one by WebTransport and bridge, one by the tunnel; a hasty page | `OneHost`: nothing asked of one host waits for another. `NothingClaimed`: a host is stored, or shown as paired, only if it admitted us. `StreamIsOurs`: a stream shown is the current host's. `FallbackWhileOpening`: the bridge replaces only a WebTransport still opening, to the same plane. `TypeOK` |
| `engine_streams` | one host, two identities, a link, two codecs, HDR | `TrustBeforeDial`: every dial, whichever handler makes it, follows a plane this connect fetched and matched against the stored fingerprint and the link's. `StreamingIsLive`: a stream shown has a session its host answered, and a decoder. `ErrorStops`: an error ends the session with it |
| `engine_answers` | a door with a seat, by WebTransport and tunnel, two codecs; a host that may be silent | `OfferLeavesOut`: the Hello of a stream that starts offers every codec that has not failed, or the default where each has. `ConnectSettles`, `StartSettles`, `KnockSettles`: nothing is waited for for ever |

Notes on bounds. `TypeOK`, `OneHost`, `NothingClaimed` and `StreamIsOurs` were also run once with
three resets (6.1 million states), liveness too. `engine_streams` has no bridge and no seat, because
with them the code breaks `StreamingIsLive` and `ErrorStops`; both ways were found by proving them
(section 8, `OneLine`) and confirmed by TLC in larger instances:

- On a door with seats: a stream is redirected and its key load for the seat begins; the page leaves
  the stream before the load ends and asks for another. Two loads are now out, and an answer names
  neither (`engine.ts:1032-1058`): the later one, after the dial of the first has opened and said
  Hello, asks the host again or ends in an error with the session still offered.
- With HDR over a bridge: the page leaves and asks again between the decoder's word that HDR comes
  converted and the zero timer that restarts in SDR (`engine.ts:722`). The restart, while the new
  stream dials, begins a renewal of the pass whose end dials over the session just offered.

`KnockSettles` is about a session that is `Offered`; a redirect during a request
for access puts the session to `Idle` and leaves the state to the host.

**Fairness.** `FairSpec` is weakly fair for the frame loop (`requestAnimationFrame`), timers,
everything awaited (a `fetch` or IndexedDB call ends, if only by failing), a dial (it opens or
fails) and a control stream. Hosts get no fairness: they may never send another frame. A hidden page
runs no frames; the properties are about a page that is shown.

### What the code does not do

Four of the five violation runs each take one sentence from the source and find it untrue; `PROJECT.json` has them as
findings, and TLC prints the trace.

| Run | Sentence | In short |
|---|---|---|
| `engine_verdict` | `engine.ts:1230` | a close with a reason, before a frame read `Paired`, shows a refusal; the host is never stored |
| `engine_grace` | `engine.ts:63` | leave a stream that has not started, start again later: forgotten at the first frame |
| `engine_hello` | `engine.ts:621` | a request for access offers the default codec, or an earlier stream's |
| `engine_pairing` | `engine.ts:517` | a carrier lost in a ceremony leaves `pairing` for ever |

The same model shows these; each was confirmed with a run of its own, which the project does not
keep:

| Sentence | In short |
|---|---|
| `engine.ts:1029` | a hasty connect: the key an older one asked for answers, and dials, as the newer's, since a load carries no epoch (`engine.ts:1034`, `pf-glue.ts:157-195`) |
| `engine.ts:674` | leave while a redirect rebinds the key, start again: the box is dialled with the key bound to the seat |
| `engine.ts:1099` | a hasty connect: the dial to the old host opens and says what was asked of the new one |
| `engine.ts:1190` | the close after a ceremony lands in the reconnect and fails it |
| `engine.ts:706` | a restart on a seat does not close first: the seat's close ends the restarted stream |
| `engine.ts:1189` | `Refused` with PAIR_DENIED on a live session: forgotten, and streaming again a frame later |
| `engine.ts:296`, `1022` | a PIN whose dial was refused before its control stream waits on; a later request for access goes first |
| `engine.ts:1261` | the same early refusal over WebTransport: after the error the control stream opens and says Hello; five seconds later the page shows forgotten |
| `engine.ts:135`, `519` | no stream is open in `needs-pairing` |

## 4. The session's path

`MCWire`, run `wire`: the place a session takes in the server, its relay, the browser's leg, and the
datagrams' ring.

| Module | Translation | Shows |
|---|---|---|
| `RxRing` | `feed.ts` over the ring of `transport.rs`, pumped by `session.rs`. `Datagram(kind)` is the whole of `Feed.datagram`: claim, drain once if there is no slot, write, commit, post the burst task. Only media moves `head`. `Pumps` says what a pump may take: at least one of what waits, if live | `IsAQueue`: the ring implements `RxQueue`, a bounded queue, under the mapping of the slots from `tail` to `head`. `LiveDropsNothing`: no false loss for the bitrate driver. `WaitingIsTaken`: frames alone empty it |
| `WsLeg` | `WsCarrier`: dial, pings on a timer, pongs, and every way the socket or the page ends it. `told` is what the engine heard | `EndSaidOnce`: one word at most, none of the page's own, and silence ends only what had answered. `DeadLegEnds`: a TCP leg that died without a word ends |
| `Lanes` | the pools of `lanes.rs` and `open`, `admission` and `session` of `bridge.rs`; a session is cut where it awaits or unlocks; the deadline of a pairing, restarts of the server by dropped permits | `PlacesAreHeld`: places taken are held by one session each, an address pairs once. `ServerLetsGo`, first half: a pairing session gives its place back |
| `Bridge` | `relay`: four pumps, a writer over two bounded channels, the drain and flush that end it | `BridgeDelivers`: streams in order, none dropped; the host's close last, after all that was read, unless the page outlasted GRACE. `ServerLetsGo`, second half: the session ends with either side |

Bounds: three slots hold two datagrams, so full, empty and wrapped are each reached twice in five
arrivals over two connections. Three pings unanswered is the code's own number. Three sessions from
two addresses compete for one paired and two pairing places with two starts an hour: a pool, an
address and the starts can each be the one that refuses. One message in each channel makes every
pump wait for room; two chunks, one of them ahead of a close, make an order.

Fairness: frames pump the ring; `setInterval` fires pings; in the server, futures that are ready
run, timers fire, and a write to a socket whose peer has gone fails. A page that stalls and a host
that says nothing get none.

`transport.rs:94` says that a datagram the last connection left "must not reach the next session".
A connect or a restart resets the ring and leaves the old carrier open until the next dial, and
what it delivers meanwhile is in the ring when the next session goes live; core is to refuse what
that session did not encrypt. `WtCarrier`'s readers (`wt.ts:66-67`) go on handing over what they
had read after `close`.

## 5. Lost frames

`Recovery`, run `recovery`: `recovery.rs` and its callers in `session.rs`. A pump reads a burst of
frames, notes the gap before one, arms the freeze, and asks for the lost range or a key frame; an
ask is a numbered datagram repeated until a frame answers it or it is given up. Indices and numbers
are counted modulo `Width`. The host, the link and core's gate are external: the host answers only
an ask it heard, the link loses and delays frames, at most `MaxGap` in a row.

`Width` = 6 is the smallest at which behind, next, a gap and too far ahead are four different
things; indices pass the wrap within the run, and the mutants that drop the wrap are found.
`GiveUp` = 2 ticks against a repeat of one lets an ask be repeated, answered late and given up.
`NeverRewinds`: no frame behind is decoded. `LostIsPending`: no loss is forgotten before it is
asked for, across a second gap and the wrap. `BlameIsRight`: the words of a picture that hangs name
the right cause. `PictureReturns`: the hold ends.

Fairness: frames are drawn; clocks, microtasks, the decoder and its rebuild run; a host that can
send what it was asked does at last (strong, since it may send other frames first). What the link
loses is bounded by `MaxFaults`; without that no picture need return.

## 6. Pictures, sound, input

`MCMedia`, run `media`, and of `MCPage` the parts `keyboard` and `cursor`.

| Module | Translation | Shows |
|---|---|---|
| `VideoPipe` | configurations, planes made and lost, accelerations tried one past the last that failed, rebuilds at most twice a second, close | `ClosedHoldsNothing`; `DecoderComesBack`: a decoder that failed is replaced or the engine told that none takes this stream |
| `Audio` | `AudioPipe` and its worklet: early frames, the graph's load, priming, the cap, the trim after half a second over, a decoder closed by a bad packet | `ClosedIsSilent`; `LatencyFalls`; `SoundComesBack` |
| `Mic` | a start's awaits, each with a stop or another start between | `MicLetsGo`: a microphone that runs is wanted and not overtaken |
| `Pads` | polls, snapshots with their refresh, transitions, a link that loses and reorders | `PadSettles`, for a host that takes snapshots |
| `Keyboard` | keys, buttons and fingers, over fields of the page, blur and the Meta key of macOS | `KeysLetGo`, `SlotsApart` |
| `Cursor` | the host's cursor worn as the page's, over modes, lock and streams | `OnePointer` |

Two configurations, one decoder error between frames and two planes let a rebuild be overtaken by
each of the others. The audio bounds keep the code's order, chunk <= prime < prime + slack < cap, at small
numbers. Two datagrams in flight and two lost let a snapshot be lost, and overtake. Two Meta keys,
because letting go of one keeps the other's keys; two fingers and one button.

Fairness: the audio thread runs and its clock passes, frames are polled, rebuilds end; a host takes
what arrived. Decoders, GPUs and prompts get none.

Seen while modelling, of which no property speaks:

- Meta released in a field of the page leaves what was pressed under it held until the window loses
  focus (`KeysLetGo` excepts it as `missed`); blur sends no release of a finger, `detach` none of a
  key: the stream ends with them, or the next blur lets go.
- A lost `GamepadRemove` is not sent again, and a page in the background polls no pads.
- `AudioPipe.open` sets Safari's session to "playback" also while a microphone records.
- `cursor.ts:56`: in capture mode before the lock, over a host that always draws the pointer, both
  pointers show; `OnePointer` leaves that out, as its comment says. `CursorState` datagrams are
  applied in the order they come (`session.rs:297`).

## 7. The page, its storage and the server's

`MCPage`, run `page`, and of `MCMedia` the parts `window`, `covers` and `reach`.

| Module | Translation | Shows |
|---|---|---|
| `App` | what waits on a host that gets ready (`resumeOnReady`, `launchOnReady`, `switchOnReady`), `render`, the clicks, `askProfile` with the gate it may lose and the seat it waits for. Every host is one this browser is paired with or pairs as it is asked to | `GateDialsItsOwn`: a gate dials its own host and never once left |
| `Shelf` | the library, the running title's poll, End game, the sheet of actions, each answered late | `ShelfShowsItsOwn` |
| `WhoPlays` | the kept pick read before, and written after, the box's list; two tabs | `PlaysAsChosen` |
| `Reach`, `WindowSize` | probes, wakes and the server's list; the debounced resize against a host that rebuilds | `WaitsEnd`; `StillIsFollowed` |
| `Tunnel` | slots, the queue, sessions dialled, dead and closed | `NothingLeaks` |
| `PagePass`, `Passes` | a renewal shows the pass held as it is sent, and extends the one held as it is answered; the server's passes with their file and restarts | `ShowsWhatWasProven`, `CoversWhatWasProven` |
| `Prefs` | only what differs from the default is kept, merged over the defaults of the next build | `DefaultsReach` |
| `Meter` | a bucket per address, swept when full | `SweepForgivesNobody` |
| `Console` | PIN, request and title that wait for App's screen; what the console is told in return | `NothingUnasked`, `StreamsEndHeard` |
| `Covers` | fetched, decoded and handed over at three paces, over changing shelves; the titles of a shelf are asked for in any order | `CoversInHand`, `CoversGoOver` |
| `WakeCard`, `Sweep`, `Field` | one wake's interval, answers and timers; what a console frame costs, over reloads; a TV's keyboard | `OneWakeTicks`, `SweepSaysWhatItDrew`, `FieldReachesConsole` |

Two hosts wherever one could be taken for another, two gates so that one is left while the next
waits, two tabs, three calls over two slots and three sessions, three passes
minted, two wakes, three sweeps over three loads. `MaxClicks` = 2 keeps `App` small beside the rest;
`app_resume` has three.

Fairness is stated in `media` alone (probes, wakes, timers and frames run; a host rebuilds what it
was asked to); everything in `page` is safety.

**`app_resume`** takes `app.ts:1045`, "Stream `entry`, or the desktop, from `origin`", and finds it
untrue: `resumeOnReady` and `launchOnReady` name no host. Ask a host for a stream, open Settings
while it connects, then Library: the other host, connected quietly, is asked to start the title.

Seen while modelling, of which no property speaks:

- `app.ts:1018-1040`: a window whose last change falls into the host's rebuild, or into `starting`,
  is not looked at again (`StillIsFollowed` excepts it as `mid`).
- `app.ts:865-919`: the answer of `openTools` goes to whichever sheet is open, so one host's
  actions can show in another's; `endGame` checks.
- `app.ts:1117-1133`: two tabs write the pick over each other; `profiles.ts:88-104`: a pick that is
  gone is cleared also where the box has one profile.
- `tunnel.ts`: an abort once the slot is taken does nothing: the stream is locked by its reader, so
  `cancel` rejects.
- A renewal of a pass has no timeout, and a dial waits on it (`engine.ts:1074`); two browsers' tabs
  may each be given a pass of their own.
- `console.ts`: a title that waits survives a connect that supersedes the one it was asked with;
  leaving while `starting`, as standby does, is a stream's end the console is not told; the timer
  of `console.ts:1064` takes down a newer wake's card; a library of the same length is not pushed
  again (743) and a cover that failed is not asked for before the next render; the answer of
  `refreshRunning` is pushed though the host has changed; a sweep leaves the minute's meter as it
  was, and the one at the start is not run if the console does not show at three seconds; with
  storage blocked a page that starts on the full interface prices it at every load
  (`console.ts:1129`); an emoji typed in a TV's field counts as two (`console.ts:556`), which
  `Field` leaves out.

## 8. Proofs

For every value of the constants that the named assumptions allow. No theorem assumes fairness
except where its specification has it, and none uses it. A run's property that is an invariant or a
step's is stated by a theorem, each of them; how far a hypothesis narrows it is said below.

**The engine** (`EngineProofs`, `EngineAsked`).

- `TypeCorrect`: `Spec => []TypeOK`. `TypeOK` is not inductive: the record of a dial or of a digest
  is typed only because each implies that a host is chosen. `Linked` says so: without an origin
  there is no plane, carrier or `Host`; every await belongs to an epoch that has begun.
- `TrustHolds`: `~Hasty` implies `Spec => TrustBeforeDial`. A dial may be made by a verb, a loaded
  key, a renewal, a timer, a failure or a restart. The invariant `Quiet`: while a connect has yet to
  clear its host, each of these is disarmed. `Begun` keeps awaits within their epoch, `LineIsOurs` a
  dial under way to the current host. One step per action, one for each way to dial.
- `FallbackHolds`: `Spec => []FallbackWhileOpening`, `Hasty` or not. It is inductive as it stands;
  `Guarded` says what a step may do to the carrier and its fallback together.
- `OneHostHolds`: `Spec => []OneHost`, `Hasty` or not. A redirect and a restart ask again from
  `streamed`, so `Asked` adds that `streamed` is the current host's while a session is offered or
  live, or the state is starting or streaming.
- `NothingIsClaimed`: `Spec => []NothingClaimed`, `Hasty` or not. What the page stores or shows
  comes answers and frames after the host said it, so `Heard` follows the claim back: a digest on
  its way to the store, a live session and a ceremony's verdict each are of a host that let this
  device in, and a Hello or a ceremony is out on a carrier to the current host, or the current host
  let it in before. A hasty page may leave a dial on its way to another host, so that rests on
  `Apart`: while one is, nothing is asked of a current host that did not let this device in, and no
  session is up. What is asked once its plane is known dials anew, and so ends the other dial.
- `StreamHolds`: `Spec => []StreamIsOurs`, `Hasty` or not, from `Asked` and `Heard`.
- `OfferHolds`: `Spec => []OfferLeavesOut`, `Hasty` or not. `Offers` ties the offer to the codecs
  refused while a stream starts, whether or not its Hello is out.
- `StreamingHolds`, `ErrorsHold`: `OneLine` implies `Spec => []StreamingIsLive` and
  `Spec => ErrorStops`. Any late answer may dial or end in an error, so the invariant (`Alone`) is
  that an engine has one thing under way: a connect, a load of a key, the asking of a host, a
  renewal, a dial or a session, of which at most one is out, and each goes with its states. `OneLine`,
  which is `~Hasty`, no seats, and no bridge where the display takes HDR, leaves out exactly the
  ways in which two are out at once that section 3 has; without it the properties are false.

**Lost frames** (`RecoveryProofs`). `RecoveryHolds` is the invariant, `RecoveryTyped`,
`DecoderNeverRewinds`, `LossesStayPending` and `BlameHolds` follow. Indices wrap, so nothing can be
said of their order; what is said is each one's age, its distance behind the newest index sent,
modulo the width. A frame in flight is at most half the width old, what the page awaits at most
`MaxGap + 1`, frames in flight are in the order of their ages, and what was passed over lies between
the ends of the pending range. It takes `RecoveryAssumption` alone, whose `MaxGap < (Width - 1) \div 2`
is what `index_gap` rests on. A pump's result is a recursive function over the frames it reads; it
is followed by counting them (`WFMin` of the library: a least count at which it would fail).

**Media** (`MediaProofs`, over `MCMedia`'s `Spec`). `MediaTyped` is all seven types. `MediaLetsGo`
is `[]NothingLeftOpen`: of the video pipe that planes made and planes awaited are apart; of the
sound that a sink plays only what it was given; of the microphone that of all the starts awaited
only the last may hold something (`StartsAreOld`), and nothing while its prompt is open. `CoversHold`
is `[]CoversInHand`, from how many more are started at a time (`Room`).

**The session's path** (`CarrierProofs`, `ServerProofs`).

- `RingImplementsQueue`: `RingFairSpec => IsAQueue`, the refinement of `RxQueue`, for every number
  of slots from two up. A *window* is what a run of slots holds; lemmas say what popping, storing
  into the claimed slot and resetting do to the window from `tail` to `head`, by the arithmetic of
  slots modulo their number. `RingShaped`, that both ends are slots and the buffer is one, is all
  the induction needs besides.
- `LiveHolds`: `RingSpec => LiveDropsNothing`, a property of steps: a live pump takes one at least, and
  what waits after it is short of `Slots - 1`.
- `LegSaysItsEndOnce`: `WsLegSpec => []EndSaidOnce`. A second word is excluded because a leg that
  holds its socket has said nothing (`HoldsOrSaid`); silence ends only what had answered because the
  count starts with a pong and runs behind the pings since the last (`Counted`).
- `PlacesHold`: `LanesSpec => []PlacesAreHeld`, for finite `Sessions`. A session has a pool exactly
  while it runs or drops (`Staged`), and no two that pair share an address (`OnePairsEach`), or
  one's end would free the address the other holds. Each action moves one session, and lemmas on
  cardinality follow it.
- `BridgeHolds`: `BridgeSpec => [](BridgeTypeOK /\ BridgeDelivers)`, for channels and streams of any
  length. What a pump read is in what was written or is queued, but for the one it still holds
  (`PumpsTell`); the end is queued once and after that (`EndsOnce`).
- `RatesHold`: `MeterSpec => []SweepForgivesNobody`. What an address took and what it has left
  (`Left`: a full bucket if the meter does not know it) never exceed its rate (`Rated`); a sweep
  forgets only those with all of it left, so it adds to nobody's.
- `WireTyped`: the types of all four, from their invariants.

**The page** (`ScreenProofs`, `PageProofs`, most over `MCPage`'s `Spec`). A step of `MCPage` is one of
one part (`PartsGoOn`), so each part has an invariant of its own and the theorems put them together.

- `AskedHolds`: `[]AsAsked`. Of the app: the gate that is `this.gate` is for the host that is ready,
  nobody left it, and past the list it has a stream to play (`GateIsOn`, `GateIsFor`), through every
  edge `render` looks at. Of the shelf: the poll is of the shelf's host. Of the console: settings
  cover a stream or one that starts again. Of who plays: whatever a tab read before it awaited, or
  the record has, was picked in some tab, and remembered only if that was asked.
- `EndsAreHeard`: `Spec => StreamsEndHeard`, a property of steps. While a stream is on the screen, or
  settings over it, the console follows one (`SawStream`); so what it is told when the screen
  changes is that the stream is over.
- `TvHolds`: `[]TvInOrder`. Of a sweep: the console is drawn as the step it measures, the rows so far
  are those of the steps so far, each drawn as it says, and what storage keeps of a tab, or the page
  was loaded with, is what that tab had (`SweepIs`, `TabIs`, `PlaceIs`). Of a field: there is a path
  of texts, one per key it has yet to take, from its own text to the input's (`Leads`); what the
  page sends for an edit, backspaces down to the longest common beginning and then the rest, is
  such a path.
- `KeptHolds`: `[]KeptAsGiven`. A renewal answered is of a pass that has its host (`RenewalFits`);
  every pass in the server's memory or its file lives no longer, and has no more hosts, than what
  was given (`AllGiven`); of what is stored, only what was picked can be sane.
- `SlotsNeverLeak`: `TunnelSpec => []NothingLeaks`, for finite `Fetches`: a call waits once in the
  queue, and what a release hands on is counted for the next (`WaitsOnce`).
- `PointerIsOne`: `CursorSpec => []OnePointer`: the last word under way is what the page sent last
  (`HostHears`), and what a frame wore holds until something it wore for changes (`Wears`).
- `InputHolds`: `KeyboardSpec => []InputLetsGo`, for finite `Fingers`: the pipe knows of each key it
  holds whose release may never come (`KnownUnderMeta`), and among one more slot than there are
  fingers one is free.
- `PageTyped`: the types of all thirteen, from their invariants.

Each invariant was checked by TLC before it was proved. Only model-checked: all liveness, which
with ENABLED is out of the prover's reach (`ConnectSettles`, `StartSettles`, `KnockSettles`,
`ServerLetsGo`, `WaitingIsTaken`, `DeadLegEnds`, `MediaComesBack`,
`PageCatchesUp`, `PictureReturns`), and what the hypotheses above leave out, as far as a run has it.

The proofs changed the models where these could not be reasoned about, or were wrong: arms of a
`CASE` that overlap say nothing certain, and became alternatives in their order (`Recovery`, `App`);
what a filter keeps of a sequence is stated by the order of its indices (`Passes`, `Covers`), as the
provers know no recursive operator; and `OfferLeavesOut` once let a stream that had lost every codec
offer anything.

## 9. Not modelled

- The bitrate driver (`abr.rs`) hands core's controller, outside `src/`, its numbers. The reorder
  window of `rust/audio.rs`, rumble's leases and the surround layouts are sequential and within one
  call each.
- Signing and the exchange within a ceremony are core's; the engine's model has their outcomes. Two
  key loads that both find an empty store each make a key (`pf-glue.ts:103-136`): the key store's
  transactions are not modelled.
- Rendering (screens, HUD, WebGPU), words, links, logs, parsing of addresses, certificates and
  tokens: no state of the protocol. A certificate or attestation check is an outcome.
- The console in wasm is a library outside the repository: `Console`, `Field` and `Covers` have
  what crosses to it.
- The server's set-up, its byte-forwarding proxy, the proof cache and `plane.rs`.

## 10. Running it

`tlc -workers 2 -config page.cfg MCPage` for a run; `tlapm ServerProofs.tla` for a proof.
`PROJECT.json` lists every run with its module and configuration and, for each property of a passing
run, a plausible bug (`mutants`: an operator in the module that replaces a definition of the code)
that the run then reports.
