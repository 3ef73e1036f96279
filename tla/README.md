# Verification of the glsplay host

`apps/host` turns a Windows VM with an NVIDIA GPU into a game-streaming host: it
duplicates the desktop, encodes it on the GPU, streams it with libwebrtc to one
browser, and injects the browser's keyboard, mouse and gamepads. This directory
holds TLA+ models of its core, the TLC runs that check them and the proofs TLAPS
checks. Paths below are relative to `src/apps/host/src/` unless they say more.

## 1. The system

### Components, their state and operations

| Component | State | Operations |
|---|---|---|
| `main.cpp` | `g_running` | start everything, wait for Ctrl+C, stop in a fixed order (199-205) |
| `SignalingClient` (net/signaling_client) | `running_`, WinHTTP handles, `send_mutex_`, backoff attempt | Start, Run (ConnectOnce, receive, backoff), Send from any thread, Stop |
| `PeerSession` (net/peer_session) | `peer_`, two data channels, `mutex_` | HandleSignalingMessage, CreateOffer, HandleAnswer, HandleRemoteCandidate, SendHello, SendControl, ClosePeer, libwebrtc's observers |
| `InputDispatcher` (input/input_dispatcher) | queue-latency estimate, counters | HandleMessage, ReleaseAll |
| `Win32InputInjector` (input/win32_input_injector) | `held_keys_`, `held_buttons_`, `mutex_`, ultra mode, believed pointer | Key, MouseButton, MouseMove*, SetUltraMode, ReleaseAll |
| `ViGEmGamepadSink` (input/vigem_gamepad_sink) | a target per pad | Connect, Submit, Disconnect, ReleaseAll |
| `DesktopCaptureSource` (capture/desktop_capture_source) | `running_`, `sinks_`, pacing clocks, cursor snapshot | Start, CaptureLoop, Broadcast, Add/RemoveSink, Stop |
| `DxgiDuplicator` (capture/dxgi_duplicator) | device, duplication, frame texture, `has_content_`, cursor | AcquireFrame, Initialise, Reinitialise |
| `NvencVideoEncoder`, `NvencSession`, factory (encode/) | driver session, ring of registered inputs and bitstreams, three copies of the rate | InitEncode, Encode, SetRates, Release; Create |
| `HostStatsReporter` (net/host_stats_reporter) | what of the cursor was sent last | a 16 ms loop: cursor, once a second statistics |
| `LoopbackAudioDevice`, `WasapiLoopback` (audio/) | `pending_`, `transport_`, `mutex_`, recording and running flags, an auto-reset event | Init, RegisterAudioCallback, Start/StopRecording, Terminate, Deliver, CaptureLoop |
| `CursorCompositor`, `WindowHerder`, `json.h`, `log`, `config` | none or a flag | see "not modelled" |

### How they interact

* The signaling thread (`ws`) reads the broker's messages and calls
  `PeerSession::HandleSignalingMessage` directly; the reconnect loop does not run
  meanwhile. libwebrtc's signaling thread (`rtc`) runs the operations of the peer
  connection and the session's observers, its network thread delivers input.
* `InputDispatcher::ReleaseAll` is called on three threads: libwebrtc's (a connection
  that fails), the signaling client's (the broker says that the client left) and
  main's (shutdown).
* The capture thread calls libwebrtc's sinks with `sink_mutex_` held; libwebrtc
  attaches and detaches them on its own thread. `PeerSession::Initialise` copies the
  capture device into the encoder factory once.
* The reporter calls `PeerSession::SendControl` from its own thread without a lock, and
  copies the cursor that the capture thread publishes.
* The audio capture thread calls libwebrtc's transport with `LoopbackAudioDevice::mutex_`
  held; libwebrtc registers, starts and stops the device on its worker thread.
* main joins reporter, signaling thread and capture thread, in that order around
  `ClosePeer`.

### What is hard, and what makes each part correct

* **Held input.** Tracking an input and injecting it are two steps; a release on
  another thread can fall between. Correct: whatever is down will be lifted.
* **Negotiation.** Offers are triggered by three messages in any order, across lost
  sockets, and every failure on the way is only logged. Correct: negotiation comes to rest
  unless the newest offer or its answer failed, no lock is waited for in a circle,
  nobody uses a channel that shutdown has dropped.
* **Reconnecting.** Blocking calls, backoff, a handle shared by threads. Correct: it
  tries until stopped and not in a tight loop, Stop returns, handles are not closed
  under a caller.
* **Capture.** Lock screens, mode changes and device loss at any time. Correct: it
  recovers, a texture is read through its own device, a detached sink is not called,
  a still desktop goes on streaming, Stop returns.
* **Pacing.** Two interacting clocks. Correct: no burst after a stall, and no gate that
  stays shut.
* **Pointer.** The clamp to the captured monitor starts from a position the host only
  believes in, while Windows applies moves late and others move the pointer too.
  Correct: the belief is true until something named disturbs it, and heals.
* **Cursor feed.** DXGI reports changes once and flaps; two threads and a channel hand on
  differences, some of which cannot be decoded. Correct: the differences add up, no
  strobing, the client catches up.
* **Audio.** Packets of any size become frames of 10 ms, two threads meet in one mutex,
  one event and one join. Correct: no sample is lost, libwebrtc is not called after a
  stop, the stop returns.
* **Encoder.** Any driver call may fail, those that clean up included. Correct: nothing
  leaks but what the driver would not take back, and the encoder's idea of its rate is the
  driver's.

`PROJECT.json` lists every hazard with its line and the properties that cover it.

## 2. Modules

| Module | Models | Checked by |
|---|---|---|
| `HeldInput` | dispatcher, injector's buttons and keys, pads | `HeldInput.cfg`, `HeldInputLatch.cfg`, `HeldInputProofs` |
| `LiftPromise` | abstract promise of `HeldInput`: no threads, locks or calls | refinement property `PromiseKept` |
| `Pointer` | both pointer moves, believed position, ultra mode | `Pointer.cfg`, `PointerProofs` |
| `PeerSession` | session, broker and browser around it, reporter, shutdown | `PeerSession.cfg`, `ClientLeaves.cfg`, `PeerSessionProofs` |
| `SignalingClient` | reconnect loop, senders, Stop | `SignalingClient.cfg`, `SignalingClientProofs` |
| `Capture` | capture thread, duplicator, sinks, Stop | `Capture.cfg`, `CaptureDevice.cfg`, `CaptureProofs` |
| `PacingGate` | arithmetic of `send_deadline_us` and `next_wake` | `PacingGate.cfg`, `CaptureProofs` |
| `CursorFeed` | the cursor from DXGI to the browser, over three threads | `CursorFeed.cfg`, `CursorFeedProofs` |
| `LoopbackAudio` | audio device and its capture thread | `LoopbackAudio.cfg`, `LoopbackAudioProofs` |
| `NvencEncoder` | encoder, session, driver objects, rates | `NvencEncoder.cfg`, `NvencEncoderProofs` |

Each `MC` module extends the module of its name and says why its bounds are what they
are. Every module begins with what is a step and what is external; "Mutant" definitions
stand next to the definition they are a wrong form of and are used by nothing.

### From state and actions to the code

**HeldInput.** `held` is `held_keys_` and `held_buttons_`, `pc`/`list` where a thread is
and what its next `SendInput` is about. `Track` is the critical section of `Key` and
`MouseButton`; `SendDown` and `SendUp` the `SendInput` after the unlock.
`ReleaseSnapshot`, `SendRelease`, `UltraOff`, `PadsOff` are the steps of
`InputDispatcher::ReleaseAll`. `desk` is what Windows sees; while a privileged window is
in front `SendInput` delivers any part of a call. Since the input channel loses and
reorders, any event may arrive at any time. `raced` and `refused` are histories of the
two accidents the bookkeeping does not repair.

**Pointer.** `pos`, `havePos`, `countdown` and `wasUltra` are the injector's fields;
`MoveOnDesktop` and `MoveInUltra` the two ways through `MouseMoveRelative`, which reads
the atomic `ultra_mode_` once and runs on one thread, hence one step. `trail` is
Windows' side: the positions the pointer has been sent to and not reached, its head what
`GetCursorPos` returns. Coordinates are vectors over `Axes`, so that the clamp is written
once. `doubt` and `calm` are histories: whether the belief was given a reason to be
wrong, and the desktop moves since.

**PeerSession.** `Dispatch`, `WsLocks`, `CreateOffer`, `ClosePeerAgain` are
`HandleSignalingMessage` with the lock taken per branch ("renegotiate" takes none);
`OfferReady` and `AnswerApplied` are libwebrtc's chain of operations with the host's
observers. An offer may fail to be made or written out (`OfferFails`), be sent although
`SetLocalDescription` failed (second half of `OfferGoesOut`); an answer may have no sdp
or one nobody can parse (`HandleAnswer`), or be refused by `SetRemoteDescription`. The
code only logs each of these. `givenUp` is a history: the last thing tried with the
newest offer, `local`, failed so. `HelloChecks`/`HelloSends` and
`ReporterChecks`/`ReporterSends` are the two looks `SendControl` takes at
`control_channel_`; `CloseInput` to `DropPeer` are the lines of `ClosePeer`, of which
calls into libwebrtc wait for its thread and the assignments do not. Locking a
`std::mutex` twice is undefined: the thread blocks, or the process ends.

**SignalingClient.** One location per WinHTTP call; `socket` distinguishes null, open
and closed-but-not-yet-null, since `Reset` closes and nulls in two steps. `refused` is a
history of the present handle, that register could not be sent on it, and goes when the
handle goes. Time is the 100 ms slice of the backoff. `attempt` is capped where the code
caps it.

**Capture.** The status `AcquireFrame` returns decides `loop`; `Reinitialise` is the
rebuild on the present device and, failing that, `Initialise` on a new one, each
possibly ending before `DuplicateOutput`, at it, or at the frame texture, with what it
leaves behind (`Duplicated`). A D3D11 device is a number and a texture is the device it
lives on. `SecureDesktop` and `ModeChange` are the accidents, `MaxFaults` bounds them.

**PacingGate.** `PassGate` is the gate with `Advance` for the deadline, `Wake` the sleep at
the end of an iteration, `Skip` the iteration without a texture; `mark` and `since` let
an observer count frames from any moment. The names say gate, so that `CaptureProofs` can
extend it beside `Capture`, whose loop it is a part of.

**CursorFeed.** `Frame` is `UpdateCursor` and the sticky snapshot of one iteration of
the capture loop, `Copies` the reporter's copy under the cursor's mutex, `Sends` the
rest of `emit_cursor` with what it notes as sent; between the two anything may happen. A
shape is a model value and the empty shape of a message means "as before". `told` is a
history: this client's channel took the shape that is noted. `Pixels` is
`DecodeCursorRgba`: it fails for the shapes in `Undecodable`, which go out as 0x0
without pixels and are noted like any other, and `size` is `last_w` and `last_h`, named
by the shape they are the size of, which then stay an older shape's. `WillDraw` says
what the browser will show once it has received what is on the wire.

**LoopbackAudio.** `Wakes` and `TimesOut` are the two ends of the wait, `GetBuffer` and
`Drained` the packet loop, `DeliverBegins`, `RecordedDataIsAvailable` and `DeliverEnds`
are `Deliver` around its calls into libwebrtc, made with the mutex held. `StopBegins`,
`Joined`, `Cleared` are `StopRecording` up to its join, after it, and behind the mutex.
Samples are numbered modulo `Wrap`, and a packet is its size.

**NvencEncoder.** `held` is what the driver may hold, `pointers` what the session has
non-null pointers to, `kept` the history of objects the driver refused to take back: the
code ignores the status of every call that gives something back and nulls the pointer
(`GiveBack`). A call of libwebrtc is one step since `mutex_` is held through it, but
`Encode` is taken apart at its driver calls: `MapsInput`, then `EncodeFails` or
`Encodes`, then `LockFails` or `Delivers`, each way out with an unmap of its own;
`frame` and `encoded` say how far it is. The driver may fail at every object it is asked
for. `settings`, `target` and `driver` are the rate in the encoder, in the session and
in the driver.

## 3. Runs

| Run | Bounds | Shows |
|---|---|---|
| `held_input` | 1 key, 1 button, 1 pad, 3 threads | `Accounted`, `SessionEndsClean`, `ShutdownLifts`, `PromiseKept` hold |
| `held_input_latch` | the same | **violation**: a press tracked before `ReleaseAll` and sent after it stays down |
| `peer_session` | 5 joins, leaves, renegotiations, drops | `ClosedOnceAlone`, `NullChannelOnlyInShutdown`, `NegotiationSettles`, `StopCompletes` hold |
| `client_leaves` | 3 events | **violation**: the client's leaving does not close the peer |
| `signaling_client` | 1 sender beside runner and main | `HandleFreedOnlyAfterFailedRegister`, `NoTightReconnect`, `StopReturns`, `TriesAgain` hold |
| `capture` | 2 sinks, 2 tolerated failures, 4 accidents, 4 device names | `BufferOnItsDevice`, `NoFrameAfterRemoveSink`, `DuplicationRecovers`, `FramesKeepComing`, `StopReturns` hold |
| `capture_device` | the same | **violation**: capture and encoder are on different devices |
| `pacing_gate` | interval 3, slack 1, 25 ticks | `FramesAreBooked`, `GateReopens`, `WakeBounded` hold |
| `nvenc_encoder` | 2 slots, 2 bitrates and frame rates and "none", 3 objects the driver keeps | `NothingLeaked`, `RatesAgree`, `FrameRatePositive` hold |
| `pointer` | two monitors, the captured one 3x2 pixels, deltas -2, 0, 1, a re-anchor every 3 moves, 1 pixel tolerated, 2 moves under way | `TracksPointer`, `DriftBounded` hold |
| `cursor_feed` | 2 shapes and an undecodable one, 2 positions, a grace of 1 frame, 3 changes, 2 clients | `ClientHasWhatWasNoted`, `NoStrobe`, `ClientCatchesUp` hold |
| `loopback_audio` | frames of 3 samples, packets of 1, 2 and 4, 3 of them buffered, samples modulo 8 | `NoCallAfterStop`, `SamplesInOrder`, `StopReturns` hold |

Why the bounds are enough. Keys, buttons and pads are treated one by one or as sets, so
one of each and the three kinds of callers meet every branch, and the proofs lift the
bound. Five events let a session be set up, dropped, set up again and renegotiated while
an answer to an older offer is under way. The backoff has its real bounds. Two tolerated
failures and four accidents reach every branch of the rebuild, including one that fails
half-way followed by another; three device names can be held at once and a fourth is
free. Twenty-five ticks hold a stall of several intervals and the frames after it; the
proofs lift that bound too. Two slots make the ring wrap, and three
kept objects can be a mapping, an input and the session at once; the proof lifts the
bound. A move of two pixels diverges
and one of one is tolerated; two moves lie between two re-anchors, and the desktop
continues on one side of the monitor and ends on the other. Three changes make a flap
with a new shape inside the grace, or an undecodable shape between two others;
a second client meets what was noted for the first.
Packets smaller and larger than a frame leave every rest a frame can have.

`DuplicationRecovers` has two parts. The second, `TextureRecovers`, is about a rebuild
that fails at the texture, and is conditional: it claims a repair for a desktop that
changes in every call from some time on. Without that condition it is false (section 4).

`CHECK_DEADLOCK FALSE` is set where the system ends (main's shutdown, an exhausted
clock) or, in `ClientLeaves` and `PeerSession`, where a thread may be lost. `HeldInput`
never stops in the model, because the desktop's foreground may always change.

### Fairness

Threads that are inside a call go on (weak fairness); a thread that waits for a mutex
that others take again and again gets it in the end (strong fairness, as Windows' locks
provide in practice). libwebrtc's chain of operations is run although its thread also
calls back into `SendHello`, any number of times (strong fairness of `OperationsChain`).
WinHTTP's connects and sends return, since they have timeouts; a
blocking receive is certain to return only after the close. `AcquireNextFrame` returns,
at the latest with its timeout, and the gate does not drop every frame for ever, which
is `GateReopens`. In `CursorFeed` frames go on being produced, which is
`FramesKeepComing`, the reporter ticks and an open channel delivers. In `LoopbackAudio`
the capture thread comes to the end of the packets again and again (strong fairness of
`Drained`): fetching packets is faster than the sound that fills them. The code needs
this, for the inner packet loop of `CaptureLoop` does not look at `running_`. Nobody owes
a user action: joins, leaves, drops, key events, secure desktops, cursor changes, audio
packets and Ctrl+C are never fair. `SignalingClient`'s `StopReturns` assumes that the
message handler returns.

### Composition

`StopReturns` of `SignalingClient` needs a handler that returns, and `PeerSession` shows
the exception: the client-left branch waits for its own mutex. After that the signaling
thread is lost, so main's `signaling.Stop` does not return. `NegotiationSettles` and
`StopCompletes` are therefore stated up to that accident (`ws = "relock"`), the former
also up to a failure with the newest offer (`givenUp`). In
`HeldInput`, the release on that thread comes before the accident and is complete.
The rate of frames is bounded twice, by the gate and by the sleep at the loop's end;
`FramesAreBooked` is about the gate alone. `HeldInput` and `Pointer` are both the
injector and share ultra mode, which each may find in any state at any step; they meet in
nothing else. `CursorFeed` takes from `Capture` that frames keep coming. What the
pointer moves do is seen again in `CursorFeed` as a change of the desktop's cursor, which
comes there from any source.

## 4. Findings

Each is a statement of a header that a run shows violated by the code: a latched key
(`held_input_latch`), the self-deadlock of a leaving client (`client_leaves`) and the
encoder left on an old device (`capture_device`). Two passing properties bound them:
`Accounted` shows that the race and a refused `SendInput` are the *only* ways to latch a
key, `BufferOnItsDevice` that the CPU path follows the device.

Met on the way and not stated as runs:

* After a failed register the next `ConnectOnce` frees and nulls the websocket handle
  outside `send_mutex_` (signaling_client.cpp:179) while another thread may be inside a
  send. `HandleFreedOnlyAfterFailedRegister` shows that this is the only way to it, and
  that it concerns that handle alone: the next one that registers is safe again.
* When the newest offer cannot be made or set, or its answer has no sdp
  (peer_session.cpp:408-409), cannot be parsed (326-329) or is refused (61-63), the code
  logs it and waits: the session may stay in have-local-offer with nobody to move until
  the next join, renegotiation or reconnect. `NegotiationSettles` exempts exactly this.
* A cursor shape `DecodeCursorRgba` cannot decode is sent as 0x0 without pixels and noted
  as sent (host_stats_reporter.cpp:192-196); the client keeps the picture it had, and later
  messages repeat the size of an older shape (198-199). The next shape that can be decoded
  puts both right, which `ClientHasWhatWasNoted` and `ClientCatchesUp` say.
* `NvencSession` ignores the status of every unmap, unregister and destroy
  (nvenc_session.cpp:354, 367, 386, 426-436, 454) and keeps no pointer, so what the driver
  refuses to take back is lost to the process. `NothingLeaked` shows that nothing else is.
* A first update that brings only a cursor sets `has_content_` (dxgi_duplicator.cpp:360)
  on a texture nothing was copied to, and it is broadcast; dxgi_duplicator.h:139-140 says
  that the flag means a real captured image.
* After `CreateDuplication` failed at the texture, timeouts and cursor updates between the
  failing frames reset `consecutive_failures`, and the rebuild that would help may never
  come. TLC finds the loop when the condition of `TextureRecovers` is dropped.
* The comment at win32_input_injector.cpp:144-147 re-anchors "every kReanchorEvery events,
  or whenever it has diverged". The code reads `GetCursorPos` only when the countdown has
  run out, and then adopts it if it has diverged: after an absolute move, up to
  `kReanchorEvery` moves are clamped from a wrong position. In a batch the read follows
  the `SendInput` of the move before directly, which the comment says it avoids.
* `emit_cursor` notes a shape as sent when no channel took it
  (host_stats_reporter.cpp:195-202): a client that joins later gets no shape until the cursor
  changes. `ClientHasWhatWasNoted` and `ClientCatchesUp` say so in their `told`.
* The limit on the audio backlog is tested after whole frames have been consumed and is
  never reached (`SamplesInOrder`).
* `src/docs/DEPLOY-GCP-L4.md:426` lets the backoff clear after 3 s of stable connection
  where the code asks for 5 s. `src/docs/BUILD-HOST.md:104` still describes the cursor
  blended into the frame.
* `HandleRemoteCandidate` ignores candidates in the nested form the host itself sends; a
  refused `Reconfigure` leaves a frame rate in the session that the encoder does not know.

## 5. Proofs

Every theorem holds for all values of the constants under the assumptions named in the
component's module: thread names differ and keys are not buttons (`HeldInput`), thread
names differ and `Nobody` is none of them (`SignalingClient`), a positive interval and a
natural slack (`PacingGate`), a monitor that lies on the desktop and a positive
re-anchoring period (`Pointer`), a frame and a packet that fit into `Wrap`
(`LoopbackAudio`), an empty shape that is no shape and
undecodable shapes that are (`CursorFeed`), default rates that are positive
(`NvencEncoder`), and numbers that are
natural. Each proof module has an inductive invariant `IInv`, a lemma that the initial
states satisfy it, lemmas that each step preserves it, and theorems that draw the
properties from it. Few of the properties below are inductive alone. Every invariant that
a run checks has a theorem, and so has every action property.

Liveness cannot be proved here, but a liveness property can fail in two ways: nobody is
able to move, or somebody able to never does. The theorems that are called the safety
half of a property exclude the first for every value of the constants; the second is the
fairness of section 3, and TLC's.

`HeldInputProofs`:

* `Typing`: `Spec => []TypeOK`.
* `EveryDownInputIsAccountedFor`: `Spec => []Accounted`. A press that is sent must find
  its input tracked or already counted as raced. The invariant is `TypeOK`,
  `UnderwayCovered` (the press under way is in `held` or `raced`) and `Accounted`. An
  input leaves `held` only into a thread's list, leaves a list only by being lifted or
  refused, and a press is taken out of `held` under way only into `raced`.
* `ShutdownEndsClean`: `Spec => []SessionEndsClean`. The invariant `ShutdownInv` follows
  main through its last `ReleaseAll`, with every other thread idle, as `CloseSession`
  requires.
* `ImplementsLiftPromise`: `Spec => PromiseKept`, step by step: `Track` owes or does
  nothing, `ReleaseSnapshot` excuses, `SendDown` appears, `SendUp` and `SendRelease`
  settle, the rest stutters; `owed` is `held` and what is pending, `excused` the two
  accidents.

`PointerProofs`: `Typing`, `BeliefIsTrue` (`TracksPointer`), `ErrorsAreCorrected`
(`DriftBounded`). Lemmas say what the clamp does, above all `ClampAddsNoError`: an
injected move takes over the error of the belief and never enlarges it, because the
desktop, where Windows stops the pointer, contains the monitor, where the belief is
clamped. `Budget` is the strengthening for the second theorem: after `calm` quiet moves
either the error is tolerable or the countdown will run out before `calm` reaches
`ReanchorEvery`.

`PeerSessionProofs`: `PeerIsClosedAlone` (`ClosedOnceAlone`) and
`NullChannelNeedsShutdown` (`NullChannelOnlyInShutdown`). The invariant says who owns the
mutex at each location (`Owner`), that a thread main has joined is at its end (`Joined`),
that libwebrtc has work only for a peer that is there (`PeerOutlivesWork`), and that who
has looked at `control_channel_` still finds it (`LookStillTrue`).

* `Typing` (`TypeOK`) bounds the offers the host makes, which takes counting. `Owed` adds
  up the offers made, those queued with libwebrtc, the one the handler is about to make,
  the messages in the socket that ask for one, and the one a lost socket will ask for at
  the next registration. The lemmas `OwedTo...` and `OwedBy...` say that a step only turns
  one of these into another or pays with an event, so `Budget` is inductive.
  `OffersAreAskedFor` is what follows: no reconnect multiplies offers.
* `NegotiationNeverStalls` is the safety half of `NegotiationSettles`. `Moving` lists what
  keeps a negotiation going with the newest offer, and `givenUp` is the exemption of
  section 4: a failure with an older offer or its answer leaves `Moving` true. `Ordered`
  says that offers reach the browser in the order of their numbers, so an older one never
  takes the place of the newest; an offer that was never sent because the socket was down is
  covered by the registration to come, and a message that was lost with the socket
  likewise. The message that says nobody is there (`NothingNew`) is the one that moves
  nothing, and with a client in the room another one is behind it.

`SignalingClientProofs`, for any number of sending threads:

* `Typing` (`TypeOK`), with the arithmetic of the backoff in `DelaysBounded`.
* `EstablishedHandleIsNotFreed` (`HandleFreedOnlyAfterFailedRegister`). `Occupied` says
  that who is inside a call holds `send_mutex_`, so the reset after the receive loop meets
  no caller; `SocketFollowsRunner` that a
  websocket on which register did not fail is there exactly between the upgrade and the
  end of the session, so the two resets without the mutex find none but a refused one. The
  property is about steps, a call that comes to be on a freed handle, since `refused` goes
  with the handle while the caller may still be inside. `FailureIsOfThisHandle` states
  that `refused` never outlives its handle and is never true of one a session runs on.
  `OneCallerAtATime` follows from `Occupied`.
* `ReconnectsArePaced` (the action property `NoTightReconnect`). `BackoffBooked` says that
  slices slept and slices left make at least half of the base delay, and that `attempt`
  is the number of failures in a row as far as the code counts.
* `JoinedReceiveEnds` is the safety half of `StopReturns`: a receive that main waits for
  has been begun before the flag fell, on the websocket that Stop found and closed.

`CaptureProofs`: `Typing`, `BufferPairsWithDevice` (`BufferOnItsDevice`),
`RemovedSinksAreSilent` (`NoFrameAfterRemoveSink`). The strengthening is `DeviceNoted`: a
texture lives on the duplicator's device, and that is the one the loop has noted, because
a rebuild the loop does not learn of leaves no texture. `Captured` carries it from
`AcquireFrame` to the end of `Broadcast`. `StillImageIsThere` is the safety half of
`FramesKeepComing`: `ImageReady` says that a captured image comes and goes with the
duplication, its texture and `has_content_`, so a timeout can always hand it on.

`CaptureProofs`, the gate: `GateTyping` (`GateTypeOK`), `EveryFrameIsBooked`,
`GateAlwaysReopens`, `LoopWakesUp` and `GateBoundsTheRate` (at most three frames more than
`(W + Slack) / Interval` in a window of length `W`). The inductive invariant `GateInv` is
the conjunction of them with `Clocks`: the window begins in the past, and no frame is
counted before the deadline is primed. `RateBounded` has a theorem and no run: on small
instances the sleep bounds the rate too, so a run would not tell a broken gate from a
working one.

`CursorFeedProofs`: `Typing`, `PointerDoesNotStrobe` (`NoStrobe`). `Grace` ties the
code's counter to the frames since the pointer was seen last.

* `DifferencesAddUp` (`ClientHasWhatWasNoted`). A message carries a shape only if it
  differs from the noted one, so what the client will draw depends on the last message
  that has one. `ShapesStay` excludes the dangerous difference: a shape once read is never
  given back, so no message means the empty shape where the browser reads "as before".
  `StartsBlank` settles clients that were told nothing, and `Sized` says whose size the
  reporter repeats. `CaughtUpClientDrawsTheNote` follows for an empty wire: the client
  draws the note in every field (`Seen`), or, when the noted shape cannot be decoded, its
  position and visibility with another shape's pixels.
* `RestIsRight` is the safety half of `ClientCatchesUp`: `Reported` adds that the capture
  thread's cursor is the desktop's but for what DXGI has yet to report, so when all four
  stages have handed on what they had the client draws the desktop's cursor, in shape and
  size unless that shape could not be read or cannot be decoded.

`LoopbackAudioProofs`: `Typing`, `StoppedMeansSilent` (`NoCallAfterStop`),
`NothingLostAtTheSeams` (`SamplesInOrder`). `Stages` says which flags hold where each
thread is; `InOrder` extends the claim about the rest into `Deliver`, where whole frames
are consumed one by one.

`NvencEncoderProofs`: `Typing`, `DriverObjectsBalance` (`NothingLeaked`),
`NotedRateIsTheDriversRate` (`RatesAgree`), `NoDivisionByZero` (`FrameRatePositive`).
`NothingLeaked` is inductive with the types once it says what is known at every point of
`Encode` and counts what the driver kept; `ShutdownGivesAllBack` is the lemma that a
session in any state it can be in is given back whole, `KeptGrows` that nothing kept is
forgotten. The strengthenings for the rates are `Owned`, that there is no session without
an encoder, and `TargetAgrees`, that until a refusal session and encoder have the same
rate.

Model-checked only: liveness (`ShutdownLifts`, `NegotiationSettles`, `StopCompletes`, the
three `StopReturns`, `TriesAgain`, `DuplicationRecovers`, `FramesKeepComing`,
`ClientCatchesUp`), which rests on fairness and ENABLED, and the three violations, which
are behaviours and not theorems.

## 6. Not modelled

* Record framing in `HandleMessage` and the figure `UpdateQueueLatency` prints: bytes of
  one message, and one number that steers nothing. The wheel and the mouse settings saved
  by the injector's constructor keep no state that a step depends on.
* In `Pointer`: the branch for a monitor without a size, which ends with the first
  successful start, and new bounds after a mode change.
* In `CursorFeed`: the hotspot, which goes with every message, and the statistics.
* In `LoopbackAudio`: conversion of samples, one for one, and loss of the audio device,
  after which the thread goes on waiting, as it does for a stalled endpoint.
* `CursorCompositor`: no longer reached by the program; pixels only.
* `WindowHerder`: one loop over foreign windows, with a Stop like the reporter's.
* `config.cpp`, `log`, `json.h`: read once, output only, stateless text. What a missing
  sdp leads to is modelled in `PeerSession`; candidates are not.
* Pixels, SDP and codec parameters, statistics: data no property speaks of. So the
  overwriting of the single frame texture while the encoder queue holds it is a hazard
  with no property, and so is the reporter's pointer to an encoder that libwebrtc may
  have destroyed, since the code of the host does not show when that happens.
* External: broker, browser, libwebrtc, WinHTTP, Windows, DXGI, WASAPI, NVENC and ViGEm,
  modelled from how the host uses them. Their calls may fail where the status decides what
  the host does next, and where it is ignored and something is left behind by that (the
  observers of offer and answer, the clean-up of the encoder). Failures of calls whose
  status is ignored and that leave no state the models carry are not distinguished.
* Virtual display driver, VM scripts, third-party code.

## 7. Plan

Done: every component with concurrency or state that outlives a call, each with its
module, run and proofs; a theorem for every invariant and action property of the runs, and
the safety halves of `NegotiationSettles`, `ClientCatchesUp`, `FramesKeepComing` and
`SignalingClient`'s `StopReturns`.

Next:

1. Safety halves of the other liveness properties, above all `DuplicationRecovers` and
   the audio device's `StopReturns`, and an abstract specification of the cursor feed (a
   register that is mirrored with delay) that `CursorFeed` refines.
2. Framing of a batch as a function, against a reference definition that cuts the bytes
   record by record.
3. `Pointer` with bounds that change under the moves.
4. `UpdateQueueLatency` with a client clock that restarts and wraps at 32 bits.

New questions get a run each; a run that a later one subsumes gives way to it.
