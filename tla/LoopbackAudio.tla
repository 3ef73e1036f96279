--------------------------- MODULE LoopbackAudio ---------------------------
(***************************************************************************)
(* Audio: LoopbackAudioDevice (loopback_audio_device.cpp), which libwebrtc *)
(* drives from its worker thread, and WasapiLoopback                       *)
(* (wasapi_loopback.cpp), whose capture thread takes packets of any size   *)
(* from the endpoint and cuts them into the frames of 10 ms that           *)
(* libwebrtc's AudioTransport accepts.                                     *)
(*                                                                         *)
(* The endpoint is external: packets arrive while the client is started,   *)
(* each setting the auto-reset event, and are lost when its buffer is      *)
(* full.  Stopping the client does not empty that buffer.  Any call of     *)
(* WASAPI may fail.  Samples are counted modulo Wrap, so that recordings   *)
(* have no end.                                                            *)
(***************************************************************************)
EXTENDS Naturals, Sequences

CONSTANTS
  FrameSize,    \* samples of 10 ms
  PacketSizes,  \* samples in a packet, at least one (bounded input)
  Capacity,     \* packets the endpoint holds (external)
  Wrap          \* bound: sample numbers

ASSUME AudioAssumption ==
  /\ FrameSize \in Nat \ {0} /\ Capacity \in Nat
  /\ PacketSizes \subseteq Nat \ {0}
  /\ Wrap \in Nat \ {0}
  /\ FrameSize < Wrap
  /\ \A size \in PacketSizes : FrameSize + size < Wrap

VARIABLES
  worker,       \* where libwebrtc's worker thread is in the device
  leaving,      \* StopRecording was called by Terminate
  initialised,  \* initialised_
  ready,        \* loopback_ready_, and loopback_ # nullptr
  recording,    \* recording_
  transport,    \* transport_ # nullptr
  pending,      \* pending_
  consumed,     \* the local of Deliver
  locked,       \* mutex_ is held by Deliver
  running,      \* WasapiLoopback::running_
  loop,         \* the capture thread, "none" when there is none
  event,        \* event_ is set
  started,      \* the audio client is started (external)
  packets,      \* sizes of the packets in the endpoint (external)
  accepted,     \* history: number of the next sample pending_ gets
  emitted       \* history: number of the next sample libwebrtc should get

workerVars == <<worker, leaving, initialised, ready, recording>>
deliverVars == <<pending, consumed, locked, accepted, emitted>>
endpointVars == <<started, packets>>
vars == <<workerVars, transport, deliverVars, running, loop, event, endpointVars>>

Samples == 0..Wrap - 1
After(n, k) == IF n + k < Wrap THEN n + k ELSE n + k - Wrap
Consecutive(from, k) == [i \in 1..k |-> After(from, i - 1)]

TypeOK ==
  /\ worker \in {"idle", "join", "clear"}
  /\ {leaving, initialised, ready, recording, transport} \subseteq BOOLEAN
  /\ pending \in Seq(Samples)
  /\ consumed \in 0..Len(pending)
  /\ {locked, running, event, started} \subseteq BOOLEAN
  /\ loop \in {"none", "waiting", "draining", "locking", "emitting"}
  /\ packets \in Seq(PacketSizes) /\ Len(packets) <= Capacity
  /\ accepted \in Samples /\ emitted \in Samples

Init ==
  /\ worker = "idle" /\ leaving = FALSE
  /\ initialised = FALSE /\ ready = FALSE /\ recording = FALSE
  /\ transport = FALSE
  /\ pending = << >> /\ consumed = 0 /\ locked = FALSE
  /\ running = FALSE /\ loop = "none" /\ event = FALSE
  /\ started = FALSE /\ packets = << >>
  /\ accepted = 0 /\ emitted = 0

----------------------------------------------------------------------------
\* libwebrtc's calls, on the worker thread.  A transport is given and
\* taken back at any time.

\* Init: an endpoint that cannot be opened is not fatal; a new one is empty.
InitDevice ==
  /\ worker = "idle" /\ ~initialised
  /\ initialised' = TRUE
  /\ ready' \in BOOLEAN
  /\ packets' = << >> /\ event' = FALSE
  /\ UNCHANGED <<worker, leaving, recording, transport, deliverVars, running,
                 loop, started>>

\* Mutant: transport_ is changed without mutex_.
RegisterUnlocked(given) ==
  /\ worker = "idle"
  /\ transport' = given
  /\ UNCHANGED <<workerVars, deliverVars, running, loop, event, endpointVars>>

RegisterAudioCallback(given) ==
  /\ worker = "idle" /\ ~locked
  /\ transport' = given
  /\ UNCHANGED <<workerVars, deliverVars, running, loop, event, endpointVars>>

\* StartRecording and WasapiLoopback::Start; IAudioClient::Start may fail.
StartRecording ==
  /\ worker = "idle" /\ ready /\ ~recording
  /\ \/ UNCHANGED <<recording, running, started, loop>>
     \/ recording' = TRUE /\ running' = TRUE /\ started' = TRUE /\ loop' = "waiting"
  /\ UNCHANGED <<worker, leaving, initialised, ready, transport, deliverVars,
                 event, packets>>

\* StopRecording, on its own or in Terminate: the flags, the event that wakes
\* the capture thread ...
StopBegins(terminate) ==
  /\ worker = "idle" /\ recording
  /\ worker' = "join" /\ leaving' = terminate
  /\ recording' = FALSE /\ running' = FALSE /\ event' = TRUE
  /\ UNCHANGED <<initialised, ready, transport, deliverVars, loop, endpointVars>>

\* ... the join, and the client's Stop ...
Joined ==
  /\ worker = "join" /\ loop = "none"
  /\ worker' = "clear"
  /\ started' = FALSE
  /\ UNCHANGED <<leaving, initialised, ready, recording, transport, deliverVars,
                 running, loop, event, packets>>

\* ... and what is left of a frame is dropped, under mutex_.
Cleared ==
  /\ worker = "clear" /\ ~locked
  /\ pending' = << >> /\ emitted' = accepted
  /\ worker' = "idle" /\ leaving' = FALSE
  /\ IF leaving THEN initialised' = FALSE /\ ready' = FALSE
                ELSE UNCHANGED <<initialised, ready>>
  /\ UNCHANGED <<recording, transport, consumed, locked, accepted, running, loop,
                 event, endpointVars>>

\* Terminate of a device that does not record.
Terminate ==
  /\ worker = "idle" /\ initialised /\ ~recording
  /\ initialised' = FALSE /\ ready' = FALSE
  /\ UNCHANGED <<worker, leaving, recording, transport, deliverVars, running,
                 loop, event, endpointVars>>

----------------------------------------------------------------------------
\* The endpoint.
PacketArrives(size) ==
  /\ started
  /\ packets' = IF Len(packets) < Capacity THEN Append(packets, size) ELSE packets
  /\ event' = TRUE
  /\ UNCHANGED <<workerVars, transport, deliverVars, running, loop, started>>

----------------------------------------------------------------------------
\* WasapiLoopback::CaptureLoop.

\* Mutant: the capture thread looks at running_ only when the wait times out.
WakesUnaware ==
  /\ loop = "waiting" /\ event
  /\ event' = FALSE
  /\ loop' = "draining"
  /\ UNCHANGED <<workerVars, transport, deliverVars, running, endpointVars>>

\* WaitForSingleObject returns for the event ...
Wakes ==
  /\ loop = "waiting" /\ event
  /\ event' = FALSE
  /\ loop' = IF running THEN "draining" ELSE "none"
  /\ UNCHANGED <<workerVars, transport, deliverVars, running, endpointVars>>

\* ... or after 100 ms, when the loop looks at running_ only.
TimesOut ==
  /\ loop = "waiting" /\ ~running
  /\ loop' = "none"
  /\ UNCHANGED <<workerVars, transport, deliverVars, running, event, endpointVars>>

GetBuffer ==
  /\ loop = "draining" /\ packets # << >>
  /\ loop' = "locking"
  /\ UNCHANGED <<workerVars, transport, deliverVars, running, event, endpointVars>>

\* No packet is left, or GetNextPacketSize or GetBuffer failed.
Drained ==
  /\ loop = "draining"
  /\ loop' = "waiting"
  /\ UNCHANGED <<workerVars, transport, deliverVars, running, event, endpointVars>>

----------------------------------------------------------------------------
\* Deliver, called with the packet by ConvertAndEmit, which makes a sample of
\* every one the packet has, silent or not.

\* Under mutex_: the packet is appended, or dropped when no one listens.
DeliverBegins ==
  /\ loop = "locking" /\ ~locked
  /\ IF transport
     THEN /\ locked' = TRUE
          /\ pending' = pending \o Consecutive(accepted, Head(packets))
          /\ accepted' = After(accepted, Head(packets))
          /\ loop' = "emitting"
          /\ UNCHANGED packets
     ELSE /\ loop' = "draining"
          /\ packets' = Tail(packets)
          /\ UNCHANGED <<locked, pending, accepted>>
  /\ UNCHANGED <<workerVars, transport, consumed, emitted, running, event, started>>

\* Mutant: the last frame need not be whole.
FrameBegun == Len(pending) > consumed

FrameReady == Len(pending) - consumed >= FrameSize

\* A whole frame is handed to libwebrtc, mutex_ held.
RecordedDataIsAvailable ==
  /\ loop = "emitting" /\ FrameReady
  /\ consumed' = consumed + FrameSize
  /\ emitted' = After(emitted, FrameSize)
  /\ UNCHANGED <<workerVars, transport, pending, locked, accepted, running, loop,
                 event, endpointVars>>

\* Mutant: what is left of a packet is thrown away with the frames.
RestCleared == << >>

\* The frames are erased; a backlog of more than ten frames is dropped.
Rest ==
  LET left == SubSeq(pending, consumed + 1, Len(pending))
  IN IF Len(left) > 10 * FrameSize THEN << >> ELSE left

DeliverEnds ==
  /\ loop = "emitting" /\ ~FrameReady
  /\ pending' = Rest /\ consumed' = 0
  /\ locked' = FALSE
  /\ loop' = "draining"
  /\ packets' = Tail(packets)
  /\ UNCHANGED <<workerVars, transport, accepted, emitted, running, event, started>>

----------------------------------------------------------------------------
Capturing ==
  \/ Wakes \/ TimesOut \/ GetBuffer \/ Drained
  \/ DeliverBegins \/ RecordedDataIsAvailable \/ DeliverEnds

Next ==
  \/ InitDevice
  \/ \E given \in BOOLEAN : RegisterAudioCallback(given)
  \/ StartRecording
  \/ \E terminate \in BOOLEAN : StopBegins(terminate)
  \/ Joined \/ Cleared \/ Terminate
  \/ \E size \in PacketSizes : PacketArrives(size)
  \/ Capturing

Spec == Init /\ [][Next]_vars

\* Both threads go on inside their calls.  The capture thread gets to the end
\* of the packets again and again: taking one is faster than the sound that
\* fills it.  libwebrtc owes no call and the endpoint no packet.
Fairness ==
  /\ WF_vars(Capturing)
  /\ SF_vars(Drained)
  /\ WF_vars(Joined) /\ WF_vars(Cleared)

FairSpec == Spec /\ Fairness
----------------------------------------------------------------------------
(***************************************************************************)
(* libwebrtc's transport is called only while it is registered and a       *)
(* recording is on or being stopped: once RegisterAudioCallback(nullptr)   *)
(* or StopRecording has returned, the capture thread does not call into    *)
(* what libwebrtc may have destroyed.                                      *)
(***************************************************************************)
NoCallAfterStop ==
  loop = "emitting" => transport /\ ready /\ (recording \/ worker = "join")

(***************************************************************************)
(* No sample of a recording is lost, doubled or out of order between the   *)
(* packets and the frames, whatever the packets' sizes: what is pending is *)
(* what comes after the last frame, and less than a frame waits for the    *)
(* next packet, so the limit on the backlog is never reached.              *)
(***************************************************************************)
SamplesInOrder ==
  ~locked =>
    /\ Len(pending) < FrameSize
    /\ pending = Consecutive(emitted, Len(pending))
    /\ After(emitted, Len(pending)) = accepted

(***************************************************************************)
(* StopRecording returns, also in the middle of a delivery, when the       *)
(* endpoint stalls, and when its event was used up by another wake-up.     *)
(***************************************************************************)
StopReturns == worker # "idle" ~> worker = "idle"
============================================================================
