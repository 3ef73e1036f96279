------------------------------ MODULE Capture ------------------------------
(***************************************************************************)
(* The capture thread: DesktopCaptureSource's loop                         *)
(* (desktop_capture_source.cpp) and the DxgiDuplicator it drives           *)
(* (dxgi_duplicator.cpp), with the sinks libwebrtc attaches and detaches   *)
(* on its own thread, and main's Stop.                                     *)
(*                                                                         *)
(* DXGI is external: the desktop can become secure (lock screen, UAC),     *)
(* which ends the duplication and forbids a new one; a mode change ends it *)
(* too; a call can fail.  Those accidents are bounded by MaxFaults.  A     *)
(* frame brings a new image or only a cursor update, as the code expects.  *)
(*                                                                         *)
(* A D3D11 device is a number, 0 for none, and a texture is the device it  *)
(* lives on.  PeerSession::Initialise gives the first device to the NVENC  *)
(* encoder factory, which keeps it.                                        *)
(***************************************************************************)
EXTENDS Naturals

CONSTANTS
  Devices,       \* names for devices; a name is reused when no one holds it
  Sinks,         \* video sinks
  FailureLimit,  \* failures in a row that are tolerated (30 in the code)
  MaxFaults      \* bound: accidents of DXGI and the desktop

EncoderDevice == 1
NoDevice == 0

ASSUME DevicesAssumption ==
  /\ EncoderDevice \in Devices
  /\ Devices \subseteq Nat \ {NoDevice}
ASSUME BoundsAssumption == FailureLimit \in Nat /\ MaxFaults \in Nat

VARIABLES
  faults,      \* accidents left
  secure,      \* a secure desktop is in front (external)
  lost,        \* the duplication has lost access (external)
  device,      \* device_
  dup,         \* duplication_ # nullptr
  texture,     \* frame_texture_
  image,       \* a captured image has been copied into it
  hasContent,  \* has_content_
  loop,        \* where the capture thread is
  failures,    \* consecutive_failures
  frameDevice, \* the loop's copy of the device, for D3D11FrameBuffer
  captured,    \* captured.texture
  sinks,       \* sinks_
  todo,        \* sinks Broadcast has not called yet
  running,     \* running_
  main         \* where main's Stop is

desktopVars == <<faults, secure, lost>>
dupVars == <<device, dup, texture, image, hasContent>>
loopVars == <<loop, failures, frameDevice, captured>>
sinkVars == <<sinks, todo>>
vars == <<desktopVars, dupVars, loopVars, sinkVars, running, main>>

TypeOK ==
  /\ faults \in 0..MaxFaults
  /\ secure \in BOOLEAN /\ lost \in BOOLEAN
  /\ device \in Devices \cup {NoDevice}
  /\ dup \in BOOLEAN
  /\ texture \in Devices \cup {NoDevice}
  /\ image \in BOOLEAN /\ hasContent \in BOOLEAN
  /\ loop \in {"acquire", "lost", "failed", "frame", "broadcast", "exit"}
  /\ failures \in 0..FailureLimit
  /\ frameDevice \in Devices
  /\ captured \in Devices \cup {NoDevice}
  /\ sinks \subseteq Sinks /\ todo \subseteq Sinks
  /\ running \in BOOLEAN
  /\ main \in {"up", "join", "done"}

\* Start has succeeded.
Init ==
  /\ faults = MaxFaults /\ secure = FALSE /\ lost = FALSE
  /\ device = EncoderDevice /\ dup = TRUE
  /\ texture = EncoderDevice /\ image = FALSE /\ hasContent = FALSE
  /\ loop = "acquire" /\ failures = 0
  /\ frameDevice = EncoderDevice /\ captured = NoDevice
  /\ sinks = {} /\ todo = {}
  /\ running = TRUE /\ main = "up"

----------------------------------------------------------------------------
\* The desktop.

Accident == faults > 0 /\ faults' = faults - 1

SecureDesktop ==
  /\ Accident
  /\ secure' = ~secure
  /\ lost' = (lost \/ secure')
  /\ UNCHANGED <<dupVars, loopVars, sinkVars, running, main>>

ModeChange ==
  /\ Accident
  /\ lost' = TRUE
  /\ UNCHANGED <<secure, dupVars, loopVars, sinkVars, running, main>>

----------------------------------------------------------------------------
\* AcquireFrame, as the loop sees its status.

Acquiring == loop = "acquire" /\ running

\* kOk or kTimeout: the loop goes on with the texture, if there is one.
Handed(t) ==
  /\ captured' = t
  /\ failures' = 0
  /\ loop' = IF t = NoDevice THEN "acquire" ELSE "frame"
  /\ UNCHANGED frameDevice

Status(status) == loop' = status /\ UNCHANGED <<failures, frameDevice, captured>>

\* Mutant: a timeout hands out nothing.
TimedOutEmpty ==
  /\ Acquiring /\ dup /\ ~lost
  /\ Handed(NoDevice)
  /\ UNCHANGED <<desktopVars, dupVars, sinkVars, running, main>>

\* Nothing changed on screen: the previous image again, once there is one.
TimedOut ==
  /\ Acquiring /\ dup /\ ~lost
  /\ Handed(IF hasContent THEN texture ELSE NoDevice)
  /\ UNCHANGED <<desktopVars, dupVars, sinkVars, running, main>>

\* A new image, copied by CopyToStaging, which needs the texture.
ContentFrame ==
  /\ Acquiring /\ dup /\ ~lost
  /\ IF texture = NoDevice
     THEN Status("failed") /\ UNCHANGED <<image, hasContent>>
     ELSE Handed(texture) /\ image' = TRUE /\ hasContent' = TRUE
  /\ UNCHANGED <<desktopVars, device, dup, texture, sinkVars, running, main>>

\* Only the cursor moved.
CursorFrame ==
  /\ Acquiring /\ dup /\ ~lost
  /\ Handed(texture)
  /\ hasContent' = TRUE
  /\ UNCHANGED <<desktopVars, device, dup, texture, image, sinkVars, running,
                 main>>

\* Access lost, or DXGI and frame_acquired_ disagree (INVALID_CALL).
AccessLost ==
  /\ Acquiring /\ dup
  /\ IF lost THEN UNCHANGED faults ELSE Accident
  /\ Status("lost")
  /\ UNCHANGED <<secure, lost, dupVars, sinkVars, running, main>>

\* No duplication, or AcquireNextFrame or the copy failed.
AcquireFails ==
  /\ Acquiring
  /\ IF dup THEN Accident ELSE UNCHANGED faults
  /\ Status("failed")
  /\ UNCHANGED <<secure, lost, dupVars, sinkVars, running, main>>

----------------------------------------------------------------------------
\* Reinitialise.

\* How CreateDuplication can end, and the accidents that takes: before it comes
\* to DuplicateOutput, which is denied on a secure desktop, or at the frame
\* texture, which is created last.
Outcomes ==
  IF secure
  THEN {[end |-> "denied", cost |-> 0]}
  ELSE {[end |-> "ready", cost |-> 0], [end |-> "noOutput", cost |-> 1],
        [end |-> "denied", cost |-> 1], [end |-> "noTexture", cost |-> 1]}

Pay(cost) == cost <= faults /\ faults' = faults - cost

\* What is left on device d by tries at CreateDuplication, the last of them
\* ending so.  A duplication that a try without its texture leaves is released
\* only when the next one comes to DuplicateOutput.
Opened == {"ready", "noTexture"}

Duplicated(d, tries, last) ==
  /\ dup' = (last # "denied" /\ tries \cap Opened # {})
  /\ texture' = IF last = "ready" THEN d ELSE NoDevice
  /\ image' = FALSE
  /\ hasContent' = (tries \cap Opened = {} /\ hasContent)
  /\ lost' = (tries \cap Opened = {} /\ lost)

\* How the try on the present device fails, if there is one.
Setbacks ==
  IF device = NoDevice
  THEN {[end |-> "denied", cost |-> 0]}
  ELSE {o \in Outcomes : o.end # "ready"}

\* Initialise on a new device, after the try on the present one failed.
Initialise(first, recovered) ==
  \E d \in Devices \ {EncoderDevice, device, frameDevice}, o \in Outcomes :
    /\ recovered = (o.end = "ready")
    /\ Pay(first.cost + o.cost)
    /\ device' = d
    /\ Duplicated(d, {first.end, o.end}, o.end)

\* The duplication chain on the same device, and if that fails everything on
\* a new one; the device is gone when that cannot be made either.
Reinitialise(recovered) ==
  \/ /\ recovered
     /\ device # NoDevice
     /\ ~secure
     /\ Duplicated(device, {"ready"}, "ready")
     /\ UNCHANGED <<faults, device>>
  \/ \E first \in Setbacks :
       \/ /\ ~recovered
          /\ Pay(first.cost + 1)
          /\ device' = NoDevice
          /\ Duplicated(NoDevice, {first.end}, first.end)
       \/ Initialise(first, recovered)

\* Mutant: the loop keeps the device it started with.
RebuildKeepsDevice ==
  \E recovered \in BOOLEAN : Reinitialise(recovered) /\ UNCHANGED frameDevice

\* After kAccessLost, and after more than FailureLimit kFailed in a row; the
\* loop takes the new device only when the rebuild succeeded.
Rebuild ==
  \E recovered \in BOOLEAN :
    /\ Reinitialise(recovered)
    /\ frameDevice' = IF recovered THEN device' ELSE frameDevice

\* Mutant: the retry loop does not look at running_.
HandleLostUntilRecovered ==
  /\ loop = "lost"
  /\ Rebuild
  /\ loop' = IF lost' THEN "lost" ELSE "acquire"
  /\ UNCHANGED <<secure, failures, captured, sinkVars, running, main>>

HandleLost ==
  /\ loop = "lost"
  /\ Rebuild
  /\ loop' = "acquire"
  /\ UNCHANGED <<secure, failures, captured, sinkVars, running, main>>

\* Mutant: consecutive_failures is not reset by the rebuild.
HandleFailedCounts ==
  /\ loop = "failed"
  /\ failures' = failures + 1
  /\ IF failures < FailureLimit
     THEN UNCHANGED <<faults, lost, dupVars, frameDevice>>
     ELSE Rebuild
  /\ loop' = "acquire"
  /\ UNCHANGED <<secure, captured, sinkVars, running, main>>

\* Mutant: failures are logged, and nothing is rebuilt.
HandleFailedLogs ==
  /\ loop = "failed"
  /\ failures' = IF failures < FailureLimit THEN failures + 1 ELSE 0
  /\ loop' = "acquire"
  /\ UNCHANGED <<desktopVars, dupVars, frameDevice, captured, sinkVars,
                 running, main>>

HandleFailed ==
  /\ loop = "failed"
  /\ IF failures < FailureLimit
     THEN failures' = failures + 1 /\ UNCHANGED <<faults, lost, dupVars, frameDevice>>
     ELSE failures' = 0 /\ Rebuild
  /\ loop' = "acquire"
  /\ UNCHANGED <<secure, captured, sinkVars, running, main>>

----------------------------------------------------------------------------
\* A frame: the pacing gate drops it (module PacingGate) or Broadcast calls
\* every sink, holding sink_mutex_ (loop = "broadcast").

Dropped ==
  /\ loop = "frame"
  /\ loop' = "acquire"
  /\ UNCHANGED <<desktopVars, dupVars, failures, frameDevice, captured,
                 sinkVars, running, main>>

BroadcastBegins ==
  /\ loop = "frame"
  /\ loop' = "broadcast"
  /\ todo' = sinks
  /\ UNCHANGED <<desktopVars, dupVars, failures, frameDevice, captured, sinks,
                 running, main>>

OnFrame(s) ==
  /\ loop = "broadcast" /\ s \in todo
  /\ todo' = todo \ {s}
  /\ UNCHANGED <<desktopVars, dupVars, loopVars, sinks, running, main>>

BroadcastEnds ==
  /\ loop = "broadcast" /\ todo = {}
  /\ loop' = "acquire"
  /\ UNCHANGED <<desktopVars, dupVars, failures, frameDevice, captured,
                 sinkVars, running, main>>

AddOrUpdateSink(s) ==
  /\ loop # "broadcast"
  /\ sinks' = sinks \cup {s}
  /\ UNCHANGED <<desktopVars, dupVars, loopVars, todo, running, main>>

\* Mutant: sinks_ is changed without sink_mutex_.
RemoveSinkUnlocked(s) ==
  /\ sinks' = sinks \ {s}
  /\ UNCHANGED <<desktopVars, dupVars, loopVars, todo, running, main>>

RemoveSink(s) ==
  /\ loop # "broadcast"
  /\ sinks' = sinks \ {s}
  /\ UNCHANGED <<desktopVars, dupVars, loopVars, todo, running, main>>

----------------------------------------------------------------------------
\* Stop: the flag, the join, the duplicator.

StopBegins ==
  /\ main = "up"
  /\ main' = "join"
  /\ running' = FALSE
  /\ UNCHANGED <<desktopVars, dupVars, loopVars, sinkVars>>

LoopEnds ==
  /\ loop = "acquire" /\ ~running
  /\ loop' = "exit"
  /\ UNCHANGED <<desktopVars, dupVars, failures, frameDevice, captured,
                 sinkVars, running, main>>

StopEnds ==
  /\ main = "join" /\ loop = "exit"
  /\ main' = "done"
  /\ device' = NoDevice /\ dup' = FALSE /\ texture' = NoDevice
  /\ image' = FALSE /\ hasContent' = FALSE
  /\ UNCHANGED <<desktopVars, loopVars, sinkVars, running>>

----------------------------------------------------------------------------
Acquire ==
  TimedOut \/ ContentFrame \/ CursorFrame \/ AccessLost \/ AcquireFails
Emit ==
  Dropped \/ BroadcastBegins \/ BroadcastEnds \/ \E s \in Sinks : OnFrame(s)
Loop == Acquire \/ HandleLost \/ HandleFailed \/ Emit \/ LoopEnds

Next ==
  \/ Loop
  \/ StopBegins \/ StopEnds
  \/ SecureDesktop \/ ModeChange
  \/ \E s \in Sinks : AddOrUpdateSink(s) \/ RemoveSink(s)

Spec == Init /\ [][Next]_vars

\* AcquireNextFrame returns, at the latest with a timeout, and the thread goes
\* on; so does main's Stop.  The gate does not drop every frame for ever
\* (PacingGate).  The desktop owes no frame, and libwebrtc nothing.
Returns ==
  \/ TimedOut
  \/ lost /\ AccessLost
  \/ ~dup /\ AcquireFails
  \/ HandleLost \/ HandleFailed \/ Emit \/ LoopEnds

Fairness ==
  /\ WF_vars(Returns)
  /\ SF_vars(BroadcastBegins)
  /\ WF_vars(StopEnds)

FairSpec == Spec /\ Fairness
----------------------------------------------------------------------------
(***************************************************************************)
(* The buffer handed to libwebrtc pairs the texture with the device it     *)
(* lives on (ToI420 reads it back through that device), whatever rebuilds  *)
(* came before: the loop's copy of the device is never behind.             *)
(***************************************************************************)
BufferOnItsDevice ==
  loop \in {"frame", "broadcast"} => captured = frameDevice /\ captured = device

(***************************************************************************)
(* After RemoveSink has returned the sink is not called again, although    *)
(* frames are being broadcast on another thread.                           *)
(***************************************************************************)
NoFrameAfterRemoveSink == loop = "broadcast" => todo \subseteq sinks

(***************************************************************************)
(* Losing the duplication is not fatal: on a desktop that can be           *)
(* duplicated the thread gets one again, also after a rebuild that failed. *)
(* A rebuild that failed at the texture is harder: the duplication is      *)
(* there, and every timeout or cursor update resets consecutive_failures.  *)
(* It is repaired if from some time on the desktop changes in every call.  *)
(***************************************************************************)
KeepsChanging ==
  []<><<ContentFrame>>_vars /\ <>[][~TimedOut /\ ~CursorFrame]_vars

TextureRecovers ==
  KeepsChanging =>
    (texture = NoDevice ~> texture # NoDevice \/ secure \/ ~running)

DuplicationRecovers ==
  /\ ~dup \/ lost ~> (dup /\ ~lost) \/ secure \/ ~running
  /\ TextureRecovers

(***************************************************************************)
(* A static desktop still produces frames: once an image is captured the   *)
(* sinks get a frame again and again until the duplication is lost.        *)
(***************************************************************************)
FramesKeepComing == image ~> loop = "broadcast" \/ lost \/ ~image \/ ~running

(***************************************************************************)
(* Stop returns, also from the retry loop of a lost duplication.           *)
(***************************************************************************)
StopReturns == ~running ~> main = "done"

(***************************************************************************)
(* What nvenc_video_encoder.h says: the encoder's D3D11 device must be the *)
(* one the capture source produces textures on.                            *)
(***************************************************************************)
EncoderSharesDevice == loop = "broadcast" => captured = EncoderDevice
============================================================================
