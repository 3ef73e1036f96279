---------------------------- MODULE CaptureProofs ----------------------------
(***************************************************************************)
(* Proofs about the capture thread, for every set of sinks and devices,    *)
(* every number of tolerated failures and of accidents, and about its      *)
(* pacing gate, for every interval and slack.                              *)
(***************************************************************************)
EXTENDS Capture, PacingGate, TLAPS

(***************************************************************************)
(* A texture lives on the duplicator's device, which is then the one the   *)
(* loop has noted: a rebuild that leaves a texture is one the loop learns  *)
(* of.                                                                     *)
(***************************************************************************)
DeviceNoted ==
  texture # NoDevice => texture = device /\ texture = frameDevice

(***************************************************************************)
(* Between AcquireFrame and the end of Broadcast the duplicator is left    *)
(* alone, so what was captured is its texture.                             *)
(***************************************************************************)
Captured ==
  loop \in {"frame", "broadcast"} => captured # NoDevice /\ captured = texture

IInv == TypeOK /\ DeviceNoted /\ Captured /\ NoFrameAfterRemoveSink

----------------------------------------------------------------------------
(***************************************************************************)
(* Start leaves one device, its texture, and no sinks.                     *)
(***************************************************************************)
LEMMA InitEstablishes == Init => IInv
<1> SUFFICES ASSUME Init PROVE IInv
  OBVIOUS
<1>1. TypeOK
  <2>1. MaxFaults \in 0..MaxFaults /\ 0 \in 0..FailureLimit
    BY BoundsAssumption
  <2>2. {} \subseteq Sinks
    OBVIOUS
  <2> QED
    BY <2>1, <2>2, DevicesAssumption DEF Init, TypeOK
<1>2. DeviceNoted /\ Captured /\ NoFrameAfterRemoveSink
  BY DEF Init, DeviceNoted, Captured, NoFrameAfterRemoveSink
<1> QED
  BY <1>1, <1>2 DEF IInv

(***************************************************************************)
(* What a try at CreateDuplication costs and how it ends: a setback never  *)
(* leaves a texture.                                                       *)
(***************************************************************************)
LEMMA OutcomesEnd ==
  /\ \A o \in Outcomes : o.cost \in {0, 1}
  /\ \A o \in Setbacks : o.cost \in {0, 1} /\ o.end # "ready"
BY DEF Outcomes, Setbacks

(***************************************************************************)
(* A rebuild, in whatever way it ends, pays for its accidents, leaves a    *)
(* texture only on a device the loop then notes, and marks no more than    *)
(* what is there as content.                                               *)
(***************************************************************************)
LEMMA RebuildKeepsPairing ==
  ASSUME TypeOK, Rebuild
  PROVE  /\ faults' \in 0..MaxFaults
         /\ device' \in Devices \cup {NoDevice}
         /\ texture' \in Devices \cup {NoDevice}
         /\ dup' \in BOOLEAN /\ image' \in BOOLEAN /\ hasContent' \in BOOLEAN
         /\ lost' \in BOOLEAN
         /\ frameDevice' \in Devices
         /\ DeviceNoted'
<1>1. PICK recovered \in BOOLEAN :
        /\ Reinitialise(recovered)
        /\ frameDevice' = IF recovered THEN device' ELSE frameDevice
  BY DEF Rebuild
<1>2. /\ faults \in 0..MaxFaults /\ MaxFaults \in Nat
      /\ hasContent \in BOOLEAN /\ lost \in BOOLEAN
      /\ device \in Devices \cup {NoDevice} /\ frameDevice \in Devices
      /\ NoDevice \notin Devices
  BY DevicesAssumption, BoundsAssumption DEF TypeOK
<1>3. ASSUME NEW d, NEW tries, NEW last, Duplicated(d, tries, last)
      PROVE  /\ dup' \in BOOLEAN /\ image' \in BOOLEAN /\ hasContent' \in BOOLEAN
             /\ lost' \in BOOLEAN
             /\ texture' = IF last = "ready" THEN d ELSE NoDevice
  BY <1>2, <1>3 DEF Duplicated
<1>4. CASE /\ recovered
           /\ device # NoDevice
           /\ Duplicated(device, {"ready"}, "ready")
           /\ UNCHANGED <<faults, device>>
  <2>1. texture' = device
    BY <1>3, <1>4
  <2> QED
    BY <1>1, <1>2, <1>3, <1>4, <2>1 DEF DeviceNoted
<1>5. ASSUME NEW first \in Setbacks, ~recovered, Pay(first.cost + 1),
             device' = NoDevice, Duplicated(NoDevice, {first.end}, first.end)
      PROVE  /\ faults' \in 0..MaxFaults /\ texture' = NoDevice
             /\ frameDevice' = frameDevice
  <2>1. first.cost + 1 \in Nat
    BY OutcomesEnd
  <2> QED
    BY <1>1, <1>2, <1>3, <1>5, <2>1 DEF Pay
<1>6. ASSUME NEW first \in Setbacks, Initialise(first, recovered)
      PROVE  /\ faults' \in 0..MaxFaults
             /\ device' \in Devices
             /\ texture' = IF recovered THEN device' ELSE NoDevice
             /\ dup' \in BOOLEAN /\ image' \in BOOLEAN /\ hasContent' \in BOOLEAN
             /\ lost' \in BOOLEAN
  <2>1. PICK d \in Devices \ {EncoderDevice, device, frameDevice}, o \in Outcomes :
          /\ recovered = (o.end = "ready")
          /\ Pay(first.cost + o.cost)
          /\ device' = d
          /\ Duplicated(d, {first.end, o.end}, o.end)
    BY <1>6 DEF Initialise
  <2>2. first.cost + o.cost \in Nat
    BY OutcomesEnd
  <2>3. faults' \in 0..MaxFaults
    BY <1>2, <2>1, <2>2 DEF Pay
  <2>4. texture' = IF recovered THEN device' ELSE NoDevice
    BY <1>3, <2>1
  <2> QED
    BY <1>3, <2>1, <2>3, <2>4
<1>7. CASE \E first \in Setbacks :
             /\ ~recovered /\ Pay(first.cost + 1) /\ device' = NoDevice
             /\ Duplicated(NoDevice, {first.end}, first.end)
  BY <1>2, <1>3, <1>5, <1>7 DEF DeviceNoted
<1>8. CASE \E first \in Setbacks : Initialise(first, recovered)
  BY <1>1, <1>2, <1>6, <1>8 DEF DeviceNoted
<1> QED
  BY <1>1, <1>4, <1>7, <1>8, Zenon DEF Reinitialise

(***************************************************************************)
(* The two branches that rebuild keep the invariant; they are left with no *)
(* frame in hand.                                                          *)
(***************************************************************************)
LEMMA RebuildsPreserve == ASSUME IInv, HandleLost \/ HandleFailed PROVE IInv'
<1>1. TypeOK
  BY DEF IInv
<1>2. /\ loop' = "acquire"
      /\ UNCHANGED <<secure, captured, sinks, todo, running, main>>
  BY DEF HandleLost, HandleFailed, sinkVars
<1>3. failures' \in 0..FailureLimit
  BY <1>1, BoundsAssumption DEF TypeOK, HandleLost, HandleFailed
<1>4. CASE Rebuild
  BY <1>1, <1>2, <1>3, <1>4, RebuildKeepsPairing
     DEF IInv, TypeOK, Captured, NoFrameAfterRemoveSink
<1>5. CASE UNCHANGED <<faults, lost, dupVars, frameDevice>>
  BY <1>2, <1>3, <1>5 DEF dupVars, IInv, TypeOK, DeviceNoted, Captured,
                          NoFrameAfterRemoveSink
<1> QED
  BY <1>4, <1>5 DEF HandleLost, HandleFailed

(***************************************************************************)
(* AcquireFrame keeps the invariant: it hands on its own texture or none.  *)
(***************************************************************************)
LEMMA AcquirePreserves == ASSUME IInv, Acquire PROVE IInv'
<1> USE BoundsAssumption, DevicesAssumption
    DEF IInv, TypeOK, DeviceNoted, Captured, NoFrameAfterRemoveSink
<1>1. CASE TimedOut
  BY <1>1 DEF TimedOut, Acquiring, Handed, desktopVars, dupVars, sinkVars
<1>2. CASE ContentFrame
  <2>1. CASE texture = NoDevice
    BY <1>2, <2>1 DEF ContentFrame, Acquiring, Status, desktopVars, sinkVars
  <2>2. CASE texture # NoDevice
    BY <1>2, <2>2 DEF ContentFrame, Acquiring, Handed, desktopVars, sinkVars
  <2> QED
    BY <2>1, <2>2
<1>3. CASE CursorFrame
  BY <1>3 DEF CursorFrame, Acquiring, Handed, desktopVars, sinkVars
<1>4. CASE AccessLost
  BY <1>4 DEF AccessLost, Acquiring, Accident, Status, dupVars, sinkVars
<1>5. CASE AcquireFails
  BY <1>5 DEF AcquireFails, Acquiring, Accident, Status, dupVars, sinkVars
<1> QED
  BY <1>1, <1>2, <1>3, <1>4, <1>5 DEF Acquire

(***************************************************************************)
(* Broadcasting and the sinks' comings and goings keep the invariant: the  *)
(* sinks cannot change while they are being called.                        *)
(***************************************************************************)
LEMMA SinksPreserve ==
  ASSUME IInv,
         Emit \/ \E s \in Sinks : AddOrUpdateSink(s) \/ RemoveSink(s)
  PROVE  IInv'
<1> USE DEF IInv, TypeOK, DeviceNoted, Captured, NoFrameAfterRemoveSink,
            desktopVars, dupVars
<1>1. CASE Dropped \/ BroadcastEnds
  BY <1>1 DEF Dropped, BroadcastEnds, sinkVars
<1>2. CASE BroadcastBegins
  BY <1>2 DEF BroadcastBegins
<1>3. CASE \E s \in Sinks : OnFrame(s)
  BY <1>3 DEF OnFrame, loopVars
<1>4. CASE \E s \in Sinks : AddOrUpdateSink(s) \/ RemoveSink(s)
  BY <1>4 DEF AddOrUpdateSink, RemoveSink, loopVars
<1> QED
  BY <1>1, <1>2, <1>3, <1>4 DEF Emit

(***************************************************************************)
(* Stop, the end of the loop and what happens to the desktop keep the      *)
(* invariant: the duplicator is dismantled only behind the join.           *)
(***************************************************************************)
LEMMA OthersPreserve ==
  ASSUME IInv,
         StopBegins \/ LoopEnds \/ StopEnds \/ SecureDesktop \/ ModeChange
  PROVE  IInv'
<1> USE DEF IInv, TypeOK, DeviceNoted, Captured, NoFrameAfterRemoveSink, sinkVars
<1>1. CASE StopBegins
  BY <1>1 DEF StopBegins, desktopVars, dupVars, loopVars
<1>2. CASE LoopEnds
  BY <1>2 DEF LoopEnds, desktopVars, dupVars
<1>3. CASE StopEnds
  BY <1>3 DEF StopEnds, desktopVars, loopVars
<1>4. CASE SecureDesktop
  BY <1>4, BoundsAssumption DEF SecureDesktop, Accident, dupVars, loopVars
<1>5. CASE ModeChange
  BY <1>5, BoundsAssumption DEF ModeChange, Accident, dupVars, loopVars
<1> QED
  BY <1>1, <1>2, <1>3, <1>4, <1>5

(***************************************************************************)
(* The invariant holds in every behaviour of the capture thread.           *)
(***************************************************************************)
LEMMA InvariantHolds == Spec => []IInv
<1>1. ASSUME IInv, [Next]_vars PROVE IInv'
  <2>1. CASE Next
    BY <1>1, <2>1, RebuildsPreserve, AcquirePreserves, SinksPreserve,
       OthersPreserve DEF Next, Loop
  <2>2. CASE UNCHANGED vars
    BY <1>1, <2>2 DEF vars, desktopVars, dupVars, loopVars, sinkVars, IInv,
                      TypeOK, DeviceNoted, Captured, NoFrameAfterRemoveSink
  <2> QED
    BY <1>1, <2>1, <2>2
<1> QED
  BY <1>1, InitEstablishes, PTL DEF Spec

----------------------------------------------------------------------------
(***************************************************************************)
(* The variables of capture thread and duplicator keep their types.        *)
(***************************************************************************)
THEOREM Typing == Spec => []TypeOK
<1>1. IInv => TypeOK
  BY DEF IInv
<1> QED
  BY <1>1, InvariantHolds, PTL

(***************************************************************************)
(* A broadcast texture lives on the device handed out with it, after any   *)
(* number of rebuilds, whole or half-way.                                  *)
(***************************************************************************)
THEOREM BufferPairsWithDevice == Spec => []BufferOnItsDevice
<1>1. IInv => BufferOnItsDevice
  BY DEF IInv, DeviceNoted, Captured, BufferOnItsDevice
<1> QED
  BY <1>1, InvariantHolds, PTL

(***************************************************************************)
(* A sink that RemoveSink has taken out is not called again.               *)
(***************************************************************************)
THEOREM RemovedSinksAreSilent == Spec => []NoFrameAfterRemoveSink
<1>1. IInv => NoFrameAfterRemoveSink
  BY DEF IInv
<1> QED
  BY <1>1, InvariantHolds, PTL

(***************************************************************************)
(* An image that was captured can be shown again: the duplication, the     *)
(* texture it lies in and has_content_ go with it, or it goes with them.   *)
(***************************************************************************)
ImageReady == image => dup /\ texture # NoDevice /\ hasContent

(***************************************************************************)
(* However a rebuild ends, the old image is gone.                          *)
(***************************************************************************)
LEMMA RebuildDropsImage == ASSUME Rebuild PROVE image' = FALSE
<1>1. PICK recovered \in BOOLEAN : Reinitialise(recovered)
  BY DEF Rebuild
<1>2. \E d, tries, last : Duplicated(d, tries, last)
  BY <1>1, Zenon DEF Reinitialise, Initialise
<1> QED
  BY <1>2 DEF Duplicated

(***************************************************************************)
(* The safety half of FramesKeepComing: on a desktop that stands still,    *)
(* AcquireFrame's timeout has the last image to hand on, after any         *)
(* sequence of accidents and rebuilds, and hands it on.                    *)
(***************************************************************************)
THEOREM StillImageIsThere ==
  Spec => []ImageReady /\ [][TimedOut /\ image => loop' = "frame"]_vars
<1>1. Init => ImageReady
  BY DEF Init, ImageReady
<1>2. ASSUME ImageReady, [Next]_vars PROVE ImageReady'
  <2> USE DEF ImageReady
  <2>1. CASE TimedOut \/ CursorFrame \/ AccessLost \/ AcquireFails
    BY <1>2, <2>1 DEF TimedOut, CursorFrame, AccessLost, AcquireFails, dupVars
  <2>2. CASE ContentFrame
    BY <1>2, <2>2 DEF ContentFrame
  <2>3. CASE HandleLost
    BY <2>3, RebuildDropsImage DEF HandleLost
  <2>4. CASE HandleFailed
    BY <1>2, <2>4, RebuildDropsImage DEF HandleFailed, dupVars
  <2>5. CASE Emit \/ LoopEnds \/ StopBegins \/ SecureDesktop \/ ModeChange
               \/ (\E s \in Sinks : AddOrUpdateSink(s) \/ RemoveSink(s))
               \/ UNCHANGED vars
    <3>1. UNCHANGED dupVars
      BY <2>5 DEF Emit, Dropped, BroadcastBegins, OnFrame, BroadcastEnds, LoopEnds,
         StopBegins, SecureDesktop, ModeChange, AddOrUpdateSink, RemoveSink, vars
    <3> QED
      BY <1>2, <3>1 DEF dupVars
  <2>6. CASE StopEnds
    BY <2>6 DEF StopEnds
  <2> QED
    BY <1>2, <2>1, <2>2, <2>3, <2>4, <2>5, <2>6 DEF Next, Loop, Acquire
<1>3. ImageReady => [TimedOut /\ image => loop' = "frame"]_vars
  BY DEF ImageReady, TimedOut, Handed
<1> QED
  BY <1>1, <1>2, <1>3, PTL DEF Spec

----------------------------------------------------------------------------
(***************************************************************************)
(* The pacing gate: the clocks stay in range, the gate books what it lets  *)
(* through and reopens, and so it bounds the rate alone.                   *)
(***************************************************************************)
USE PacingAssumption DEF PacingAssumption

----------------------------------------------------------------------------
\* The window begins in the past, and frames are counted only once the
\* first of them has primed the deadline.
Clocks ==
  /\ mark <= now
  /\ deadline = 0 => since = 0

GateInv ==
  /\ GateTypeOK
  /\ Clocks
  /\ FramesAreBooked
  /\ RateBounded
  /\ GateReopens
  /\ WakeBounded

\* The initial state satisfies the invariant.
LEMMA GateInitEstablishes == GateInit => GateInv
<1> SUFFICES ASSUME GateInit PROVE GateInv
  OBVIOUS
<1>1. GateTypeOK
  <2>1. emitted \in BOOLEAN
    BY Zenon DEF GateInit
  <2>2. /\ now \in Nat \ {0} /\ deadline \in Nat /\ nextWake \in Nat
        /\ mark \in Nat /\ since \in Nat
    BY DEF GateInit
  <2> QED
    BY Zenon, <2>1, <2>2 DEF GateTypeOK
<1>2. Clocks /\ FramesAreBooked
  BY DEF GateInit, Clocks, FramesAreBooked
<1>3. GateReopens /\ WakeBounded
  BY DEF GateInit, GateReopens, WakeBounded
<1>4. RateBounded
  <2>1. since - 3 = -3 /\ now - mark = 0
    BY DEF GateInit
  <2> QED
    BY <2>1 DEF GateInit, RateBounded
<1> QED
  BY <1>1, <1>2, <1>3, <1>4 DEF GateInv

----------------------------------------------------------------------------
\* The deadline after a broadcast is a positive integer, never more than one
\* interval behind the clock, and at least one interval past the one due
\* unless it was set to the clock, which was later still.
LEMMA AdvanceBounds ==
  ASSUME NEW due \in Nat, now \in Nat \ {0}
  PROVE  /\ Advance(due) \in Nat \ {0}
         /\ Advance(due) >= now - Interval
         /\ Advance(due) >= due + Interval
         /\ Advance(due) = due + Interval \/ Advance(due) = now
BY DEF Advance

\* A step of time alone keeps the invariant.
LEMMA TickPreserves == ASSUME GateInv, Tick PROVE GateInv'
BY DEF GateInv, Tick, GateTypeOK, Clocks, FramesAreBooked, RateBounded, GateReopens,
       WakeBounded

\* The gate, with a frame in hand.
LEMMA PassGatePreserves == ASSUME GateInv, PassGate PROVE GateInv'
<1>1. /\ Due \in Nat \ {0}
      /\ since > 0 => Due = deadline
      /\ Due <= now + Slack + Interval
  BY DEF GateInv, GateTypeOK, Clocks, GateReopens, Due
<1>2. CASE now + Slack < Due
  <2>1. /\ deadline' = Due /\ since' = since
        /\ emitted' = TRUE
        /\ UNCHANGED <<now, nextWake, mark>>
    BY <1>2 DEF PassGate
  <2> QED
    BY <1>1, <2>1 DEF GateInv, GateTypeOK, Clocks, FramesAreBooked, RateBounded,
                      GateReopens, WakeBounded
<1>3. CASE ~(now + Slack < Due)
  <2>1. /\ deadline' = Advance(Due) /\ since' = since + 1
        /\ emitted' = TRUE
        /\ UNCHANGED <<now, nextWake, mark>>
    BY <1>3 DEF PassGate
  <2>2. /\ now \in Nat \ {0} /\ nextWake \in Nat /\ mark \in Nat
        /\ since \in Nat /\ mark <= now
    BY DEF GateInv, GateTypeOK, Clocks
  <2>3. /\ deadline' \in Nat \ {0}
        /\ deadline' >= now - Interval
        /\ deadline' >= Due + Interval
        /\ deadline' = Due + Interval \/ deadline' = now
    BY <1>1, <2>1, <2>2, AdvanceBounds
  <2>4. GateTypeOK' /\ Clocks'
    BY <2>1, <2>2, <2>3 DEF GateTypeOK, Clocks
  <2>5. FramesAreBooked'
    <3>1. CASE since = 0
      BY <2>1, <2>2, <2>3, <3>1 DEF FramesAreBooked
    <3>2. CASE since > 0
      <4>1. Due >= mark + (since - 2) * Interval
        BY <1>1, <3>2 DEF GateInv, FramesAreBooked
      <4>2. (since + 1 - 2) * Interval = (since - 2) * Interval + Interval
        BY <2>2
      <4>3. (since - 2) * Interval \in Int
        BY <2>2
      <4> QED
        BY <1>1, <2>1, <2>2, <2>3, <4>1, <4>2, <4>3 DEF FramesAreBooked
    <3> QED
      BY <2>2, <3>1, <3>2
  <2>6. RateBounded'
    <3>1. CASE since = 0
      BY <2>1, <2>2, <3>1 DEF RateBounded
    <3>2. CASE since > 0
      <4>1. Due >= mark + (since - 2) * Interval
        BY <1>1, <3>2 DEF GateInv, FramesAreBooked
      <4>2. now + Slack >= Due
        BY <1>1, <1>3, <2>2
      <4>3. since + 1 - 3 = since - 2 /\ (since - 2) * Interval \in Int
        BY <2>2
      <4>4. (since - 2) * Interval <= now + Slack - mark
        BY <1>1, <2>2, <4>1, <4>2, <4>3
      <4>5. /\ since' - 3 = since - 2
            /\ now' + Slack - mark' = now + Slack - mark
        BY <2>1, <2>2
      <4> QED
        BY <4>4, <4>5 DEF RateBounded
    <3> QED
      BY <2>2, <3>1, <3>2
  <2>7. GateReopens'
    BY <1>1, <1>3, <2>1, <2>2, <2>3 DEF GateReopens
  <2>8. WakeBounded'
    BY <2>1 DEF GateInv, WakeBounded
  <2> QED
    BY <2>4, <2>5, <2>6, <2>7, <2>8 DEF GateInv
<1> QED
  BY <1>2, <1>3

\* A bound that moves with the clock still holds when the clock moves on.
LEMMA LaterBound ==
  ASSUME NEW used \in Int, NEW start \in Int,
         NEW t \in Int, NEW later \in Int,
         used <= t + Slack - start, later >= t
  PROVE  used <= later + Slack - start
OBVIOUS

\* The same for the deadline, which may be ahead of the clock.
LEMMA LaterDeadline ==
  ASSUME NEW due \in Int, NEW t \in Int, NEW later \in Int,
         due <= t + Slack + Interval, later >= t
  PROVE  due <= later + Slack + Interval
OBVIOUS

\* Both sleeps move the clock forward, to next_wake at the earliest.
LEMMA SleepPreserves ==
  ASSUME GateInv, Wake \/ Skip
  PROVE  GateInv'
<1>1. /\ now \in Nat \ {0} /\ nextWake \in Nat
      /\ emitted \in BOOLEAN /\ deadline \in Nat
      /\ mark \in Nat /\ since \in Nat
      /\ nextWake <= now + Interval
  BY DEF GateInv, GateTypeOK, WakeBounded
<1>2. UNCHANGED <<deadline, mark, since>> /\ emitted' \in BOOLEAN
  BY <1>1 DEF Wake, Skip
<1>3. /\ now' \in Nat \ {0} /\ now' >= now
      /\ nextWake' \in Nat /\ nextWake' <= now' + Interval
  <2>1. CASE Wake
    <3>1. /\ now' = Later(nextWake + Interval, now)
          /\ nextWake' = Later(nextWake + Interval, now)
      BY <2>1 DEF Wake
    <3> QED
      BY <1>1, <3>1 DEF Later
  <2>2. CASE Skip
    <3>1. now' = Later(nextWake, now) /\ nextWake' = nextWake + Interval
      BY <2>2 DEF Skip
    <3> QED
      BY <1>1, <3>1 DEF Later
  <2> QED
    BY <2>1, <2>2
<1>4. GateTypeOK' /\ WakeBounded'
  BY <1>1, <1>2, <1>3 DEF GateTypeOK, WakeBounded
<1>5. Clocks'
  BY <1>1, <1>2, <1>3 DEF GateInv, Clocks
<1>6. GateReopens'
  <2>1. deadline' = deadline /\ deadline <= now + Slack + Interval
    BY <1>2 DEF GateInv, GateReopens
  <2>2. now <= now' /\ now \in Int /\ now' \in Int /\ deadline \in Int
    BY <1>1, <1>3
  <2>3. deadline <= now' + Slack + Interval
    BY <2>1, <2>2, LaterDeadline
  <2> QED
    BY <2>1, <2>3 DEF GateReopens
<1>7. FramesAreBooked'
  <2>1. (since > 0)' <=> since > 0
    BY <1>2
  <2>2. (mark + (since - 2) * Interval)' = mark + (since - 2) * Interval
    BY <1>2
  <2> QED
    BY <1>2, <2>1, <2>2 DEF GateInv, FramesAreBooked
<1>8. RateBounded'
  <2>1. (since - 3) * Interval \in Int
    BY <1>1
  <2>2. (since' - 3) * Interval = (since - 3) * Interval /\ mark' = mark
    BY <1>2
  <2>3. (since - 3) * Interval <= now + Slack - mark
    BY DEF GateInv, RateBounded
  <2>4. (since - 3) * Interval <= now' + Slack - mark
    <3>1. now \in Int /\ now' \in Int /\ mark \in Int /\ now' >= now
      BY <1>1, <1>3
    <3> QED
      BY <2>1, <2>3, <3>1, LaterBound
  <2> QED
    BY <2>2, <2>4 DEF RateBounded
<1> QED
  BY <1>4, <1>5, <1>6, <1>7, <1>8 DEF GateInv

\* A new window starts with nothing in it.
LEMMA WindowPreserves == ASSUME GateInv, StartWindow PROVE GateInv'
BY DEF GateInv, StartWindow, GateTypeOK, Clocks, FramesAreBooked, RateBounded,
       GateReopens, WakeBounded

\* The invariant is inductive.
LEMMA GateStepPreserves == GateInv /\ [GateNext]_gateVars => GateInv'
<1> SUFFICES ASSUME GateInv, [GateNext]_gateVars PROVE GateInv'
  OBVIOUS
<1>1. CASE Tick
  BY <1>1, TickPreserves
<1>2. CASE PassGate
  BY <1>2, PassGatePreserves
<1>3. CASE Wake \/ Skip
  BY <1>3, SleepPreserves
<1>4. CASE StartWindow
  BY <1>4, WindowPreserves
<1>5. CASE UNCHANGED gateVars
  BY <1>5 DEF GateInv, gateVars, GateTypeOK, Clocks, FramesAreBooked, RateBounded,
              GateReopens, WakeBounded
<1> QED
  BY <1>1, <1>2, <1>3, <1>4, <1>5 DEF GateNext

\* The loop's two clocks always satisfy it.
LEMMA GateInvariance == GateSpec => []GateInv
BY GateInitEstablishes, GateStepPreserves, PTL DEF GateSpec

----------------------------------------------------------------------------
\* The clocks, the deadline and the counts of the capture loop keep their
\* types; the deadline never goes negative.
THEOREM GateTyping == GateSpec => []GateTypeOK
<1>1. GateInv => GateTypeOK
  BY DEF GateInv
<1> QED
  BY <1>1, GateInvariance, PTL

\* The clamp after a stall and the one-interval advance together: the send
\* deadline of CaptureLoop has an interval booked for every frame broadcast.
THEOREM EveryFrameIsBooked == GateSpec => []FramesAreBooked
<1>1. GateInv => FramesAreBooked
  BY DEF GateInv
<1> QED
  BY <1>1, GateInvariance, PTL

\* The send deadline bounds the rate of broadcasts over every window.
THEOREM GateBoundsTheRate == GateSpec => []RateBounded
<1>1. GateInv => RateBounded
  BY DEF GateInv
<1> QED
  BY <1>1, GateInvariance, PTL

\* The send deadline never runs away from the clock, so frames keep going
\* out however fast the display presents.
THEOREM GateAlwaysReopens == GateSpec => []GateReopens
<1>1. GateInv => GateReopens
  BY DEF GateInv
<1> QED
  BY <1>1, GateInvariance, PTL

\* next_wake is at most one interval ahead when either sleep is over.
THEOREM LoopWakesUp == GateSpec => []WakeBounded
<1>1. GateInv => WakeBounded
  BY DEF GateInv
<1> QED
  BY <1>1, GateInvariance, PTL

HIDE PacingAssumption DEF PacingAssumption
============================================================================
