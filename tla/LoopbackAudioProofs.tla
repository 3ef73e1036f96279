------------------------- MODULE LoopbackAudioProofs -------------------------
(***************************************************************************)
(* Proofs about audio capture, for every size of frame, packet and         *)
(* endpoint buffer.                                                        *)
(***************************************************************************)
EXTENDS LoopbackAudio, SequenceTheorems, TLAPS

----------------------------------------------------------------------------
\* Sample numbers.

(***************************************************************************)
(* Counting on from a sample number gives one, and counting on twice is    *)
(* counting on by the sum, as long as less than Wrap samples are counted.  *)
(***************************************************************************)
LEMMA AfterAdds ==
  ASSUME NEW n \in Samples, NEW j \in Nat, NEW k \in Nat, j + k < Wrap
  PROVE  /\ After(n, j) \in Samples
         /\ After(After(n, j), k) = After(n, j + k)
         /\ After(n, 0) = n
BY AudioAssumption DEF Samples, After

(***************************************************************************)
(* What ConvertAndEmit makes of a packet: one sample for each it has, in   *)
(* order.                                                                  *)
(***************************************************************************)
LEMMA ConsecutiveSamples ==
  ASSUME NEW from \in Samples, NEW k \in Nat, k < Wrap
  PROVE  /\ Consecutive(from, k) \in Seq(Samples)
         /\ Len(Consecutive(from, k)) = k
         /\ \A i \in 1..k : Consecutive(from, k)[i] = After(from, i - 1)
<1>1. \A i \in 1..k : After(from, i - 1) \in Samples
  BY AfterAdds, AudioAssumption
<1> QED
  BY <1>1 DEF Consecutive

----------------------------------------------------------------------------
\* Where the threads can be together.

(***************************************************************************)
(* The flags say where the threads are: a capture thread exists only while *)
(* recording or while StopRecording waits for it, mutex_ is held exactly   *)
(* while frames are handed over, and a packet is there to be delivered.    *)
(***************************************************************************)
Stages ==
  /\ ready => initialised
  /\ recording <=> running
  /\ recording => worker = "idle" /\ ready
  /\ worker = "join" => ready
  /\ loop # "none" => running \/ worker = "join"
  /\ locked <=> loop = "emitting"
  /\ loop = "emitting" => transport
  /\ loop \in {"locking", "emitting"} => packets # << >>

(***************************************************************************)
(* While frames are handed over, the part of pending_ behind consumed      *)
(* continues what libwebrtc has got; otherwise less than a frame waits.    *)
(***************************************************************************)
InOrder ==
  /\ ~locked => consumed = 0 /\ Len(pending) < FrameSize
  /\ Len(pending) - consumed < Wrap
  /\ \A i \in consumed + 1..Len(pending) :
       pending[i] = After(emitted, i - consumed - 1)
  /\ accepted = After(emitted, Len(pending) - consumed)

IInv == TypeOK /\ Stages /\ InOrder

(***************************************************************************)
(* Nothing is initialised, recorded or pending at the start.               *)
(***************************************************************************)
LEMMA InitEstablishes == Init => IInv
<1> SUFFICES ASSUME Init PROVE IInv
  OBVIOUS
<1>1. TypeOK
  <2>1. pending \in Seq(Samples) /\ packets \in Seq(PacketSizes)
        /\ Len(packets) = 0 /\ Len(pending) = 0
    BY DEF Init
  <2>2. 0 \in Samples /\ 0 \in 0..0 /\ 0 <= Capacity
    BY AudioAssumption DEF Samples
  <2> QED
    BY <2>1, <2>2 DEF Init, TypeOK
<1>2. Stages
  BY DEF Init, Stages
<1>3. InOrder
  BY AudioAssumption DEF Init, InOrder, After
<1> QED
  BY <1>1, <1>2, <1>3 DEF IInv

(***************************************************************************)
(* Every step keeps the stages.                                            *)
(***************************************************************************)
LEMMA StagesPreserved == ASSUME TypeOK, Stages, Next PROVE Stages'
<1> USE DEF Stages
<1>1. CASE InitDevice
  BY <1>1 DEF InitDevice, deliverVars, TypeOK
<1>2. CASE \E given \in BOOLEAN : RegisterAudioCallback(given)
  BY <1>2 DEF RegisterAudioCallback, workerVars, deliverVars, endpointVars
<1>3. CASE StartRecording
  BY <1>3 DEF StartRecording, deliverVars
<1>4. CASE \E terminate \in BOOLEAN : StopBegins(terminate)
  BY <1>4 DEF StopBegins, deliverVars, endpointVars
<1>5. CASE Joined
  BY <1>5 DEF Joined, deliverVars
<1>6. CASE Cleared
  BY <1>6 DEF Cleared, endpointVars
<1>7. CASE Terminate
  BY <1>7 DEF Terminate, deliverVars, endpointVars
<1>8. CASE \E size \in PacketSizes : PacketArrives(size)
  BY <1>8, AppendProperties DEF PacketArrives, workerVars, deliverVars, TypeOK
<1>9. CASE Wakes \/ TimesOut \/ GetBuffer \/ Drained
  BY <1>9 DEF Wakes, TimesOut, GetBuffer, Drained, workerVars, deliverVars,
              endpointVars
<1>10. CASE DeliverBegins
  BY <1>10 DEF DeliverBegins, workerVars
<1>11. CASE RecordedDataIsAvailable
  BY <1>11 DEF RecordedDataIsAvailable, workerVars, endpointVars
<1>12. CASE DeliverEnds
  BY <1>12 DEF DeliverEnds, workerVars
<1> QED
  BY <1>1, <1>2, <1>3, <1>4, <1>5, <1>6, <1>7, <1>8, <1>9, <1>10, <1>11, <1>12
     DEF Next, Capturing

----------------------------------------------------------------------------
\* What becomes of the samples.

(***************************************************************************)
(* Deliver appends a packet in order, and less than Wrap samples wait.     *)
(***************************************************************************)
LEMMA BeginKeepsOrder ==
  ASSUME IInv, DeliverBegins
  PROVE  TypeOK' /\ InOrder'
<1>1. /\ packets \in Seq(PacketSizes) /\ packets # << >>
      /\ pending \in Seq(Samples) /\ accepted \in Samples /\ emitted \in Samples
      /\ consumed = 0 /\ Len(pending) < FrameSize /\ ~locked
      /\ Len(packets) <= Capacity
  BY DEF IInv, TypeOK, Stages, InOrder, DeliverBegins
<1>2. /\ Head(packets) \in PacketSizes /\ Head(packets) \in Nat
      /\ Len(pending) + Head(packets) < Wrap /\ Head(packets) < Wrap
      /\ Len(pending) \in Nat
  <2>1. Head(packets) \in PacketSizes
    BY <1>1, HeadTailProperties
  <2>2. Len(pending) \in Nat
    BY <1>1, LenProperties
  <2>3. /\ Head(packets) \in Nat /\ FrameSize \in Nat /\ Wrap \in Nat
        /\ FrameSize + Head(packets) < Wrap
    BY <2>1, AudioAssumption
  <2> QED
    BY <1>1, <2>1, <2>2, <2>3
<1>3. CASE transport
  <2> DEFINE size == Head(packets)
             more == Consecutive(accepted, size)
  <2>1. /\ more \in Seq(Samples) /\ Len(more) = size
        /\ \A i \in 1..size : more[i] = After(accepted, i - 1)
    BY <1>1, <1>2, ConsecutiveSamples
  <2>2. /\ pending' = pending \o more
        /\ accepted' = After(accepted, size)
        /\ locked' = TRUE /\ loop' = "emitting"
        /\ UNCHANGED <<packets, workerVars, transport, consumed, emitted,
                       running, event, started>>
    BY <1>3 DEF DeliverBegins
  <2>3. /\ pending' \in Seq(Samples)
        /\ Len(pending') = Len(pending) + size
        /\ \A i \in 1..Len(pending) + size : pending'[i] =
              IF i <= Len(pending) THEN pending[i] ELSE more[i - Len(pending)]
    BY <1>1, <2>1, <2>2, ConcatProperties
  <2>4. accepted = After(emitted, Len(pending))
    BY <1>1 DEF IInv, InOrder
  <2>5. accepted' = After(emitted, Len(pending) + size) /\ accepted' \in Samples
    BY <1>1, <1>2, <2>2, <2>4, AfterAdds
  <2>6. ASSUME NEW i \in 1..Len(pending')
        PROVE  pending'[i] = After(emitted, i - 1)
    <3>1. CASE i <= Len(pending)
      BY <1>1, <1>2, <2>3, <3>1 DEF IInv, InOrder
    <3>2. CASE i > Len(pending)
      <4>1. pending'[i] = After(accepted, i - Len(pending) - 1)
        BY <1>2, <2>1, <2>3, <3>2
      <4> DEFINE j == Len(pending)
                 k == i - Len(pending) - 1
      <4>2. /\ j \in Nat /\ k \in Nat /\ j + k < Wrap /\ j + k = i - 1
            /\ k = i - Len(pending) - 1
        BY <1>2, <2>3, <3>2, AudioAssumption
      <4>3. After(After(emitted, j), k) = After(emitted, j + k)
        BY <1>1, <4>2, AfterAdds
      <4> QED
        BY <2>4, <4>1, <4>2, <4>3
    <3> QED
      BY <1>2, <2>3, <3>1, <3>2
  <2>7. TypeOK'
    <3>1. consumed' \in 0..Len(pending')
      BY <1>1, <1>2, <2>2, <2>3
    <3>2. /\ pending' \in Seq(Samples) /\ accepted' \in Samples
          /\ emitted' \in Samples /\ packets' \in Seq(PacketSizes)
          /\ Len(packets') <= Capacity
      BY <1>1, <2>2, <2>3, <2>5
    <3> QED
      BY <2>2, <3>1, <3>2 DEF IInv, TypeOK, workerVars
  <2>8. InOrder'
    BY <1>1, <1>2, <2>2, <2>3, <2>5, <2>6 DEF InOrder
  <2> QED
    BY <2>7, <2>8
<1>4. CASE ~transport
  <2>1. /\ packets' = Tail(packets) /\ loop' = "draining"
        /\ UNCHANGED <<locked, pending, accepted, workerVars, transport,
                       consumed, emitted, running, event, started>>
    BY <1>4 DEF DeliverBegins
  <2>2. packets' \in Seq(PacketSizes) /\ Len(packets') <= Capacity
    BY <1>1, <2>1, HeadTailProperties, AudioAssumption
  <2> QED
    BY <2>1, <2>2 DEF IInv, TypeOK, InOrder, workerVars
<1> QED
  BY <1>3, <1>4

(***************************************************************************)
(* Handing over a frame takes its samples from the front.                  *)
(***************************************************************************)
LEMMA FrameKeepsOrder ==
  ASSUME IInv, RecordedDataIsAvailable
  PROVE  TypeOK' /\ InOrder'
<1>1. /\ pending \in Seq(Samples) /\ emitted \in Samples /\ accepted \in Samples
      /\ consumed \in Nat /\ Len(pending) \in Nat /\ FrameSize \in Nat
      /\ consumed + FrameSize <= Len(pending)
      /\ Len(pending) - consumed < Wrap
  BY AudioAssumption
     DEF IInv, TypeOK, InOrder, RecordedDataIsAvailable, FrameReady
<1>2. /\ consumed' = consumed + FrameSize
      /\ emitted' = After(emitted, FrameSize)
      /\ locked' = locked /\ locked = TRUE
      /\ UNCHANGED <<workerVars, transport, pending, accepted, running, loop,
                     event, endpointVars>>
  BY DEF IInv, Stages, RecordedDataIsAvailable
<1>3. emitted' \in Samples
  <2>1. FrameSize + 0 < Wrap
    BY <1>1, AudioAssumption
  <2> QED
    BY <1>1, <1>2, <2>1, AfterAdds
<1>4. ASSUME NEW j \in Nat, j + FrameSize < Wrap
      PROVE  After(emitted', j) = After(emitted, j + FrameSize)
  <2>1. FrameSize + j < Wrap /\ FrameSize + j = j + FrameSize
    BY <1>1, <1>4
  <2>2. After(After(emitted, FrameSize), j) = After(emitted, FrameSize + j)
    BY <1>1, <2>1, AfterAdds
  <2> QED
    BY <1>2, <2>1, <2>2
<1>5. accepted' = After(emitted', Len(pending') - consumed')
  BY <1>1, <1>2, <1>4 DEF IInv, InOrder
<1>6. ASSUME NEW i \in consumed' + 1..Len(pending')
      PROVE  pending'[i] = After(emitted', i - consumed' - 1)
  <2>1. pending[i] = After(emitted, i - consumed - 1)
    BY <1>1, <1>2 DEF IInv, InOrder
  <2> DEFINE j == i - consumed' - 1
  <2>2. /\ j \in Nat /\ j + FrameSize < Wrap
        /\ j + FrameSize = i - consumed - 1
    <3>1. i \in consumed + FrameSize + 1..Len(pending) /\ Wrap \in Nat
      BY <1>2, AudioAssumption
    <3>2. j = i - (consumed + FrameSize) - 1
      BY <1>2
    <3> HIDE DEF j
    <3> QED
      BY <1>1, <3>1, <3>2
  <2>3. After(emitted', j) = After(emitted, j + FrameSize)
    BY <1>4, <2>2
  <2> QED
    BY <1>2, <2>1, <2>2, <2>3
<1>7. TypeOK'
  <2>1. consumed' \in 0..Len(pending')
    BY <1>1, <1>2
  <2> QED
    BY <1>2, <1>3, <2>1 DEF IInv, TypeOK, workerVars, endpointVars
<1>8. InOrder'
  <2>1. Len(pending') - consumed' < Wrap
    BY <1>1, <1>2, AudioAssumption
  <2>2. locked'
    BY <1>2
  <2> QED
    BY <1>5, <1>6, <2>1, <2>2 DEF InOrder
<1> QED
  BY <1>7, <1>8

(***************************************************************************)
(* The end of Deliver keeps exactly the samples not handed over: less than *)
(* a frame, so the limit on the backlog is not reached.                    *)
(***************************************************************************)
LEMMA EndKeepsOrder ==
  ASSUME IInv, DeliverEnds
  PROVE  TypeOK' /\ InOrder'
<1> DEFINE left == SubSeq(pending, consumed + 1, Len(pending))
<1>1. /\ pending \in Seq(Samples) /\ emitted \in Samples /\ accepted \in Samples
      /\ consumed \in Nat /\ Len(pending) \in Nat /\ FrameSize \in Nat
      /\ consumed <= Len(pending)
      /\ Len(pending) - consumed < FrameSize
      /\ Len(pending) - consumed < Wrap
      /\ packets \in Seq(PacketSizes) /\ packets # << >>
      /\ Len(packets) <= Capacity
  BY AudioAssumption DEF IInv, TypeOK, Stages, InOrder, DeliverEnds, FrameReady
<1>2. /\ left \in Seq(Samples)
      /\ Len(left) = Len(pending) - consumed
      /\ \A i \in 1..Len(left) : left[i] = pending[consumed + i]
  <2>1. \A i \in consumed + 1..Len(pending) : pending[i] \in Samples
    BY <1>1
  <2>2. /\ left \in Seq(Samples)
        /\ Len(left) = IF consumed + 1 <= Len(pending)
                       THEN Len(pending) - (consumed + 1) + 1 ELSE 0
        /\ \A i \in 1..Len(pending) - (consumed + 1) + 1 :
              left[i] = pending[consumed + 1 + i - 1]
    BY <1>1, <2>1, SubSeqProperties
  <2> QED
    BY <1>1, <2>2
<1>3. Rest = left
  BY <1>1, <1>2 DEF Rest
<1>4. /\ pending' = left /\ consumed' = 0 /\ locked' = FALSE
      /\ loop' = "draining" /\ packets' = Tail(packets)
      /\ UNCHANGED <<workerVars, transport, accepted, emitted, running, event,
                     started>>
  BY <1>3 DEF DeliverEnds
<1>5. packets' \in Seq(PacketSizes) /\ Len(packets') <= Capacity
  BY <1>1, <1>4, HeadTailProperties, AudioAssumption
<1>6. TypeOK'
  <2>1. consumed' \in 0..Len(pending') /\ pending' \in Seq(Samples)
    BY <1>1, <1>2, <1>4
  <2> QED
    BY <1>4, <1>5, <2>1 DEF IInv, TypeOK, workerVars
<1>7. ASSUME NEW i \in 1..Len(left)
      PROVE  left[i] = After(emitted, i - 1)
  <2> DEFINE k == consumed + i
  <2>1. /\ left[i] = pending[k] /\ k \in consumed + 1..Len(pending)
        /\ k - consumed - 1 = i - 1
    BY <1>1, <1>2
  <2>2. \A n \in consumed + 1..Len(pending) :
          pending[n] = After(emitted, n - consumed - 1)
    BY DEF IInv, InOrder
  <2> HIDE DEF k
  <2>3. pending[k] = After(emitted, k - consumed - 1)
    BY <2>1, <2>2
  <2> QED
    BY <2>1, <2>3
<1>8. InOrder'
  BY <1>1, <1>2, <1>4, <1>7 DEF IInv, InOrder
<1> QED
  BY <1>6, <1>8

(***************************************************************************)
(* Every step keeps the types and the order of the samples.  Clearing what *)
(* is left when a recording stops lets the next one start with a frame.    *)
(***************************************************************************)
LEMMA OrderPreserved == ASSUME IInv, Next PROVE TypeOK' /\ InOrder'
<1> USE DEF IInv, TypeOK, InOrder
<1>1. CASE InitDevice
  <2>1. packets' \in Seq(PacketSizes) /\ Len(packets') <= Capacity
    BY <1>1, AudioAssumption DEF InitDevice
  <2> QED
    BY <1>1, <2>1 DEF InitDevice, deliverVars
<1>2. CASE \E given \in BOOLEAN : RegisterAudioCallback(given)
  BY <1>2 DEF RegisterAudioCallback, workerVars, deliverVars, endpointVars
<1>3. CASE StartRecording
  BY <1>3 DEF StartRecording, deliverVars
<1>4. CASE \E terminate \in BOOLEAN : StopBegins(terminate)
  <2>1. PICK terminate \in BOOLEAN : StopBegins(terminate)
    BY <1>4
  <2>2. /\ worker' = "join" /\ leaving' \in BOOLEAN
        /\ recording' = FALSE /\ running' = FALSE /\ event' = TRUE
        /\ UNCHANGED <<initialised, ready, transport, pending, consumed, locked,
                       accepted, emitted, loop, started, packets>>
    BY <2>1 DEF StopBegins, deliverVars, endpointVars
  <2>3. InOrder'
    BY <2>2
  <2>4. TypeOK'
    BY <2>2
  <2> QED
    BY <2>3, <2>4
<1>5. CASE Joined
  BY <1>5 DEF Joined, deliverVars
<1>6. CASE Cleared
  <2>1. /\ pending' = << >> /\ emitted' = accepted /\ accepted' = accepted
        /\ consumed' = 0 /\ Len(pending') = 0 /\ pending' \in Seq(Samples)
    BY <1>6 DEF Cleared
  <2>2. After(accepted, 0) = accepted
    BY AfterAdds, AudioAssumption
  <2>3. /\ consumed' \in 0..Len(pending') /\ Len(pending') - consumed' = 0
        /\ Len(pending') < FrameSize /\ 0 < Wrap
    BY <2>1, AudioAssumption
  <2>4. InOrder'
    BY <2>1, <2>2, <2>3
  <2>5. TypeOK'
    BY <1>6, <2>1, <2>3 DEF Cleared, endpointVars
  <2> QED
    BY <2>4, <2>5
<1>7. CASE Terminate
  BY <1>7 DEF Terminate, deliverVars, endpointVars
<1>8. CASE \E size \in PacketSizes : PacketArrives(size)
  <2>1. packets' \in Seq(PacketSizes) /\ Len(packets') <= Capacity
    BY <1>8, AppendProperties, AudioAssumption DEF PacketArrives
  <2> QED
    BY <1>8, <2>1 DEF PacketArrives, workerVars, deliverVars
<1>9. CASE Wakes \/ TimesOut \/ GetBuffer \/ Drained
  BY <1>9 DEF Wakes, TimesOut, GetBuffer, Drained, workerVars, deliverVars,
              endpointVars
<1> QED
  BY <1>1, <1>2, <1>3, <1>4, <1>5, <1>6, <1>7, <1>8, <1>9, BeginKeepsOrder,
     FrameKeepsOrder, EndKeepsOrder DEF Next, Capturing

(***************************************************************************)
(* The invariant holds in every behaviour of the device.                   *)
(***************************************************************************)
LEMMA InvariantHolds == Spec => []IInv
<1>1. ASSUME IInv, [Next]_vars PROVE IInv'
  <2>1. CASE Next
    BY <1>1, <2>1, StagesPreserved, OrderPreserved DEF IInv
  <2>2. CASE UNCHANGED vars
    BY <1>1, <2>2 DEF vars, workerVars, deliverVars, endpointVars, IInv, TypeOK,
                      Stages, InOrder
  <2> QED
    BY <1>1, <2>1, <2>2
<1> QED
  BY <1>1, InitEstablishes, PTL DEF Spec

----------------------------------------------------------------------------
(***************************************************************************)
(* The device's variables keep their types.                                *)
(***************************************************************************)
THEOREM Typing == Spec => []TypeOK
<1>1. IInv => TypeOK
  BY DEF IInv
<1> QED
  BY <1>1, InvariantHolds, PTL

(***************************************************************************)
(* libwebrtc's transport is called only while it is registered and a       *)
(* recording is on or being stopped.                                       *)
(***************************************************************************)
THEOREM StoppedMeansSilent == Spec => []NoCallAfterStop
<1>1. IInv => NoCallAfterStop
  BY DEF IInv, Stages, NoCallAfterStop
<1> QED
  BY <1>1, InvariantHolds, PTL

(***************************************************************************)
(* Packets of any sizes are cut into frames without losing, doubling or    *)
(* reordering a sample.                                                    *)
(***************************************************************************)
THEOREM NothingLostAtTheSeams == Spec => []SamplesInOrder
<1>1. ASSUME IInv, ~locked
      PROVE  /\ Len(pending) < FrameSize
             /\ pending = Consecutive(emitted, Len(pending))
             /\ After(emitted, Len(pending)) = accepted
  <2>1. /\ consumed = 0 /\ Len(pending) < FrameSize
        /\ pending \in Seq(Samples) /\ Len(pending) \in Nat
        /\ emitted \in Samples /\ Len(pending) < Wrap
    BY <1>1 DEF IInv, TypeOK, InOrder
  <2>2. /\ \A i \in 1..Len(pending) : pending[i] = After(emitted, i - 1)
        /\ After(emitted, Len(pending)) = accepted
    BY <1>1, <2>1 DEF IInv, InOrder
  <2>3. pending = [i \in 1..Len(pending) |-> pending[i]]
    BY <2>1
  <2>4. pending = Consecutive(emitted, Len(pending))
    BY <2>2, <2>3 DEF Consecutive
  <2> QED
    BY <2>1, <2>2, <2>4
<1>2. IInv => SamplesInOrder
  BY <1>1 DEF SamplesInOrder
<1> QED
  BY <1>2, InvariantHolds, PTL
=============================================================================
