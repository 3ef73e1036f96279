-------------------------- MODULE NvencEncoderProofs --------------------------
(***************************************************************************)
(* Proofs about the encoder, for every size of the ring, every bitrate and *)
(* frame rate libwebrtc may ask for, and any refusals of the driver.       *)
(***************************************************************************)
EXTENDS NvencEncoder, TLAPS

(***************************************************************************)
(* There is no session without an encoder.                                 *)
(***************************************************************************)
Owned == session => encoder

(***************************************************************************)
(* Until a retarget is refused, session and encoder agree on the rate too. *)
(***************************************************************************)
TargetAgrees == session /\ ~refused => target = settings

IInv ==
  /\ TypeOK /\ Owned /\ TargetAgrees
  /\ NothingLeaked /\ RatesAgree /\ FrameRatePositive

----------------------------------------------------------------------------
\* Driver objects.

(***************************************************************************)
(* What a setup that stops after n objects has created: objects of the     *)
(* driver, no mappings, and either the session among them or nothing.      *)
(***************************************************************************)
LEMMA CreatedObjects ==
  ASSUME NEW n \in 0..Complete
  PROVE  /\ Created(n) \subseteq Objects
         /\ Shutdown(Created(n)) = Created(n)
         /\ \A s \in Slots : Mapping(s) \notin Created(n)
<1>1. n \in Nat /\ Complete \in Nat
  BY EncoderAssumption DEF Complete
<1>2. Created(n) \subseteq Objects
  BY DEF Created, Objects
<1>3. ASSUME n >= 1 PROVE Shutdown(Created(n)) = Created(n)
  <2>1. Session \in {o \in {Session} : n >= 1}
    BY <1>3
  <2>2. Session \in Created(n)
    BY <2>1 DEF Created
  <2> QED
    BY <2>2 DEF Shutdown
<1>4. ASSUME n = 0 PROVE Shutdown(Created(n)) = Created(n)
  <2>1. \A t \in Slots : ~(2 * t <= 0) /\ ~(2 * t + 1 <= 0)
    BY EncoderAssumption DEF Slots
  <2>2. Created(0) = {}
    BY <2>1 DEF Created
  <2> QED
    BY <1>4, <2>2 DEF Shutdown
<1>5. ASSUME NEW s \in Slots PROVE Mapping(s) \notin Created(n)
  BY DEF Mapping, Created, Session, Input, Bitstream
<1> QED
  BY <1>1, <1>2, <1>3, <1>4, <1>5

(***************************************************************************)
(* What the driver keeps is what it kept and some of what it was asked to  *)
(* take.                                                                   *)
(***************************************************************************)
LEMMA KeptGrows ==
  ASSUME NEW objects, NEW k \in KeptOf(objects)
  PROVE  kept \subseteq k /\ k \subseteq kept \cup objects
BY DEF KeptOf

(***************************************************************************)
(* Between two calls Shutdown gives back all the session has pointers to, so *)
(* the driver is left with what it refused.                                *)
(***************************************************************************)
LEMMA ShutdownGivesAllBack ==
  ASSUME TypeOK, NothingLeaked, frame = 0
  PROVE  /\ Shutdown(pointers) = pointers
         /\ pointers \subseteq Objects
<1>1. Complete \in 0..Complete
  BY EncoderAssumption DEF Complete
<1>2. pointers = IF session THEN Created(Complete) ELSE {}
  BY DEF NothingLeaked
<1>3. Shutdown({}) = {}
  BY DEF Shutdown
<1> QED
  BY <1>1, <1>2, <1>3, CreatedObjects

(***************************************************************************)
(* The index of the ring wraps.                                            *)
(***************************************************************************)
LEMMA RingWraps == ASSUME next \in Slots PROVE NextSlot \in Slots
BY EncoderAssumption DEF Slots, NextSlot

(***************************************************************************)
(* What libwebrtc asks for, with zero replaced by a default, is a rate one *)
(* can divide by.                                                          *)
(***************************************************************************)
LEMMA RequestedRate ==
  ASSUME NEW kbps \in Bitrates, NEW fps \in FrameRates
  PROVE  /\ Requested(kbps, fps) \in Rate
         /\ Requested(kbps, fps).kbps > 0 /\ Requested(kbps, fps).fps > 0
BY EncoderAssumption DEF Requested, Rate

----------------------------------------------------------------------------
(***************************************************************************)
(* The process starts without encoder, session or driver objects.          *)
(***************************************************************************)
LEMMA InitEstablishes == Init => IInv
<1>1. NoRate \in Rate /\ 1 \in Slots
  BY EncoderAssumption DEF NoRate, Rate, Slots
<1> QED
  BY <1>1 DEF Init, IInv, TypeOK, Owned, TargetAgrees, NothingLeaked, RatesAgree,
              FrameRatePositive

(***************************************************************************)
(* InitEncode keeps the invariant, however far it gets.                    *)
(***************************************************************************)
LEMMA InitEncodePreserves ==
  ASSUME IInv, NEW kbps \in Bitrates, NEW fps \in FrameRates,
         InitEncode(kbps, fps) \/ \E n \in 0..Complete : InitFails(kbps, fps, n)
  PROVE  IInv'
<1>1. frame = 0 /\ Shutdown(pointers) = pointers /\ pointers \subseteq Objects
      /\ held = pointers \cup kept /\ kept \subseteq Objects
  BY ShutdownGivesAllBack DEF IInv, TypeOK, NothingLeaked, InitEncode, InitFails, Called
<1>2. Complete \in 0..Complete /\ 1 \in Slots
  BY EncoderAssumption DEF Complete, Slots
<1>3. CASE InitEncode(kbps, fps)
  <2>1. /\ encoder' /\ session' = TRUE /\ initialised' = TRUE
        /\ pointers' = Created(Complete)
        /\ next' = 1 /\ refused' = FALSE
        /\ UNCHANGED <<encoder, callback, frame, encoded>>
        /\ settings' = Requested(kbps, fps)
        /\ target' = settings' /\ driver' = settings'
    BY <1>3 DEF InitEncode, Configure, Called
  <2>2. Created(Complete) \subseteq Objects
    BY <1>2, CreatedObjects
  <2>3. /\ kept \subseteq kept' /\ kept' \subseteq kept \cup pointers
        /\ held' = ((held \ pointers) \cup kept') \cup Created(Complete)
    BY <1>1, <1>3, KeptGrows DEF InitEncode
  <2>4. held' = pointers' \cup kept' /\ kept' \subseteq Objects
    BY <1>1, <2>1, <2>3
  <2>5. TypeOK'
    BY <1>2, <2>1, <2>2, <2>4, RequestedRate DEF IInv, TypeOK
  <2>6. NothingLeaked'
    BY <1>1, <2>1, <2>4 DEF NothingLeaked
  <2> QED
    BY <2>1, <2>5, <2>6, RequestedRate
       DEF IInv, Owned, TargetAgrees, RatesAgree, FrameRatePositive
<1>4. CASE \E n \in 0..Complete : InitFails(kbps, fps, n)
  <2>1. PICK n \in 0..Complete : InitFails(kbps, fps, n)
    BY <1>4
  <2>2. Created(n) \subseteq Objects /\ Shutdown(Created(n)) = Created(n)
    BY <2>1, CreatedObjects
  <2>3. /\ kept \subseteq kept' /\ kept' \subseteq kept \cup (pointers \cup Created(n))
        /\ held' = ((held \cup Created(n)) \ (pointers \cup Created(n))) \cup kept'
    BY <1>1, <2>1, <2>2, KeptGrows DEF InitFails, GiveBack
  <2>4. held' = kept' /\ kept' \subseteq Objects
    BY <1>1, <2>2, <2>3
  <2>5. /\ session' = FALSE /\ pointers' = {} /\ settings' = Requested(kbps, fps)
        /\ UNCHANGED <<encoder, callback, initialised, next, frame, encoded, target,
                       driver, refused>>
    BY <2>1 DEF InitFails, callVars
  <2>6. TypeOK'
    BY <2>4, <2>5, RequestedRate DEF IInv, TypeOK
  <2> QED
    BY <2>4, <2>5, <2>6
       DEF IInv, Owned, TargetAgrees, NothingLeaked, RatesAgree, FrameRatePositive
<1> QED
  BY <1>3, <1>4

(***************************************************************************)
(* A frame has one mapping while it is in the encoder, and each way out of *)
(* Encode offers it back.                                                  *)
(***************************************************************************)
LEMMA EncodePreserves == ASSUME IInv, Encode PROVE IInv'
<1>1. UNCHANGED <<encoder, callback, initialised, session, settings, target, driver,
                  refused>>
  BY DEF Encode, MapsInput, EncodeFails, Encodes, LockFails, Delivers, callVars, rateVars
<1>2. /\ held \subseteq Objects /\ kept \subseteq Objects /\ pointers \subseteq Objects
      /\ next \in Slots /\ frame \in Slots \cup {0} /\ encoded \in BOOLEAN
      /\ held = pointers \cup kept
  BY DEF IInv, TypeOK, NothingLeaked
<1>3. Complete \in 0..Complete /\ 0 \notin Slots
  BY EncoderAssumption DEF Complete, Slots
<1>4. \A s \in Slots : Mapping(s) \in Objects /\ Mapping(s) \notin Created(Complete)
  BY <1>3, CreatedObjects DEF Objects
<1>5. SUFFICES /\ held' \subseteq Objects /\ kept' \subseteq Objects
               /\ pointers' \subseteq Objects
               /\ next' \in Slots /\ frame' \in Slots \cup {0} /\ encoded' \in BOOLEAN
               /\ NothingLeaked'
  BY <1>1 DEF IInv, TypeOK, Owned, TargetAgrees, RatesAgree, FrameRatePositive
<1>6. CASE MapsInput
  <2>1. /\ frame = 0 /\ session /\ next' = NextSlot /\ UNCHANGED <<kept, encoded>>
        /\ \/ /\ held' = held \cup {Mapping(next)}
              /\ pointers' = pointers \cup {Mapping(next)}
              /\ frame' = next
           \/ UNCHANGED <<held, pointers, frame>>
    BY <1>6 DEF MapsInput, Called
  <2>2. next' \in Slots
    BY <1>2, <2>1, RingWraps
  <2>3. pointers = Created(Complete)
    BY <2>1 DEF IInv, NothingLeaked
  <2> QED
    BY <1>1, <1>2, <1>3, <1>4, <2>1, <2>2, <2>3 DEF NothingLeaked
<1>7. CASE EncodeFails \/ LockFails \/ Delivers
  <2>1. /\ frame \in Slots /\ frame' = 0 /\ encoded' = FALSE /\ UNCHANGED next
        /\ pointers' = pointers \ {Mapping(frame)}
        /\ kept' \in KeptOf({Mapping(frame)})
        /\ held' = (held \ {Mapping(frame)}) \cup kept'
    BY <1>2, <1>7 DEF EncodeFails, LockFails, Delivers, Unmap, Leave, GiveBack
  <2>2. kept \subseteq kept' /\ kept' \subseteq kept \cup {Mapping(frame)}
    BY <2>1, KeptGrows
  <2>3. held' = pointers' \cup kept'
    BY <1>2, <2>1, <2>2
  <2>4. pointers' = IF session THEN Created(Complete) ELSE {}
    BY <1>4, <2>1 DEF IInv, NothingLeaked
  <2>5. NothingLeaked'
    BY <1>1, <2>1, <2>3, <2>4 DEF NothingLeaked
  <2> QED
    BY <1>2, <1>4, <2>1, <2>2, <2>3, <2>5
<1>8. CASE Encodes
  BY <1>1, <1>2, <1>8 DEF Encodes, IInv, NothingLeaked
<1> QED
  BY <1>6, <1>7, <1>8 DEF Encode

(***************************************************************************)
(* SetRates keeps the encoder's note and the driver's rate together, also  *)
(* when the driver refuses: then only the session's target moves.          *)
(***************************************************************************)
LEMMA SetRatesPreserves ==
  ASSUME IInv, NEW kbps \in Bitrates, NEW fps \in FrameRates,
         SetRates(kbps, fps)
  PROVE  IInv'
<1>1. /\ session /\ kbps > 0
      /\ UNCHANGED <<encoder, callback, initialised, session, held, kept, pointers,
                     next, frame, encoded>>
  BY DEF SetRates, callVars, sessionVars
<1>2. PICK accepted \in BOOLEAN :
        /\ Reconfigure(kbps, fps, accepted)
        /\ settings' =
             IF accepted
             THEN [kbps |-> kbps, fps |-> IF fps > 0 THEN fps ELSE settings.fps]
             ELSE settings
  BY DEF SetRates
<1>3. /\ kbps \in Nat /\ fps \in Nat
      /\ settings \in Rate /\ target \in Rate /\ driver \in Rate
      /\ target.fps > 0
  BY <1>1, EncoderAssumption DEF IInv, TypeOK, FrameRatePositive
<1>4. /\ target' = [kbps |-> kbps, fps |-> IF fps > 0 THEN fps ELSE target.fps]
      /\ driver' = IF accepted THEN target' ELSE driver
      /\ refused' = (refused \/ ~accepted)
  BY <1>2 DEF Reconfigure
<1>5. /\ target' \in Rate /\ settings' \in Rate /\ driver' \in Rate
      /\ target'.fps > 0 /\ target'.kbps > 0
  BY <1>1, <1>2, <1>3, <1>4 DEF Rate
<1>6. TypeOK'
  BY <1>1, <1>4, <1>5 DEF IInv, TypeOK
<1>7. CASE accepted
  <2>1. ~refused => target.fps = settings.fps
    BY <1>1 DEF IInv, TargetAgrees
  <2>2. /\ driver'.kbps = settings'.kbps
        /\ ~refused' => driver' = settings' /\ target' = settings'
    BY <1>2, <1>4, <1>7, <2>1
  <2> QED
    BY <1>1, <1>5, <1>6, <2>2
       DEF IInv, Owned, TargetAgrees, NothingLeaked, RatesAgree, FrameRatePositive
<1>8. CASE ~accepted
  BY <1>1, <1>2, <1>4, <1>5, <1>6, <1>8
     DEF IInv, Owned, TargetAgrees, NothingLeaked, RatesAgree, FrameRatePositive
<1> QED
  BY <1>7, <1>8

(***************************************************************************)
(* The other calls keep the invariant: a new encoder meets no session, and *)
(* a released one leaves none.                                             *)
(***************************************************************************)
LEMMA OthersPreserve ==
  ASSUME IInv,
         \/ Create
         \/ \E given \in BOOLEAN : RegisterEncodeCompleteCallback(given)
         \/ \E destroyed \in BOOLEAN : Release(destroyed)
  PROVE  IInv'
<1> USE DEF IInv, TypeOK, Owned, TargetAgrees, NothingLeaked, RatesAgree,
            FrameRatePositive
<1>1. NoRate \in Rate
  BY EncoderAssumption DEF NoRate, Rate
<1>2. CASE Create
  BY <1>1, <1>2 DEF Create, sessionVars
<1>3. CASE \E given \in BOOLEAN : RegisterEncodeCompleteCallback(given)
  BY <1>3 DEF RegisterEncodeCompleteCallback, sessionVars, rateVars
<1>4. CASE \E destroyed \in BOOLEAN : Release(destroyed)
  <2>1. frame = 0 /\ Shutdown(pointers) = pointers /\ pointers \subseteq Objects
    BY <1>4, ShutdownGivesAllBack DEF Release, Called
  <2>2. /\ kept \subseteq kept' /\ kept' \subseteq kept \cup pointers
        /\ held' = (held \ pointers) \cup kept'
    BY <1>4, <2>1, KeptGrows DEF Release, GiveBack
  <2>3. held' = kept' /\ kept' \subseteq Objects
    BY <2>1, <2>2
  <2> QED
    BY <1>4, <2>3 DEF Release, rateVars
<1> QED
  BY <1>2, <1>3, <1>4

(***************************************************************************)
(* The invariant holds in every behaviour of the encoder.                  *)
(***************************************************************************)
LEMMA InvariantHolds == Spec => []IInv
<1>1. ASSUME IInv, [Next]_vars PROVE IInv'
  <2>1. CASE Next
    BY <1>1, <2>1, InitEncodePreserves, EncodePreserves, SetRatesPreserves,
       OthersPreserve DEF Next
  <2>2. CASE UNCHANGED vars
    BY <1>1, <2>2 DEF vars, callVars, sessionVars, rateVars, IInv, TypeOK, Owned,
                      TargetAgrees, NothingLeaked, RatesAgree, FrameRatePositive
  <2> QED
    BY <1>1, <2>1, <2>2
<1> QED
  BY <1>1, InitEstablishes, PTL DEF Spec

----------------------------------------------------------------------------
(***************************************************************************)
(* The encoder's variables keep their types; the ring's index wraps.       *)
(***************************************************************************)
THEOREM Typing == Spec => []TypeOK
<1>1. IInv => TypeOK
  BY DEF IInv
<1> QED
  BY <1>1, InvariantHolds, PTL

(***************************************************************************)
(* Nothing is leaked but what the driver refused to take back: wherever a  *)
(* call fails, in setting up, in any of the exits of Encode or in giving   *)
(* back, every object is known to the session or has been offered.         *)
(***************************************************************************)
THEOREM DriverObjectsBalance == Spec => []NothingLeaked
<1>1. IInv => NothingLeaked
  BY DEF IInv
<1> QED
  BY <1>1, InvariantHolds, PTL

(***************************************************************************)
(* The rate the encoder compares new ones with is the driver's.            *)
(***************************************************************************)
THEOREM NotedRateIsTheDriversRate == Spec => []RatesAgree
<1>1. IInv => RatesAgree
  BY DEF IInv
<1> QED
  BY <1>1, InvariantHolds, PTL

(***************************************************************************)
(* Configure and Reconfigure never divide by zero.                         *)
(***************************************************************************)
THEOREM NoDivisionByZero == Spec => []FrameRatePositive
<1>1. IInv => FrameRatePositive
  BY DEF IInv
<1> QED
  BY <1>1, InvariantHolds, PTL
=============================================================================
