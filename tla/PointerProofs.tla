--------------------------- MODULE PointerProofs ---------------------------
(***************************************************************************)
(* Proofs about the pointer, for every arrangement of monitor and desktop, *)
(* every delta and every re-anchoring period and tolerance.                *)
(***************************************************************************)
EXTENDS Pointer, SequenceTheorems, TLAPS

----------------------------------------------------------------------------
\* What clamping does.

(***************************************************************************)
(* Clamping to a rectangle of the screen gives a pixel of that rectangle:  *)
(* MouseMoveRelative's std::clamp, and Windows at the desktop's edges.     *)
(***************************************************************************)
LEMMA ClampInside ==
  ASSUME NEW v \in Vectors
  PROVE  /\ Clamp(v, MonitorMin, MonitorMax) \in Monitor
         /\ Clamp(v, DesktopMin, DesktopMax) \in Desktop
<1> USE ScreenAssumption DEF Vectors
<1>1. ASSUME NEW a \in Axes
      PROVE  /\ Greater(MonitorMin[a], Lesser(v[a], MonitorMax[a]))
                  \in MonitorMin[a]..MonitorMax[a]
             /\ Greater(DesktopMin[a], Lesser(v[a], DesktopMax[a]))
                  \in DesktopMin[a]..DesktopMax[a]
  BY <1>1 DEF Greater, Lesser
<1>2. \A a \in Axes : /\ MonitorMin[a]..MonitorMax[a] \subseteq Pixels
                      /\ DesktopMin[a]..DesktopMax[a] \subseteq Pixels
  <2> SUFFICES ASSUME NEW a \in Axes
               PROVE  /\ MonitorMin[a]..MonitorMax[a] \subseteq Pixels
                      /\ DesktopMin[a]..DesktopMax[a] \subseteq Pixels
    OBVIOUS
  <2>1. DesktopMin[a]..DesktopMax[a] \subseteq Pixels
    OBVIOUS
  <2>2. MonitorMin[a]..MonitorMax[a] \subseteq DesktopMin[a]..DesktopMax[a]
    OBVIOUS
  <2> QED BY <2>1, <2>2
<1> QED BY <1>1, <1>2 DEF Clamp, Monitor, Desktop, Rectangle

(***************************************************************************)
(* The monitor lies on the desktop, and pixels of both are vectors.        *)
(***************************************************************************)
LEMMA OnScreen ==
  /\ Monitor \subseteq Desktop
  /\ Desktop \subseteq Vectors
<1>1. ASSUME NEW v \in Desktop PROVE v \in Vectors
  BY ScreenAssumption, <1>1 DEF Desktop, Rectangle, Vectors
<1>2. ASSUME NEW v \in Monitor PROVE v \in Desktop
  BY ScreenAssumption, <1>2 DEF Desktop, Monitor, Rectangle, Vectors
<1> QED BY <1>1, <1>2

(***************************************************************************)
(* An injected move takes an error no further than it was: where Windows   *)
(* stops the pointer, at the desktop's edge, the believed position is at   *)
(* the monitor's edge or before it.                                        *)
(***************************************************************************)
LEMMA ClampAddsNoError ==
  ASSUME NEW rest \in Desktop, NEW from \in Vectors, NEW wanted \in Monitor,
         ~Diverged(rest, from)
  PROVE  ~Diverged(Clamp(Plus(rest, Minus(wanted, from)), DesktopMin, DesktopMax),
                   wanted)
<1> USE ScreenAssumption, AnchorAssumption DEF Vectors
<1>1. rest \in Vectors /\ wanted \in Vectors
  BY OnScreen
<1> DEFINE there == Clamp(Plus(rest, Minus(wanted, from)), DesktopMin, DesktopMax)
<1>2. ASSUME NEW a \in Axes
      PROVE  /\ there[a] - wanted[a] <= ReanchorDivergePx
             /\ wanted[a] - there[a] <= ReanchorDivergePx
             /\ there[a] \in Int
  <2>1. there[a] = Greater(DesktopMin[a],
                     Lesser(rest[a] + (wanted[a] - from[a]), DesktopMax[a]))
    BY DEF Clamp, Plus, Minus
  <2>2. wanted[a] \in MonitorMin[a]..MonitorMax[a]
    BY DEF Monitor, Rectangle
  <2>3. /\ rest[a] - from[a] <= ReanchorDivergePx
        /\ from[a] - rest[a] <= ReanchorDivergePx
    BY <1>1 DEF Diverged
  <2> HIDE DEF there
  <2>4. rest[a] \in Int /\ wanted[a] \in Int /\ from[a] \in Int
    BY <1>1
  <2> QED BY <2>1, <2>2, <2>3, <2>4 DEF Greater, Lesser
<1> HIDE DEF there
<1>3. ~Diverged(there, wanted)
  BY <1>1, <1>2 DEF Diverged
<1> QED BY <1>3 DEF there

(***************************************************************************)
(* From the true position an injected move ends exactly where it should.   *)
(***************************************************************************)
LEMMA ExactFromTheTruth ==
  ASSUME NEW rest \in Desktop, NEW wanted \in Monitor
  PROVE  Clamp(Plus(rest, Minus(wanted, rest)), DesktopMin, DesktopMax) = wanted
<1> USE ScreenAssumption DEF Vectors
<1>1. rest \in Vectors /\ wanted \in Vectors
  BY OnScreen
<1>2. ASSUME NEW a \in Axes
      PROVE  Greater(DesktopMin[a],
               Lesser(rest[a] + (wanted[a] - rest[a]), DesktopMax[a])) = wanted[a]
  <2>1. wanted[a] \in MonitorMin[a]..MonitorMax[a]
    BY DEF Monitor, Rectangle
  <2> QED BY <1>1, <2>1 DEF Greater, Lesser
<1> QED BY <1>1, <1>2 DEF Clamp, Plus, Minus

----------------------------------------------------------------------------
\* The trail.

(***************************************************************************)
(* Any addition to the trail keeps its type and is where the pointer comes *)
(* to rest; what Windows applies does not change that place.               *)
(***************************************************************************)
LEMMA TrailMoves ==
  ASSUME TypeOK
  PROVE  /\ Settled \in Desktop /\ Shown \in Desktop
         /\ Len(trail) \in Nat \ {0}
         /\ Len(trail) > 1 \/ Shown = Settled
         /\ \A p \in Desktop :
              /\ Append(trail, p) \in Seq(Desktop)
              /\ Append(trail, p) # << >>
              /\ Append(trail, p)[Len(Append(trail, p))] = p
         /\ Len(trail) > 1 =>
              /\ Tail(trail) \in Seq(Desktop)
              /\ Tail(trail) # << >>
              /\ Tail(trail)[Len(Tail(trail))] = Settled
<1>1. trail \in Seq(Desktop) /\ trail # << >>
  BY DEF TypeOK
<1>2. Len(trail) \in Nat \ {0}
  BY <1>1, EmptySeq
<1>3. Settled \in Desktop /\ Shown \in Desktop
  BY <1>1, <1>2, ElementOfSeq DEF Settled, Shown
<1>4. Len(trail) > 1 \/ Shown = Settled
  <2>1. \A n \in Nat \ {0} : n > 1 \/ n = 1
    OBVIOUS
  <2>2. Len(trail) > 1 \/ Len(trail) = 1
    BY Zenon, <1>2, <2>1
  <2> QED
    BY Zenon, <2>2 DEF Settled, Shown
<1>5. ASSUME NEW p \in Desktop
      PROVE  /\ Append(trail, p) \in Seq(Desktop)
             /\ Append(trail, p) # << >>
             /\ Append(trail, p)[Len(Append(trail, p))] = p
  BY <1>1, <1>5, AppendProperties
<1>6. ASSUME Len(trail) > 1
      PROVE  /\ Tail(trail) \in Seq(Desktop)
             /\ Tail(trail) # << >>
             /\ Tail(trail)[Len(Tail(trail))] = Settled
  <2>1. /\ Tail(trail) \in Seq(Desktop)
        /\ Len(Tail(trail)) = Len(trail) - 1
        /\ \A i \in 1..Len(Tail(trail)) : Tail(trail)[i] = trail[i + 1]
    BY <1>1, HeadTailProperties
  <2>2. Len(Tail(trail)) \in Nat \ {0} /\ Len(Tail(trail)) \in 1..Len(Tail(trail))
    BY <1>2, <1>6, <2>1
  <2>3. Tail(trail) # << >>
    BY <2>2, EmptySeq
  <2>4. Tail(trail)[Len(Tail(trail))] = trail[Len(trail)]
    BY <1>2, <2>1, <2>2
  <2> QED
    BY <2>1, <2>3, <2>4 DEF Settled
<1> QED
  BY <1>2, <1>3, <1>4, <1>5, <1>6

----------------------------------------------------------------------------
\* The inductive invariant: while the error may exceed the tolerance, the
\* countdown runs out before enough calm moves have been counted.
Budget ==
  Tracking => ~Diverged(Settled, pos) \/ countdown + calm <= ReanchorEvery

IInv == TypeOK /\ TracksPointer /\ Budget

(***************************************************************************)
(* The invariant holds at the start: the host believes in no position yet, *)
(* so only the types are to be checked.                                    *)
(***************************************************************************)
LEMMA InitEstablishes == Init => IInv
<1> SUFFICES ASSUME Init PROVE IInv
  OBVIOUS
<1>1. TypeOK
  <2>1. PICK p \in Desktop : trail = <<p>>
    BY DEF Init
  <2>2. trail \in Seq(Desktop) /\ trail # << >>
    BY <2>1
  <2>3. /\ havePos = FALSE /\ ultra = FALSE /\ wasUltra = FALSE /\ doubt = FALSE
        /\ pos \in Monitor \cup {Zero}
    BY Zenon DEF Init
  <2>4. countdown \in 0..ReanchorEvery /\ calm \in 0..ReanchorEvery
    BY AnchorAssumption DEF Init
  <2> QED
    BY Zenon, <2>2, <2>3, <2>4 DEF TypeOK
<1>2. ~Tracking
  BY DEF Init, Tracking
<1> QED
  BY <1>1, <1>2 DEF IInv, TracksPointer, Budget

(***************************************************************************)
(* A move that something else made keeps the invariant: it leaves the      *)
(* belief in doubt, and starts the count of calm moves again.              *)
(***************************************************************************)
LEMMA OthersPreserve ==
  ASSUME IInv, MouseMoveAbsolute \/ MovedByOthers
  PROVE  IInv'
<1>1. PICK p \in Desktop : trail' = Append(trail, p)
  BY OnScreen DEF MouseMoveAbsolute, MovedByOthers
<1>2. /\ UNCHANGED <<havePos, pos, countdown, ultra, wasUltra>>
      /\ doubt' = TRUE /\ calm' = 0
  BY DEF MouseMoveAbsolute, MovedByOthers
<1>3. TypeOK'
  BY <1>1, <1>2, TrailMoves, AnchorAssumption DEF IInv, TypeOK
<1>4. countdown' + calm' <= ReanchorEvery
  BY <1>2, AnchorAssumption DEF IInv, TypeOK
<1> QED
  BY <1>2, <1>3, <1>4 DEF IInv, TracksPointer, Budget

(***************************************************************************)
(* Windows applying a move takes the head of the trail and leaves where    *)
(* the pointer comes to rest, so nothing the host believes becomes wrong.  *)
(***************************************************************************)
LEMMA AppliedPreserves == ASSUME IInv, Applied PROVE IInv'
<1>1. /\ trail' \in Seq(Desktop) /\ trail' # << >>
      /\ Settled' = Settled
  BY TrailMoves DEF IInv, Applied, Settled
<1> QED
  BY <1>1 DEF IInv, Applied, TypeOK, TracksPointer, Budget, Tracking, Diverged

(***************************************************************************)
(* SetUltraMode changes the flag alone; its effect on the believed         *)
(* position waits for the next move.                                       *)
(***************************************************************************)
LEMMA UltraTogglePreserves ==
  ASSUME IInv, NEW enabled \in BOOLEAN, SetUltraMode(enabled)
  PROVE  IInv'
BY DEF IInv, SetUltraMode, TypeOK, TracksPointer, Budget, Tracking, Settled,
       Diverged

(***************************************************************************)
(* SendInput of a delta: the trail keeps its type, and a delta that is     *)
(* delivered moves the pointer's rest, a zero one by nothing.              *)
(***************************************************************************)
LEMMA InjectMoves ==
  ASSUME TypeOK, NEW delta \in Vectors, NEW sent \in BOOLEAN,
         Inject(delta, sent)
  PROVE  /\ trail' \in Seq(Desktop) /\ trail' # << >>
         /\ sent \/ delta = Zero => Settled' = Moved(delta)
<1>1. Settled \in Desktop
  BY TrailMoves
<1>2. Plus(Settled, delta) \in Vectors
  BY <1>1, OnScreen DEF Plus, Vectors
<1>3. Moved(delta) \in Desktop
  BY <1>2, ClampInside DEF Moved
<1>4. CASE delta # Zero /\ sent
  BY <1>3, <1>4, TrailMoves DEF Inject, Settled
<1>5. CASE ~sent \/ delta = Zero
  <2>1. trail' = trail
    BY <1>5 DEF Inject
  <2>2. ASSUME delta = Zero PROVE Moved(delta) = Settled
    <3>1. Plus(Settled, delta) = Settled
      BY <1>1, <2>2, OnScreen DEF Plus, Zero, Vectors
    <3>2. Settled \in [Axes -> Int]
      BY <1>1, OnScreen DEF Vectors
    <3>3. ASSUME NEW a \in Axes
          PROVE  Greater(DesktopMin[a], Lesser(Settled[a], DesktopMax[a]))
                   = Settled[a]
      <4>1. Settled[a] \in DesktopMin[a]..DesktopMax[a]
        BY <1>1 DEF Desktop, Rectangle
      <4>2. DesktopMin[a] \in Int /\ DesktopMax[a] \in Int /\ Settled[a] \in Int
        BY <3>2, ScreenAssumption DEF Vectors
      <4> QED
        BY <4>1, <4>2 DEF Greater, Lesser
    <3> QED
      BY <3>1, <3>3, <3>2 DEF Moved, Clamp
  <2> QED
    BY <1>5, <2>1, <2>2 DEF TypeOK, Settled
<1> QED
  BY <1>4, <1>5

(***************************************************************************)
(* A move in ultra mode leaves the believed position behind, and           *)
(* was_ultra_ tells the next desktop move so.                              *)
(***************************************************************************)
LEMMA UltraMovePreserves ==
  ASSUME IInv, NEW delta \in [Axes -> Deltas], NEW sent \in BOOLEAN,
         MoveInUltra(delta, sent)
  PROVE  IInv'
<1>1. delta \in Vectors
  BY AnchorAssumption DEF Vectors
<1>2. trail' \in Seq(Desktop) /\ trail' # << >>
  BY <1>1, InjectMoves DEF IInv, MoveInUltra
<1>3. TypeOK'
  <2>1. calm' \in 0..ReanchorEvery
    BY AnchorAssumption DEF MoveInUltra
  <2> QED
    BY Zenon, <1>2, <2>1 DEF IInv, MoveInUltra, TypeOK
<1>4. ~Tracking'
  BY DEF MoveInUltra, Tracking
<1> QED
  BY <1>3, <1>4 DEF IInv, TracksPointer, Budget

(***************************************************************************)
(* A desktop move keeps the invariant.                                     *)
(***************************************************************************)
LEMMA DesktopMovePreserves ==
  ASSUME IInv, NEW delta \in [Axes -> Deltas], NEW read \in BOOLEAN,
         NEW sent \in BOOLEAN, MoveOnDesktop(delta, read, sent)
  PROVE  IInv'
<1> DEFINE from == Anchor(read)
           wanted == Wanted(from, delta)
           injected == Minus(wanted, from)
           lost == ~sent /\ injected # Zero
<1>1. TypeOK /\ TracksPointer /\ Budget
  BY DEF IInv
<1>2. Len(trail) > 1 \/ Shown = Settled
  BY <1>1, TrailMoves
<1>3. /\ from \in Vectors
      /\ Settled \in Desktop /\ Settled \in Vectors /\ pos \in Vectors
  <2>1. Zero \in Vectors
    BY DEF Zero, Vectors
  <2> QED
    BY <1>1, <2>1, OnScreen, TrailMoves DEF Anchor, TypeOK
<1>4. wanted \in Monitor /\ wanted \in Vectors
  <2> HIDE DEF from
  <2>1. delta \in Vectors
    BY AnchorAssumption DEF Vectors
  <2>2. Plus(from, delta) \in Vectors
    BY <1>3, <2>1 DEF Plus, Vectors
  <2> QED
    BY <2>2, ClampInside, OnScreen DEF Wanted
<1> HIDE DEF from, wanted
<1>5. injected \in Vectors
  BY <1>3, <1>4 DEF Minus, Vectors
<1> HIDE DEF injected
<1>6. /\ ~ultra /\ (Due \/ read)
      /\ havePos' = (Known \/ (Due /\ read))
      /\ countdown' = IF Due THEN ReanchorEvery ELSE countdown - 1
      /\ pos' = wanted
      /\ Inject(injected, sent)
      /\ wasUltra' = FALSE /\ ultra' = ultra
      /\ doubt' = (lost \/ Unreliable(read) \/ (doubt /\ ~Taken(read)))
      /\ calm' = IF lost \/ Unreliable(read) THEN 0
                 ELSE Lesser(calm + 1, ReanchorEvery)
  BY Zenon DEF MoveOnDesktop, from, wanted, injected
<1>7. /\ trail' \in Seq(Desktop) /\ trail' # << >>
      /\ ~lost => Settled' = Moved(injected)
  BY <1>1, <1>5, <1>6, InjectMoves
<1>8. /\ countdown \in 0..ReanchorEvery /\ calm \in 0..ReanchorEvery
      /\ ReanchorEvery \in Nat \ {0}
      /\ Known => havePos /\ ~wasUltra /\ Tracking
  BY <1>1, <1>6, AnchorAssumption DEF TypeOK, Known, Tracking
<1>9. /\ countdown' \in 0..ReanchorEvery /\ countdown' > 0
      /\ calm' \in 0..ReanchorEvery
  BY <1>6, <1>8 DEF Due, Lesser
<1>10. TypeOK'
  <2>1. /\ havePos' \in BOOLEAN /\ ultra' \in BOOLEAN
        /\ wasUltra' \in BOOLEAN /\ doubt' \in BOOLEAN
    BY Zenon, <1>1, <1>6 DEF TypeOK
  <2> QED
    BY Zenon, <1>4, <1>6, <1>7, <1>9, <2>1 DEF TypeOK
<1>11. Taken(read) /\ ~Unreliable(read) => from = Settled
  BY Zenon, <1>2 DEF Taken, Unreliable, Anchor, from
<1>12. ~Taken(read) => from = pos
  BY DEF Anchor, from
<1>13. Moved(injected)
         = Clamp(Plus(Settled, Minus(wanted, from)), DesktopMin, DesktopMax)
  BY DEF Moved, injected
<1>14. TracksPointer'
  <2> SUFFICES ASSUME Tracking', ~doubt'
               PROVE  Settled' = pos' /\ Settled' \in Monitor
    BY DEF TracksPointer
  <2>1. ~lost /\ ~Unreliable(read) /\ (~doubt \/ Taken(read))
    BY <1>6
  <2>2. from = Settled
    <3>1. CASE Taken(read)
      BY <2>1, <3>1, <1>11
    <3>2. CASE ~Taken(read)
      <4>1. Known
        BY <1>6, <3>2 DEF Tracking, Taken
      <4> QED
        BY <1>1, <1>8, <1>12, <2>1, <3>2, <4>1 DEF TracksPointer
    <3> QED
      BY <3>1, <3>2
  <2> QED
    BY <1>3, <1>4, <1>6, <1>7, <1>13, <2>1, <2>2, ExactFromTheTruth
<1>15. Budget'
  <2> SUFFICES ASSUME Tracking'
               PROVE  \/ ~Diverged(Settled', pos')
                      \/ countdown' + calm' <= ReanchorEvery
    BY DEF Budget, Diverged
  <2>1. CASE lost \/ Unreliable(read)
    BY <1>6, <1>8, <1>9, <2>1
  <2>2. ASSUME ~lost, ~Diverged(Settled, from)
        PROVE  ~Diverged(Settled', pos')
    BY <1>3, <1>4, <1>6, <1>7, <1>13, <2>2, ClampAddsNoError
  <2>3. CASE ~lost /\ ~Unreliable(read) /\ Due
    <3>1. Shown = Settled /\ read
      BY Zenon, <1>2, <2>3 DEF Unreliable
    <3>2. ~Diverged(Settled, from)
      <4>1. CASE Taken(read)
        <5>1. ~Diverged(Settled, Settled)
          BY <1>3, AnchorAssumption DEF Diverged, Vectors
        <5> QED
          BY <1>11, <2>3, <4>1, <5>1
      <4>2. CASE ~Taken(read)
        BY Zenon, <1>12, <2>3, <3>1, <4>2 DEF Taken
      <4> QED
        BY <4>1, <4>2
    <3> QED
      BY <2>2, <2>3, <3>2
  <2>4. CASE ~lost /\ ~Unreliable(read) /\ ~Due
    <3>1. Known /\ countdown > 1 /\ from = pos
      BY <1>8, <1>12, <2>4 DEF Due, Taken
    <3>2. CASE ~Diverged(Settled, pos)
      BY <2>2, <2>4, <3>1, <3>2
    <3>3. CASE countdown + calm <= ReanchorEvery
      BY <1>6, <1>8, <2>4, <3>1, <3>3 DEF Lesser
    <3> QED
      BY <1>1, <1>8, <3>1, <3>2, <3>3 DEF Budget
  <2> QED
    BY <2>1, <2>3, <2>4
<1> QED
  BY <1>10, <1>14, <1>15 DEF IInv

(***************************************************************************)
(* Every step keeps the invariant.                                         *)
(***************************************************************************)
LEMMA StepPreserves == ASSUME IInv, [Next]_vars PROVE IInv'
<1>1. CASE MouseMoveRelative
  BY <1>1, DesktopMovePreserves, UltraMovePreserves DEF MouseMoveRelative
<1>2. CASE MouseMoveAbsolute \/ MovedByOthers
  BY <1>2, OthersPreserve
<1>3. CASE \E enabled \in BOOLEAN : SetUltraMode(enabled)
  BY <1>3, UltraTogglePreserves
<1>4. CASE Applied
  BY <1>4, AppliedPreserves
<1>5. CASE UNCHANGED vars
  BY <1>5 DEF vars, IInv, TypeOK, TracksPointer, Budget, Tracking, Settled,
              Diverged
<1> QED
  BY <1>1, <1>2, <1>3, <1>4, <1>5 DEF Next

(***************************************************************************)
(* The invariant holds in every behaviour of the pointer.                  *)
(***************************************************************************)
LEMMA InvariantHolds == Spec => []IInv
BY InitEstablishes, StepPreserves, PTL DEF Spec

----------------------------------------------------------------------------
(***************************************************************************)
(* The pointer's variables keep their types: in particular the position    *)
(* MouseMoveRelative believes in is on the monitor.                        *)
(***************************************************************************)
THEOREM Typing == Spec => []TypeOK
<1>1. IInv => TypeOK
  BY DEF IInv
<1> QED
  BY <1>1, InvariantHolds, PTL

(***************************************************************************)
(* Without a move from elsewhere, a refusal or a read that raced a move,   *)
(* the believed position is the true one and on the monitor.               *)
(***************************************************************************)
THEOREM BeliefIsTrue == Spec => []TracksPointer
<1>1. IInv => TracksPointer
  BY DEF IInv
<1> QED
  BY <1>1, InvariantHolds, PTL

(***************************************************************************)
(* After kReanchorEvery calm desktop moves the believed position is within *)
(* the tolerance of the true one.                                          *)
(***************************************************************************)
THEOREM ErrorsAreCorrected == Spec => []DriftBounded
<1>1. IInv => DriftBounded
  BY AnchorAssumption DEF IInv, TypeOK, Budget, DriftBounded, Tracking
<1> QED
  BY <1>1, InvariantHolds, PTL
============================================================================
