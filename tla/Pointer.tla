------------------------------ MODULE Pointer ------------------------------
(***************************************************************************)
(* The pointer of the host: MouseMoveRelative and MouseMoveAbsolute of     *)
(* Win32InputInjector (win32_input_injector.cpp), with the clamp to the    *)
(* captured monitor, the believed position it is computed from, and ultra  *)
(* mode, which bypasses both.                                              *)
(*                                                                         *)
(* All moves arrive on one libwebrtc thread.  Ultra mode is an atomic that *)
(* control messages and ReleaseAll set on other threads; a move reads it   *)
(* once, so a move is one step and the mode changes between moves.  Input  *)
(* and control travel on channels that order nothing between them: any     *)
(* move may meet any mode.                                                 *)
(*                                                                         *)
(* Windows applies injected moves asynchronously, as the code expects:     *)
(* trail is the positions the pointer is still to go through, its head     *)
(* what GetCursorPos returns and its last element where the pointer comes  *)
(* to rest.                                                                *)
(***************************************************************************)
EXTENDS Integers, Sequences

CONSTANTS
  Axes,                    \* the coordinates, x and y
  Pixels,                  \* coordinate values
  DesktopMin, DesktopMax,  \* corners of the virtual desktop
  MonitorMin, MonitorMax,  \* corners of the captured monitor
  Deltas,                  \* bounded input: dx and dy of a client's move
  ReanchorEvery,           \* kReanchorEvery
  ReanchorDivergePx,       \* kReanchorDivergePx
  TrailLimit               \* bound: positions in the trail

Vectors == [Axes -> Int]

\* Start has succeeded, so the monitor has a size and lies on the desktop.
ASSUME ScreenAssumption ==
  /\ DesktopMin \in Vectors /\ DesktopMax \in Vectors
  /\ MonitorMin \in Vectors /\ MonitorMax \in Vectors
  /\ \A a \in Axes : /\ DesktopMin[a] <= MonitorMin[a]
                     /\ MonitorMin[a] <= MonitorMax[a]
                     /\ MonitorMax[a] <= DesktopMax[a]
                     /\ DesktopMin[a]..DesktopMax[a] \subseteq Pixels

ASSUME AnchorAssumption ==
  /\ Deltas \subseteq Int
  /\ ReanchorEvery \in Nat \ {0}
  /\ ReanchorDivergePx \in Nat
  /\ TrailLimit \in Nat \ {0}

VARIABLES
  havePos,    \* have_pos_
  pos,        \* pos_x_ and pos_y_
  countdown,  \* reanchor_countdown_
  ultra,      \* ultra_mode_
  wasUltra,   \* was_ultra_
  trail,      \* where the pointer is and will be (external)
  doubt,      \* history: pos was given a reason to be wrong
  calm        \* history: desktop moves since the last such reason

vars == <<havePos, pos, countdown, ultra, wasUltra, trail, doubt, calm>>

----------------------------------------------------------------------------
Lesser(m, n) == IF m < n THEN m ELSE n
Greater(m, n) == IF m < n THEN n ELSE m

Plus(u, v) == [a \in Axes |-> u[a] + v[a]]
Minus(u, v) == [a \in Axes |-> u[a] - v[a]]
Clamp(v, min, max) == [a \in Axes |-> Greater(min[a], Lesser(v[a], max[a]))]

Zero == [a \in Axes |-> 0]
Rectangle(min, max) ==
  {v \in [Axes -> Pixels] : \A a \in Axes : v[a] \in min[a]..max[a]}

Desktop == Rectangle(DesktopMin, DesktopMax)
Monitor == Rectangle(MonitorMin, MonitorMax)

\* u and v are more than the tolerance apart in some coordinate.
Diverged(u, v) ==
  \E a \in Axes : \/ u[a] - v[a] > ReanchorDivergePx
                  \/ v[a] - u[a] > ReanchorDivergePx

Shown == trail[1]
Settled == trail[Len(trail)]

TypeOK ==
  /\ havePos \in BOOLEAN
  /\ pos \in Monitor \cup {Zero}
  /\ countdown \in 0..ReanchorEvery
  /\ havePos => countdown > 0
  /\ ultra \in BOOLEAN /\ wasUltra \in BOOLEAN
  /\ trail \in Seq(Desktop) /\ trail # << >>
  /\ doubt \in BOOLEAN
  /\ calm \in 0..ReanchorEvery

Init ==
  /\ havePos = FALSE
  /\ pos = Zero
  /\ countdown = 0
  /\ ultra = FALSE /\ wasUltra = FALSE
  /\ \E p \in Desktop : trail = <<p>>
  /\ doubt = FALSE
  /\ calm = 0
----------------------------------------------------------------------------
\* SendInput of a relative move.  The pointer stops at the edges of the desktop.
\* A privileged window in front makes SendInput drop the move.
Moved(delta) == Clamp(Plus(Settled, delta), DesktopMin, DesktopMax)

Inject(delta, sent) ==
  IF delta = Zero \/ ~sent
  THEN UNCHANGED trail
  ELSE /\ Len(trail) < TrailLimit
       /\ trail' = Append(trail, Moved(delta))

----------------------------------------------------------------------------
\* MouseMoveRelative.

\* Mutant: coming out of ultra mode keeps the position from before it.
KnownAcrossUltra == havePos

\* have_pos_, after it is dropped on the way out of ultra mode.
Known == havePos /\ ~(wasUltra /\ ~ultra)

\* Mutant: the countdown is not looked at.
DueNever == ~Known

Due == ~Known \/ countdown <= 1

\* The position the move starts from; read: GetCursorPos succeeds.
Taken(read) == Due /\ read /\ (~Known \/ Diverged(Shown, pos))
Anchor(read) == IF Taken(read) THEN Shown ELSE pos

\* Mutant: the last pixel is left + width.
WantedPastEdge(from, delta) ==
  Clamp(Plus(from, delta), MonitorMin, [a \in Axes |-> MonitorMax[a] + 1])

Wanted(from, delta) == Clamp(Plus(from, delta), MonitorMin, MonitorMax)

\* A read that cannot be relied on: it failed, or came before moves under way.
Unreliable(read) == Due /\ (~read \/ Len(trail) > 1)

MoveOnDesktop(delta, read, sent) ==
  LET from == Anchor(read)
      injected == Minus(Wanted(from, delta), from)
      lost == ~sent /\ injected # Zero
  IN /\ ~ultra /\ delta # Zero
     /\ Due \/ read
     /\ havePos' = (Known \/ (Due /\ read))
     /\ countdown' = IF Due THEN ReanchorEvery ELSE countdown - 1
     /\ pos' = Wanted(from, delta)
     /\ Inject(injected, sent)
     /\ wasUltra' = FALSE
     /\ doubt' = (lost \/ Unreliable(read) \/ (doubt /\ ~Taken(read)))
     /\ calm' = IF lost \/ Unreliable(read) THEN 0
                ELSE Lesser(calm + 1, ReanchorEvery)
     /\ UNCHANGED ultra

MoveInUltra(delta, sent) ==
  /\ ultra /\ delta # Zero
  /\ Inject(delta, sent)
  /\ wasUltra' = TRUE
  /\ calm' = 0
  /\ UNCHANGED <<havePos, pos, countdown, ultra, doubt>>

MouseMoveRelative ==
  \E delta \in [Axes -> Deltas], sent \in BOOLEAN :
    \/ \E read \in BOOLEAN : MoveOnDesktop(delta, read, sent)
    \/ MoveInUltra(delta, sent)

----------------------------------------------------------------------------
\* The others.

\* Some pixel of the monitor; pos does not follow.
MouseMoveAbsolute ==
  /\ Len(trail) < TrailLimit
  /\ \E p \in Monitor : trail' = Append(trail, p)
  /\ doubt' = TRUE /\ calm' = 0
  /\ UNCHANGED <<havePos, pos, countdown, ultra, wasUltra>>

\* The control message, or ReleaseAll turning it off.
SetUltraMode(enabled) ==
  /\ ultra' = enabled
  /\ UNCHANGED <<havePos, pos, countdown, wasUltra, trail, doubt, calm>>

\* A game recentres the pointer, or another device moves it.
MovedByOthers ==
  /\ Len(trail) < TrailLimit
  /\ \E p \in Desktop : trail' = Append(trail, p)
  /\ doubt' = TRUE /\ calm' = 0
  /\ UNCHANGED <<havePos, pos, countdown, ultra, wasUltra>>

\* Windows applies the oldest move under way.
Applied ==
  /\ Len(trail) > 1
  /\ trail' = Tail(trail)
  /\ UNCHANGED <<havePos, pos, countdown, ultra, wasUltra, doubt, calm>>

Next ==
  \/ MouseMoveRelative
  \/ MouseMoveAbsolute
  \/ \E enabled \in BOOLEAN : SetUltraMode(enabled)
  \/ MovedByOthers
  \/ Applied

Spec == Init /\ [][Next]_vars
----------------------------------------------------------------------------
\* The host works with a believed position: the last move was a desktop one.
Tracking == havePos /\ ~wasUltra

(***************************************************************************)
(* The believed position is where the pointer will come to rest, and that  *)
(* is on the captured monitor, unless the pointer was moved by an absolute *)
(* move or from outside, a move was refused, or GetCursorPos was read with *)
(* moves under way.  Neither a session of ultra mode, in whatever order    *)
(* its toggles meet the moves, nor the periodic re-anchoring breaks it.    *)
(***************************************************************************)
TracksPointer == Tracking /\ ~doubt => Settled = pos /\ Settled \in Monitor

(***************************************************************************)
(* Whatever has put the believed position wrong, kReanchorEvery desktop    *)
(* moves later it is right again to within kReanchorDivergePx, in every    *)
(* coordinate: the errors the code tolerates between two re-anchors do not *)
(* add up, and the clamp at the edges of monitor and desktop adds none.    *)
(***************************************************************************)
DriftBounded ==
  Tracking /\ calm = ReanchorEvery => ~Diverged(Settled, pos)
============================================================================
