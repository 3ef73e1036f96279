----------------------------- MODULE HeldInput -----------------------------
(***************************************************************************)
(* The host's input path: InputDispatcher (input_dispatcher.cpp) driving   *)
(* Win32InputInjector (win32_input_injector.cpp) and the virtual gamepads  *)
(* (vigem_gamepad_sink.cpp).                                               *)
(*                                                                         *)
(* Several threads meet here.  Every event of the client arrives on one    *)
(* libwebrtc thread, Net.  ReleaseAll is called from Net itself (the peer  *)
(* connection is disconnected or failed), from the signaling client's      *)
(* thread (the broker says the client left) and from Main at shutdown.     *)
(* The injector's mutex covers the set of held inputs and nothing else:    *)
(* SendInput is called after the unlock, so an update of the set and its   *)
(* effect on the desktop are two steps with other threads in between.      *)
(*                                                                         *)
(* The "input" data channel is unordered with no retransmission, so the    *)
(* events that reach the host are any sequence of presses and lifts: the   *)
(* model takes any event at any time, which covers loss and reordering.    *)
(***************************************************************************)
EXTENDS FiniteSets

CONSTANTS
  Keys,             \* key tokens: scan code and extended flag
  Buttons,          \* mouse buttons ButtonFlagsFor knows, others are dropped
  Pads,             \* gamepad indexes below kMaxPads
  Net,              \* the libwebrtc thread that delivers input
  Main,             \* the main thread
  Callers,          \* other threads that call ReleaseAll (signaling client)
  MouseEnabled,     \* config: input.mouse
  KeyboardEnabled   \* config: input.keyboard

ASSUME ThreadsAssumption ==
  /\ Net # Main
  /\ Net \notin Callers
  /\ Main \notin Callers

ASSUME InputsAssumption ==
  /\ Keys \cap Buttons = {}
  /\ MouseEnabled \in BOOLEAN
  /\ KeyboardEnabled \in BOOLEAN

Threads == {Net, Main} \cup Callers
Inputs == Keys \cup Buttons

VARIABLES
  held,       \* held_keys_ and held_buttons_, guarded by mutex_
  pc,         \* where each thread is inside the dispatcher
  list,       \* the inputs a thread's next SendInput call is about
  ultra,      \* ultra_mode_
  pads,       \* indexes with pads_[i] # nullptr: plugged virtual gamepads
  open,       \* the peer's data channels can still deliver to Net
  desk,       \* what the desktop sees as down (external)
  elevated,   \* a UAC prompt or the lock screen is in front (external)
  raced,      \* history: presses whose tracking was cleared before SendInput
  refused     \* history: inputs whose release SendInput did not deliver

vars == <<held, pc, list, ultra, pads, open, desk, elevated, raced, refused>>

Locations ==
  {"idle", "sendDown", "sendUp", "sendRelease", "ultraOff", "padsOff", "done"}

TypeOK ==
  /\ held \subseteq Inputs
  /\ pc \in [Threads -> Locations]
  /\ list \in [Threads -> SUBSET Inputs]
  /\ ultra \in BOOLEAN
  /\ pads \subseteq Pads
  /\ open \in BOOLEAN
  /\ desk \subseteq Inputs
  /\ elevated \in BOOLEAN
  /\ raced \subseteq Inputs
  /\ refused \subseteq Inputs

Init ==
  /\ held = {}
  /\ pc = [t \in Threads |-> "idle"]
  /\ list = [t \in Threads |-> {}]
  /\ ultra = FALSE
  /\ pads = {}
  /\ open = TRUE
  /\ desk = {}
  /\ elevated = FALSE
  /\ raced = {}
  /\ refused = {}

\* The inputs Key and MouseButton do not return early on.
Injectable ==
  (IF KeyboardEnabled THEN Keys ELSE {}) \cup
  (IF MouseEnabled THEN Buttons ELSE {})

\* SendInput delivers everything, unless a window of higher integrity is in
\* front: then it delivers some of the call, often nothing, and Send only logs.
Delivered(inputs) == IF elevated THEN SUBSET inputs ELSE {inputs}

\* The press Net has tracked and not yet handed to SendInput.
Underway == IF pc[Net] = "sendDown" THEN list[Net] ELSE {}

Goto(t, location) == pc' = [pc EXCEPT ![t] = location]

----------------------------------------------------------------------------
\* Key and MouseButton, on Net: the critical section ...

\* Mutant: a press while another input is held is not recorded.
TrackOneAtATime(i, down) ==
  /\ open
  /\ pc[Net] = "idle"
  /\ i \in Injectable
  /\ held' = IF ~down THEN held \ {i} ELSE IF held = {} THEN {i} ELSE held
  /\ list' = [list EXCEPT ![Net] = {i}]
  /\ Goto(Net, IF down THEN "sendDown" ELSE "sendUp")
  /\ UNCHANGED <<ultra, pads, open, desk, elevated, raced, refused>>

Track(i, down) ==
  /\ open
  /\ pc[Net] = "idle"
  /\ i \in Injectable
  /\ held' = IF down THEN held \cup {i} ELSE held \ {i}
  /\ list' = [list EXCEPT ![Net] = {i}]
  /\ Goto(Net, IF down THEN "sendDown" ELSE "sendUp")
  /\ UNCHANGED <<ultra, pads, open, desk, elevated, raced, refused>>

\* ... and the SendInput call that follows it.

SendDown ==
  /\ pc[Net] = "sendDown"
  /\ \E d \in Delivered(list[Net]) : desk' = desk \cup d
  /\ Goto(Net, "idle")
  /\ UNCHANGED <<held, list, ultra, pads, open, elevated, raced, refused>>

SendUp ==
  /\ pc[Net] = "sendUp"
  /\ \E d \in Delivered(list[Net]) :
       /\ desk' = desk \ d
       /\ raced' = raced \ d
       /\ refused' = (refused \cup list[Net]) \ d
  /\ Goto(Net, "idle")
  /\ UNCHANGED <<held, list, ultra, pads, open, elevated>>

----------------------------------------------------------------------------
\* InputDispatcher::ReleaseAll on any thread: the injector's snapshot under
\* the mutex, one SendInput call with every lift, ultra mode off, pads off.

MayRelease(t) ==
  /\ pc[t] = "idle"
  /\ IF t = Main THEN ~open ELSE open

\* Mutant: only held_keys_ is snapshot, both sets are cleared.
ReleaseSnapshotKeys(t) ==
  /\ MayRelease(t)
  /\ list' = [list EXCEPT ![t] = held \cap Keys]
  /\ held' = {}
  /\ raced' = raced \cup Underway
  /\ Goto(t, IF held = {} THEN "ultraOff" ELSE "sendRelease")
  /\ UNCHANGED <<ultra, pads, open, desk, elevated, refused>>

ReleaseSnapshot(t) ==
  /\ MayRelease(t)
  /\ list' = [list EXCEPT ![t] = held]
  /\ held' = {}
  /\ raced' = raced \cup Underway
  /\ Goto(t, IF held = {} THEN "ultraOff" ELSE "sendRelease")
  /\ UNCHANGED <<ultra, pads, open, desk, elevated, refused>>

\* Mutant: the SendInput call stops at the buttons.
SendReleaseKeys(t) ==
  /\ pc[t] = "sendRelease"
  /\ \E d \in Delivered(list[t] \cap Keys) :
       /\ desk' = desk \ d
       /\ raced' = raced \ (d \ Underway)
       /\ refused' = (refused \cup (list[t] \cap Keys)) \ d
  /\ Goto(t, "ultraOff")
  /\ UNCHANGED <<held, list, ultra, pads, open, elevated>>

SendRelease(t) ==
  /\ pc[t] = "sendRelease"
  /\ \E d \in Delivered(list[t]) :
       /\ desk' = desk \ d
       /\ raced' = raced \ (d \ Underway)
       /\ refused' = (refused \cup list[t]) \ d
  /\ Goto(t, "ultraOff")
  /\ UNCHANGED <<held, list, ultra, pads, open, elevated>>

\* Mutant: ultra mode outlives the session.
UltraKept(t) ==
  /\ pc[t] = "ultraOff"
  /\ Goto(t, "padsOff")
  /\ UNCHANGED <<held, list, ultra, pads, open, desk, elevated, raced, refused>>

UltraOff(t) ==
  /\ pc[t] = "ultraOff"
  /\ ultra' = FALSE
  /\ Goto(t, "padsOff")
  /\ UNCHANGED <<held, list, pads, open, desk, elevated, raced, refused>>

PadsOff(t) ==
  /\ pc[t] = "padsOff"
  /\ pads' = {}
  /\ Goto(t, IF t = Main THEN "done" ELSE "idle")
  /\ UNCHANGED <<held, list, ultra, open, desk, elevated, raced, refused>>

----------------------------------------------------------------------------
\* The other messages of the client, each complete in one step on Net.

\* OnMessage, "set-ultra-mode" on the control channel.
SetUltraMode(enabled) ==
  /\ open
  /\ pc[Net] = "idle"
  /\ ultra' = enabled
  /\ UNCHANGED <<held, pc, list, pads, open, desk, elevated, raced, refused>>

\* Mutant: the index is not compared with kMaxPads.
PlugPadUnchecked(p) ==
  /\ open
  /\ pc[Net] = "idle"
  /\ pads' \in {pads, pads \cup {p}, pads \cup {Cardinality(Pads)}}
  /\ UNCHANGED <<held, pc, list, ultra, open, desk, elevated, raced, refused>>

\* Connect, and Submit, which plugs in on demand; vigem_target_add may fail.
PlugPad(p) ==
  /\ open
  /\ pc[Net] = "idle"
  /\ pads' \in {pads, pads \cup {p}}
  /\ UNCHANGED <<held, pc, list, ultra, open, desk, elevated, raced, refused>>

\* Disconnect.
UnplugPad(p) ==
  /\ open
  /\ pc[Net] = "idle"
  /\ pads' = pads \ {p}
  /\ UNCHANGED <<held, pc, list, ultra, open, desk, elevated, raced, refused>>

----------------------------------------------------------------------------
\* main: the signaling client is stopped (its thread joined) and the peer is
\* closed (its observers unregistered, no callback left) before ReleaseAll.
CloseSession ==
  /\ open
  /\ \A t \in Threads : pc[t] = "idle"
  /\ open' = FALSE
  /\ UNCHANGED <<held, pc, list, ultra, pads, desk, elevated, raced, refused>>

\* A UAC prompt or the lock screen comes and goes.
Foreground ==
  /\ elevated' = ~elevated
  /\ UNCHANGED <<held, pc, list, ultra, pads, open, desk, raced, refused>>

----------------------------------------------------------------------------
Release(t) ==
  ReleaseSnapshot(t) \/ SendRelease(t) \/ UltraOff(t) \/ PadsOff(t)

Next ==
  \/ \E i \in Inputs, down \in BOOLEAN : Track(i, down)
  \/ SendDown
  \/ SendUp
  \/ \E t \in Threads : Release(t)
  \/ \E enabled \in BOOLEAN : SetUltraMode(enabled)
  \/ \E p \in Pads : PlugPad(p) \/ UnplugPad(p)
  \/ CloseSession
  \/ Foreground

Spec == Init /\ [][Next]_vars

\* Threads that are inside a call go on; the client, the user and the events
\* that make a thread call ReleaseAll owe nothing.  Main runs its shutdown.
Fairness ==
  /\ WF_vars(SendDown)
  /\ WF_vars(SendUp)
  /\ \A t \in Threads : WF_vars(SendRelease(t) \/ UltraOff(t) \/ PadsOff(t))
  /\ WF_vars(ReleaseSnapshot(Main))

FairSpec == Spec /\ Fairness
----------------------------------------------------------------------------
\* Inputs some thread has dropped from the held set and is about to lift.
Pending ==
  UNION {list[t] : t \in {u \in Threads : pc[u] \in {"sendUp", "sendRelease"}}}

(***************************************************************************)
(* The bookkeeping of Key, MouseButton and ReleaseAll is enough to lift    *)
(* whatever is down: an input the desktop sees as down is still tracked,   *)
(* or a thread is about to lift it, unless its lift was refused by the     *)
(* desktop or another thread's ReleaseAll took it off the held set between *)
(* the tracking of its press and the SendInput of it.  So those two are    *)
(* the only ways a key can be left latched.                                *)
(***************************************************************************)
Accounted == desk \subseteq held \cup Pending \cup raced \cup refused

(***************************************************************************)
(* main closes the peer before it calls ReleaseAll.  When that call is     *)
(* over nothing of the session is left: no tracked input, no thread with   *)
(* a lift to send, no ultra mode for the next session to inherit, no       *)
(* plugged gamepad, and on the desktop only what one of the two accidents  *)
(* above has lost.                                                         *)
(***************************************************************************)
SessionEndsClean ==
  pc[Main] = "done" =>
    /\ held = {}
    /\ Pending = {}
    /\ ~ultra
    /\ pads = {}
    /\ desk \subseteq raced \cup refused

(***************************************************************************)
(* Once main has closed the session every input still down is lifted, up   *)
(* to the two accidents, and stays up.                                     *)
(***************************************************************************)
ShutdownLifts == ~open ~> [](desk \subseteq raced \cup refused)

(***************************************************************************)
(* What win32_input_injector.h says of ReleaseAll: it releases every key   *)
(* and button currently held, so none stays down on the remote desktop.    *)
(* With every thread out of the dispatcher and no refusal by the desktop,  *)
(* whatever is down should still be known to the host.                     *)
(***************************************************************************)
ReleaseAllLeavesNothing ==
  (/\ \A t \in Threads : pc[t] \in {"idle", "done"}
   /\ refused = {}) => desk \subseteq held

----------------------------------------------------------------------------
\* The promise this component makes to the rest of the host.
Promise == INSTANCE LiftPromise WITH
  owed <- held \cup Pending,
  excused <- raced \cup refused

PromiseKept == Promise!Spec
============================================================================
