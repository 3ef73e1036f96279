-------------------------- MODULE HeldInputProofs --------------------------
(***************************************************************************)
(* Proofs about HeldInput, for any keys, buttons, gamepads and threads:    *)
(* the typing, that every input that is down is accounted for, that a      *)
(* session ends clean, and that the module implements LiftPromise.         *)
(***************************************************************************)
EXTENDS HeldInput, TLAPS

(***************************************************************************)
(* The variables keep their types, whatever the order of the threads.      *)
(***************************************************************************)
THEOREM Typing == Spec => []TypeOK
<1>1. Init => TypeOK
  BY DEF Init, TypeOK, Locations
<1>2. TypeOK /\ [Next]_vars => TypeOK'
  <2> SUFFICES ASSUME TypeOK, [Next]_vars PROVE TypeOK'
    OBVIOUS
  <2> USE DEF TypeOK, Locations, Goto, Delivered, Underway
  <2>1. ASSUME NEW i \in Inputs, NEW down \in BOOLEAN, Track(i, down)
        PROVE TypeOK'
    BY <2>1 DEF Track
  <2>2. CASE SendDown
    BY <2>2 DEF SendDown, Threads
  <2>3. CASE SendUp
    BY <2>3 DEF SendUp, Threads
  <2>4. ASSUME NEW t \in Threads, Release(t) PROVE TypeOK'
    <3>1. CASE ReleaseSnapshot(t)  BY <3>1 DEF ReleaseSnapshot, Threads
    <3>2. CASE SendRelease(t)      BY <3>2 DEF SendRelease
    <3>3. CASE UltraOff(t)         BY <3>3 DEF UltraOff
    <3>4. CASE PadsOff(t)          BY <3>4 DEF PadsOff
    <3> QED  BY <2>4, <3>1, <3>2, <3>3, <3>4 DEF Release
  <2>5. ASSUME NEW enabled \in BOOLEAN, SetUltraMode(enabled) PROVE TypeOK'
    BY <2>5 DEF SetUltraMode
  <2>6. ASSUME NEW p \in Pads, PlugPad(p) \/ UnplugPad(p) PROVE TypeOK'
    BY <2>6 DEF PlugPad, UnplugPad
  <2>7. CASE CloseSession  BY <2>7 DEF CloseSession
  <2>8. CASE Foreground    BY <2>8 DEF Foreground
  <2>9. CASE UNCHANGED vars  BY <2>9 DEF vars
  <2> QED
    BY <2>1, <2>2, <2>3, <2>4, <2>5, <2>6, <2>7, <2>8, <2>9 DEF Next
<1> QED
  BY <1>1, <1>2, PTL DEF Spec

----------------------------------------------------------------------------
\* Membership in Pending, spelled out.
LEMMA InPending ==
  ASSUME NEW i
  PROVE  i \in Pending <=>
           \E t \in Threads : /\ pc[t] \in {"sendUp", "sendRelease"}
                              /\ i \in list[t]
BY DEF Pending

(***************************************************************************)
(* The same in the next state.                                             *)
(***************************************************************************)
LEMMA InPendingNext ==
  ASSUME NEW i
  PROVE  i \in Pending' <=>
           \E t \in Threads : /\ pc'[t] \in {"sendUp", "sendRelease"}
                              /\ i \in list'[t]
BY DEF Pending

\* What one step of a lift does to the inputs that are about to be lifted:
\* only those of the lifting thread leave.
LEMMA LiftLeaves ==
  ASSUME TypeOK, NEW t \in Threads, NEW location,
         pc' = [pc EXCEPT ![t] = location], UNCHANGED list,
         NEW i \in Pending
  PROVE  i \in list[t] \/ i \in Pending'
<1>1. PICK u \in Threads : pc[u] \in {"sendUp", "sendRelease"} /\ i \in list[u]
  BY InPending
<1>2. CASE u = t
  BY <1>1, <1>2
<1>3. CASE u # t
  <2>1. pc'[u] = pc[u]
    BY <1>3 DEF TypeOK
  <2> QED
    BY <1>1, <2>1, InPendingNext
<1> QED
  BY <1>2, <1>3

\* A thread that is not lifting can move anywhere: nothing leaves Pending.
LEMMA PendingStays ==
  ASSUME TypeOK, NEW t \in Threads, NEW location,
         pc[t] \notin {"sendUp", "sendRelease"},
         pc' = [pc EXCEPT ![t] = location],
         \A u \in Threads \ {t} : list'[u] = list[u]
  PROVE  Pending \subseteq Pending'
<1> SUFFICES ASSUME NEW i \in Pending PROVE i \in Pending'
  OBVIOUS
<1>1. PICK u \in Threads : pc[u] \in {"sendUp", "sendRelease"} /\ i \in list[u]
  BY InPending
<1>2. u # t /\ pc'[u] = pc[u] /\ list'[u] = list[u]
  BY <1>1 DEF TypeOK
<1> QED
  BY <1>1, <1>2, InPendingNext

----------------------------------------------------------------------------
\* What shutdown relies on: only Net tracks and sends single events, a closed
\* session leaves every thread but Main outside, and Main is on its way
\* through ReleaseAll with what it has already given up still given up.
ShutdownInv ==
  /\ \A t \in Threads \ {Net} : pc[t] \notin {"sendDown", "sendUp"}
  /\ \A t \in Threads \ {Main} : pc[t] # "done" /\ (~open => pc[t] = "idle")
  /\ open => pc[Main] = "idle"
  /\ pc[Main] # "idle" => held = {}
  /\ pc[Main] \in {"padsOff", "done"} => ~ultra
  /\ pc[Main] = "done" => pads = {}

(***************************************************************************)
(* Every step keeps main's way through its last ReleaseAll.                *)
(***************************************************************************)
LEMMA ShutdownStep ==
  TypeOK /\ ShutdownInv /\ [Next]_vars => ShutdownInv'
<1> SUFFICES ASSUME TypeOK, ShutdownInv, [Next]_vars PROVE ShutdownInv'
  OBVIOUS
<1> USE ThreadsAssumption DEF ShutdownInv, TypeOK, Goto, Threads
<1>1. ASSUME NEW i \in Inputs, NEW down \in BOOLEAN, Track(i, down)
      PROVE ShutdownInv'
  BY <1>1 DEF Track
<1>2. CASE SendDown  BY <1>2 DEF SendDown
<1>3. CASE SendUp    BY <1>3 DEF SendUp
<1>4. ASSUME NEW t \in Threads, Release(t) PROVE ShutdownInv'
  <2>1. CASE ReleaseSnapshot(t)
    BY <2>1 DEF ReleaseSnapshot, MayRelease
  <2>2. CASE SendRelease(t)      BY <2>2 DEF SendRelease
  <2>3. CASE UltraOff(t)         BY <2>3 DEF UltraOff
  <2>4. CASE PadsOff(t)          BY <2>4 DEF PadsOff
  <2> QED  BY <1>4, <2>1, <2>2, <2>3, <2>4 DEF Release
<1>5. ASSUME NEW enabled \in BOOLEAN, SetUltraMode(enabled) PROVE ShutdownInv'
  BY <1>5 DEF SetUltraMode
<1>6. ASSUME NEW p \in Pads, PlugPad(p) \/ UnplugPad(p) PROVE ShutdownInv'
  BY <1>6 DEF PlugPad, UnplugPad
<1>7. CASE CloseSession     BY <1>7 DEF CloseSession
<1>8. CASE Foreground       BY <1>8 DEF Foreground
<1>9. CASE UNCHANGED vars   BY <1>9 DEF vars
<1> QED
  BY <1>1, <1>2, <1>3, <1>4, <1>5, <1>6, <1>7, <1>8, <1>9 DEF Next

----------------------------------------------------------------------------
\* A press between its tracking and its SendInput is tracked or raced: what
\* Accounted needs to be inductive.
UnderwayCovered == Underway \subseteq held \cup raced

(***************************************************************************)
(* Every step keeps the press under way tracked or counted as raced.       *)
(***************************************************************************)
LEMMA UnderwayStep ==
  TypeOK /\ ShutdownInv /\ UnderwayCovered /\ [Next]_vars => UnderwayCovered'
<1> SUFFICES ASSUME TypeOK, ShutdownInv, UnderwayCovered, [Next]_vars
             PROVE  UnderwayCovered'
  OBVIOUS
<1> USE DEF UnderwayCovered, Underway, TypeOK, Goto
<1>n. Net \in Threads
  BY DEF Threads
<1>1. ASSUME NEW i \in Inputs, NEW down \in BOOLEAN, Track(i, down)
      PROVE UnderwayCovered'
  BY <1>1, <1>n DEF Track
<1>2. CASE SendDown  BY <1>2, <1>n DEF SendDown
<1>3. CASE SendUp    BY <1>3, <1>n DEF SendUp
<1>4. ASSUME NEW t \in Threads, Release(t) PROVE UnderwayCovered'
  <2>1. CASE ReleaseSnapshot(t)
    BY <2>1, <1>n DEF ReleaseSnapshot, MayRelease
  <2>2. CASE SendRelease(t)
    BY <2>2, <1>n DEF SendRelease
  <2>3. CASE UltraOff(t)
    BY <2>3, <1>n DEF UltraOff
  <2>4. CASE PadsOff(t)
    BY <2>4, <1>n DEF PadsOff
  <2> QED  BY <1>4, <2>1, <2>2, <2>3, <2>4 DEF Release
<1>5. CASE UNCHANGED <<held, pc, list, raced>>
  BY <1>5
<1> QED
  BY <1>1, <1>2, <1>3, <1>4, <1>5
     DEF Next, SetUltraMode, PlugPad, UnplugPad, CloseSession, Foreground, vars

(***************************************************************************)
(* Every input that is down on the desktop is tracked, about to be lifted, *)
(* refused by the desktop or raced.                                        *)
(***************************************************************************)
LEMMA AccountedStep ==
  TypeOK /\ UnderwayCovered /\ Accounted /\ [Next]_vars => Accounted'
<1> SUFFICES ASSUME TypeOK, UnderwayCovered, Accounted, [Next]_vars,
                    NEW i \in desk'
             PROVE  i \in held' \/ i \in Pending' \/ i \in raced' \/ i \in refused'
  BY DEF Accounted
<1>a. i \in desk => i \in held \/ i \in Pending \/ i \in raced \/ i \in refused
  BY DEF Accounted
<1>n. Net \in Threads
  BY DEF Threads
<1>1. ASSUME NEW j \in Inputs, NEW down \in BOOLEAN, Track(j, down)
      PROVE i \in held' \/ i \in Pending' \/ i \in raced' \/ i \in refused'
  <2>1. i \in desk /\ raced' = raced /\ refused' = refused
    BY <1>1 DEF Track
  <2>2. Pending \subseteq Pending'
    <3>1. pc[Net] \notin {"sendUp", "sendRelease"}
      BY <1>1 DEF Track
    <3>2. \A u \in Threads \ {Net} : list'[u] = list[u]
      BY <1>1 DEF Track, TypeOK
    <3>3. pc' = [pc EXCEPT ![Net] = IF down THEN "sendDown" ELSE "sendUp"]
      BY <1>1 DEF Track, Goto
    <3> QED  BY <1>n, <3>1, <3>2, <3>3, PendingStays
  <2>3. CASE i # j
    BY <1>1, <1>a, <2>1, <2>2, <2>3 DEF Track
  <2>4. CASE i = j /\ down
    BY <1>1, <2>4 DEF Track
  <2>5. CASE i = j /\ ~down
    <3>1. pc'[Net] = "sendUp" /\ list'[Net] = {i}
      BY <1>1, <1>n, <2>5 DEF Track, Goto, TypeOK
    <3> QED  BY <1>n, <3>1, InPendingNext
  <2> QED  BY <2>3, <2>4, <2>5
<1>2. CASE SendDown
  <2>1. PICK d \in Delivered(list[Net]) :
          desk' = desk \cup d
    BY <1>2 DEF SendDown
  <2>2. Pending \subseteq Pending'
    BY <1>2, <1>n, PendingStays DEF SendDown, Goto
  <2>3. d \subseteq held \cup raced
    BY <1>2, <2>1 DEF SendDown, Delivered, UnderwayCovered, Underway
  <2> QED  BY <1>2, <1>a, <2>1, <2>2, <2>3 DEF SendDown
<1>3. ASSUME NEW t \in Threads, NEW location,
             pc' = [pc EXCEPT ![t] = location], UNCHANGED <<list, held>>,
             NEW d, desk' = desk \ d, raced \ d \subseteq raced',
             refused' = (refused \cup list[t]) \ d
      PROVE i \in held' \/ i \in Pending' \/ i \in raced' \/ i \in refused'
  <2>1. i \in desk /\ i \notin d
    BY <1>3
  <2>2. i \in Pending => i \in list[t] \/ i \in Pending'
    BY <1>3, LiftLeaves
  <2> QED  BY <1>3, <1>a, <2>1, <2>2
<1>4. CASE SendUp
  BY <1>4, <1>n, <1>3 DEF SendUp, Goto
<1>5. ASSUME NEW t \in Threads, Release(t)
      PROVE i \in held' \/ i \in Pending' \/ i \in raced' \/ i \in refused'
  <2>1. CASE ReleaseSnapshot(t)
    <3>1. Pending \subseteq Pending'
      <4>1. pc[t] \notin {"sendUp", "sendRelease"}
        BY <2>1 DEF ReleaseSnapshot, MayRelease
      <4>2. \A u \in Threads \ {t} : list'[u] = list[u]
        BY <2>1 DEF ReleaseSnapshot, TypeOK
      <4>3. pc' = [pc EXCEPT ![t] =
                     IF held = {} THEN "ultraOff" ELSE "sendRelease"]
        BY <2>1 DEF ReleaseSnapshot, Goto
      <4> QED  BY <4>1, <4>2, <4>3, PendingStays
    <3>2. i \in held => i \in Pending'
      <4> SUFFICES ASSUME i \in held PROVE i \in Pending'
        OBVIOUS
      <4>1. pc'[t] = "sendRelease" /\ list'[t] = held
        BY <2>1 DEF ReleaseSnapshot, Goto, TypeOK
      <4> QED  BY <4>1, InPendingNext
    <3> QED  BY <2>1, <1>a, <3>1, <3>2 DEF ReleaseSnapshot
  <2>2. CASE SendRelease(t)
    <3>1. PICK d \in Delivered(list[t]) :
            /\ desk' = desk \ d
            /\ raced' = raced \ (d \ Underway)
            /\ refused' = (refused \cup list[t]) \ d
      BY <2>2 DEF SendRelease
    <3>2. pc' = [pc EXCEPT ![t] = "ultraOff"] /\ UNCHANGED <<list, held>>
      BY <2>2 DEF SendRelease, Goto
    <3> QED  BY <3>1, <3>2, <1>3
  <2>3. CASE UltraOff(t)
    <3>1. Pending \subseteq Pending'
      BY <2>3, PendingStays DEF UltraOff, Goto
    <3> QED  BY <2>3, <1>a, <3>1 DEF UltraOff
  <2>4. CASE PadsOff(t)
    <3>1. Pending \subseteq Pending'
      <4>1. pc' = [pc EXCEPT ![t] = IF t = Main THEN "done" ELSE "idle"]
        BY <2>4 DEF PadsOff, Goto
      <4> QED  BY <2>4, <4>1, PendingStays DEF PadsOff
    <3> QED  BY <2>4, <1>a, <3>1 DEF PadsOff
  <2> QED  BY <1>5, <2>1, <2>2, <2>3, <2>4 DEF Release
<1>6. CASE UNCHANGED <<held, pc, list, desk, raced, refused>>
  BY <1>6, <1>a, InPending, InPendingNext
<1> QED
  BY <1>1, <1>2, <1>4, <1>5, <1>6
     DEF Next, SetUltraMode, PlugPad, UnplugPad, CloseSession, Foreground, vars

----------------------------------------------------------------------------
(***************************************************************************)
(* No key or button is down that the host has lost sight of, other than    *)
(* one whose lift the desktop refused or whose press raced a ReleaseAll.   *)
(***************************************************************************)
THEOREM EveryDownInputIsAccountedFor == Spec => []Accounted
<1>1. Init => Accounted /\ UnderwayCovered /\ ShutdownInv
  BY ThreadsAssumption
     DEF Init, Accounted, UnderwayCovered, Underway, ShutdownInv, Threads
<1> QED
  BY <1>1, Typing, ShutdownStep, UnderwayStep, AccountedStep, PTL DEF Spec

(***************************************************************************)
(* After main's ReleaseAll nothing of the session is left, up to the two   *)
(* accidents (refused and raced).                                          *)
(***************************************************************************)
THEOREM ShutdownEndsClean == Spec => []SessionEndsClean
<1>1. Init => ShutdownInv
  BY ThreadsAssumption DEF Init, ShutdownInv, Threads
<1>2. TypeOK /\ ShutdownInv /\ Accounted => SessionEndsClean
  <2> SUFFICES ASSUME TypeOK, ShutdownInv, Accounted, pc[Main] = "done"
               PROVE  /\ held = {} /\ Pending = {} /\ ~ultra /\ pads = {}
                      /\ desk \subseteq raced \cup refused
    BY DEF SessionEndsClean
  <2>1. \A t \in Threads : pc[t] \notin {"sendUp", "sendRelease"}
    BY DEF ShutdownInv, TypeOK
  <2>2. Pending = {}
    BY <2>1, InPending
  <2> QED
    BY <2>2 DEF ShutdownInv, Accounted, TypeOK
<1> QED
  BY <1>1, <1>2, ShutdownStep, Typing, EveryDownInputIsAccountedFor, PTL
     DEF Spec

----------------------------------------------------------------------------
\* Every step of the input path is a step of LiftPromise or changes nothing
\* that LiftPromise sees.
LEMMA StepKeepsPromise ==
  TypeOK /\ UnderwayCovered /\ [Next]_vars =>
    [Promise!Next]_(Promise!absvars)
<1> SUFFICES ASSUME TypeOK, UnderwayCovered, [Next]_vars
             PROVE  Promise!Next \/ UNCHANGED Promise!absvars
  OBVIOUS
<1> DEFINE owed == held \cup Pending
           excused == raced \cup refused
<1>n. Net \in Threads /\ list[Net] \subseteq Inputs
  BY DEF Threads, TypeOK
<1>o. owed \subseteq Inputs
  BY InPending DEF TypeOK
<1>1. ASSUME NEW i \in Inputs, NEW down \in BOOLEAN, Track(i, down)
      PROVE Promise!Owe(i) \/ UNCHANGED Promise!absvars
  <2>1. UNCHANGED <<desk, excused>>
    BY <1>1 DEF Track
  <2>2. Pending \subseteq Pending'
    <3>1. pc[Net] \notin {"sendUp", "sendRelease"}
      BY <1>1 DEF Track
    <3>2. \A u \in Threads \ {Net} : list'[u] = list[u]
      BY <1>1 DEF Track, TypeOK
    <3>3. pc' = [pc EXCEPT ![Net] = IF down THEN "sendDown" ELSE "sendUp"]
      BY <1>1 DEF Track, Goto
    <3> QED  BY <1>n, <3>1, <3>2, <3>3, PendingStays
  <2>3. Pending' \subseteq Pending \cup (IF down THEN {} ELSE {i})
    <3> SUFFICES ASSUME NEW j \in Pending'
                 PROVE  j \in Pending \cup (IF down THEN {} ELSE {i})
      OBVIOUS
    <3>1. PICK u \in Threads :
            pc'[u] \in {"sendUp", "sendRelease"} /\ j \in list'[u]
      BY InPendingNext
    <3>2. CASE u = Net
      BY <3>1, <3>2, <1>1 DEF Track, Goto, TypeOK
    <3>3. CASE u # Net
      <4>1. pc'[u] = pc[u] /\ list'[u] = list[u]
        BY <3>3, <1>1 DEF Track, Goto, TypeOK
      <4> QED  BY <3>1, <4>1, InPending
    <3> QED  BY <3>2, <3>3
  <2>4. ~down => i \in Pending'
    <3> SUFFICES ASSUME ~down PROVE i \in Pending'
      OBVIOUS
    <3>1. pc'[Net] = "sendUp" /\ list'[Net] = {i}
      BY <1>1, <1>n DEF Track, Goto, TypeOK
    <3> QED  BY <1>n, <3>1, InPendingNext
  <2>5. owed' = owed \cup {i}
    BY <1>1, <2>2, <2>3, <2>4 DEF Track
  <2> QED
    BY <2>1, <2>5 DEF Promise!Owe
<1>2. CASE SendDown
  <2>1. PICK d \in Delivered(list[Net]) :
          desk' = desk \cup d
    BY <1>2 DEF SendDown
  <2>2. Pending' = Pending
    <3>1. Pending \subseteq Pending'
      BY <1>2, <1>n, PendingStays DEF SendDown, Goto
    <3>2. \A j \in Pending' : j \in Pending
      <4> SUFFICES ASSUME NEW j \in Pending' PROVE j \in Pending
        OBVIOUS
      <4>1. PICK u \in Threads :
              pc'[u] \in {"sendUp", "sendRelease"} /\ j \in list'[u]
        BY InPendingNext
      <4>2. u # Net /\ pc'[u] = pc[u] /\ list'[u] = list[u]
        BY <4>1, <1>2, <1>n DEF SendDown, Goto, TypeOK
      <4> QED  BY <4>1, <4>2, InPending
    <3> QED  BY <3>1, <3>2
  <2>3. d \subseteq Inputs
    BY <1>n, <2>1 DEF Delivered
  <2>4. d \subseteq held \cup raced
    BY <1>2, <2>1 DEF SendDown, Delivered, UnderwayCovered, Underway
  <2>5. Promise!Appear(d)
    BY <1>2, <2>1, <2>2, <2>4 DEF SendDown, Promise!Appear
  <2> QED
    BY <2>3, <2>5 DEF Promise!Next, Inputs
<1>3. ASSUME NEW t \in Threads, NEW location \in {"idle", "ultraOff"},
             pc[t] \in {"sendUp", "sendRelease"},
             pc' = [pc EXCEPT ![t] = location], UNCHANGED <<list, held>>,
             NEW d \in SUBSET list[t], desk' = desk \ d,
             raced \ d \subseteq raced', raced' \subseteq raced,
             refused' = (refused \cup list[t]) \ d
      PROVE Promise!Next
  <2>1. list[t] \subseteq Pending
    BY <1>3, InPending
  <2>2. \A j \in Pending : j \in list[t] \/ j \in Pending'
    BY <1>3, LiftLeaves
  <2>3. \A j \in Pending' : j \in Pending
    <3> SUFFICES ASSUME NEW j \in Pending' PROVE j \in Pending
      OBVIOUS
    <3>1. PICK u \in Threads :
            pc'[u] \in {"sendUp", "sendRelease"} /\ j \in list'[u]
      BY InPendingNext
    <3>2. pc[u] = pc'[u] /\ list'[u] = list[u]
      BY <1>3, <3>1 DEF TypeOK
    <3> QED  BY <3>1, <3>2, InPending
  <2>4. Promise!Settle(list[t], d)
    BY <1>3, <2>1, <2>2, <2>3 DEF Promise!Settle
  <2> QED
    BY <1>3, <2>4, <1>o, <2>1 DEF Promise!Next, Inputs
<1>4. \A t \in Threads : \A d \in Delivered(list[t]) : d \in SUBSET list[t]
  BY DEF Delivered
<1>5. CASE SendUp
  <2>1. PICK d \in Delivered(list[Net]) :
          /\ desk' = desk \ d
          /\ raced' = raced \ d
          /\ refused' = (refused \cup list[Net]) \ d
    BY <1>5 DEF SendUp
  <2>2. /\ pc[Net] = "sendUp"
        /\ pc' = [pc EXCEPT ![Net] = "idle"]
        /\ UNCHANGED <<list, held>>
    BY <1>5 DEF SendUp, Goto
  <2>3. d \in SUBSET list[Net]
    BY <1>4, <1>n
  <2> QED
    BY <2>1, <2>2, <2>3, <1>n, <1>3
<1>6. ASSUME NEW t \in Threads, Release(t)
      PROVE Promise!Next \/ UNCHANGED Promise!absvars
  <2>1. CASE ReleaseSnapshot(t)
    <3>1. pc[t] \notin {"sendUp", "sendRelease"}
      BY <2>1 DEF ReleaseSnapshot, MayRelease
    <3>2. \A u \in Threads \ {t} : pc'[u] = pc[u] /\ list'[u] = list[u]
      BY <2>1 DEF ReleaseSnapshot, Goto, TypeOK
    <3>3. /\ list'[t] = held
          /\ pc'[t] = IF held = {} THEN "ultraOff" ELSE "sendRelease"
      BY <2>1 DEF ReleaseSnapshot, Goto, TypeOK
    <3>4. \A j : j \in Pending' <=> j \in Pending \/ j \in held
      BY <3>1, <3>2, <3>3, InPending, InPendingNext
    <3>5. owed' = owed
      BY <2>1, <3>4 DEF ReleaseSnapshot
    <3>6. excused' = excused \cup (Underway \cap owed)
      BY <2>1 DEF ReleaseSnapshot, UnderwayCovered
    <3>7. Promise!Excuse(Underway \cap owed)
      BY <2>1, <3>5, <3>6 DEF ReleaseSnapshot, Promise!Excuse
    <3> QED
      BY <1>o, <3>7 DEF Promise!Next, Inputs
  <2>2. CASE SendRelease(t)
    <3>1. PICK d \in Delivered(list[t]) :
            /\ desk' = desk \ d
            /\ raced' = raced \ (d \ Underway)
            /\ refused' = (refused \cup list[t]) \ d
      BY <2>2 DEF SendRelease
    <3>2. /\ pc[t] = "sendRelease"
          /\ pc' = [pc EXCEPT ![t] = "ultraOff"]
          /\ UNCHANGED <<list, held>>
      BY <2>2 DEF SendRelease, Goto
    <3>3. d \in SUBSET list[t]
      BY <1>4
    <3> QED
      BY <3>1, <3>2, <3>3, <1>3
  <2>3. ASSUME NEW location,
               pc[t] \notin {"sendUp", "sendRelease"},
               location \notin {"sendUp", "sendRelease"},
               pc' = [pc EXCEPT ![t] = location], UNCHANGED list
        PROVE Pending' = Pending
    <3>1. \A u \in Threads : /\ list'[u] = list[u]
                             /\ u # t => pc'[u] = pc[u]
                             /\ pc'[t] = location
      BY <2>3 DEF TypeOK
    <3>2. \A j : j \in Pending' <=> j \in Pending
      BY <2>3, <3>1, InPending, InPendingNext
    <3> QED  BY <3>2
  <2>4. CASE UltraOff(t)
    <3>1. Pending' = Pending
      BY <2>4, <2>3 DEF UltraOff, Goto
    <3> QED  BY <2>4, <3>1 DEF UltraOff, Promise!absvars
  <2>5. CASE PadsOff(t)
    <3>1. pc' = [pc EXCEPT ![t] = IF t = Main THEN "done" ELSE "idle"]
      BY <2>5 DEF PadsOff, Goto
    <3>2. Pending' = Pending
      BY <2>5, <3>1, <2>3 DEF PadsOff
    <3> QED  BY <2>5, <3>2 DEF PadsOff, Promise!absvars
  <2> QED  BY <1>6, <2>1, <2>2, <2>4, <2>5 DEF Release
<1>7. CASE UNCHANGED <<held, pc, list, desk, raced, refused>>
  BY <1>7 DEF Promise!absvars, Pending
<1>8. ASSUME NEW i \in Inputs, Promise!Owe(i)
      PROVE Promise!Next
  BY <1>8 DEF Promise!Next, Inputs
<1> QED
  BY <1>1, <1>2, <1>5, <1>6, <1>7, <1>8
     DEF Next, SetUltraMode, PlugPad, UnplugPad, CloseSession, Foreground, vars

(***************************************************************************)
(* The threaded, locked code implements LiftPromise.                       *)
(***************************************************************************)
THEOREM ImplementsLiftPromise == Spec => PromiseKept
<1>1. Init => Promise!Init
  BY DEF Init, Promise!Init, Pending
<1>2. Init => UnderwayCovered /\ ShutdownInv
  BY ThreadsAssumption
     DEF Init, UnderwayCovered, Underway, ShutdownInv, Threads
<1> QED
  BY <1>1, <1>2, Typing, ShutdownStep, UnderwayStep, StepKeepsPromise, PTL
     DEF Spec, PromiseKept, Promise!Spec
============================================================================
