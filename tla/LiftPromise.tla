---------------------------- MODULE LiftPromise ----------------------------
(***************************************************************************)
(* What the input path promises, without threads, locks or calls: an       *)
(* input appears on the desktop only as something the host owes a lift     *)
(* for or has excused; an input comes up only because the host owed it;    *)
(* only a debt is excused, and it is given up only by paying or excusing.  *)
(* HeldInput implements this module.                                       *)
(***************************************************************************)
CONSTANTS Keys, Buttons

VARIABLES
  desk,      \* inputs that are down on the desktop
  owed,      \* inputs the host still knows it has to lift
  excused    \* inputs given up on

absvars == <<desk, owed, excused>>

Init ==
  /\ desk = {}
  /\ owed = {}
  /\ excused = {}

\* The host takes an input on, before the desktop sees it.
Owe(i) ==
  /\ owed' = owed \cup {i}
  /\ UNCHANGED <<desk, excused>>

\* An accident is about to happen to what the host owes.
Excuse(X) ==
  /\ X \subseteq owed
  /\ excused' = excused \cup X
  /\ UNCHANGED <<desk, owed>>

\* Inputs go down on the desktop.
Appear(S) ==
  /\ S \subseteq owed \cup excused
  /\ desk' = desk \cup S
  /\ UNCHANGED <<owed, excused>>

\* The host pays for S: D comes up, the rest of S is excused.
Settle(S, D) ==
  /\ S \subseteq owed
  /\ desk' = desk \ D
  /\ excused' \subseteq excused \cup S
  /\ (excused \cup S) \ D \subseteq excused'
  /\ owed' \subseteq owed
  /\ owed \ S \subseteq owed'

Next ==
  \/ \E i \in Keys \cup Buttons : Owe(i)
  \/ \E S \in SUBSET (Keys \cup Buttons) :
       \/ Excuse(S)
       \/ Appear(S)
       \/ \E D \in SUBSET S : Settle(S, D)

Spec == Init /\ [][Next]_absvars

============================================================================
