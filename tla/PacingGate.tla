----------------------------- MODULE PacingGate -----------------------------
(***************************************************************************)
(* The two clocks of DesktopCaptureSource::CaptureLoop                     *)
(* (desktop_capture_source.cpp): the send deadline, which decides whether  *)
(* a frame is broadcast or dropped, and next_wake, which keeps the loop    *)
(* from spinning.  One unit of time is a microsecond in the code; capture, *)
(* broadcasting and sleeping take as long as they take (Tick).             *)
(*                                                                         *)
(* The gate is a part of the loop that module Capture models; the names    *)
(* say Gate so that a module can extend both.                              *)
(*                                                                         *)
(* mark and since are a history: since counts the frames broadcast from a  *)
(* moment that an observer picks at will.                                  *)
(***************************************************************************)
EXTENDS Integers

CONSTANTS
  Interval,   \* interval_us
  Slack,      \* how early a frame may be: 1000 us
  MaxTime     \* bound on the clock

ASSUME PacingAssumption ==
  /\ Interval \in Nat \ {0}
  /\ Slack \in Nat
  /\ MaxTime \in Nat \ {0}

VARIABLES
  now,        \* NowUs(), and steady_clock
  deadline,   \* send_deadline_us, 0 before the first frame
  nextWake,   \* next_wake
  emitted,    \* the loop is past the gate and before its final sleep
  mark,       \* history: when the observer's window begins
  since       \* history: frames broadcast in it

gateVars == <<now, deadline, nextWake, emitted, mark, since>>

GateTypeOK ==
  /\ now \in Nat \ {0}
  /\ deadline \in Nat
  /\ nextWake \in Nat
  /\ emitted \in BOOLEAN
  /\ mark \in Nat
  /\ since \in Nat

GateInit ==
  /\ now = 1
  /\ deadline = 0
  /\ nextWake = 1
  /\ emitted = FALSE
  /\ mark = 1
  /\ since = 0

Tick ==
  /\ now < MaxTime
  /\ now' = now + 1
  /\ UNCHANGED <<deadline, nextWake, emitted, mark, since>>

----------------------------------------------------------------------------
\* The deadline the gate compares with; the first frame primes it.
Due == IF deadline = 0 THEN now ELSE deadline

\* Mutant: the deadline trails a stall.
AdvanceNoClamp(due) == due + Interval

\* The deadline after a broadcast: one interval on, and after a stall not
\* more than one interval behind.
Advance(due) ==
  IF due + Interval < now - Interval THEN now ELSE due + Interval

\* Mutant: a dropped frame moves the deadline too.
PassGateAlwaysAdvances ==
  /\ ~emitted
  /\ emitted' = TRUE
  /\ deadline' = Advance(Due)
  /\ since' = IF now + Slack < Due THEN since ELSE since + 1
  /\ UNCHANGED <<now, nextWake, mark>>

\* Mutant: the first frame sets the deadline an interval early.
PassGatePrimesEarly ==
  /\ ~emitted
  /\ emitted' = TRUE
  /\ deadline' = IF deadline = 0 THEN now - Interval ELSE Advance(Due)
  /\ since' = since + 1
  /\ UNCHANGED <<now, nextWake, mark>>

\* A captured texture: broadcast, or dropped when it is ahead of schedule.
PassGate ==
  /\ ~emitted
  /\ emitted' = TRUE
  /\ IF now + Slack < Due
     THEN deadline' = Due /\ UNCHANGED since
     ELSE deadline' = Advance(Due) /\ since' = since + 1
  /\ UNCHANGED <<now, nextWake, mark>>

\* ... and the sleep at the end of that iteration.
Later(a, b) == IF a < b THEN b ELSE a

Wake ==
  /\ emitted
  /\ emitted' = FALSE
  /\ nextWake' = Later(nextWake + Interval, now)
  /\ now' = Later(nextWake + Interval, now)
  /\ now' <= MaxTime
  /\ UNCHANGED <<deadline, mark, since>>

\* Mutant: an iteration without a texture does not sleep.
SkipNoSleep ==
  /\ ~emitted
  /\ now < MaxTime
  /\ nextWake' = nextWake + Interval
  /\ nextWake <= MaxTime
  /\ UNCHANGED <<now, deadline, emitted, mark, since>>

\* No texture yet: sleep until next_wake, which then moves on.
Skip ==
  /\ ~emitted
  /\ now' = Later(nextWake, now)
  /\ now' <= MaxTime
  /\ nextWake' = nextWake + Interval
  /\ UNCHANGED <<deadline, emitted, mark, since>>

----------------------------------------------------------------------------
\* The observer begins to count.
StartWindow ==
  /\ mark' = now
  /\ since' = 0
  /\ UNCHANGED <<now, deadline, nextWake, emitted>>

GateNext == Tick \/ PassGate \/ Wake \/ Skip \/ StartWindow

GateSpec == GateInit /\ [][GateNext]_gateVars
----------------------------------------------------------------------------
(***************************************************************************)
(* Every frame broadcast books an interval: however long a stall was, the  *)
(* deadline is within two intervals of what the frames sent since any      *)
(* moment have used up.  This is what keeps the frames after a stall from  *)
(* being burst into the receiver's jitter buffer, whether or not the sleep *)
(* at the end of the loop slows them too.                                  *)
(***************************************************************************)
FramesAreBooked == since > 0 => deadline >= mark + (since - 2) * Interval

(***************************************************************************)
(* What follows for the rate: a window of W microseconds sees at most      *)
(* three frames more than (W + Slack) / Interval.                          *)
(***************************************************************************)
RateBounded == (since - 3) * Interval <= now + Slack - mark

(***************************************************************************)
(* The gate cannot shut for good: the deadline is at most one interval and *)
(* the slack ahead, so a frame that comes an interval later is broadcast.  *)
(***************************************************************************)
GateReopens == deadline <= now + Slack + Interval

(***************************************************************************)
(* The loop is never asleep for longer than two intervals, on either path, *)
(* so it looks at running_ again: next_wake is at most one ahead.          *)
(***************************************************************************)
WakeBounded == nextWake <= now + Interval
============================================================================
