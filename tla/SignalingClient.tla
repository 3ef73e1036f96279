-------------------------- MODULE SignalingClient --------------------------
(***************************************************************************)
(* SignalingClient (signaling_client.cpp): one thread, Runner, connects to *)
(* the broker, registers and receives, and reconnects with backoff; other  *)
(* threads call Send; main calls Stop.  send_mutex_ guards the websocket   *)
(* handle in Send, in Stop and after the receive loop, and does not guard  *)
(* the Reset at the start of ConnectOnce and at the end of Stop.           *)
(*                                                                         *)
(* WinHTTP and the broker are external: connecting and sending may fail,   *)
(* a receive ends with data, with an error or with the broker's close, and *)
(* it is certain to end only once WinHttpWebSocketClose has been called.   *)
(* Time is counted in the 100 ms slices of the backoff.                    *)
(***************************************************************************)
EXTENDS Integers

CONSTANTS
  Runner,     \* the client's own thread
  Main,       \* the thread that calls Stop
  Senders     \* threads that call Send (libwebrtc's)

Threads == Senders \cup {Runner, Main}
Nobody == "nobody"

ASSUME ThreadsAssumption ==
  /\ Runner # Main
  /\ Runner \notin Senders
  /\ Main \notin Senders
  /\ Nobody \notin Threads

VARIABLES
  running,    \* running_
  run,        \* where Runner is
  stop,       \* where Main is
  mutex,      \* send_mutex_: the thread that holds it, or Nobody
  socket,     \* impl_->websocket: "null", "open", or "freed": not yet nulled
  goodbye,    \* WinHttpWebSocketClose was called on it
  inUse,      \* the handle each thread is inside a WinHTTP call with
  attempt,    \* attempt, which the code reads through min(attempt, 5)
  left,       \* slices of the backoff still to sleep
  unhealthy,  \* history: connections in a row that did not last
  quiet,      \* history: slices slept since the last of them ended
  refused     \* history: register could not be sent on the present handle

handleVars == <<mutex, socket, goodbye, inUse>>
backoffVars == <<attempt, left, unhealthy, quiet>>
vars == <<running, run, stop, handleVars, backoffVars, refused>>

MaxAttempt == 5
MaxSlices == 100

TypeOK ==
  /\ running \in BOOLEAN
  /\ run \in {"check", "reset", "opening", "register", "registering",
              "failed", "session", "receiving", "closing", "closed",
              "sleep", "exit"}
  /\ stop \in {"up", "lock", "close", "join", "reset", "done"}
  /\ mutex \in Threads \cup {Nobody}
  /\ socket \in {"null", "open", "freed"}
  /\ goodbye \in BOOLEAN
  /\ inUse \in [Threads -> {"none", "open", "freed"}]
  /\ attempt \in 0..MaxAttempt
  /\ left \in 0..MaxSlices
  /\ unhealthy \in 0..(MaxAttempt + 1)
  /\ quiet \in 0..MaxSlices
  /\ refused \in BOOLEAN

\* Start has been called.
Init ==
  /\ running = TRUE
  /\ run = "check"
  /\ stop = "up"
  /\ mutex = Nobody
  /\ socket = "null"
  /\ goodbye = FALSE
  /\ inUse = [t \in Threads |-> "none"]
  /\ attempt = 0 /\ left = 0 /\ unhealthy = 0 /\ quiet = 0
  /\ refused = FALSE

----------------------------------------------------------------------------
\* Using the websocket under send_mutex_.

Goto(from, to) == run = from /\ run' = to

Enter(t) ==
  /\ mutex = Nobody
  /\ mutex' = t
  /\ inUse' = [inUse EXCEPT ![t] = socket]
  /\ UNCHANGED <<socket, goodbye>>

Leave(t) ==
  /\ mutex = t
  /\ mutex' = Nobody
  /\ inUse' = [inUse EXCEPT ![t] = "none"]
  /\ UNCHANGED socket

\* Send on another thread: nothing to do without a websocket.
SendBegins(t) ==
  /\ socket # "null"
  /\ Enter(t)
  /\ UNCHANGED <<running, run, stop, backoffVars, refused>>

SendEnds(t) ==
  /\ Leave(t)
  /\ UNCHANGED <<running, run, stop, goodbye, backoffVars, refused>>

\* WinHttpCloseHandle, whoever is inside a call with the handle.
CloseHandle ==
  inUse' = [t \in Threads |-> IF inUse[t] = "open" THEN "freed" ELSE inUse[t]]

\* Impl::Reset without the mutex: the handle is closed, and then the pointer
\* is nulled.
FreeHandle ==
  /\ socket = "open"
  /\ socket' = "freed"
  /\ CloseHandle
  /\ UNCHANGED <<mutex, goodbye>>

NullHandle ==
  /\ socket # "open"
  /\ socket' = "null"
  /\ goodbye' = FALSE
  /\ refused' = FALSE
  /\ UNCHANGED <<mutex, inUse>>

----------------------------------------------------------------------------
\* Runner: the outer loop and ConnectOnce.

Check ==
  /\ run = "check"
  /\ run' = IF running THEN "reset" ELSE "exit"
  /\ UNCHANGED <<running, stop, handleVars, backoffVars, refused>>

ResetFrees ==
  /\ Goto("reset", "reset")
  /\ FreeHandle
  /\ UNCHANGED <<running, stop, backoffVars, refused>>

ResetNulls ==
  /\ Goto("reset", "opening")
  /\ NullHandle
  /\ UNCHANGED <<running, stop, backoffVars>>

\* Any of the WinHTTP calls up to the upgrade fails.
OpenFails ==
  /\ Goto("opening", "failed")
  /\ UNCHANGED <<running, stop, handleVars, backoffVars, refused>>

\* The upgrade: impl_->websocket is set, without the mutex, and from here on
\* other threads can send.
Upgraded ==
  /\ Goto("opening", "register")
  /\ socket' = "open"
  /\ UNCHANGED <<running, stop, mutex, goodbye, inUse, backoffVars, refused>>

RegisterBegins ==
  /\ Goto("register", "registering")
  /\ Enter(Runner)
  /\ UNCHANGED <<running, stop, backoffVars, refused>>

\* Mutant: a connection that registers clears the backoff.
RegisterClearsBackoff ==
  /\ run = "registering"
  /\ \E sent \in BOOLEAN :
       /\ run' = IF sent THEN "session" ELSE "failed"
       /\ refused' = ~sent
       /\ attempt' = IF sent THEN 0 ELSE attempt
  /\ Leave(Runner)
  /\ UNCHANGED <<running, stop, goodbye, left, unhealthy, quiet>>

\* The register message is sent, or not: then ConnectOnce returns false with
\* the websocket still set.
RegisterEnds ==
  /\ run = "registering"
  /\ \E sent \in BOOLEAN :
       /\ run' = IF sent THEN "session" ELSE "failed"
       /\ refused' = ~sent
  /\ Leave(Runner)
  /\ UNCHANGED <<running, stop, goodbye, backoffVars>>

----------------------------------------------------------------------------
\* Runner: the receive loop.

InSession ==
  /\ run = "session"
  /\ run' = IF running THEN "receiving" ELSE "closing"
  /\ UNCHANGED <<running, stop, handleVars, backoffVars, refused>>

\* A fragment, or a message and the handler it is given to.
Received ==
  /\ Goto("receiving", "session")
  /\ UNCHANGED <<running, stop, handleVars, backoffVars, refused>>

\* An error or the broker's close.
ReceiveEnds ==
  /\ Goto("receiving", "closing")
  /\ UNCHANGED <<running, stop, handleVars, backoffVars, refused>>

\* Mutant: the end of the receive loop resets without the mutex.
CloseSocketUnlocked ==
  /\ Goto("closing", "closed")
  /\ socket' = "null"
  /\ goodbye' = FALSE
  /\ CloseHandle
  /\ refused' = FALSE
  /\ UNCHANGED <<running, stop, mutex, backoffVars>>

\* Reset under the mutex.
CloseSocket ==
  /\ Goto("closing", "closed")
  /\ mutex = Nobody
  /\ socket' = "null"
  /\ goodbye' = FALSE
  /\ CloseHandle
  /\ refused' = FALSE
  /\ UNCHANGED <<running, stop, mutex, backoffVars>>

----------------------------------------------------------------------------
\* Runner: backoff.

Lesser(a, b) == IF a < b THEN a ELSE b

\* Mutant: no ten seconds' limit.
BaseSlicesUnlimited(n) == 5 * 2 ^ Lesser(n, MaxAttempt)

\* base_ms in slices: 500 ms doubled attempt times, at most 10 s.
BaseSlices(n) == Lesser(MaxSlices, 5 * 2 ^ Lesser(n, MaxAttempt))

\* The jitter draws from the upper half; the loop sleeps whole slices.
HalfSlices(n) == (BaseSlices(n) + 1) \div 2

BeginSleep ==
  /\ run' = "sleep"
  /\ left' \in {HalfSlices(attempt), BaseSlices(attempt)}
  /\ attempt' = Lesser(attempt + 1, MaxAttempt)
  /\ unhealthy' = Lesser(unhealthy + 1, MaxAttempt + 1)
  /\ quiet' = 0

\* Mutant: a failed connection ends the thread.
ConnectFailedEnds ==
  /\ Goto("failed", "exit")
  /\ UNCHANGED <<running, stop, handleVars, backoffVars, refused>>

ConnectFailed ==
  /\ run = "failed"
  /\ IF running THEN BeginSleep ELSE run' = "exit" /\ UNCHANGED backoffVars
  /\ UNCHANGED <<running, stop, handleVars, refused>>

\* The session is over; it counts as healthy when it lasted 5 s.
SessionOver ==
  /\ run = "closed"
  /\ \E healthy \in BOOLEAN :
       CASE ~running -> run' = "exit" /\ UNCHANGED backoffVars
         [] running /\ healthy ->
              /\ run' = "check"
              /\ attempt' = 0 /\ unhealthy' = 0
              /\ UNCHANGED <<left, quiet>>
         [] running /\ ~healthy -> BeginSleep
  /\ UNCHANGED <<running, stop, handleVars, refused>>

SleepSlice ==
  /\ run = "sleep" /\ left > 0 /\ running
  /\ left' = left - 1
  /\ quiet' = quiet + 1
  /\ UNCHANGED <<running, run, stop, handleVars, attempt, unhealthy, refused>>

WakeUp ==
  /\ Goto("sleep", "check")
  /\ left = 0 \/ ~running
  /\ left' = 0
  /\ UNCHANGED <<running, stop, handleVars, attempt, unhealthy, quiet, refused>>

----------------------------------------------------------------------------
\* Stop.

Halt(from, to) == stop = from /\ stop' = to

StopBegins ==
  /\ Halt("up", "lock")
  /\ running' = FALSE
  /\ UNCHANGED <<run, handleVars, backoffVars, refused>>

\* Mutant: Stop relies on running_ alone.
StopOnlyFlags ==
  /\ Halt("lock", "join")
  /\ UNCHANGED <<running, run, handleVars, backoffVars, refused>>

StopLocks ==
  /\ IF socket = "null"
     THEN /\ Halt("lock", "join")
          /\ mutex = Nobody
          /\ UNCHANGED handleVars
     ELSE /\ Halt("lock", "close")
          /\ Enter(Main)
  /\ UNCHANGED <<running, run, backoffVars, refused>>

SaysGoodbye ==
  /\ Halt("close", "join")
  /\ Leave(Main)
  /\ goodbye' = (socket = "open")
  /\ UNCHANGED <<running, run, backoffVars, refused>>

Joined ==
  /\ Halt("join", "reset")
  /\ run = "exit"
  /\ UNCHANGED <<running, run, handleVars, backoffVars, refused>>

StopFrees ==
  /\ Halt("reset", "reset")
  /\ FreeHandle
  /\ UNCHANGED <<running, run, backoffVars, refused>>

StopNulls ==
  /\ Halt("reset", "done")
  /\ NullHandle
  /\ UNCHANGED <<running, run, backoffVars>>

----------------------------------------------------------------------------
Connecting ==
  ResetFrees \/ ResetNulls \/ OpenFails \/ Upgraded \/ RegisterBegins \/ RegisterEnds
Session == InSession \/ CloseSocket
Backoff == ConnectFailed \/ SessionOver \/ SleepSlice \/ WakeUp
Stopping == StopLocks \/ SaysGoodbye \/ Joined \/ StopFrees \/ StopNulls

Next ==
  \/ Check \/ Connecting
  \/ Session \/ Received \/ ReceiveEnds
  \/ Backoff
  \/ StopBegins \/ Stopping
  \/ \E t \in Senders : SendBegins(t) \/ SendEnds(t)

Spec == Init /\ [][Next]_vars

(***************************************************************************)
(* WinHTTP's connect and send calls return (it has timeouts); a receive is *)
(* only certain to return after WinHttpWebSocketClose.  The handler a      *)
(* message is given to returns.  Threads that wait for send_mutex_ get it. *)
(***************************************************************************)
Fairness ==
  /\ WF_vars(Check)
  /\ SF_vars(Connecting)
  /\ SF_vars(Session)
  /\ WF_vars(ReceiveEnds /\ goodbye)
  /\ WF_vars(Backoff)
  /\ SF_vars(Stopping)
  /\ \A t \in Senders : WF_vars(SendEnds(t))

FairSpec == Spec /\ Fairness
----------------------------------------------------------------------------
(***************************************************************************)
(* signaling_client.h has send_mutex_ guard the handles, which a sender    *)
(* touches while the receive loop is blocked; so nobody should be inside a *)
(* WinHTTP call whose handle is closed.  Part of that promise is kept: the *)
(* handle of an established session is never closed under a caller, nor    *)
(* picked up by one after it is closed.  That can only happen to a handle  *)
(* on which the register message failed to go out, since it is left for    *)
(* the next unlocked Reset; a connection that registers afterwards is safe *)
(* again.  And Runner itself always receives on an open handle.            *)
(***************************************************************************)
HandleFreedOnlyAfterFailedRegister ==
  /\ [][\A t \in Threads :
          inUse[t] # "freed" /\ inUse'[t] = "freed" => refused]_vars
  /\ [](run \in {"session", "receiving"} => socket = "open")

(***************************************************************************)
(* No tight reconnect loop: a broker that refuses the connection, or       *)
(* accepts it and drops it, is met by at least half of a base delay that   *)
(* doubles with every connection in a row that did not last.  Only a       *)
(* session of 5 s earns an immediate retry.                                *)
(***************************************************************************)
NoTightReconnect ==
  [][run = "check" /\ run' = "reset" =>
       unhealthy = 0 \/ quiet >= HalfSlices(unhealthy - 1)]_vars

(***************************************************************************)
(* Stop returns, wherever Runner is: connecting, registering, about to     *)
(* receive, blocked in a receive, or sleeping.                             *)
(***************************************************************************)
StopReturns == ~running ~> stop = "done"

(***************************************************************************)
(* Until Stop, a lost connection is tried again: whatever fails, Runner    *)
(* comes back to ConnectOnce.                                              *)
(***************************************************************************)
TriesAgain == run \in {"failed", "closed"} ~> run = "opening" \/ ~running
============================================================================
