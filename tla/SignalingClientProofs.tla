------------------------ MODULE SignalingClientProofs ------------------------
(***************************************************************************)
(* Proofs about the signaling client, for any number of sending threads:   *)
(* its types, who may be inside a WinHTTP call with a closed handle, and   *)
(* the pause before every connection attempt.                              *)
(***************************************************************************)
EXTENDS SignalingClient, TLAPS

(***************************************************************************)
(* send_mutex_ does what it is for: a thread inside a WinHTTP call holds   *)
(* it, so there is one such thread at a time.                              *)
(***************************************************************************)
Occupied == \A t \in Threads : inUse[t] # "none" => mutex = t

(***************************************************************************)
(* Where Runner is tells whether there is a websocket.  Between the        *)
(* upgrade and the end of the session there is one; elsewhere one can only *)
(* be left over by a register message that failed on it, and on the next   *)
(* attempt it is gone.  main touches it unlocked only when Runner is gone. *)
(***************************************************************************)
Connected == {"register", "registering", "session", "receiving", "closing"}

SocketFollowsRunner ==
  /\ run \in Connected => socket = "open"
  /\ ~refused => socket # "freed" /\ (socket = "open" => run \in Connected)
  /\ refused => socket # "null" /\ run \notin Connected
  /\ run = "opening" => socket = "null"
  /\ stop \in {"reset", "done"} => run = "exit"

(***************************************************************************)
(* What has been slept and what is still to be slept together make at      *)
(* least half of the base delay the last failure asked for.                *)
(***************************************************************************)
BackoffBooked ==
  /\ left + quiet <= MaxSlices
  /\ attempt = Lesser(unhealthy, MaxAttempt)
  /\ run = "sleep" => unhealthy > 0 /\ left + quiet >= HalfSlices(unhealthy - 1)
  /\ run = "check" /\ running => unhealthy = 0 \/ quiet >= HalfSlices(unhealthy - 1)

SocketInv == Occupied /\ SocketFollowsRunner

IInv == TypeOK /\ SocketInv /\ BackoffBooked

----------------------------------------------------------------------------
(***************************************************************************)
(* The base delay of backoff_sleep, and the shortest sleep the jitter can  *)
(* draw from it, for every attempt the code tells apart.                   *)
(***************************************************************************)
LEMMA DelaysBounded ==
  ASSUME NEW n \in 0..MaxAttempt
  PROVE  /\ BaseSlices(n) \in 0..MaxSlices
         /\ HalfSlices(n) \in 0..MaxSlices
         /\ HalfSlices(n) <= BaseSlices(n)
<1> USE DEF BaseSlices, HalfSlices, Lesser, MaxAttempt, MaxSlices
<1>1. CASE n = 0
  BY <1>1
<1>2. CASE n = 1
  BY <1>2
<1>3. CASE n = 2
  BY <1>3
<1>4. CASE n = 3
  BY <1>4
<1>5. CASE n = 4
  BY <1>5
<1>6. CASE n = 5
  BY <1>6
<1> QED
  BY <1>1, <1>2, <1>3, <1>4, <1>5, <1>6

(***************************************************************************)
(* The client starts with no websocket, nobody in a call and no backoff.   *)
(***************************************************************************)
LEMMA InitEstablishes == Init => IInv
<1> SUFFICES ASSUME Init PROVE IInv
  OBVIOUS
<1>1. TypeOK
  <2>1. inUse \in [Threads -> {"none", "open", "freed"}]
    BY DEF Init
  <2>2. 0 \in 0..MaxAttempt /\ 0 \in 0..MaxSlices /\ 0 \in 0..(MaxAttempt + 1)
    BY DEF MaxAttempt, MaxSlices
  <2> QED
    BY <2>1, <2>2 DEF Init, TypeOK
<1>2. SocketInv
  BY DEF Init, SocketInv, Occupied, SocketFollowsRunner, Connected
<1>3. BackoffBooked
  BY DEF Init, BackoffBooked, MaxAttempt, MaxSlices, Lesser
<1> QED
  BY <1>1, <1>2, <1>3 DEF IInv

----------------------------------------------------------------------------
(***************************************************************************)
(* backoff_sleep: the sleep drawn is at least half the base delay of the   *)
(* connection that has just failed.                                        *)
(***************************************************************************)
LEMMA BeginSleepBooks ==
  ASSUME TypeOK, BackoffBooked, BeginSleep
  PROVE  /\ BackoffBooked'
         /\ attempt' \in 0..MaxAttempt /\ left' \in 0..MaxSlices
         /\ unhealthy' \in 0..(MaxAttempt + 1) /\ quiet' \in 0..MaxSlices
<1>1. /\ attempt \in 0..MaxAttempt /\ unhealthy \in 0..(MaxAttempt + 1)
      /\ attempt = Lesser(unhealthy, MaxAttempt)
  BY DEF TypeOK, BackoffBooked
<1>2. /\ attempt' \in 0..MaxAttempt /\ unhealthy' \in 0..(MaxAttempt + 1)
      /\ attempt' = Lesser(unhealthy', MaxAttempt)
      /\ unhealthy' > 0 /\ unhealthy' - 1 = attempt
  BY <1>1 DEF BeginSleep, Lesser, MaxAttempt
<1>3. PICK delay \in 0..MaxSlices : left' = delay /\ HalfSlices(attempt) <= delay
  BY <1>1, DelaysBounded DEF BeginSleep, MaxSlices
<1>4. run' = "sleep" /\ quiet' = 0 /\ 0 \in 0..MaxSlices
  BY DEF BeginSleep, MaxSlices
<1>5. delay + 0 <= MaxSlices /\ delay + 0 >= HalfSlices(attempt)
  <2>1. HalfSlices(attempt) \in 0..MaxSlices
    BY <1>1, DelaysBounded
  <2> QED
    BY <1>3, <2>1 DEF MaxSlices
<1>6. left' + quiet' <= MaxSlices /\ left' + quiet' >= HalfSlices(unhealthy' - 1)
  BY <1>2, <1>3, <1>4, <1>5, Zenon
<1>7. BackoffBooked'
  BY <1>2, <1>4, <1>6 DEF BackoffBooked
<1> QED
  BY <1>2, <1>3, <1>4, <1>7

(***************************************************************************)
(* Steps that stay clear of the backoff and do not lead back to the top of *)
(* the loop.                                                               *)
(***************************************************************************)
LEMMA BackoffUntouched ==
  ASSUME BackoffBooked, UNCHANGED backoffVars,
         run' = run \/ run' \notin {"sleep", "check"},
         running' => running
  PROVE  BackoffBooked'
BY DEF BackoffBooked, backoffVars

(***************************************************************************)
(* The counters stay in their bounds: the sum of what is slept and what is *)
(* left is what bounds the history of slept slices.                        *)
(***************************************************************************)
LEMMA CountersTyped ==
  ASSUME TypeOK, BackoffBooked, Next
  PROVE  /\ attempt' \in 0..MaxAttempt /\ left' \in 0..MaxSlices
         /\ unhealthy' \in 0..(MaxAttempt + 1) /\ quiet' \in 0..MaxSlices
<1>0. /\ attempt \in 0..MaxAttempt /\ left \in 0..MaxSlices
      /\ unhealthy \in 0..(MaxAttempt + 1) /\ quiet \in 0..MaxSlices
      /\ left + quiet <= MaxSlices
      /\ 0 \in 0..MaxAttempt /\ 0 \in 0..(MaxAttempt + 1) /\ 0 \in 0..MaxSlices
  BY DEF TypeOK, BackoffBooked, MaxAttempt, MaxSlices
<1>1. CASE UNCHANGED backoffVars
  BY <1>0, <1>1 DEF backoffVars
<1>2. CASE BeginSleep
  BY <1>2, BeginSleepBooks
<1>3. CASE SessionOver
  BY <1>0, <1>1, <1>2, <1>3 DEF SessionOver
<1>4. CASE SleepSlice
  <2>1. left > 0 /\ left' = left - 1 /\ quiet' = quiet + 1
        /\ UNCHANGED <<attempt, unhealthy>>
    BY <1>4 DEF SleepSlice
  <2>2. left - 1 \in 0..MaxSlices /\ quiet + 1 \in 0..MaxSlices
    BY <1>0, <2>1 DEF MaxSlices
  <2> QED
    BY <1>0, <2>1, <2>2
<1>5. CASE WakeUp
  BY <1>0, <1>5 DEF WakeUp
<1> QED
  BY <1>1, <1>2, <1>3, <1>4, <1>5 DEF Next, Check, Connecting, ResetFrees,
     ResetNulls, OpenFails, Upgraded, RegisterBegins, RegisterEnds, Session,
     InSession, CloseSocket, Received, ReceiveEnds, Backoff, ConnectFailed,
     StopBegins, Stopping, StopLocks, SaysGoodbye, Joined, StopFrees, StopNulls,
     SendBegins, SendEnds

(***************************************************************************)
(* Who sleeps and who wakes: the backoff is kept by every step.            *)
(***************************************************************************)
LEMMA BackoffPreserved == TypeOK /\ BackoffBooked /\ Next => BackoffBooked'
<1> SUFFICES ASSUME TypeOK, BackoffBooked, Next PROVE BackoffBooked'
  OBVIOUS
<1>1. CASE Check
  BY <1>1, BackoffUntouched DEF Check
<1>2. CASE Connecting
  <2>1. UNCHANGED backoffVars /\ UNCHANGED running
    BY <1>2 DEF Connecting, ResetFrees, ResetNulls, OpenFails, Upgraded,
                RegisterBegins, RegisterEnds
  <2>2. run' = run \/ run' \notin {"sleep", "check"}
    BY <1>2 DEF Connecting, ResetFrees, ResetNulls, OpenFails, Upgraded,
                RegisterBegins, RegisterEnds, Goto
  <2> QED
    BY <2>1, <2>2, BackoffUntouched
<1>3. CASE Session \/ Received \/ ReceiveEnds
  BY <1>3, BackoffUntouched DEF Session, InSession, CloseSocket, Received,
                                ReceiveEnds, Goto
<1>4. CASE ConnectFailed
  BY <1>4, BackoffUntouched, BeginSleepBooks DEF ConnectFailed
<1>5. CASE SessionOver
  <2>1. PICK healthy \in BOOLEAN :
          CASE ~running -> run' = "exit" /\ UNCHANGED backoffVars
            [] running /\ healthy ->
                 /\ run' = "check"
                 /\ attempt' = 0 /\ unhealthy' = 0
                 /\ UNCHANGED <<left, quiet>>
            [] running /\ ~healthy -> BeginSleep
    BY <1>5 DEF SessionOver
  <2>2. UNCHANGED running
    BY <1>5 DEF SessionOver
  <2>3. CASE ~running
    BY <2>1, <2>2, <2>3, BackoffUntouched
  <2>4. CASE running /\ healthy
    <3>1. /\ run' = "check" /\ attempt' = 0 /\ unhealthy' = 0
          /\ UNCHANGED <<left, quiet>>
      BY <2>1, <2>4
    <3>2. 0 = Lesser(0, MaxAttempt)
      BY DEF Lesser, MaxAttempt
    <3> QED
      BY <3>1, <3>2 DEF BackoffBooked
  <2>5. CASE running /\ ~healthy
    BY <2>1, <2>5, BeginSleepBooks
  <2> QED
    BY <2>3, <2>4, <2>5
<1>6. CASE SleepSlice
  <2>1. /\ left' = left - 1 /\ quiet' = quiet + 1 /\ run = "sleep"
        /\ UNCHANGED <<run, running, attempt, unhealthy>>
    BY <1>6 DEF SleepSlice
  <2>2. left \in Int /\ quiet \in Int
    BY DEF TypeOK, MaxSlices
  <2>3. (left - 1) + (quiet + 1) = left + quiet
    BY <2>2
  <2>4. left' + quiet' = left + quiet
    BY <2>1, <2>3, Zenon
  <2> QED
    BY <2>1, <2>4 DEF BackoffBooked
<1>7. CASE WakeUp
  <2>1. /\ run = "sleep" /\ run' = "check" /\ left' = 0
        /\ left = 0 \/ ~running
        /\ UNCHANGED <<running, attempt, unhealthy, quiet>>
    BY <1>7 DEF WakeUp, Goto
  <2>2. /\ left \in 0..MaxSlices /\ quiet \in 0..MaxSlices
        /\ left + quiet <= MaxSlices
        /\ unhealthy > 0 /\ left + quiet >= HalfSlices(unhealthy - 1)
    BY <2>1 DEF BackoffBooked, TypeOK
  <2>3. 0 + quiet <= MaxSlices
    BY <2>2 DEF MaxSlices
  <2>4. left = 0 => quiet >= HalfSlices(unhealthy - 1)
    BY <2>2 DEF MaxSlices
  <2>5. left' + quiet' <= MaxSlices
    BY <2>1, <2>3, Zenon
  <2> QED
    BY <2>1, <2>4, <2>5 DEF BackoffBooked
<1>8. CASE StopBegins \/ Stopping
  BY <1>8, BackoffUntouched DEF StopBegins, Stopping, StopLocks, SaysGoodbye,
                                Joined, StopFrees, StopNulls
<1>9. CASE \E t \in Senders : SendBegins(t) \/ SendEnds(t)
  BY <1>9, BackoffUntouched DEF SendBegins, SendEnds
<1> QED
  BY <1>1, <1>2, <1>3, <1>4, <1>5, <1>6, <1>7, <1>8, <1>9 DEF Next, Backoff

----------------------------------------------------------------------------
(***************************************************************************)
(* Taking and leaving send_mutex_ keep it what it is.                      *)
(***************************************************************************)
LEMMA EnterKeeps ==
  ASSUME TypeOK, Occupied, NEW t \in Threads, Enter(t), socket # "null"
  PROVE  /\ mutex' \in Threads \cup {Nobody}
         /\ inUse' \in [Threads -> {"none", "open", "freed"}]
         /\ Occupied'
         /\ UNCHANGED <<socket, goodbye>>
         /\ \A u \in Threads : inUse'[u] = "freed" => socket = "freed"
<1>1. /\ mutex = Nobody /\ mutex' = t /\ inUse' = [inUse EXCEPT ![t] = socket]
      /\ UNCHANGED <<socket, goodbye>>
  BY DEF Enter
<1>2. /\ inUse \in [Threads -> {"none", "open", "freed"}]
      /\ socket \in {"null", "open", "freed"}
  BY DEF TypeOK
<1>3. \A u \in Threads : inUse[u] = "none"
  BY <1>1, ThreadsAssumption DEF Occupied
<1>4. \A u \in Threads : inUse'[u] = IF u = t THEN socket ELSE "none"
  BY <1>1, <1>2, <1>3
<1>5. inUse' \in [Threads -> {"none", "open", "freed"}]
  BY <1>1, <1>2
<1> QED
  BY <1>1, <1>4, <1>5 DEF Occupied

(***************************************************************************)
(* A caller that leaves gives the mutex back and is inside no call.        *)
(***************************************************************************)
LEMMA LeaveKeeps ==
  ASSUME TypeOK, Occupied, NEW t \in Threads, Leave(t)
  PROVE  /\ mutex' \in Threads \cup {Nobody}
         /\ inUse' \in [Threads -> {"none", "open", "freed"}]
         /\ Occupied'
         /\ UNCHANGED socket
         /\ \A u \in Threads : inUse'[u] = "freed" => inUse[u] = "freed"
BY ThreadsAssumption DEF TypeOK, Occupied, Leave

(***************************************************************************)
(* Closing the handle is felt by whoever is in a call with it, and by      *)
(* nobody when the mutex is free.                                          *)
(***************************************************************************)
LEMMA CloseKeeps ==
  ASSUME TypeOK, Occupied, CloseHandle, UNCHANGED mutex
  PROVE  /\ inUse' \in [Threads -> {"none", "open", "freed"}]
         /\ Occupied'
         /\ mutex = Nobody => \A u \in Threads : inUse'[u] = "none"
BY ThreadsAssumption DEF TypeOK, Occupied, CloseHandle

(***************************************************************************)
(* The websocket's pointer, the handle behind it and the callers' mutex,   *)
(* through every step.                                                     *)
(***************************************************************************)
LEMMA HandlesPreserved ==
  TypeOK /\ SocketInv /\ Next =>
    /\ SocketInv'
    /\ mutex' \in Threads \cup {Nobody}
    /\ socket' \in {"null", "open", "freed"} /\ goodbye' \in BOOLEAN
    /\ inUse' \in [Threads -> {"none", "open", "freed"}]
<1> DEFINE Types ==
      /\ mutex' \in Threads \cup {Nobody}
      /\ socket' \in {"null", "open", "freed"} /\ goodbye' \in BOOLEAN
      /\ inUse' \in [Threads -> {"none", "open", "freed"}]
<1> SUFFICES ASSUME TypeOK, SocketInv, Next PROVE SocketInv' /\ Types
  OBVIOUS
<1>0. /\ Occupied /\ SocketFollowsRunner
      /\ run \in Connected => socket = "open"
      /\ ~refused => socket # "freed" /\ (socket = "open" => run \in Connected)
      /\ refused => socket # "null" /\ run \notin Connected
      /\ run = "opening" => socket = "null"
      /\ stop \in {"reset", "done"} => run = "exit"
      /\ Runner \in Threads /\ Main \in Threads /\ Senders \subseteq Threads
      /\ mutex \in Threads \cup {Nobody}
      /\ socket \in {"null", "open", "freed"} /\ goodbye \in BOOLEAN
      /\ inUse \in [Threads -> {"none", "open", "freed"}]
      /\ refused \in BOOLEAN
  BY DEF SocketInv, SocketFollowsRunner, TypeOK, Threads
<1> DEFINE Kept == Occupied' /\ SocketFollowsRunner'
<1>k. Kept => SocketInv'
  BY DEF SocketInv
<1> HIDE DEF Kept
<1>1. ASSUME UNCHANGED <<handleVars, refused>>,
             \/ run' = run
             \/ run' # "opening" /\ (run \in Connected <=> run' \in Connected),
             stop' \in {"reset", "done"} => run' = "exit"
      PROVE  Kept /\ Types
  <2>1. UNCHANGED <<mutex, socket, goodbye, inUse, refused>>
    BY <1>1 DEF handleVars
  <2>2. Occupied'
    BY <1>0, <2>1 DEF Occupied
  <2> QED
    BY <1>0, <1>1, <2>1, <2>2 DEF SocketFollowsRunner, Kept
<1>2. ASSUME NEW t \in Threads, Enter(t), socket # "null", UNCHANGED refused,
             \/ run' = run
             \/ run' # "opening" /\ (run \in Connected <=> run' \in Connected),
             stop' \in {"reset", "done"} => run' = "exit"
      PROVE  Kept /\ Types
  BY <1>0, <1>2, EnterKeeps DEF SocketFollowsRunner, Kept
<1>3. ASSUME NEW t \in Threads, Leave(t), goodbye' \in BOOLEAN,
             \/ run' = run /\ UNCHANGED refused
             \/ run \in Connected /\ run' = "session" /\ ~refused'
             \/ run \in Connected /\ run' = "failed" /\ refused',
             stop' \in {"reset", "done"} => run' = "exit"
      PROVE  Kept /\ Types
  BY <1>0, <1>3, LeaveKeeps DEF SocketFollowsRunner, Connected, Kept
<1>4. ASSUME FreeHandle, UNCHANGED refused, run \notin Connected, run' = run,
             stop' \in {"reset", "done"} => run' = "exit"
      PROVE  Kept /\ Types
  <2>1. /\ socket = "open" /\ socket' = "freed" /\ CloseHandle
        /\ UNCHANGED <<mutex, goodbye>>
    BY <1>4 DEF FreeHandle
  <2>2. refused /\ refused' /\ run # "opening"
    BY <1>0, <1>4, <2>1
  <2> QED
    BY <1>0, <1>4, <2>1, <2>2, CloseKeeps DEF SocketFollowsRunner, Kept
<1>5. ASSUME NullHandle, run \notin Connected, run' \notin Connected,
             stop' \in {"reset", "done"} => run' = "exit"
      PROVE  Kept /\ Types
  <2>1. /\ socket' = "null" /\ goodbye' = FALSE /\ refused' = FALSE
        /\ UNCHANGED <<mutex, inUse>>
    BY <1>5 DEF NullHandle
  <2>2. Occupied'
    BY <1>0, <1>5, <2>1 DEF Occupied
  <2> QED
    BY <1>0, <1>5, <2>1, <2>2 DEF SocketFollowsRunner, Kept
<1>6. CASE Check \/ InSession \/ Received \/ ReceiveEnds
             \/ Backoff \/ OpenFails
  <2>1. /\ UNCHANGED <<handleVars, refused, stop>>
        /\ \/ run' = run
           \/ run' # "opening" /\ (run \in Connected <=> run' \in Connected)
        /\ run # "exit"
    BY <1>6 DEF Check, InSession, Received, ReceiveEnds, Backoff,
                ConnectFailed, SessionOver, SleepSlice, WakeUp, BeginSleep,
                OpenFails, Goto, Connected
  <2> QED
    BY <1>0, <1>1, <1>k, <2>1
<1>7. CASE ResetFrees
  <2>1. FreeHandle /\ run = "reset" /\ run' = run /\ UNCHANGED <<stop, refused>>
    BY <1>7 DEF ResetFrees, Goto
  <2> QED
    BY <1>0, <1>4, <1>k, <2>1 DEF Connected
<1>8. CASE ResetNulls
  <2>1. NullHandle /\ run = "reset" /\ run' = "opening" /\ UNCHANGED stop
    BY <1>8 DEF ResetNulls, Goto
  <2> QED
    BY <1>0, <1>5, <1>k, <2>1 DEF Connected
<1>9. CASE Upgraded
  <2>1. /\ run = "opening" /\ run' = "register" /\ socket' = "open"
        /\ UNCHANGED <<stop, mutex, goodbye, inUse, refused>>
    BY <1>9 DEF Upgraded, Goto
  <2>2. Occupied' /\ ~refused
    BY <1>0, <2>1 DEF Occupied
  <2> QED
    BY <1>0, <1>k, <2>1, <2>2 DEF SocketFollowsRunner, Connected, Kept
<1>10. CASE RegisterBegins
  <2>1. /\ Enter(Runner) /\ run = "register" /\ run' = "registering"
        /\ UNCHANGED <<stop, refused>>
    BY <1>10 DEF RegisterBegins, Goto
  <2> QED
    BY <1>0, <1>2, <1>k, <2>1 DEF Connected
<1>11. CASE RegisterEnds
  <2>1. /\ Leave(Runner) /\ run = "registering" /\ UNCHANGED <<stop, goodbye>>
        /\ \/ run' = "session" /\ refused' = FALSE
           \/ run' = "failed" /\ refused' = TRUE
    BY <1>11 DEF RegisterEnds
  <2>2. goodbye' \in BOOLEAN
    BY <1>0, <2>1
  <2>3. /\ run \in Connected
        /\ \/ run' = "session" /\ ~refused'
           \/ run' = "failed" /\ refused'
    BY <2>1 DEF Connected
  <2>4. ~(stop' \in {"reset", "done"})
    BY <1>0, <2>1
  <2> QED
    BY <1>3, <1>k, <1>0, <2>1, <2>2, <2>3, <2>4
<1>12. CASE CloseSocket
  <2>1. /\ run = "closing" /\ run' = "closed" /\ mutex = Nobody /\ socket' = "null"
        /\ goodbye' = FALSE /\ refused' = FALSE /\ CloseHandle
        /\ UNCHANGED <<stop, mutex>>
    BY <1>12 DEF CloseSocket, Goto
  <2> QED
    BY <1>0, <1>k, <2>1, CloseKeeps DEF SocketFollowsRunner, Connected, Kept
<1>13. CASE StopBegins \/ Joined
  BY <1>0, <1>1, <1>13, <1>k DEF StopBegins, Joined, Halt
<1>14. CASE StopLocks
  <2>1. CASE socket = "null"
    BY <1>0, <1>1, <1>14, <1>k, <2>1 DEF StopLocks, Halt
  <2>2. CASE socket # "null"
    BY <1>0, <1>2, <1>14, <1>k, <2>2 DEF StopLocks, Halt
  <2> QED
    BY <2>1, <2>2
<1>15. CASE SaysGoodbye
  BY <1>0, <1>3, <1>15, <1>k DEF SaysGoodbye, Halt
<1>16. CASE StopFrees
  <2>1. /\ FreeHandle /\ stop = "reset" /\ UNCHANGED <<run, stop, refused>>
    BY <1>16 DEF StopFrees, Halt
  <2> QED
    BY <1>0, <1>4, <1>k, <2>1 DEF Connected
<1>17. CASE StopNulls
  <2>1. NullHandle /\ stop = "reset" /\ UNCHANGED run
    BY <1>17 DEF StopNulls, Halt
  <2> QED
    BY <1>0, <1>5, <1>k, <2>1 DEF Connected
<1>18. CASE \E t \in Senders : SendBegins(t) \/ SendEnds(t)
  <2>1. PICK t \in Senders : SendBegins(t) \/ SendEnds(t)
    BY <1>18
  <2>2. CASE SendBegins(t)
    BY <1>0, <1>2, <1>k, <2>2 DEF SendBegins
  <2>3. CASE SendEnds(t)
    BY <1>0, <1>3, <1>k, <2>3 DEF SendEnds
  <2> QED
    BY <2>1, <2>2, <2>3
<1> QED
  BY <1>6, <1>7, <1>8, <1>9, <1>10, <1>11, <1>12, <1>13, <1>14, <1>15, <1>16,
     <1>17, <1>18 DEF Next, Connecting, Session, Stopping

----------------------------------------------------------------------------
(***************************************************************************)
(* The invariant holds in every behaviour of the client.                   *)
(***************************************************************************)
LEMMA StepPreserves == IInv /\ [Next]_vars => IInv'
<1> SUFFICES ASSUME IInv, [Next]_vars PROVE IInv'
  OBVIOUS
<1>1. CASE Next
  <2>1. BackoffBooked'
    BY <1>1, BackoffPreserved DEF IInv
  <2>2. /\ SocketInv'
        /\ mutex' \in Threads \cup {Nobody}
        /\ socket' \in {"null", "open", "freed"} /\ goodbye' \in BOOLEAN
        /\ inUse' \in [Threads -> {"none", "open", "freed"}]
    BY <1>1, HandlesPreserved DEF IInv
  <2>3. /\ running' \in BOOLEAN /\ refused' \in BOOLEAN
        /\ run' \in {"check", "reset", "opening", "register", "registering",
                     "failed", "session", "receiving", "closing", "closed",
                     "sleep", "exit"}
        /\ stop' \in {"up", "lock", "close", "join", "reset", "done"}
    <3> USE DEF IInv, TypeOK, Goto, Halt
    <3>1. CASE Check
      BY <1>1, <3>1 DEF Check
    <3>2. CASE Connecting
      BY <1>1, <3>2 DEF Connecting, ResetFrees, ResetNulls, OpenFails, Upgraded,
                        RegisterBegins, RegisterEnds, NullHandle
    <3>3. CASE Session \/ Received \/ ReceiveEnds
      BY <1>1, <3>3 DEF Session, InSession, CloseSocket, Received, ReceiveEnds
    <3>4. CASE Backoff
      BY <1>1, <3>4 DEF Backoff, ConnectFailed, SessionOver, SleepSlice, WakeUp,
                        BeginSleep
    <3>5. CASE StopBegins \/ Stopping
      BY <1>1, <3>5 DEF StopBegins, Stopping, StopLocks, SaysGoodbye, Joined,
                        StopFrees, StopNulls, NullHandle
    <3>6. CASE \E t \in Senders : SendBegins(t) \/ SendEnds(t)
      BY <1>1, <3>6 DEF SendBegins, SendEnds
    <3> QED
      BY <1>1, <3>1, <3>2, <3>3, <3>4, <3>5, <3>6 DEF Next
  <2>4. /\ attempt' \in 0..MaxAttempt /\ left' \in 0..MaxSlices
        /\ unhealthy' \in 0..(MaxAttempt + 1) /\ quiet' \in 0..MaxSlices
    BY <1>1, CountersTyped DEF IInv
  <2> QED
    BY <2>1, <2>2, <2>3, <2>4 DEF IInv, TypeOK
<1>2. CASE UNCHANGED vars
  BY <1>2 DEF vars, handleVars, backoffVars, IInv, TypeOK, SocketInv, Occupied,
              SocketFollowsRunner, BackoffBooked
<1> QED
  BY <1>1, <1>2

(***************************************************************************)
(* The invariant holds in every behaviour.                                 *)
(***************************************************************************)
LEMMA Invariance == Spec => []IInv
BY InitEstablishes, StepPreserves, PTL DEF Spec

(***************************************************************************)
(* Types: attempt, as far as the code reads it, and the slices of a sleep  *)
(* stay in their bounds, and only a known thread holds the mutex.          *)
(***************************************************************************)
THEOREM Typing == Spec => []TypeOK
<1>1. IInv => TypeOK
  BY DEF IInv
<1> QED
  BY <1>1, Invariance, PTL

(***************************************************************************)
(* The steps that bring a thread into a call with a closed handle: it      *)
(* enters with one that Reset has closed and not yet nulled, or Reset      *)
(* closes the one it is in a call with.                                    *)
(***************************************************************************)
LEMMA FreedUnderACaller ==
  ASSUME IInv, Next, NEW t \in Threads, inUse[t] # "freed", inUse'[t] = "freed"
  PROVE  refused
<1>0. /\ TypeOK /\ Occupied
      /\ ~refused => socket # "freed" /\ (socket = "open" => run \in Connected)
      /\ refused => socket # "null" /\ run \notin Connected
      /\ run \in Connected => socket = "open"
      /\ stop \in {"reset", "done"} => run = "exit"
      /\ Runner \in Threads /\ Main \in Threads /\ Senders \subseteq Threads
  BY DEF IInv, SocketInv, SocketFollowsRunner, Threads
<1>1. ASSUME NEW u \in Threads, Enter(u) PROVE refused
  <2>1. inUse'[t] = IF t = u THEN socket ELSE inUse[t]
    BY <1>0, <1>1 DEF Enter, TypeOK
  <2> QED
    BY <1>0, <2>1
<1>2. ASSUME NEW u \in Threads, Leave(u) PROVE FALSE
  BY <1>0, <1>2, LeaveKeeps
<1>3. ASSUME FreeHandle, run \notin Connected PROVE refused
  BY <1>0, <1>3 DEF FreeHandle
<1>4. CASE UNCHANGED inUse
  BY <1>4
<1>5. CASE Check \/ InSession \/ Received \/ ReceiveEnds \/ Backoff \/ OpenFails
             \/ Upgraded \/ ResetNulls \/ StopBegins \/ Joined \/ StopNulls
  BY <1>4, <1>5 DEF Check, InSession, Received, ReceiveEnds, Backoff,
     ConnectFailed, SessionOver, SleepSlice, WakeUp, OpenFails, Upgraded,
     ResetNulls, StopBegins, Joined, StopNulls, NullHandle, handleVars
<1>6. CASE ResetFrees \/ StopFrees
  BY <1>0, <1>3, <1>6 DEF ResetFrees, StopFrees, Goto, Halt, Connected
<1>7. CASE RegisterBegins \/ RegisterEnds
  BY <1>0, <1>1, <1>2, <1>7 DEF RegisterBegins, RegisterEnds
<1>8. CASE CloseSocket
  <2>1. CloseHandle /\ UNCHANGED mutex /\ mutex = Nobody
    BY <1>8 DEF CloseSocket
  <2>2. inUse'[t] = "none"
    BY <1>0, <2>1, CloseKeeps
  <2> QED
    BY <2>2
<1>9. CASE StopLocks \/ SaysGoodbye
  BY <1>0, <1>1, <1>2, <1>4, <1>9 DEF StopLocks, SaysGoodbye, handleVars
<1>10. CASE \E u \in Senders : SendBegins(u) \/ SendEnds(u)
  BY <1>0, <1>1, <1>2, <1>10 DEF SendBegins, SendEnds
<1> QED
  BY <1>5, <1>6, <1>7, <1>8, <1>9, <1>10 DEF Next, Connecting, Session, Stopping

(***************************************************************************)
(* However Send on any number of threads, Stop and the reconnecting Runner *)
(* interleave, no thread comes to be inside a WinHTTP call whose handle is *)
(* closed, unless register could not be sent on that very handle; and      *)
(* Runner receives on an open websocket.                                   *)
(***************************************************************************)
THEOREM EstablishedHandleIsNotFreed == Spec => HandleFreedOnlyAfterFailedRegister
<1>1. ASSUME IInv, [Next]_vars
      PROVE  [\A t \in Threads :
                inUse[t] # "freed" /\ inUse'[t] = "freed" => refused]_vars
  BY <1>1, FreedUnderACaller
<1>2. IInv => (run \in {"session", "receiving"} => socket = "open")
  BY DEF IInv, SocketInv, SocketFollowsRunner, Connected
<1> QED
  BY <1>1, <1>2, Invariance, PTL DEF Spec, HandleFreedOnlyAfterFailedRegister

(***************************************************************************)
(* That handle: the failure is only ever remembered of a websocket that is *)
(* still there, and never of one that a session runs on, however many      *)
(* failed before it.                                                       *)
(***************************************************************************)
THEOREM FailureIsOfThisHandle ==
  Spec => [](refused => socket # "null" /\ run \notin Connected)
<1>1. IInv => (refused => socket # "null" /\ run \notin Connected)
  BY DEF IInv, SocketInv, SocketFollowsRunner
<1> QED
  BY <1>1, Invariance, PTL

(***************************************************************************)
(* send_mutex_ admits one caller of WinHTTP at a time.                     *)
(***************************************************************************)
THEOREM OneCallerAtATime ==
  Spec => [](\A t, u \in Threads : inUse[t] # "none" /\ inUse[u] # "none" => t = u)
<1>1. IInv => \A t, u \in Threads : inUse[t] # "none" /\ inUse[u] # "none" => t = u
  BY DEF IInv, SocketInv, Occupied
<1> QED
  BY <1>1, Invariance, PTL

(***************************************************************************)
(* Whatever the broker does, Runner comes back to ConnectOnce only after   *)
(* half of the base delay, which doubles with every connection in a row    *)
(* that did not last.                                                      *)
(***************************************************************************)
THEOREM ReconnectsArePaced == Spec => NoTightReconnect
<1>1. ASSUME IInv, [Next]_vars
      PROVE  [run = "check" /\ run' = "reset" =>
                unhealthy = 0 \/ quiet >= HalfSlices(unhealthy - 1)]_vars
  <2>1. CASE run = "check" /\ run' = "reset"
    <3>1. running
      BY <1>1, <2>1 DEF Next, Check, Connecting, ResetFrees, ResetNulls,
         OpenFails, Upgraded, RegisterBegins, RegisterEnds, Session, InSession,
         CloseSocket, Received, ReceiveEnds, Backoff, ConnectFailed, SessionOver,
         SleepSlice, WakeUp, StopBegins, Stopping, StopLocks, SaysGoodbye,
         Joined, StopFrees, StopNulls, SendBegins, SendEnds, Goto, vars
    <3> QED
      BY <1>1, <2>1, <3>1 DEF IInv, BackoffBooked
  <2>2. CASE ~(run = "check" /\ run' = "reset")
    BY <2>2
  <2> QED
    BY <2>1, <2>2
<1> QED
  BY <1>1, Invariance, PTL DEF Spec, NoTightReconnect

----------------------------------------------------------------------------
(***************************************************************************)
(* Stop has lowered running_ before it asks for the websocket; so a        *)
(* receive that Runner is in when main joins was begun before, on the      *)
(* websocket that Stop then found and closed.                              *)
(***************************************************************************)
GoodbyeSaid ==
  /\ stop # "up" => ~running
  /\ stop = "join" /\ run = "receiving" => goodbye

(***************************************************************************)
(* Every step of Runner, of a sender and of Stop keeps it.                 *)
(***************************************************************************)
LEMMA GoodbyeStep ==
  ASSUME IInv, GoodbyeSaid, [Next]_vars
  PROVE  GoodbyeSaid'
<1>0. run \in {"session", "receiving"} => socket = "open"
  BY DEF IInv, SocketInv, SocketFollowsRunner, Connected
<1> USE DEF GoodbyeSaid, backoffVars
<1>1. CASE Check \/ Connecting
  BY <1>1 DEF Check, Connecting, ResetFrees, ResetNulls, OpenFails, Upgraded,
     RegisterBegins, RegisterEnds, Goto
<1>2. CASE Session \/ Received \/ ReceiveEnds
  BY <1>2 DEF Session, InSession, CloseSocket, Received, ReceiveEnds, Goto,
     handleVars
<1>3. CASE Backoff
  <2>1. run' # "receiving" /\ UNCHANGED <<running, stop>>
    BY <1>3 DEF Backoff, ConnectFailed, SessionOver, SleepSlice, WakeUp,
       BeginSleep, Goto
  <2> QED
    BY <2>1
<1>4. CASE StopBegins
  BY <1>4 DEF StopBegins, Halt
<1>5. CASE StopLocks
  <2>1. stop # "up" /\ UNCHANGED <<running, run>>
    BY <1>5 DEF StopLocks, Halt
  <2>2. stop' = "join" => socket = "null"
    BY <1>5 DEF StopLocks, Halt
  <2> QED
    BY <1>0, <2>1, <2>2
<1>6. CASE SaysGoodbye
  BY <1>0, <1>6 DEF SaysGoodbye, Halt
<1>7. CASE Joined \/ StopFrees \/ StopNulls
  BY <1>7 DEF Joined, StopFrees, StopNulls, Halt
<1>8. CASE \E t \in Senders : SendBegins(t) \/ SendEnds(t)
  BY <1>8 DEF SendBegins, SendEnds, Enter
<1>9. CASE UNCHANGED vars
  BY <1>9 DEF vars, handleVars
<1> QED
  BY <1>1, <1>2, <1>3, <1>4, <1>5, <1>6, <1>7, <1>8, <1>9 DEF Next, Stopping

(***************************************************************************)
(* The safety half of StopReturns: when main joins Runner and Runner is    *)
(* blocked in a receive, the websocket it receives on has been closed, so  *)
(* the receive will end.  Neither an upgrade that comes between Stop's     *)
(* flag and its look at the websocket, nor a Runner about to receive, can  *)
(* slip past.                                                              *)
(***************************************************************************)
THEOREM JoinedReceiveEnds ==
  Spec => [](stop = "join" /\ run = "receiving" => goodbye)
<1>1. Init => GoodbyeSaid
  BY DEF Init, GoodbyeSaid
<1>2. GoodbyeSaid => (stop = "join" /\ run = "receiving" => goodbye)
  BY DEF GoodbyeSaid
<1> QED
  BY <1>1, <1>2, GoodbyeStep, Invariance, PTL DEF Spec
=============================================================================
