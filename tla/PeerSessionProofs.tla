-------------------------- MODULE PeerSessionProofs --------------------------
(***************************************************************************)
(* Proofs about the threads around PeerSession, for any number of events   *)
(* of clients and broker.  The first part needs only where each thread may *)
(* be.  The second bounds the offers by counting the events that cause     *)
(* them.                                                                   *)
(***************************************************************************)
EXTENDS PeerSession, FiniteSets, FiniteSetTheorems, SequenceTheorems, TLAPS

Places ==
  /\ ws \in WsLocations /\ main \in MainLocations
  /\ mutex \in {"free", "ws", "main"}
  /\ rtc \in {"idle", "using"} /\ rep \in {"idle", "using", "stopped"}
  /\ peer \in BOOLEAN /\ controlCh \in BOOLEAN

(***************************************************************************)
(* The mutex is held by the signaling thread in its locked branches, for   *)
(* good after the second lock, and by main while it closes the peer.       *)
(***************************************************************************)
Owner ==
  /\ ws \in {"offerLocked", "leave", "relock"} <=> mutex = "ws"
  /\ main \in Closing \ {"done"} <=> mutex = "main"

(***************************************************************************)
(* main's joins: a thread it has stopped is at its end.                    *)
(***************************************************************************)
Joined ==
  /\ main # "running" => rep = "stopped"
  /\ main \notin {"running", "stopSignaling"} => ws = "stopped"

(***************************************************************************)
(* libwebrtc's thread works for a peer that is there; when main drops the  *)
(* peer the thread has nothing left to do.                                 *)
(***************************************************************************)
PeerOutlivesWork ==
  /\ ops # <<>> \/ rtc = "using" \/ controlCh => peer
  /\ main \in {"dropPeer", "done"} => ops = <<>> /\ rtc = "idle"
  /\ main \in {"closePeer", "dropPeer", "done"} => ~controlCh
  /\ main = "done" => ~peer

(***************************************************************************)
(* Whoever has looked at control_channel_ and not yet used it finds it     *)
(* there, unless ClosePeer has dropped it.                                 *)
(***************************************************************************)
LookStillTrue ==
  /\ rep = "using" => controlCh
  /\ rtc = "using" => controlCh \/ main = "closePeer"

IInv ==
  /\ Places /\ Owner /\ Joined
  /\ PeerOutlivesWork /\ LookStillTrue /\ NullChannelOnlyInShutdown

----------------------------------------------------------------------------
(***************************************************************************)
(* The host starts without a peer and with all threads at rest.            *)
(***************************************************************************)
LEMMA InitEstablishes == Init => IInv
BY DEF Init, IInv, Places, Owner, Joined, PeerOutlivesWork, LookStillTrue,
       NullChannelOnlyInShutdown, WsLocations, MainLocations, Closing

(***************************************************************************)
(* Broker and browser touch nothing of the host.                           *)
(***************************************************************************)
LEMMA HostWaitsPreserves == IInv /\ HostWaits => IInv'
BY DEF HostWaits, peerVars, IInv, Places, Owner, Joined, PeerOutlivesWork,
       LookStillTrue, NullChannelOnlyInShutdown

(***************************************************************************)
(* CreatePeerConnection makes the control channel on a peer.               *)
(***************************************************************************)
LEMMA BuiltInOrder ==
  ASSUME NEW b \in Built
  PROVE  /\ b[1] \in BOOLEAN /\ b[2] \in BOOLEAN /\ b[3] \in BOOLEAN
         /\ b[3] => b[1]
<1>1. CASE b = <<FALSE, FALSE, FALSE>>
  BY <1>1
<1>2. CASE b = <<TRUE, FALSE, FALSE>>
  BY <1>2
<1>3. CASE b = <<TRUE, TRUE, FALSE>>
  BY <1>3
<1>4. CASE b = <<TRUE, TRUE, TRUE>>
  BY <1>4
<1> QED
  BY <1>1, <1>2, <1>3, <1>4 DEF Built

(***************************************************************************)
(* HandleSignalingMessage, branch by branch.                               *)
(***************************************************************************)
LEMMA HandlerPreserves == IInv /\ fate = "alive" /\ Handler => IInv'
<1> SUFFICES ASSUME IInv, fate = "alive", Handler PROVE IInv'
  OBVIOUS
<1> USE DEF IInv, Places, Owner, Joined, PeerOutlivesWork, LookStillTrue,
            NullChannelOnlyInShutdown, WsLocations, MainLocations, Closing
<1>1. CASE Dispatch
  <2>1. ops' # <<>> => ops # <<>> \/ peer
    BY <1>1 DEF Dispatch, HandleAnswer
  <2>2. ws = "receive" /\ ws' \in {"receive", "wantOffer", "wantLeave", "offer"}
    BY <1>1 DEF Dispatch, GotoWs
  <2>3. UNCHANGED <<mutex, rtc, rep, main, peer, controlCh, fate>>
    BY <1>1 DEF Dispatch
  <2> QED
    BY <2>1, <2>2, <2>3
<1>2. CASE WsLocks
  BY <1>2 DEF WsLocks, GotoWs, peerVars
<1>3. CASE CreateOffer
  <2>1. /\ ws \in {"offerLocked", "offer"} /\ ws' = "receive"
        /\ rtc = "idle" /\ UNCHANGED <<rtc, rep, main, fate>>
        /\ mutex' = IF ws = "offerLocked" THEN "free" ELSE mutex
    BY <1>3 DEF CreateOffer, GotoWs
  <2>2. /\ peer' \in BOOLEAN /\ controlCh' \in BOOLEAN
        /\ ops' # <<>> \/ controlCh' => peer'
        /\ controlCh => controlCh'
    <3>1. CASE peer
      BY <1>3, <3>1 DEF CreateOffer
    <3>2. CASE ~peer
      <4>1. PICK b \in Built : /\ peer' = b[1] /\ controlCh' = b[3]
                               /\ ops' = IF b[3] THEN <<NewOffer>> ELSE <<>>
        BY <1>3, <3>2 DEF CreateOffer
      <4>2. b[1] \in BOOLEAN /\ b[3] \in BOOLEAN /\ (b[3] => b[1])
        BY BuiltInOrder
      <4> QED
        BY <3>2, <4>1, <4>2
    <3> QED
      BY <3>1, <3>2
  <2> QED
    BY <2>1, <2>2
<1>4. CASE ClosePeerAgain
  BY <1>4 DEF ClosePeerAgain, GotoWs, peerVars
<1> QED
  BY <1>1, <1>2, <1>3, <1>4 DEF Handler

(***************************************************************************)
(* libwebrtc's thread and the reporter, with SendControl's two looks.      *)
(***************************************************************************)
LEMMA SendersPreserve ==
  IInv /\ fate = "alive" /\ (Rtc \/ HelloChecks \/ Reporter) => IInv'
<1> SUFFICES ASSUME IInv, fate = "alive", Rtc \/ HelloChecks \/ Reporter PROVE IInv'
  OBVIOUS
<1> USE DEF IInv, Places, Owner, Joined, PeerOutlivesWork, LookStillTrue,
            NullChannelOnlyInShutdown, WsLocations, MainLocations, Closing
<1>1. CASE OfferReady
  BY <1>1 DEF OfferReady
<1>2. CASE AnswerApplied
  BY <1>2 DEF AnswerApplied
<1>3. CASE HelloSends
  BY <1>3 DEF HelloSends, peerVars
<1>4. CASE HelloChecks
  BY <1>4 DEF HelloChecks, peerVars
<1>5. CASE ReporterChecks
  BY <1>5 DEF ReporterChecks, peerVars
<1>6. CASE ReporterSends
  BY <1>6 DEF ReporterSends, peerVars
<1> QED
  BY <1>1, <1>2, <1>3, <1>4, <1>5, <1>6 DEF Rtc, OperationsChain, Reporter

(***************************************************************************)
(* main's joins and the lines of ClosePeer.                                *)
(***************************************************************************)
LEMMA ShutdownPreserves ==
  IInv /\ fate = "alive" /\ (StopReporter \/ Shutdown) => IInv'
<1> SUFFICES ASSUME IInv, fate = "alive", StopReporter \/ Shutdown PROVE IInv'
  OBVIOUS
<1> USE DEF IInv, Places, Owner, Joined, PeerOutlivesWork, LookStillTrue,
            NullChannelOnlyInShutdown, WsLocations, MainLocations, Closing,
            GotoMain
<1>1. CASE StopReporter
  BY <1>1 DEF StopReporter, peerVars
<1>2. CASE StopSignaling
  BY <1>2 DEF StopSignaling, peerVars
<1>3. CASE CloseLocks
  BY <1>3 DEF CloseLocks, peerVars
<1>4. CASE CloseInput
  BY <1>4 DEF CloseInput
<1>5. CASE CloseControl
  BY <1>5 DEF CloseControl, peerVars
<1>6. CASE DropControl
  BY <1>6 DEF DropControl
<1>7. CASE CloseConnection
  BY <1>7 DEF CloseConnection
<1>8. CASE DropPeer
  BY <1>8 DEF DropPeer
<1> QED
  BY <1>1, <1>2, <1>3, <1>4, <1>5, <1>6, <1>7, <1>8 DEF Shutdown, ClosePeer

(***************************************************************************)
(* Every step of the specification.                                        *)
(***************************************************************************)
LEMMA StepPreserves == IInv /\ [Next]_vars => IInv'
<1> SUFFICES ASSUME IInv, [Next]_vars PROVE IInv'
  OBVIOUS
<1>1. CASE Visitor \/ Browser \/ (Connecting /\ fate = "alive")
  BY <1>1, HostWaitsPreserves DEF Visitor, Browser, Connecting
<1>2. CASE fate = "alive" /\ Handler
  BY <1>2, HandlerPreserves
<1>3. CASE fate = "alive" /\ (Rtc \/ HelloChecks \/ Reporter)
  BY <1>3, SendersPreserve
<1>4. CASE fate = "alive" /\ (StopReporter \/ Shutdown)
  BY <1>4, ShutdownPreserves
<1>5. CASE UNCHANGED vars
  BY <1>5, HostWaitsPreserves DEF vars, HostWaits
<1> QED
  BY <1>1, <1>2, <1>3, <1>4, <1>5 DEF Next, Host

(***************************************************************************)
(* The invariant says more than ClosedOnceAlone.                           *)
(***************************************************************************)
LEMMA IInvCloses == IInv => ClosedOnceAlone
BY DEF IInv, Places, Owner, Joined, PeerOutlivesWork, ClosedOnceAlone, Closing,
       MainLocations

(***************************************************************************)
(* The invariant of ownership and order holds in every behaviour.          *)
(***************************************************************************)
LEMMA Invariance == Spec => []IInv
BY InitEstablishes, StepPreserves, PTL DEF Spec

----------------------------------------------------------------------------
(***************************************************************************)
(* When main closes the peer the host's other threads have ended and it    *)
(* holds the mutex, and libwebrtc's thread never works for a peer that is  *)
(* gone.                                                                   *)
(***************************************************************************)
THEOREM PeerIsClosedAlone == Spec => []ClosedOnceAlone
BY Invariance, IInvCloses, PTL

(***************************************************************************)
(* However joins, leaves, renegotiations and drops interleave with         *)
(* SendControl's unlocked looks at control_channel_, only ClosePeer at     *)
(* shutdown can null it between the two.                                   *)
(***************************************************************************)
THEOREM NullChannelNeedsShutdown == Spec => []NullChannelOnlyInShutdown
<1>1. IInv => NullChannelOnlyInShutdown
  BY DEF IInv
<1> QED
  BY <1>1, Invariance, PTL

----------------------------------------------------------------------------
(***************************************************************************)
(* The offers the host owes: made, queued, being made, and asked for in    *)
(* messages it has not read; a lost connection to the broker will make it  *)
(* owe one more when it registers again.  Each costs an event.             *)
(***************************************************************************)
Count(s, T) == Cardinality({i \in 1..Len(s) : s[i] \in T})

OfferMakers ==
  [type : {"registered", "peer-state"}, present : {TRUE}]
    \cup [type : {"renegotiate"}]

Owed(made, queue, place, messages, connected) ==
  made + Count(queue, {NewOffer})
    + (IF place \in {"wantOffer", "offerLocked", "offer"} THEN 1 ELSE 0)
    + Count(messages, OfferMakers)
    + (IF ~connected /\ place # "stopped" THEN 1 ELSE 0)

Budget ==
  Owed(local, ops, ws, toHost, link) <= (MaxEvents - events) + 1

TypedBudget == TypeOK /\ Budget

(***************************************************************************)
(* Counting the elements of a sequence that lie in T: it is a number, and  *)
(* nothing counts in the empty sequence.                                   *)
(***************************************************************************)
LEMMA CountType ==
  ASSUME NEW S, NEW s \in Seq(S), NEW T
  PROVE  /\ IsFiniteSet({i \in 1..Len(s) : s[i] \in T})
         /\ Count(s, T) \in Nat
<1>1. Len(s) \in Nat
  BY LenProperties
<1>2. IsFiniteSet(1..Len(s))
  BY <1>1, FS_Interval
<1>3. {i \in 1..Len(s) : s[i] \in T} \in SUBSET (1..Len(s))
  OBVIOUS
<1>4. IsFiniteSet({i \in 1..Len(s) : s[i] \in T})
  BY <1>2, <1>3, FS_Subset
<1> QED
  BY <1>4, FS_CardinalityType DEF Count

(***************************************************************************)
(* An empty queue holds nothing to count.                                  *)
(***************************************************************************)
LEMMA CountEmpty ==
  ASSUME NEW T
  PROVE  Count(<< >>, T) = 0
<1>1. {i \in 1..Len(<< >>) : << >>[i] \in T} = {}
  BY EmptySeq
<1> QED
  BY <1>1, FS_EmptySet DEF Count

(***************************************************************************)
(* An element at the end counts for one if it is in T.                     *)
(***************************************************************************)
LEMMA CountAppend ==
  ASSUME NEW S, NEW s \in Seq(S), NEW e \in S, NEW T
  PROVE  Count(Append(s, e), T) = Count(s, T) + (IF e \in T THEN 1 ELSE 0)
<1> DEFINE Old == {i \in 1..Len(s) : s[i] \in T}
           New == {i \in 1..Len(Append(s, e)) : Append(s, e)[i] \in T}
           n == Len(s) + 1
<1>1. /\ Len(s) \in Nat /\ Len(Append(s, e)) = n
      /\ \A i \in 1..Len(s) : Append(s, e)[i] = s[i]
      /\ Append(s, e)[n] = e
  BY AppendProperties, LenProperties
<1>2. IsFiniteSet(Old) /\ Cardinality(Old) \in Nat
  BY CountType DEF Count
<1>3. n \notin Old
  BY <1>1
<1>4. CASE e \in T
  <2>1. New = Old \cup {n}
    BY <1>1, <1>4
  <2> HIDE DEF Old, New, n
  <2>2. Cardinality(New) = Cardinality(Old) + 1
    BY <1>2, <1>3, <2>1, FS_AddElement
  <2> QED
    BY <1>4, <2>2 DEF Count, Old, New
<1>5. CASE e \notin T
  <2>1. New = Old
    BY <1>1, <1>5
  <2> HIDE DEF Old, New
  <2>2. Cardinality(New) = Cardinality(Old) + 0
    BY <1>2, <2>1
  <2> QED
    BY <1>5, <2>2 DEF Count, Old, New
<1> QED
  BY <1>4, <1>5

(***************************************************************************)
(* The element at the front is counted once: the places behind it are      *)
(* those of the tail, moved by one.                                        *)
(***************************************************************************)
LEMMA CountTail ==
  ASSUME NEW S, NEW s \in Seq(S), s # << >>, NEW T
  PROVE  Count(s, T) = Count(Tail(s), T) + (IF Head(s) \in T THEN 1 ELSE 0)
<1> DEFINE Old == {i \in 1..Len(s) : s[i] \in T}
           New == {i \in 1..Len(Tail(s)) : Tail(s)[i] \in T}
           Behind == Old \ {1}
           shift == [i \in New |-> i + 1]
<1>1. /\ Len(s) \in Nat /\ Len(s) # 0 /\ Len(Tail(s)) = Len(s) - 1
      /\ Tail(s) \in Seq(S) /\ Head(s) = s[1]
      /\ \A i \in 1..Len(Tail(s)) : Tail(s)[i] = s[i + 1]
  BY HeadTailProperties, LenProperties, EmptySeq
<1>2. IsFiniteSet(Old) /\ IsFiniteSet(New) /\ Cardinality(New) \in Nat
  BY <1>1, CountType DEF Count
<1>3. shift \in Bijection(New, Behind)
  <2>1. shift \in [New -> Behind]
    BY <1>1
  <2>2. \A i, j \in New : shift[i] = shift[j] => i = j
    OBVIOUS
  <2>3. \A k \in Behind : \E i \in New : shift[i] = k
    <3>1. TAKE k \in Behind
    <3>2. k - 1 \in New /\ shift[k - 1] = k
      BY <1>1
    <3> QED
      BY <3>2
  <2> QED
    BY <2>1, <2>2, <2>3 DEF Bijection, Injection, IsInjective, Surjection
<1>4. Cardinality(Behind) = Cardinality(New)
  BY <1>2, <1>3, FS_Bijection DEF ExistsBijection
<1>5. Cardinality(Behind) = IF 1 \in Old THEN Cardinality(Old) - 1 ELSE Cardinality(Old)
  BY <1>2, FS_RemoveElement
<1>6. 1 \in Old <=> Head(s) \in T
  BY <1>1
<1>7. Cardinality(Old) \in Nat
  BY <1>2, FS_CardinalityType
<1> HIDE DEF Old, New, Behind, shift
<1>8. Cardinality(Old) = Cardinality(New) + (IF 1 \in Old THEN 1 ELSE 0)
  BY <1>2, <1>4, <1>5, <1>7
<1> QED
  BY <1>6, <1>8 DEF Count, Old, New

----------------------------------------------------------------------------
(***************************************************************************)
(* What is owed is a number, and never less than the offers made.          *)
(***************************************************************************)
LEMMA OwedType ==
  ASSUME NEW made \in Nat, NEW queue \in Seq(Operation), NEW place,
         NEW messages \in Seq(Message), NEW connected
  PROVE  /\ Owed(made, queue, place, messages, connected) \in Nat
         /\ made <= Owed(made, queue, place, messages, connected)
<1>1. Count(queue, {NewOffer}) \in Nat /\ Count(messages, OfferMakers) \in Nat
  BY CountType
<1> QED
  BY <1>1 DEF Owed

(***************************************************************************)
(* The broker's side: a message makes one offer at most; a lost connection *)
(* empties the socket and owes the offer of the next registration.         *)
(***************************************************************************)
LEMMA OwedToBroker ==
  ASSUME NEW made \in Nat, NEW queue \in Seq(Operation), NEW place,
         NEW messages \in Seq(Message), NEW connected, NEW m \in Message
  PROVE  /\ Owed(made, queue, place, Append(messages, m), connected)
               <= Owed(made, queue, place, messages, connected)
                    + (IF m \in OfferMakers THEN 1 ELSE 0)
         /\ Owed(made, queue, place, << >>, FALSE)
               <= Owed(made, queue, place, messages, connected) + 1
         /\ Owed(made, queue, "receive", <<m>>, TRUE)
               <= Owed(made, queue, "receive", messages, FALSE)
         /\ Owed(made, queue, "stopped", << >>, FALSE)
               <= Owed(made, queue, place, messages, connected)
<1>1. Count(queue, {NewOffer}) \in Nat /\ Count(messages, OfferMakers) \in Nat
  BY CountType
<1>2. Count(Append(messages, m), OfferMakers)
        = Count(messages, OfferMakers) + (IF m \in OfferMakers THEN 1 ELSE 0)
  BY CountAppend
<1>3. Count(<< >>, OfferMakers) = 0
  BY CountEmpty
<1>4. Count(<<m>>, OfferMakers) \in {0, 1}
  <2>1. << >> \in Seq(Message) /\ <<m>> = Append(<< >>, m)
    OBVIOUS
  <2>2. Count(<<m>>, OfferMakers)
          = Count(<< >>, OfferMakers) + (IF m \in OfferMakers THEN 1 ELSE 0)
    BY <2>1, CountAppend
  <2> QED
    BY <1>3, <2>2
<1> QED
  BY <1>1, <1>2, <1>3, <1>4 DEF Owed

(***************************************************************************)
(* The handler: a message that leads to an offer is exchanged for it.      *)
(***************************************************************************)
LEMMA OwedByMessage ==
  ASSUME NEW made \in Nat, NEW queue \in Seq(Operation), NEW place,
         NEW messages \in Seq(Message), NEW connected,
         messages # << >>, place # "stopped",
         place \in {"wantOffer", "offerLocked", "offer"}
           => Head(messages) \in OfferMakers
  PROVE  Owed(made, queue, place, Tail(messages), connected)
           <= Owed(made, queue, "receive", messages, connected)
<1>1. Count(queue, {NewOffer}) \in Nat /\ Count(messages, OfferMakers) \in Nat
  BY CountType
<1>2. Count(messages, OfferMakers)
        = Count(Tail(messages), OfferMakers)
            + (IF Head(messages) \in OfferMakers THEN 1 ELSE 0)
  BY CountTail
<1>3. Count(Tail(messages), OfferMakers) \in Nat
  BY HeadTailProperties, CountType
<1> QED
  BY <1>1, <1>2, <1>3 DEF Owed

(***************************************************************************)
(* An answer queued is no offer.                                           *)
(***************************************************************************)
LEMMA OwedByAnswer ==
  ASSUME NEW made \in Nat, NEW queue \in Seq(Operation), NEW place,
         NEW messages \in Seq(Message), NEW connected,
         NEW answer \in Operation, answer # NewOffer
  PROVE  Owed(made, Append(queue, answer), place, messages, connected)
           = Owed(made, queue, place, messages, connected)
<1>1. Count(queue, {NewOffer}) \in Nat /\ Count(messages, OfferMakers) \in Nat
  BY CountType
<1>2. Count(Append(queue, answer), {NewOffer})
        = Count(queue, {NewOffer}) + (IF answer \in {NewOffer} THEN 1 ELSE 0)
  BY CountAppend
<1> QED
  BY <1>1, <1>2 DEF Owed

(***************************************************************************)
(* CreateOffer queues the offer it was called for, on a peer that is there *)
(* or on a new one, or gives it up.                                        *)
(***************************************************************************)
LEMMA OwedByOffering ==
  ASSUME NEW made \in Nat, NEW queue \in Seq(Operation),
         NEW messages \in Seq(Message), NEW connected,
         NEW place \in {"offerLocked", "offer"},
         NEW next \in {Append(queue, NewOffer), <<NewOffer>>, << >>}
  PROVE  Owed(made, next, "receive", messages, connected)
           <= Owed(made, queue, place, messages, connected)
<1>1. Count(queue, {NewOffer}) \in Nat /\ Count(messages, OfferMakers) \in Nat
  BY CountType
<1>2. ASSUME NEW q \in Seq(Operation)
      PROVE  Count(Append(q, NewOffer), {NewOffer}) = Count(q, {NewOffer}) + 1
  <2>1. NewOffer \in Operation
    BY MaxEventsAssumption DEF Operation, NewOffer
  <2> QED
    BY <2>1, CountAppend
<1>3. Count(<< >>, {NewOffer}) = 0
  BY CountEmpty
<1>4. Count(<<NewOffer>>, {NewOffer}) = 1
  <2>1. << >> \in Seq(Operation) /\ <<NewOffer>> = Append(<< >>, NewOffer)
    OBVIOUS
  <2>2. Count(<<NewOffer>>, {NewOffer}) = Count(<< >>, {NewOffer}) + 1
    BY <1>2, <2>1
  <2> QED
    BY <1>3, <2>2
<1>5. /\ Count(next, {NewOffer}) \in Nat
      /\ Count(next, {NewOffer}) <= Count(queue, {NewOffer}) + 1
  <2>1. CASE next = Append(queue, NewOffer)
    <3>1. Count(next, {NewOffer}) = Count(queue, {NewOffer}) + 1
      BY <1>2, <2>1
    <3> QED
      BY <1>1, <3>1
  <2>2. CASE next = <<NewOffer>>
    BY <1>1, <1>4, <2>2
  <2>3. CASE next = << >>
    BY <1>1, <1>3, <2>3
  <2> QED
    BY <2>1, <2>2, <2>3
<1> QED
  BY <1>1, <1>5 DEF Owed

(***************************************************************************)
(* libwebrtc's thread: an offer that is ready is exchanged for one that    *)
(* goes out, or is given up; other operations, and a queue thrown away,    *)
(* cost nothing.                                                           *)
(***************************************************************************)
LEMMA OwedByRtc ==
  ASSUME NEW made \in Nat, NEW queue \in Seq(Operation), NEW place,
         NEW messages \in Seq(Message), NEW connected
  PROVE  /\ queue # << >> =>
               Owed(made + (IF Head(queue) = NewOffer THEN 1 ELSE 0), Tail(queue),
                    place, messages, connected)
                 = Owed(made, queue, place, messages, connected)
         /\ queue # << >> =>
               Owed(made, Tail(queue), place, messages, connected)
                 <= Owed(made, queue, place, messages, connected)
         /\ Owed(made, << >>, place, messages, connected)
               <= Owed(made, queue, place, messages, connected)
<1>1. Count(queue, {NewOffer}) \in Nat /\ Count(messages, OfferMakers) \in Nat
  BY CountType
<1>2. Count(<< >>, {NewOffer}) = 0
  BY CountEmpty
<1>3. ASSUME queue # << >>
      PROVE  /\ Count(Tail(queue), {NewOffer}) \in Nat
             /\ Count(queue, {NewOffer})
                  = Count(Tail(queue), {NewOffer})
                      + (IF Head(queue) \in {NewOffer} THEN 1 ELSE 0)
  BY <1>3, CountTail, CountType, HeadTailProperties
<1>4. Owed(made, << >>, place, messages, connected)
        <= Owed(made, queue, place, messages, connected)
  BY <1>1, <1>2 DEF Owed
<1>5. ASSUME queue # << >>
      PROVE  /\ Owed(made + (IF Head(queue) = NewOffer THEN 1 ELSE 0), Tail(queue),
                     place, messages, connected)
                  = Owed(made, queue, place, messages, connected)
             /\ Owed(made, Tail(queue), place, messages, connected)
                  <= Owed(made, queue, place, messages, connected)
  BY <1>1, <1>3, <1>5 DEF Owed
<1> QED
  BY <1>4, <1>5

----------------------------------------------------------------------------
(***************************************************************************)
(* TypeOK in its three parts: what broker and browser hold, the peer       *)
(* connection, and the threads.                                            *)
(***************************************************************************)
BrokerTyped ==
  /\ events \in 0..MaxEvents
  /\ link \in BOOLEAN /\ present \in BOOLEAN
  /\ toHost \in Seq(Message)
  /\ toClient \in Seq(1..(2 * MaxEvents))
  /\ browser \in 0..(2 * MaxEvents)

PeerTyped ==
  /\ peer \in BOOLEAN /\ inputCh \in BOOLEAN /\ controlCh \in BOOLEAN
  /\ ops \in Seq(Operation)
  /\ sig \in {"stable", "have-local-offer"}
  /\ local \in 0..(2 * MaxEvents)
  /\ givenUp \in BOOLEAN

ThreadsTyped ==
  /\ mutex \in {"free", "ws", "main"}
  /\ ws \in WsLocations /\ main \in MainLocations
  /\ rtc \in {"idle", "using"} /\ rep \in {"idle", "using", "stopped"}
  /\ fate \in {"alive", "relock", "nullChannel"}

(***************************************************************************)
(* TypeOK by the groups of variables that an action touches together.      *)
(***************************************************************************)
LEMMA TypesInParts == TypeOK <=> BrokerTyped /\ PeerTyped /\ ThreadsTyped
BY DEF TypeOK, BrokerTyped, PeerTyped, ThreadsTyped

(***************************************************************************)
(* At the start all events are to come and the first registration is owed. *)
(***************************************************************************)
LEMMA InitIsInBudget == Init => TypedBudget
<1> SUFFICES ASSUME Init PROVE TypedBudget
  OBVIOUS
<1>1. TypeOK
  <2>1. /\ MaxEvents \in 0..MaxEvents /\ 0 \in 0..(2 * MaxEvents)
        /\ << >> \in Seq(Message) /\ << >> \in Seq(1..(2 * MaxEvents))
        /\ << >> \in Seq(Operation)
    BY MaxEventsAssumption
  <2> QED
    BY <2>1 DEF Init, TypeOK, WsLocations, MainLocations
<1>2. Owed(local, ops, ws, toHost, link) = 1
  BY CountEmpty DEF Init, Owed
<1>3. events = MaxEvents
  BY DEF Init
<1> QED
  BY <1>1, <1>2, <1>3, MaxEventsAssumption DEF TypedBudget, Budget

(***************************************************************************)
(* A step that owes no more than it spends keeps the budget.               *)
(***************************************************************************)
LEMMA SpendingKeepsBudget ==
  ASSUME TypedBudget, NEW spent \in {0, 1}, events' = events - spent,
         local' \in Nat, ops' \in Seq(Operation), toHost' \in Seq(Message),
         Owed(local', ops', ws', toHost', link')
           <= Owed(local, ops, ws, toHost, link) + spent
  PROVE  Budget'
<1>1. PICK before \in Nat : before = Owed(local, ops, ws, toHost, link)
  BY OwedType, MaxEventsAssumption DEF TypedBudget, TypeOK
<1>2. PICK after \in Nat : after = Owed(local', ops', ws', toHost', link')
  BY OwedType
<1>3. events \in Nat /\ MaxEvents \in Nat
  BY MaxEventsAssumption DEF TypedBudget, TypeOK
<1>4. after <= before + spent /\ before <= (MaxEvents - events) + 1
  BY <1>1, <1>2 DEF TypedBudget, Budget
<1>5. after <= (MaxEvents - (events - spent)) + 1
  BY <1>3, <1>4
<1> QED
  BY <1>2, <1>5, Zenon DEF Budget

(***************************************************************************)
(* What broker and browser do costs at most the event it takes.            *)
(***************************************************************************)
LEMMA RelayCosts ==
  ASSUME TypedBudget, NEW message \in Message, Relay(message), HostWaits,
         UNCHANGED link
  PROVE  /\ toHost' \in Seq(Message)
         /\ Owed(local', ops', ws', toHost', link')
              <= Owed(local, ops, ws, toHost, link)
                   + (IF message \in OfferMakers THEN 1 ELSE 0)
<1>1. /\ local \in Nat /\ ops \in Seq(Operation) /\ toHost \in Seq(Message)
  BY MaxEventsAssumption DEF TypedBudget, TypeOK
<1>2. UNCHANGED <<local, ops, ws, link>>
  BY DEF HostWaits, peerVars
<1>3. Owed(local, ops, ws, toHost, link) \in Nat
  BY <1>1, OwedType
<1>4. CASE link
  BY <1>1, <1>2, <1>4, OwedToBroker, AppendProperties DEF Relay
<1>5. CASE ~link
  <2>1. toHost' = toHost
    BY <1>5 DEF Relay
  <2> QED
    BY <1>1, <1>2, <1>3, <2>1
<1> QED
  BY <1>4, <1>5

(***************************************************************************)
(* The messages of the broker, and whether they lead to an offer.          *)
(***************************************************************************)
LEMMA BrokerMessages ==
  /\ \A p \in BOOLEAN : /\ [type |-> "peer-state", present |-> p] \in Message
                       /\ [type |-> "registered", present |-> p] \in Message
  /\ [type |-> "peer-state", present |-> FALSE] \notin OfferMakers
  /\ [type |-> "renegotiate"] \in Message
  /\ \A n \in 1..(2 * MaxEvents) :
       /\ [type |-> "answer", to |-> n] \in Message
       /\ [type |-> "answer", to |-> n] \notin OfferMakers
<1>1. \A p \in BOOLEAN : /\ [type |-> "peer-state", present |-> p] \in Message
                       /\ [type |-> "registered", present |-> p] \in Message
  BY DEF Message
<1>2. [type |-> "peer-state", present |-> FALSE] \notin OfferMakers
  BY DEF OfferMakers
<1>3. [type |-> "renegotiate"] \in Message
  BY DEF Message
<1>4. \A n \in 1..(2 * MaxEvents) :
        /\ [type |-> "answer", to |-> n] \in Message
        /\ [type |-> "answer", to |-> n] \notin OfferMakers
  BY DEF Message, OfferMakers
<1> QED
  BY <1>1, <1>2, <1>3, <1>4

(***************************************************************************)
(* Broker and browser keep types and budget.                               *)
(***************************************************************************)
LEMMA BrokerKeepsBudget ==
  ASSUME TypedBudget, HostWaits,
         \/ ClientJoins \/ ClientLeaves \/ ClientRenegotiates \/ SocketDrops
         \/ ClientReadsOffer \/ ClientAnswers \/ Reconnect
  PROVE  TypedBudget'
<1>0. /\ BrokerTyped /\ PeerTyped /\ ThreadsTyped /\ MaxEvents \in Nat \ {0}
      /\ local \in Nat /\ ops \in Seq(Operation) /\ toHost \in Seq(Message)
      /\ events \in 0..MaxEvents
      /\ Owed(local, ops, ws, toHost, link) \in Nat
  BY TypesInParts, MaxEventsAssumption, OwedType
     DEF TypedBudget, BrokerTyped, PeerTyped
<1>1. /\ UNCHANGED <<local, ops, ws>> /\ PeerTyped' /\ ThreadsTyped'
      /\ local' \in Nat /\ ops' \in Seq(Operation)
  BY <1>0 DEF HostWaits, peerVars, PeerTyped, ThreadsTyped
<1>2. SUFFICES BrokerTyped' /\ Budget'
  BY <1>1, TypesInParts DEF TypedBudget, BrokerTyped, PeerTyped, ThreadsTyped,
                            TypeOK
<1>3. events > 0 => events - 1 \in 0..MaxEvents
  BY <1>0
<1>4. ASSUME NEW m \in Message, Relay(m), events > 0, events' = events - 1,
             UNCHANGED link
      PROVE  toHost' \in Seq(Message) /\ Budget'
  <2>1. /\ toHost' \in Seq(Message)
        /\ Owed(local', ops', ws', toHost', link')
             <= Owed(local, ops, ws, toHost, link)
                  + (IF m \in OfferMakers THEN 1 ELSE 0)
    BY <1>4, RelayCosts
  <2>2. Owed(local', ops', ws', toHost', link') \in Nat
    BY <1>1, <2>1, OwedType
  <2>3. Owed(local', ops', ws', toHost', link')
          <= Owed(local, ops, ws, toHost, link) + 1
    BY <1>0, <2>1, <2>2
  <2> QED
    BY <1>1, <1>4, <2>1, <2>3, SpendingKeepsBudget
<1>5. CASE ClientJoins
  <2>1. [type |-> "peer-state", present |-> TRUE] \in Message
    BY BrokerMessages
  <2> QED
    BY <1>0, <1>3, <1>4, <1>5, <2>1 DEF ClientJoins, BrokerTyped
<1>6. CASE ClientLeaves
  <2>1. [type |-> "peer-state", present |-> FALSE] \in Message
    BY BrokerMessages
  <2>2. 0 \in 0..(2 * MaxEvents) /\ << >> \in Seq(1..(2 * MaxEvents))
    BY <1>0
  <2> QED
    BY <1>0, <1>3, <1>4, <1>6, <2>1, <2>2 DEF ClientLeaves, BrokerTyped
<1>7. CASE ClientRenegotiates
  BY <1>0, <1>3, <1>4, <1>7, BrokerMessages DEF ClientRenegotiates, BrokerTyped
<1>8. CASE SocketDrops
  <2>1. /\ link /\ link' = FALSE /\ toHost' = << >> /\ events' = events - 1
        /\ UNCHANGED <<present, toClient, browser>> /\ events > 0
    BY <1>8 DEF SocketDrops
  <2>2. Owed(local, ops, ws, << >>, FALSE) <= Owed(local, ops, ws, toHost, link) + 1
    BY <1>0, OwedToBroker, BrokerMessages
  <2>3. toHost' \in Seq(Message) /\ link' \in BOOLEAN
    <3>1. << >> \in Seq(Message)
      OBVIOUS
    <3> QED
      BY <2>1, <3>1, Zenon
  <2>4. Owed(local', ops', ws', toHost', link') = Owed(local, ops, ws, << >>, FALSE)
    BY <1>1, <2>1, Zenon
  <2>5. Budget'
    BY <1>1, <2>1, <2>2, <2>3, <2>4, SpendingKeepsBudget
  <2>6. events' \in 0..MaxEvents
    BY <1>3, <2>1
  <2> QED
    BY <1>0, <2>1, <2>3, <2>5, <2>6 DEF BrokerTyped
<1>9. CASE ClientReadsOffer
  <2>1. /\ toClient # << >> /\ browser' = Head(toClient) /\ toClient' = Tail(toClient)
        /\ UNCHANGED <<events, link, present, toHost>>
    BY <1>9 DEF ClientReadsOffer
  <2>2. browser' \in 0..(2 * MaxEvents) /\ toClient' \in Seq(1..(2 * MaxEvents))
    <3>1. Head(toClient) \in 1..(2 * MaxEvents)
          /\ Tail(toClient) \in Seq(1..(2 * MaxEvents))
      BY <1>0, <2>1, HeadTailProperties DEF BrokerTyped
    <3> QED
      BY <1>0, <2>1, <3>1
  <2>3. Budget'
    BY <1>1, <2>1 DEF TypedBudget, Budget
  <2> QED
    BY <1>0, <2>1, <2>2, <2>3 DEF BrokerTyped
<1>10. CASE ClientAnswers
  <2>1. /\ browser # 0 /\ Relay([type |-> "answer", to |-> browser]) /\ browser' = 0
        /\ UNCHANGED <<events, link, present, toClient>>
    BY <1>10 DEF ClientAnswers
  <2>2. browser \in 1..(2 * MaxEvents) /\ 0 \in 0..(2 * MaxEvents)
    BY <1>0, <2>1 DEF BrokerTyped
  <2>3. /\ toHost' \in Seq(Message)
        /\ Owed(local', ops', ws', toHost', link')
             <= Owed(local, ops, ws, toHost, link) + 0
    BY <2>1, <2>2, BrokerMessages, RelayCosts
  <2>4. events' = events - 0
    BY <1>0, <2>1
  <2>5. Budget'
    BY <1>1, <2>3, <2>4, SpendingKeepsBudget
  <2> QED
    BY <1>0, <2>1, <2>2, <2>3, <2>5 DEF BrokerTyped
<1>11. CASE Reconnect
  <2>1. /\ ~link /\ ws = "receive" /\ link' = TRUE
        /\ toHost' = <<[type |-> "registered", present |-> present]>>
        /\ UNCHANGED <<events, present, toClient, browser>>
    BY <1>11 DEF Reconnect
  <2>2. [type |-> "registered", present |-> present] \in Message
    BY <1>0, BrokerMessages DEF BrokerTyped
  <2>3. toHost' \in Seq(Message)
    BY <2>1, <2>2
  <2>4. Owed(local', ops', ws', toHost', link')
          <= Owed(local, ops, ws, toHost, link) + 0
    <3>1. link = FALSE
      BY <1>0, <2>1 DEF BrokerTyped
    <3>2. Owed(local, ops, "receive",
               <<[type |-> "registered", present |-> present]>>, TRUE)
            <= Owed(local, ops, "receive", toHost, FALSE)
      BY <1>0, <2>2, OwedToBroker
    <3>3. Owed(local', ops', ws', toHost', link')
            = Owed(local, ops, "receive",
                   <<[type |-> "registered", present |-> present]>>, TRUE)
      BY <1>1, <2>1, Zenon
    <3>4. Owed(local, ops, ws, toHost, link) = Owed(local, ops, "receive", toHost, FALSE)
      BY <2>1, <3>1, Zenon
    <3>5. Owed(local, ops, ws, toHost, link) + 0 = Owed(local, ops, ws, toHost, link)
      BY <1>0
    <3> QED
      BY <3>2, <3>3, <3>4, <3>5, Zenon
  <2>5. events' = events - 0
    BY <1>0, <2>1
  <2>6. Budget'
    BY <1>1, <2>3, <2>4, <2>5, SpendingKeepsBudget
  <2> QED
    BY <1>0, <2>1, <2>3, <2>6 DEF BrokerTyped
<1> QED
  BY <1>5, <1>6, <1>7, <1>8, <1>9, <1>10, <1>11

(***************************************************************************)
(* Dispatch goes on to make an offer only for a message that asks for one. *)
(***************************************************************************)
LEMMA DispatchOnType ==
  ASSUME NEW m \in Message, NEW place,
         place = CASE m.type = "registered" ->
                        IF m.present THEN "wantOffer" ELSE "receive"
                   [] m.type = "peer-state" ->
                        IF m.present THEN "wantOffer" ELSE "wantLeave"
                   [] m.type = "renegotiate" -> "offer"
                   [] OTHER -> "receive"
  PROVE  /\ place \in {"receive", "wantOffer", "wantLeave", "offer"}
         /\ place \in {"wantOffer", "offerLocked", "offer"} => m \in OfferMakers
         /\ m.type = "answer" => m.to \in Operation /\ m.to # NewOffer
<1>1. CASE m \in [type : {"registered", "peer-state"}, present : BOOLEAN]
  <2>1. m.type \in {"registered", "peer-state"} /\ m.present \in BOOLEAN
    BY <1>1
  <2>2. m.present => m \in [type : {"registered", "peer-state"}, present : {TRUE}]
    BY <1>1
  <2>3. place = IF m.present THEN "wantOffer"
                ELSE IF m.type = "registered" THEN "receive" ELSE "wantLeave"
    BY <2>1
  <2> QED
    BY <2>1, <2>2, <2>3 DEF OfferMakers
<1>2. CASE m \in [type : {"renegotiate"}]
  <2>1. m.type = "renegotiate" /\ m \in OfferMakers
    BY <1>2 DEF OfferMakers
  <2> QED
    BY <2>1
<1>3. CASE m \in [type : {"answer"}, to : 1..(2 * MaxEvents)]
  <2>1. m.type = "answer" /\ m.to \in 1..(2 * MaxEvents)
    BY <1>3
  <2>2. m.to \in Operation /\ m.to # NewOffer
    BY <2>1, MaxEventsAssumption DEF Operation, NewOffer
  <2>3. place = "receive"
    BY <2>1
  <2> QED
    BY <2>2, <2>3
<1> QED
  BY <1>1, <1>2, <1>3 DEF Message

(***************************************************************************)
(* The handler keeps types and budget.                                     *)
(***************************************************************************)
LEMMA HandlerKeepsBudget ==
  ASSUME TypedBudget, Handler
  PROVE  TypedBudget'
<1>0. /\ BrokerTyped /\ PeerTyped /\ ThreadsTyped /\ MaxEvents \in Nat \ {0}
      /\ local \in Nat /\ ops \in Seq(Operation) /\ toHost \in Seq(Message)
      /\ events \in 0..MaxEvents /\ events = events - 0
      /\ Owed(local, ops, ws, toHost, link) \in Nat
      /\ Owed(local, ops, ws, toHost, link) + 0 = Owed(local, ops, ws, toHost, link)
  BY TypesInParts, MaxEventsAssumption, OwedType
     DEF TypedBudget, BrokerTyped, PeerTyped
<1>1. SUFFICES BrokerTyped' /\ PeerTyped' /\ ThreadsTyped' /\ Budget'
  BY DEF TypedBudget, BrokerTyped, PeerTyped, ThreadsTyped, TypeOK
<1>2. ASSUME UNCHANGED <<events, local, link>>, ops' \in Seq(Operation),
             toHost' \in Seq(Message),
             Owed(local, ops', ws', toHost', link)
               <= Owed(local, ops, ws, toHost, link)
      PROVE  Budget'
  <2>1. Owed(local', ops', ws', toHost', link')
          <= Owed(local, ops, ws, toHost, link) + 0
    BY <1>0, <1>2, Zenon
  <2>2. local' \in Nat /\ events' = events - 0
    BY <1>0, <1>2
  <2> QED
    BY <1>2, <2>1, <2>2, SpendingKeepsBudget
<1>3. CASE Dispatch
  <2>1. PICK m : m = Head(toHost)
    OBVIOUS
  <2>2. /\ ws = "receive" /\ toHost # << >> /\ toHost' = Tail(toHost)
        /\ \/ m.type = "answer" /\ ops' = Append(ops, m.to)
           \/ ops' = ops
        /\ UNCHANGED <<events, link, present, toClient, browser, mutex, rtc, rep,
                       main, peer, inputCh, controlCh, sig, local, fate>>
    BY <1>3, <2>1 DEF Dispatch, HandleAnswer
  <2>3. m \in Message /\ toHost' \in Seq(Message)
    BY <1>0, <2>1, <2>2, HeadTailProperties
  <2>4. ws' = CASE m.type = "registered" ->
                     IF m.present THEN "wantOffer" ELSE "receive"
                [] m.type = "peer-state" ->
                     IF m.present THEN "wantOffer" ELSE "wantLeave"
                [] m.type = "renegotiate" -> "offer"
                [] OTHER -> "receive"
    BY <1>3, <2>1 DEF Dispatch, GotoWs
  <2>5. /\ ws' \in {"receive", "wantOffer", "wantLeave", "offer"}
        /\ ws' \in {"wantOffer", "offerLocked", "offer"} => m \in OfferMakers
        /\ m.type = "answer" => m.to \in Operation /\ m.to # NewOffer
    BY <2>3, <2>4, DispatchOnType
  <2>6. ops' \in Seq(Operation)
    <3>1. m.type = "answer" => Append(ops, m.to) \in Seq(Operation)
      BY <1>0, <2>5, AppendProperties
    <3> QED
      BY <1>0, <2>2, <3>1, Zenon
  <2>7. Owed(local, ops, ws', Tail(toHost), link)
          <= Owed(local, ops, "receive", toHost, link)
    BY <1>0, <2>1, <2>2, <2>5, OwedByMessage
  <2>8. Owed(local, ops', ws', Tail(toHost), link)
          = Owed(local, ops, ws', Tail(toHost), link)
    <3>1. CASE m.type = "answer" /\ ops' = Append(ops, m.to)
      <4>1. PICK answer \in Operation : answer = m.to /\ answer # NewOffer
        BY <2>5, <3>1
      <4>2. ops' = Append(ops, answer)
        BY <2>2, <3>1, <4>1
      <4>3. Owed(local, Append(ops, answer), ws', Tail(toHost), link)
              = Owed(local, ops, ws', Tail(toHost), link)
        <5>1. /\ local \in Nat /\ ops \in Seq(Operation)
              /\ Tail(toHost) \in Seq(Message) /\ answer # NewOffer
          BY <1>0, <2>2, <2>3, <4>1
        <5> QED
          BY <5>1, OwedByAnswer
      <4> QED
        BY <4>2, <4>3
    <3>2. CASE ops' = ops
      BY <3>2
    <3> QED
      BY <2>2, <3>1, <3>2
  <2>9. Budget'
    BY <1>2, <2>2, <2>3, <2>6, <2>7, <2>8
  <2>10. givenUp' \in BOOLEAN
    BY <1>0, <1>3, Zenon DEF Dispatch, HandleAnswer, GiveUp, PeerTyped
  <2> QED
    BY <1>0, <2>2, <2>3, <2>5, <2>6, <2>9, <2>10
       DEF BrokerTyped, PeerTyped, ThreadsTyped, WsLocations
<1>4. CASE WsLocks
  <2>1. /\ ws \in {"wantOffer", "wantLeave"} /\ mutex' = "ws"
        /\ ws' = IF ws = "wantOffer" THEN "offerLocked" ELSE "leave"
        /\ UNCHANGED <<brokerVars, rtc, rep, main, peerVars, fate>>
    BY <1>4 DEF WsLocks, GotoWs
  <2>2. Owed(local, ops, ws', toHost, link) = Owed(local, ops, ws, toHost, link)
    BY <2>1 DEF Owed
  <2>3. Budget'
    BY <1>0, <1>2, <2>1, <2>2 DEF brokerVars, peerVars
  <2> QED
    BY <1>0, <2>1, <2>3 DEF brokerVars, peerVars, BrokerTyped, PeerTyped,
                            ThreadsTyped, WsLocations
<1>5. CASE CreateOffer
  <2>1. /\ ws \in {"offerLocked", "offer"} /\ ws' = "receive"
        /\ mutex' = IF ws = "offerLocked" THEN "free" ELSE mutex
        /\ UNCHANGED <<brokerVars, rtc, rep, main, sig, local, givenUp, fate>>
    BY <1>5 DEF CreateOffer, GotoWs
  <2>2. /\ peer' \in BOOLEAN /\ inputCh' \in BOOLEAN /\ controlCh' \in BOOLEAN
        /\ ops' \in {Append(ops, NewOffer), <<NewOffer>>, << >>}
    <3>1. CASE peer
      BY <1>0, <1>5, <3>1 DEF CreateOffer, PeerTyped
    <3>2. CASE ~peer
      <4>1. PICK b \in Built : /\ peer' = b[1] /\ inputCh' = b[2] /\ controlCh' = b[3]
                               /\ ops' = IF b[3] THEN <<NewOffer>> ELSE << >>
        BY <1>5, <3>2 DEF CreateOffer
      <4>2. b[1] \in BOOLEAN /\ b[2] \in BOOLEAN /\ b[3] \in BOOLEAN
        BY BuiltInOrder
      <4> QED
        BY <4>1, <4>2
    <3> QED
      BY <3>1, <3>2
  <2>3. ops' \in Seq(Operation)
    <3>1. NewOffer \in Operation
      BY MaxEventsAssumption DEF Operation, NewOffer
    <3>2. /\ Append(ops, NewOffer) \in Seq(Operation)
          /\ <<NewOffer>> \in Seq(Operation) /\ << >> \in Seq(Operation)
      BY <1>0, <3>1
    <3> QED
      BY <2>2, <3>2
  <2>4. Owed(local, ops', "receive", toHost, link)
          <= Owed(local, ops, ws, toHost, link)
    BY <1>0, <2>1, <2>2, OwedByOffering
  <2>5. Budget'
    BY <1>0, <1>2, <2>1, <2>3, <2>4 DEF brokerVars
  <2> QED
    BY <1>0, <2>1, <2>2, <2>3, <2>5 DEF brokerVars, BrokerTyped, PeerTyped,
                                        ThreadsTyped, WsLocations
<1>6. CASE ClosePeerAgain
  <2>1. /\ ws = "leave" /\ ws' = "relock" /\ fate' \in {"alive", "relock"}
        /\ UNCHANGED <<brokerVars, mutex, rtc, rep, main, peerVars>>
    BY <1>6 DEF ClosePeerAgain, GotoWs
  <2>2. Owed(local, ops, "relock", toHost, link)
          = Owed(local, ops, "leave", toHost, link)
    BY DEF Owed
  <2>3. Budget'
    BY <1>0, <1>2, <2>1, <2>2 DEF brokerVars, peerVars
  <2> QED
    BY <1>0, <2>1, <2>3 DEF brokerVars, peerVars, BrokerTyped, PeerTyped,
                            ThreadsTyped, WsLocations
<1> QED
  BY <1>3, <1>4, <1>5, <1>6 DEF Handler

(***************************************************************************)
(* libwebrtc's thread: local, which numbers the offers, is bounded by what *)
(* was owed before.                                                        *)
(***************************************************************************)
LEMMA RtcKeepsBudget ==
  ASSUME TypedBudget, OfferReady \/ AnswerApplied
  PROVE  TypedBudget'
<1>0. /\ BrokerTyped /\ PeerTyped /\ ThreadsTyped /\ MaxEvents \in Nat \ {0}
      /\ local \in Nat /\ ops \in Seq(Operation) /\ toHost \in Seq(Message)
      /\ events \in 0..MaxEvents /\ events = events - 0
      /\ Owed(local, ops, ws, toHost, link) \in Nat
      /\ Owed(local, ops, ws, toHost, link) + 0 = Owed(local, ops, ws, toHost, link)
      /\ Owed(local, ops, ws, toHost, link) <= (MaxEvents - events) + 1
  BY TypesInParts, MaxEventsAssumption, OwedType
     DEF TypedBudget, Budget, BrokerTyped, PeerTyped
<1>1. SUFFICES BrokerTyped' /\ PeerTyped' /\ ThreadsTyped' /\ Budget'
  BY DEF TypedBudget, BrokerTyped, PeerTyped, ThreadsTyped, TypeOK
<1>2. ops # << >> /\ ops' = Tail(ops) /\ UNCHANGED <<events, ws, toHost, link>>
  BY DEF OfferReady, AnswerApplied, brokerVars
<1>3. ops' \in Seq(Operation)
  BY <1>0, <1>2, HeadTailProperties
<1>4. Owed(local + (IF Head(ops) = NewOffer THEN 1 ELSE 0), Tail(ops), ws, toHost, link)
        = Owed(local, ops, ws, toHost, link)
  BY <1>0, <1>2, OwedByRtc
<1>5. PICK made \in Nat : made = local + (IF Head(ops) = NewOffer THEN 1 ELSE 0)
  BY <1>0
<1>6. made <= Owed(local, ops, ws, toHost, link)
  <2>1. Tail(ops) \in Seq(Operation)
    BY <1>2, <1>3
  <2> QED
    BY <1>0, <1>4, <1>5, <2>1, OwedType
<1>7. made \in 0..(2 * MaxEvents)
  BY <1>0, <1>6
<1>8. local' = made => Budget'
  <2> SUFFICES ASSUME local' = made PROVE Budget'
    OBVIOUS
  <2>1. Owed(local', ops', ws', toHost', link')
          = Owed(local, ops, ws, toHost, link) + 0
    <3>1. Owed(local', ops', ws', toHost', link')
            = Owed(made, Tail(ops), ws, toHost, link)
      BY <1>2, Zenon
    <3>2. Owed(made, Tail(ops), ws, toHost, link) = Owed(local, ops, ws, toHost, link)
      BY <1>4, <1>5, Zenon
    <3> QED
      BY <1>0, <3>1, <3>2, Zenon
  <2>2. local' \in Nat /\ toHost' \in Seq(Message) /\ events' = events - 0
    BY <1>0, <1>2
  <2>3. Owed(local', ops', ws', toHost', link')
          <= Owed(local, ops, ws, toHost, link) + 0
    BY <1>0, <2>1
  <2> QED
    BY <1>3, <2>2, <2>3, SpendingKeepsBudget
<1>9. CASE OfferReady /\ OfferGoesOut
  <2>1. /\ local' = local + 1 /\ Head(ops) = NewOffer
        /\ sig' \in {"have-local-offer", sig} /\ givenUp' \in BOOLEAN
        /\ toClient' = IF link /\ present THEN Append(toClient, local') ELSE toClient
        /\ UNCHANGED <<events, link, present, toHost, browser, mutex, ws, rtc, rep,
                       main, peer, inputCh, controlCh, fate>>
    BY <1>9, Zenon DEF OfferReady, OfferGoesOut
  <2>2. local' = made
    BY <1>5, <2>1
  <2>3. toClient' \in Seq(1..(2 * MaxEvents))
    <3>1. made \in 1..(2 * MaxEvents)
      BY <1>0, <1>5, <1>7, <2>1
    <3>2. toClient \in Seq(1..(2 * MaxEvents))
      BY <1>0 DEF BrokerTyped
    <3>3. Append(toClient, made) \in Seq(1..(2 * MaxEvents))
      BY <3>1, <3>2, AppendProperties
    <3> QED
      BY <2>1, <2>2, <3>2, <3>3
  <2> QED
    BY <1>0, <1>3, <1>7, <1>8, <2>1, <2>2, <2>3
       DEF BrokerTyped, PeerTyped, ThreadsTyped
<1>10. CASE AnswerApplied
  <2>1. /\ local' = local /\ Head(ops) # NewOffer
        /\ sig' \in {"stable", sig} /\ givenUp' \in BOOLEAN
        /\ UNCHANGED <<brokerVars, mutex, ws, rtc, rep, main, peer, inputCh,
                       controlCh, fate>>
    <3>1. givenUp' \in BOOLEAN
      BY <1>0, <1>10, Zenon DEF AnswerApplied, GiveUp, PeerTyped
    <3> QED
      BY <1>10, <3>1 DEF AnswerApplied
  <2>2. local' = made
    BY <1>0, <1>5, <2>1
  <2> QED
    BY <1>0, <1>3, <1>7, <1>8, <2>1, <2>2
       DEF brokerVars, BrokerTyped, PeerTyped, ThreadsTyped
<1>11. CASE OfferReady /\ OfferFails
  <2>1. /\ UNCHANGED <<brokerVars, local, sig, mutex, ws, rtc, rep, main, peer,
                       inputCh, controlCh, fate>>
        /\ givenUp' \in BOOLEAN
    BY <1>11, Zenon DEF OfferReady, OfferFails, brokerVars
  <2>2. Owed(local, Tail(ops), ws, toHost, link) <= Owed(local, ops, ws, toHost, link)
    BY <1>0, <1>2, OwedByRtc
  <2>3. Owed(local', ops', ws', toHost', link')
          <= Owed(local, ops, ws, toHost, link) + 0
    <3>1. Owed(local', ops', ws', toHost', link')
            = Owed(local, Tail(ops), ws, toHost, link)
      BY <1>2, <2>1, Zenon
    <3> QED
      BY <1>0, <2>2, <3>1, Zenon
  <2>4. local' \in Nat /\ toHost' \in Seq(Message) /\ events' = events - 0
    BY <1>0, <1>2, <2>1
  <2>5. Budget'
    BY <1>3, <2>3, <2>4, SpendingKeepsBudget
  <2> QED
    BY <1>0, <1>3, <2>1, <2>5 DEF brokerVars, BrokerTyped, PeerTyped, ThreadsTyped
<1> QED
  BY <1>9, <1>10, <1>11 DEF OfferReady

(***************************************************************************)
(* The unlocked looks at the control channel, the joins and ClosePeer owe  *)
(* nothing; what they throw away is no longer owed.                        *)
(***************************************************************************)
LEMMA OthersKeepBudget ==
  ASSUME TypedBudget,
         HelloChecks \/ HelloSends \/ Reporter \/ StopReporter \/ Shutdown
  PROVE  TypedBudget'
<1>0. /\ BrokerTyped /\ PeerTyped /\ ThreadsTyped /\ MaxEvents \in Nat \ {0}
      /\ local \in Nat /\ ops \in Seq(Operation) /\ toHost \in Seq(Message)
      /\ events \in 0..MaxEvents /\ events = events - 0
      /\ Owed(local, ops, ws, toHost, link) \in Nat
      /\ Owed(local, ops, ws, toHost, link) + 0 = Owed(local, ops, ws, toHost, link)
  BY TypesInParts, MaxEventsAssumption, OwedType
     DEF TypedBudget, BrokerTyped, PeerTyped
<1>1. SUFFICES BrokerTyped' /\ PeerTyped' /\ ThreadsTyped' /\ Budget'
  BY DEF TypedBudget, BrokerTyped, PeerTyped, ThreadsTyped, TypeOK
<1>2. ASSUME UNCHANGED <<events, local, ops, ws, toHost, link>>
      PROVE  Budget'
  BY <1>2 DEF TypedBudget, Budget
<1>3. CASE HelloChecks \/ HelloSends \/ Reporter
  <2>1. /\ UNCHANGED <<brokerVars, mutex, ws, main, peerVars>>
        /\ rtc' \in {"idle", "using"} /\ rep' \in {"idle", "using", "stopped"}
        /\ fate' \in {"alive", "relock", "nullChannel"}
    BY <1>0, <1>3 DEF HelloChecks, HelloSends, Reporter, ReporterChecks,
                      ReporterSends, ThreadsTyped
  <2> QED
    BY <1>0, <1>2, <2>1 DEF brokerVars, peerVars, BrokerTyped, PeerTyped,
                            ThreadsTyped
<1>4. CASE StopReporter \/ CloseLocks \/ CloseControl
  <2>1. /\ UNCHANGED <<brokerVars, ws, rtc, peerVars, fate>>
        /\ main' \in MainLocations /\ rep' \in {"idle", "using", "stopped"}
        /\ mutex' \in {"free", "ws", "main"}
    BY <1>0, <1>4 DEF StopReporter, CloseLocks, CloseControl, GotoMain,
                      MainLocations, ThreadsTyped
  <2> QED
    BY <1>0, <1>2, <2>1 DEF brokerVars, peerVars, BrokerTyped, PeerTyped,
                            ThreadsTyped
<1>5. CASE StopSignaling
  <2>1. /\ ws = "receive" /\ ws' = "stopped" /\ link' = FALSE /\ toHost' = << >>
        /\ main' = "wantClose"
        /\ UNCHANGED <<events, present, toClient, browser, mutex, rtc, rep,
                       peerVars, fate>>
    BY <1>5 DEF StopSignaling, GotoMain
  <2>2. Owed(local, ops, "stopped", << >>, FALSE)
          <= Owed(local, ops, ws, toHost, link)
    BY <1>0, OwedToBroker, BrokerMessages
  <2>3. Owed(local', ops', ws', toHost', link')
          <= Owed(local, ops, ws, toHost, link) + 0
    <3>1. Owed(local', ops', ws', toHost', link')
            = Owed(local, ops, "stopped", << >>, FALSE)
      BY <2>1, Zenon DEF peerVars
    <3> QED
      BY <1>0, <2>2, <3>1, Zenon
  <2>4. toHost' \in Seq(Message)
    BY <2>1
  <2>5. link' \in BOOLEAN
    BY <2>1, Zenon
  <2>6. local' \in Nat /\ ops' \in Seq(Operation) /\ events' = events - 0
    BY <1>0, <2>1 DEF peerVars
  <2>7. Budget'
    BY <2>3, <2>4, <2>6, SpendingKeepsBudget
  <2> QED
    BY <1>0, <2>1, <2>4, <2>5, <2>7 DEF peerVars, BrokerTyped, PeerTyped,
       ThreadsTyped, WsLocations, MainLocations
<1>6. CASE CloseInput \/ DropControl \/ DropPeer
  <2>1. /\ UNCHANGED <<brokerVars, ws, rtc, rep, ops, sig, local, givenUp, fate>>
        /\ main' \in MainLocations /\ mutex' \in {"free", "ws", "main"}
        /\ peer' \in BOOLEAN /\ inputCh' \in BOOLEAN /\ controlCh' \in BOOLEAN
    BY <1>0, <1>6 DEF CloseInput, DropControl, DropPeer, GotoMain,
                      MainLocations, ThreadsTyped, PeerTyped
  <2> QED
    BY <1>0, <1>2, <2>1 DEF brokerVars, BrokerTyped, PeerTyped, ThreadsTyped
<1>7. CASE CloseConnection
  <2>1. /\ ops' = << >> /\ main' = "dropPeer"
        /\ UNCHANGED <<brokerVars, mutex, ws, rtc, rep, peer, inputCh, controlCh,
                       sig, local, givenUp, fate>>
    BY <1>7 DEF CloseConnection, GotoMain
  <2>2. Owed(local, << >>, ws, toHost, link) <= Owed(local, ops, ws, toHost, link)
    BY <1>0, OwedByRtc
  <2>3. Owed(local', ops', ws', toHost', link')
          <= Owed(local, ops, ws, toHost, link) + 0
    <3>1. Owed(local', ops', ws', toHost', link') = Owed(local, << >>, ws, toHost, link)
      BY <2>1, Zenon DEF brokerVars
    <3> QED
      BY <1>0, <2>2, <3>1, Zenon
  <2>4. ops' \in Seq(Operation)
    BY <2>1
  <2>5. local' \in Nat /\ toHost' \in Seq(Message) /\ events' = events - 0
    BY <1>0, <2>1 DEF brokerVars
  <2>6. Budget'
    BY <2>3, <2>4, <2>5, SpendingKeepsBudget
  <2> QED
    BY <1>0, <2>1, <2>4, <2>6 DEF brokerVars, BrokerTyped, PeerTyped,
       ThreadsTyped, MainLocations
<1> QED
  BY <1>3, <1>4, <1>5, <1>6, <1>7 DEF Shutdown, ClosePeer

(***************************************************************************)
(* Every step keeps types and budget.                                      *)
(***************************************************************************)
LEMMA BudgetInvariance == Spec => []TypedBudget
<1>1. ASSUME TypedBudget, [Next]_vars PROVE TypedBudget'
  <2>1. CASE Visitor \/ Browser \/ Connecting
    BY <1>1, <2>1, BrokerKeepsBudget DEF Visitor, Browser, Connecting
  <2>2. CASE Handler
    BY <1>1, <2>2, HandlerKeepsBudget
  <2>3. CASE Rtc \/ HelloChecks \/ Reporter \/ StopReporter \/ Shutdown
    BY <1>1, <2>3, RtcKeepsBudget, OthersKeepBudget DEF Rtc, OperationsChain
  <2>4. CASE UNCHANGED vars
    BY <1>1, <2>4 DEF vars, brokerVars, peerVars, TypedBudget, Budget, TypeOK
  <2> QED
    BY <1>1, <2>1, <2>2, <2>3, <2>4 DEF Next, Host
<1> QED
  BY <1>1, InitIsInBudget, PTL DEF Spec

(***************************************************************************)
(* The session's variables keep their types; the offers are numbered       *)
(* within 2 * MaxEvents.                                                   *)
(***************************************************************************)
THEOREM Typing == Spec => []TypeOK
<1>1. TypedBudget => TypeOK
  BY DEF TypedBudget
<1> QED
  BY <1>1, BudgetInvariance, PTL

(***************************************************************************)
(* No offer comes from nowhere: the host has made at most one for every    *)
(* join, leave, renegotiation and drop so far, and one to begin with,      *)
(* however answers and new offers overtake each other.                     *)
(***************************************************************************)
THEOREM OffersAreAskedFor == Spec => [](local <= (MaxEvents - events) + 1)
<1>1. TypedBudget => local <= (MaxEvents - events) + 1
  <2> SUFFICES ASSUME TypedBudget PROVE local <= (MaxEvents - events) + 1
    OBVIOUS
  <2>1. /\ local \in Nat /\ ops \in Seq(Operation) /\ toHost \in Seq(Message)
        /\ events \in Nat /\ MaxEvents \in Nat
    BY MaxEventsAssumption DEF TypedBudget, TypeOK
  <2>2. /\ Owed(local, ops, ws, toHost, link) \in Nat
        /\ local <= Owed(local, ops, ws, toHost, link)
    BY <2>1, OwedType
  <2> QED
    BY <2>1, <2>2 DEF TypedBudget, Budget
<1> QED
  BY <1>1, BudgetInvariance, PTL

----------------------------------------------------------------------------
(***************************************************************************)
(* The third part: the newest offer is not forgotten.  What keeps its      *)
(* negotiation going is an operation that will make another offer or apply *)
(* its answer, the offer or the answer on its way, a message that makes    *)
(* the handler offer again, or a lost socket, since the broker will say    *)
(* who is there when the host registers again.  Answers to earlier offers  *)
(* do not count.  A handler on its way into ClosePeer is the exception.    *)
(***************************************************************************)
NothingNew == [type |-> "registered", present |-> FALSE]

Telling(offer) ==
  {m \in Message : m # NothingNew /\ (m.type = "answer" => m.to = offer)}

Holds(s, T) == \E i \in 1..Len(s) : s[i] \in T

Moving ==
  \/ Holds(ops, {NewOffer, local})
  \/ Holds(toClient, {local}) \/ (browser = local /\ browser # 0)
  \/ ~link \/ Holds(toHost, Telling(local))
  \/ ws \in {"wantOffer", "offerLocked", "offer"}
  \/ ws \in {"wantLeave", "leave", "relock"}

Negotiating ==
  sig = "have-local-offer" /\ main = "running" =>
    peer /\ (present /\ fate = "alive" => Moving \/ givenUp)

(***************************************************************************)
(* Offers reach the browser in the order of their numbers, so an older one *)
(* never takes the place of the newest.                                    *)
(***************************************************************************)
Ordered ==
  /\ browser <= local
  /\ \A i \in 1..Len(toClient) :
       toClient[i] <= local /\ (toClient[i] = local => i = Len(toClient))
  /\ browser = local => toClient = << >>

(***************************************************************************)
(* What a queue holds it still holds when something is put behind it.      *)
(***************************************************************************)
LEMMA HoldsAppend ==
  ASSUME NEW S, NEW s \in Seq(S), NEW e \in S, NEW T,
         Holds(s, T) \/ e \in T
  PROVE  Holds(Append(s, e), T)
<1>1. /\ Len(s) \in Nat /\ Len(Append(s, e)) = Len(s) + 1
      /\ \A i \in 1..Len(s) : Append(s, e)[i] = s[i]
      /\ Append(s, e)[Len(s) + 1] = e
  BY AppendProperties, LenProperties
<1>2. CASE e \in T
  <2>1. Len(s) + 1 \in 1..Len(Append(s, e))
    BY <1>1
  <2> QED
    BY <1>1, <1>2, <2>1 DEF Holds
<1>3. CASE Holds(s, T)
  <2>1. PICK i \in 1..Len(s) : s[i] \in T
    BY <1>3 DEF Holds
  <2>2. i \in 1..Len(Append(s, e)) /\ Append(s, e)[i] \in T
    BY <1>1, <2>1
  <2> QED
    BY <2>2 DEF Holds
<1> QED
  BY <1>2, <1>3

(***************************************************************************)
(* A queue of one.                                                         *)
(***************************************************************************)
LEMMA HoldsOne ==
  ASSUME NEW T, NEW e \in T
  PROVE  Holds(<<e>>, T)
<1>1. Len(<<e>>) = 1 /\ <<e>>[1] = e
  OBVIOUS
<1>2. 1 \in 1..Len(<<e>>)
  BY <1>1
<1> QED
  BY <1>1, <1>2 DEF Holds

(***************************************************************************)
(* Taking the first element leaves the others.                             *)
(***************************************************************************)
LEMMA HoldsTail ==
  ASSUME NEW S, NEW s \in Seq(S), s # << >>, NEW T, Holds(s, T)
  PROVE  Head(s) \in T \/ Holds(Tail(s), T)
<1>1. /\ Len(s) \in Nat \ {0} /\ Len(Tail(s)) = Len(s) - 1
      /\ \A j \in 1..Len(Tail(s)) : Tail(s)[j] = s[j + 1]
      /\ Head(s) = s[1]
  BY HeadTailProperties, LenProperties, EmptySeq
<1>2. PICK i \in 1..Len(s) : s[i] \in T
  BY DEF Holds
<1>3. CASE i = 1
  BY <1>1, <1>2, <1>3
<1>4. CASE i # 1
  <2>1. i - 1 \in 1..Len(Tail(s)) /\ (i - 1) + 1 = i
    BY <1>1, <1>4
  <2>2. Tail(s)[i - 1] \in T
    BY <1>1, <1>2, <2>1
  <2> QED
    BY <2>1, <2>2 DEF Holds
<1> QED
  BY <1>3, <1>4

(***************************************************************************)
(* The messages that keep the newest offer's negotiation going.            *)
(***************************************************************************)
LEMMA Tellings ==
  ASSUME NEW offer
  PROVE  /\ [type |-> "peer-state", present |-> TRUE] \in Telling(offer)
         /\ [type |-> "registered", present |-> TRUE] \in Telling(offer)
         /\ [type |-> "renegotiate"] \in Telling(offer)
         /\ \A n \in 1..(2 * MaxEvents) :
              n = offer => [type |-> "answer", to |-> n] \in Telling(offer)
<1>1. [type |-> "peer-state", present |-> TRUE] \in Telling(offer)
  BY BrokerMessages DEF Telling, NothingNew
<1>2. [type |-> "registered", present |-> TRUE] \in Telling(offer)
  BY BrokerMessages DEF Telling, NothingNew
<1>3. [type |-> "renegotiate"] \in Telling(offer)
  BY BrokerMessages DEF Telling, NothingNew
<1>4. ASSUME NEW n \in 1..(2 * MaxEvents), n = offer
      PROVE  [type |-> "answer", to |-> n] \in Telling(offer)
  BY <1>4, BrokerMessages DEF Telling, NothingNew
<1> QED
  BY <1>1, <1>2, <1>3, <1>4

(***************************************************************************)
(* They make the handler go on, or are the answer.                         *)
(***************************************************************************)
LEMMA DispatchGoesOn ==
  ASSUME NEW offer, NEW m \in Telling(offer), NEW place,
         place = CASE m.type = "registered" ->
                        IF m.present THEN "wantOffer" ELSE "receive"
                   [] m.type = "peer-state" ->
                        IF m.present THEN "wantOffer" ELSE "wantLeave"
                   [] m.type = "renegotiate" -> "offer"
                   [] OTHER -> "receive"
  PROVE  \/ place \in {"wantOffer", "wantLeave", "offer"}
         \/ m.type = "answer" /\ m.to = offer
<1>0. /\ m \in Message /\ m # NothingNew
      /\ m.type = "answer" => m.to = offer
  BY DEF Telling
<1>1. CASE m \in [type : {"registered", "peer-state"}, present : BOOLEAN]
  <2>1. m.type \in {"registered", "peer-state"} /\ m.present \in BOOLEAN
    BY <1>1
  <2>2. m.type = "registered" => m.present
    BY <1>0, <1>1 DEF NothingNew
  <2>3. place = IF m.present THEN "wantOffer"
                ELSE IF m.type = "registered" THEN "receive" ELSE "wantLeave"
    BY <2>1
  <2> QED
    BY <2>1, <2>2, <2>3
<1>2. CASE m \in [type : {"renegotiate"}]
  BY <1>2
<1>3. CASE m \in [type : {"answer"}, to : 1..(2 * MaxEvents)]
  BY <1>0, <1>3
<1> QED
  BY <1>0, <1>1, <1>2, <1>3 DEF Message

(***************************************************************************)
(* The order of the offers is kept: a new one gets a number of its own.    *)
(***************************************************************************)
LEMMA OfferKeepsOrder ==
  ASSUME TypeOK, Ordered, OfferGoesOut, UNCHANGED browser
  PROVE  Ordered'
<1>1. /\ local \in Nat /\ browser \in Nat /\ toClient \in Seq(Nat)
      /\ local' = local + 1
      /\ toClient' \in {toClient, Append(toClient, local + 1)}
  <2>1. 1..(2 * MaxEvents) \subseteq Nat
    BY MaxEventsAssumption
  <2> QED
    BY <2>1, SeqMonotonic, MaxEventsAssumption DEF TypeOK, OfferGoesOut
<1>2. /\ browser <= local
      /\ \A i \in 1..Len(toClient) : toClient[i] <= local
  BY DEF Ordered
<1>3. browser <= local + 1 /\ browser # local + 1
  BY <1>1, <1>2
<1>4. ASSUME NEW q \in {toClient, Append(toClient, local + 1)}
      PROVE  \A i \in 1..Len(q) :
               q[i] <= local + 1 /\ (q[i] = local + 1 => i = Len(q))
  <2>1. \A i \in 1..Len(toClient) : toClient[i] \in Nat /\ toClient[i] <= local
    BY <1>1, <1>2, ElementOfSeq
  <2>2. CASE q = toClient
    BY <1>1, <2>1, <2>2
  <2>3. CASE q = Append(toClient, local + 1)
    <3>1. /\ Len(toClient) \in Nat /\ Len(q) = Len(toClient) + 1
          /\ \A i \in 1..Len(toClient) : q[i] = toClient[i]
          /\ q[Len(toClient) + 1] = local + 1
      BY <1>1, <2>3, AppendProperties, LenProperties
    <3> SUFFICES ASSUME NEW i \in 1..Len(q)
                 PROVE  q[i] <= local + 1 /\ (q[i] = local + 1 => i = Len(q))
      OBVIOUS
    <3>2. i \in 1..Len(toClient) \/ i = Len(toClient) + 1
      BY <3>1
    <3> QED
      BY <1>1, <2>1, <3>1, <3>2
  <2> QED
    BY <2>2, <2>3
<1>5. PICK next : next = local + 1
  OBVIOUS
<1> QED
  BY <1>1, <1>3, <1>4, <1>5, Zenon DEF Ordered

(***************************************************************************)
(* The browser reads the offers in turn.                                   *)
(***************************************************************************)
LEMMA ReadingKeepsOrder ==
  ASSUME TypeOK, Ordered, ClientReadsOffer, UNCHANGED local
  PROVE  Ordered'
<1>1. /\ toClient \in Seq(1..(2 * MaxEvents)) /\ toClient # << >>
      /\ browser' = Head(toClient) /\ toClient' = Tail(toClient)
  BY DEF TypeOK, ClientReadsOffer
<1>2. /\ Len(toClient) \in Nat \ {0} /\ Len(Tail(toClient)) = Len(toClient) - 1
      /\ \A j \in 1..Len(Tail(toClient)) : Tail(toClient)[j] = toClient[j + 1]
      /\ Head(toClient) = toClient[1]
      /\ Tail(toClient) \in Seq(1..(2 * MaxEvents))
  BY <1>1, HeadTailProperties, LenProperties, EmptySeq
<1>3. /\ \A i \in 1..Len(toClient) :
           toClient[i] <= local /\ (toClient[i] = local => i = Len(toClient))
      /\ 1 \in 1..Len(toClient)
      /\ Len(toClient) \in Nat /\ Len(Tail(toClient)) = Len(toClient) - 1
  <2>1. Len(toClient) \in Nat \ {0} /\ Len(Tail(toClient)) = Len(toClient) - 1
    BY <1>2
  <2>2. 1 \in 1..Len(toClient)
    BY <2>1
  <2> QED
    BY <2>1, <2>2 DEF Ordered
<1>4. /\ Head(toClient) <= local
      /\ Head(toClient) = local => 1 = Len(toClient)
  <2>1. /\ toClient[1] <= local
        /\ toClient[1] = local => 1 = Len(toClient)
    BY <1>3, Zenon
  <2>2. Head(toClient) = toClient[1]
    BY <1>2
  <2> QED
    BY <2>1, <2>2, Zenon
<1>5. Head(toClient) = local => Tail(toClient) = << >>
  <2> SUFFICES ASSUME Head(toClient) = local PROVE Tail(toClient) = << >>
    OBVIOUS
  <2>1. Len(Tail(toClient)) = 0
    <3>1. 1 = Len(toClient)
      BY <1>4, Zenon
    <3>2. Len(Tail(toClient)) = Len(toClient) - 1
      BY <1>3
    <3> QED
      BY <3>1, <3>2
  <2> QED
    BY <1>2, <2>1, EmptySeq
<1>6. \A i \in 1..Len(Tail(toClient)) :
        /\ Tail(toClient)[i] <= local
        /\ Tail(toClient)[i] = local => i = Len(Tail(toClient))
  <2> SUFFICES ASSUME NEW i \in 1..Len(Tail(toClient))
               PROVE  /\ Tail(toClient)[i] <= local
                      /\ Tail(toClient)[i] = local => i = Len(Tail(toClient))
    OBVIOUS
  <2>1. i + 1 \in 1..Len(toClient) /\ i \in Nat
    BY <1>2
  <2>2. /\ toClient[i + 1] <= local
        /\ toClient[i + 1] = local => i + 1 = Len(toClient)
    BY <1>3, <2>1, Zenon
  <2>3. Tail(toClient)[i] = toClient[i + 1]
    BY <1>2, Zenon
  <2>4. i + 1 = Len(toClient) => i = Len(Tail(toClient))
    <3>1. i \in Nat /\ Len(Tail(toClient)) = Len(toClient) - 1
      BY <1>3, <2>1
    <3> QED
      BY <3>1
  <2> QED
    BY <2>2, <2>3, <2>4, Zenon
<1> QED
  BY <1>1, <1>4, <1>5, <1>6, Zenon DEF Ordered

(***************************************************************************)
(* Nobody else touches the offers on their way, but for a client that      *)
(* leaves or answers.                                                      *)
(***************************************************************************)
LEMMA StepKeepsOrder ==
  ASSUME TypeOK, Ordered, [Next]_vars
  PROVE  Ordered'
<1>1. CASE UNCHANGED <<browser, toClient, local>>
  BY <1>1 DEF Ordered
<1>2. CASE OfferReady
  <2>1. UNCHANGED browser
    BY <1>2 DEF OfferReady
  <2> QED
    BY <1>1, <1>2, <2>1, OfferKeepsOrder DEF OfferReady, OfferFails
<1>3. CASE Browser \/ Visitor
  <2>1. local' = local
    BY <1>3 DEF Browser, Visitor, HostWaits, peerVars
  <2>2. CASE ClientReadsOffer
    BY <2>1, <2>2, ReadingKeepsOrder
  <2>3. CASE browser' = 0 /\ toClient' \in {toClient, << >>}
    <3>1. /\ local \in Nat /\ 0 <= local
          /\ toClient \in Seq(1..(2 * MaxEvents))
          /\ \A i \in 1..Len(toClient) :
               toClient[i] <= local /\ (toClient[i] = local => i = Len(toClient))
      BY MaxEventsAssumption DEF TypeOK, Ordered
    <3>2. 0 = local => toClient = << >>
      <4> SUFFICES ASSUME local = 0, toClient # << >> PROVE FALSE
        OBVIOUS
      <4>1. 1 \in 1..Len(toClient)
        BY <3>1, LenProperties, EmptySeq
      <4>2. toClient[1] \in 1..(2 * MaxEvents)
        BY <3>1, <4>1, ElementOfSeq
      <4>3. toClient[1] <= local
        BY <3>1, <4>1, Zenon
      <4> QED
        BY <4>2, <4>3, MaxEventsAssumption
    <3>3. CASE toClient' = toClient
      BY <2>1, <2>3, <3>1, <3>2, <3>3, Zenon DEF Ordered
    <3>4. CASE toClient' = << >>
      <4>1. \A i \in 1..Len(<< >>) :
              << >>[i] <= local /\ (<< >>[i] = local => i = Len(<< >>))
        BY EmptySeq
      <4> QED
        BY <2>1, <2>3, <3>1, <3>4, <4>1, Zenon DEF Ordered
    <3> QED
      BY <2>3, <3>3, <3>4
  <2> QED
    BY <1>1, <1>3, <2>1, <2>2, <2>3
       DEF Browser, Visitor, ClientJoins, ClientLeaves, ClientRenegotiates,
           SocketDrops, ClientAnswers
<1>4. CASE Connecting \/ Handler \/ AnswerApplied \/ HelloSends \/ HelloChecks
           \/ Reporter
  BY <1>1, <1>4
     DEF Connecting, Reconnect, HostWaits, Handler, Dispatch, WsLocks,
         CreateOffer, ClosePeerAgain, AnswerApplied, HelloSends, HelloChecks,
         Reporter, ReporterChecks, ReporterSends, brokerVars, peerVars
<1>5. CASE StopReporter \/ Shutdown
  BY <1>1, <1>5
     DEF StopReporter, Shutdown, StopSignaling, ClosePeer, CloseLocks,
         CloseInput, CloseControl, DropControl, CloseConnection, DropPeer,
         brokerVars, peerVars
<1>6. CASE UNCHANGED vars
  BY <1>1, <1>6 DEF vars, brokerVars, peerVars
<1> QED
  BY <1>2, <1>3, <1>4, <1>5, <1>6 DEF Next, Host, Rtc, OperationsChain

(***************************************************************************)
(* Broker and browser: whoever is in the room is announced, the newest     *)
(* offer is read and answered, a new registration says who is there.       *)
(***************************************************************************)
LEMMA BrokerKeepsGoing ==
  ASSUME TypeOK, Ordered, Negotiating, Visitor \/ Browser \/ Connecting
  PROVE  Negotiating'
<1>0. /\ toHost \in Seq(Message) /\ toClient \in Seq(1..(2 * MaxEvents))
      /\ browser \in 0..(2 * MaxEvents) /\ present \in BOOLEAN
      /\ MaxEvents \in Nat \ {0}
  BY MaxEventsAssumption DEF TypeOK
<1>1. UNCHANGED <<ops, ws, sig, main, peer, fate, local, givenUp>>
  BY DEF Visitor, Browser, Connecting, HostWaits, peerVars
<1> SUFFICES ASSUME sig = "have-local-offer", main = "running", present',
                    fate = "alive", ~givenUp
             PROVE  Moving'
  BY <1>1, Zenon DEF Negotiating
<1>2. present => Moving
  BY DEF Negotiating
<1>3. ASSUME NEW e \in Telling(local), Relay(e), link' = link
      PROVE  Moving'
  <2>1. CASE link
    <3>1. toHost' = Append(toHost, e) /\ e \in Message
      BY <1>3, <2>1 DEF Relay, Telling
    <3>2. Holds(toHost', Telling(local'))
      BY <1>0, <1>1, <1>3, <3>1, HoldsAppend
    <3> QED
      BY <3>2 DEF Moving
  <2>2. CASE ~link
    BY <1>3, <2>2 DEF Moving
  <2> QED
    BY <2>1, <2>2
<1>4. CASE ClientJoins
  BY <1>3, <1>4, Tellings DEF ClientJoins
<1>5. CASE ClientLeaves
  BY <1>5 DEF ClientLeaves
<1>6. CASE ClientRenegotiates
  BY <1>3, <1>6, Tellings DEF ClientRenegotiates
<1>7. CASE ClientReadsOffer
  <2>1. /\ toClient # << >> /\ browser' = Head(toClient)
        /\ toClient' = Tail(toClient)
        /\ UNCHANGED <<link, toHost, present>>
    BY <1>7 DEF ClientReadsOffer
  <2>2. Head(toClient) \in 1..(2 * MaxEvents)
    BY <1>0, <2>1, HeadTailProperties
  <2>3. Holds(toClient, {local}) =>
          browser' = local \/ Holds(toClient', {local})
    BY <1>0, <2>1, HoldsTail
  <2>4. browser # local
    BY <2>1 DEF Ordered
  <2> QED
    BY <1>0, <1>1, <1>2, <2>1, <2>2, <2>3, <2>4 DEF Moving
<1>8. CASE ClientAnswers
  <2>1. /\ browser # 0 /\ Relay([type |-> "answer", to |-> browser])
        /\ UNCHANGED <<link, present, toClient>>
    BY <1>8 DEF ClientAnswers
  <2>2. browser \in 1..(2 * MaxEvents)
    BY <1>0, <2>1
  <2>3. CASE browser = local
    BY <1>3, <2>1, <2>2, <2>3, Tellings
  <2>4. CASE browser # local
    <3>1. [type |-> "answer", to |-> browser] \in Message
      BY <2>2, BrokerMessages
    <3>2. Holds(toHost, Telling(local)) => Holds(toHost', Telling(local))
      BY <1>0, <2>1, <3>1, HoldsAppend DEF Relay
    <3> QED
      BY <1>1, <1>2, <2>1, <2>4, <3>2 DEF Moving
  <2> QED
    BY <2>3, <2>4
<1>9. CASE SocketDrops
  BY <1>9 DEF SocketDrops, Moving
<1>10. CASE Reconnect
  <2>1. present = TRUE
    BY <1>0, <1>10 DEF Reconnect
  <2>2. toHost' = <<[type |-> "registered", present |-> TRUE]>>
    BY <1>10, <2>1 DEF Reconnect
  <2>3. [type |-> "registered", present |-> TRUE] \in Telling(local)
    BY Tellings
  <2>4. Holds(<<[type |-> "registered", present |-> TRUE]>>, Telling(local))
    BY <2>3, HoldsOne
  <2> QED
    BY <1>1, <2>2, <2>4, Zenon DEF Moving
<1> QED
  BY <1>4, <1>5, <1>6, <1>7, <1>8, <1>9, <1>10 DEF Visitor, Browser, Connecting

(***************************************************************************)
(* The handler turns what it reads into an operation, gives it up, or is   *)
(* lost.                                                                   *)
(***************************************************************************)
LEMMA HandlerKeepsGoing ==
  ASSUME TypeOK, Negotiating, Handler
  PROVE  Negotiating'
<1>0. toHost \in Seq(Message) /\ ops \in Seq(Operation) /\ local \in Operation
  BY DEF TypeOK, Operation
<1>1. UNCHANGED <<toClient, browser, link, present, sig, main, local>>
  BY DEF Handler, Dispatch, WsLocks, CreateOffer, ClosePeerAgain, brokerVars,
         peerVars
<1> SUFFICES ASSUME sig = "have-local-offer", main = "running"
             PROVE  peer' /\ (present /\ fate' = "alive" => Moving' \/ givenUp')
  BY <1>1 DEF Negotiating
<1>2. peer /\ (present /\ fate = "alive" => Moving \/ givenUp)
  BY DEF Negotiating
<1>3. CASE Dispatch
  <2>1. /\ ws = "receive" /\ toHost # << >> /\ toHost' = Tail(toHost)
        /\ peer' = peer /\ fate' = fate
    BY <1>3 DEF Dispatch
  <2> DEFINE m == Head(toHost)
  <2>2. m \in Message
    BY <1>0, <2>1, HeadTailProperties
  <2>3. ws' = CASE m.type = "registered" ->
                        IF m.present THEN "wantOffer" ELSE "receive"
                   [] m.type = "peer-state" ->
                        IF m.present THEN "wantOffer" ELSE "wantLeave"
                   [] m.type = "renegotiate" -> "offer"
                   [] OTHER -> "receive"
    BY <1>3 DEF Dispatch, GotoWs
  <2>4. \/ m.type = "answer" /\ ops' = Append(ops, m.to) /\ givenUp' = givenUp
        \/ m.type = "answer" /\ ops' = ops
             /\ (m.to = local => givenUp') /\ (givenUp => givenUp')
        \/ m.type # "answer" /\ ops' = ops /\ givenUp' = givenUp
    BY <1>2, <1>3 DEF Dispatch, HandleAnswer, GiveUp
  <2>5. m.type = "answer" => m.to \in Operation
    BY <2>2, <2>3, DispatchOnType
  <2>6. CASE m \in Telling(local)
    <3>1. \/ ws' \in {"wantOffer", "wantLeave", "offer"}
          \/ m.type = "answer" /\ m.to = local
      BY <2>3, <2>6, DispatchGoesOn
    <3>2. Holds(Append(ops, local), {NewOffer, local})
      BY <1>0, HoldsAppend
    <3> QED
      BY <1>1, <1>2, <2>1, <2>4, <3>1, <3>2 DEF Moving
  <2>7. CASE m \notin Telling(local)
    <3>1. Holds(toHost, Telling(local)) => Holds(toHost', Telling(local))
      BY <1>0, <2>1, <2>7, HoldsTail
    <3>2. Holds(ops, {NewOffer, local}) => Holds(ops', {NewOffer, local})
      <4>1. CASE m.type = "answer" /\ ops' = Append(ops, m.to)
        <5>1. m.to \in Operation
          BY <2>5, <4>1
        <5>2. Holds(ops, {NewOffer, local})
                => Holds(Append(ops, m.to), {NewOffer, local})
          BY <1>0, <5>1, HoldsAppend
        <5> QED
          BY <4>1, <5>2
      <4>2. CASE ops' = ops
        BY <4>2
      <4> QED
        BY <2>4, <4>1, <4>2
    <3>3. givenUp => givenUp'
      BY <2>4
    <3> QED
      BY <1>1, <1>2, <2>1, <3>1, <3>2, <3>3 DEF Moving
  <2> QED
    BY <2>6, <2>7
<1>4. CASE WsLocks
  BY <1>1, <1>2, <1>4 DEF WsLocks, GotoWs, peerVars, brokerVars, Moving
<1>5. CASE CreateOffer
  <2>1. ops' = Append(ops, NewOffer) /\ peer' = peer
    BY <1>2, <1>5 DEF CreateOffer
  <2>2. Holds(Append(ops, NewOffer), {NewOffer, local})
    <3>1. NewOffer \in Operation
      BY MaxEventsAssumption DEF Operation, NewOffer
    <3> QED
      BY <1>0, <3>1, HoldsAppend
  <2> QED
    BY <1>1, <1>2, <2>1, <2>2 DEF Moving
<1>6. CASE ClosePeerAgain
  BY <1>2, <1>6 DEF ClosePeerAgain, GotoWs, peerVars, Moving
<1> QED
  BY <1>3, <1>4, <1>5, <1>6 DEF Handler

(***************************************************************************)
(* libwebrtc's thread puts an offer on its way when it can be sent, takes  *)
(* it off the table, or gives it up; an answer to an earlier offer that it *)
(* refuses changes nothing for the newest.  The others leave all of it     *)
(* alone, and main's shutdown ends it.                                     *)
(***************************************************************************)
LEMMA OthersKeepGoing ==
  ASSUME TypeOK, IInv, Negotiating,
         Rtc \/ HelloChecks \/ Reporter \/ StopReporter \/ Shutdown
  PROVE  Negotiating'
<1>0. /\ toClient \in Seq(1..(2 * MaxEvents)) /\ link \in BOOLEAN
      /\ ops \in Seq(Operation)
  BY DEF TypeOK
<1>1. CASE OfferReady
  <2>1. /\ ops # << >> /\ peer' = peer
        /\ UNCHANGED <<link, present, browser, main, fate>>
    BY <1>1 DEF OfferReady
  <2>2. peer'
    BY <2>1 DEF IInv, PeerOutlivesWork
  <2>3. CASE givenUp'
    BY <2>2, <2>3 DEF Negotiating
  <2>4. CASE ~givenUp'
    <3>1. toClient' = IF link /\ present THEN Append(toClient, local') ELSE toClient
      BY <1>1, <2>4 DEF OfferReady, OfferFails, OfferGoesOut
    <3>2. Holds(Append(toClient, local'), {local'})
      <4>1. local' \in Nat
        BY <1>1, MaxEventsAssumption DEF OfferReady, OfferFails, OfferGoesOut, TypeOK
      <4>2. 1..(2 * MaxEvents) \subseteq Nat
        BY MaxEventsAssumption
      <4>3. toClient \in Seq(Nat)
        BY <1>0, <4>2, SeqMonotonic
      <4> QED
        BY <4>1, <4>3, HoldsAppend
    <3>3. present' /\ link => Holds(toClient', {local'})
      BY <2>1, <3>1, <3>2
    <3> QED
      BY <2>1, <2>2, <3>3 DEF Negotiating, Moving
  <2> QED
    BY <2>3, <2>4
<1>2. CASE AnswerApplied
  <2>1. /\ ops # << >> /\ ops' = Tail(ops) /\ Head(ops) # NewOffer
        /\ UNCHANGED <<link, present, browser, toClient, toHost, ws, main, fate,
                       peer, local>>
    BY <1>2 DEF AnswerApplied, brokerVars
  <2>2. CASE sig' = "stable"
    BY <2>2 DEF Negotiating
  <2>3. CASE sig' = sig /\ GiveUp(Head(ops))
    <3>1. Head(ops) = local => givenUp'
      BY <2>3 DEF GiveUp
    <3>2. givenUp => givenUp'
      BY <2>3 DEF GiveUp
    <3>3. Head(ops) # local =>
            (Holds(ops, {NewOffer, local}) => Holds(ops', {NewOffer, local}))
      BY <1>0, <2>1, HoldsTail
    <3>4. present /\ fate = "alive" /\ sig = "have-local-offer" /\ main = "running"
            => Moving \/ givenUp
      BY DEF Negotiating
    <3>5. Moving => Moving' \/ givenUp'
      BY <2>1, <3>1, <3>3 DEF Moving
    <3> QED
      BY <2>1, <2>3, <3>2, <3>4, <3>5 DEF Negotiating
  <2> QED
    BY <1>2, <2>2, <2>3 DEF AnswerApplied
<1>3. CASE HelloSends \/ HelloChecks \/ Reporter
  <2>1. /\ UNCHANGED <<ops, toClient, browser, link, toHost, ws, sig, main, peer,
                       present, local, givenUp>>
        /\ fate' = "alive" => fate = "alive"
    BY <1>3 DEF HelloSends, HelloChecks, Reporter, ReporterChecks, ReporterSends,
                brokerVars, peerVars
  <2> QED
    BY <2>1 DEF Negotiating, Moving
<1>4. CASE StopReporter \/ Shutdown
  BY <1>4 DEF StopReporter, Shutdown, StopSignaling, ClosePeer, CloseLocks,
     CloseInput, CloseControl, DropControl, CloseConnection, DropPeer, GotoMain,
     Negotiating
<1> QED
  BY <1>1, <1>2, <1>3, <1>4 DEF Rtc, OperationsChain

(***************************************************************************)
(* The safety half of NegotiationSettles, for any number of events: while  *)
(* a client is there and the host is up, an offer on the table has         *)
(* somebody who will move on with the newest one; host, broker and browser *)
(* never all wait for each other, whatever sockets were lost, whatever     *)
(* offers were never sent, and whatever answers to earlier offers were     *)
(* refused.  The exceptions are a handler that goes into ClosePeer, and a  *)
(* failure with the newest offer itself, which the code only logs.         *)
(***************************************************************************)
THEOREM NegotiationNeverStalls ==
  Spec => [](sig = "have-local-offer" /\ main = "running" /\ present
               /\ fate = "alive" => Moving \/ givenUp)
<1>1. Init => Negotiating /\ Ordered
  <2>1. Init => Negotiating
    BY DEF Init, Negotiating
  <2>2. Init => Ordered
    BY EmptySeq DEF Init, Ordered
  <2> QED
    BY <2>1, <2>2
<1>2. ASSUME TypeOK, IInv, Ordered, Negotiating, [Next]_vars
      PROVE  Negotiating'
  <2>1. CASE Visitor \/ Browser \/ Connecting
    BY <1>2, <2>1, BrokerKeepsGoing
  <2>2. CASE Handler
    BY <1>2, <2>2, HandlerKeepsGoing
  <2>3. CASE Rtc \/ HelloChecks \/ Reporter \/ StopReporter \/ Shutdown
    BY <1>2, <2>3, OthersKeepGoing
  <2>4. CASE UNCHANGED vars
    BY <1>2, <2>4 DEF vars, brokerVars, peerVars, Negotiating, Moving
  <2> QED
    BY <1>2, <2>1, <2>2, <2>3, <2>4 DEF Next, Host
<1>3. Negotiating =>
        (sig = "have-local-offer" /\ main = "running" /\ present
           /\ fate = "alive" => Moving \/ givenUp)
  BY DEF Negotiating
<1> QED
  BY <1>1, <1>2, <1>3, StepKeepsOrder, Typing, Invariance, PTL DEF Spec
=============================================================================
