---------------------------- MODULE PeerSession ----------------------------
(***************************************************************************)
(* PeerSession (peer_session.cpp) and the threads that meet in it:         *)
(*   ws    the signaling client's thread, one broker message at a time;    *)
(*   rtc   libwebrtc's signaling thread, which runs the operations chain   *)
(*         of the peer connection and the observers;                       *)
(*   rep   the stats reporter, which calls SendControl without the mutex;  *)
(*   main  shutdown: reporter.Stop, signaling.Stop, ClosePeer (main.cpp).  *)
(*                                                                         *)
(* The broker, the browser and the inside of libwebrtc are external and    *)
(* modelled from what the host expects of them: the broker relays in order *)
(* while the host's socket is up and announces a client that joins or      *)
(* leaves; the browser answers the newest offer it has; libwebrtc runs     *)
(* CreateOffer and SetRemoteDescription one after the other, and a call on *)
(* a channel or on the peer waits until its signaling thread is free.      *)
(***************************************************************************)
EXTENDS Naturals, Sequences

CONSTANTS
  MaxEvents   \* bound: joins, leaves, renegotiations and socket drops

ASSUME MaxEventsAssumption == MaxEvents \in Nat \ {0}

VARIABLES
  events,     \* how many of those the environment has left
  link,       \* the host's socket to the broker is up
  present,    \* a browser is in the room (external)
  toHost,     \* broker messages the host has not read
  toClient,   \* offers the browser has not read
  browser,    \* the offer the browser is answering, 0 for none
  mutex,      \* PeerSession::mutex_: who holds it
  ws, rtc, rep, main,        \* where each thread is
  peer,       \* peer_ # nullptr
  inputCh,    \* input_channel_ # nullptr
  controlCh,  \* control_channel_ # nullptr
  ops,        \* operations chain of the peer connection
  sig,        \* its signaling state
  local,      \* number of the last offer that went out
  givenUp,    \* history: what was last tried with the newest offer failed
  fate        \* "alive", or what terminated the process

brokerVars == <<events, link, present, toHost, toClient, browser>>
peerVars == <<peer, inputCh, controlCh, ops, sig, local, givenUp>>
vars == <<brokerVars, mutex, ws, rtc, rep, main, peerVars, fate>>

Message ==
  [type : {"registered", "peer-state"}, present : BOOLEAN]
    \cup [type : {"renegotiate"}]
    \cup [type : {"answer"}, to : 1..(2 * MaxEvents)]

WsLocations ==
  {"receive", "wantOffer", "offerLocked", "offer", "wantLeave", "leave",
   "relock", "stopped"}
MainLocations ==
  {"running", "stopSignaling", "wantClose", "closeInput", "closeControl",
   "dropControl", "closePeer", "dropPeer", "done"}
NewOffer == 0      \* an operation; the others are the offers answered
Operation == 0..(2 * MaxEvents)

TypeOK ==
  /\ events \in 0..MaxEvents
  /\ link \in BOOLEAN /\ present \in BOOLEAN
  /\ toHost \in Seq(Message)
  /\ toClient \in Seq(1..(2 * MaxEvents))
  /\ browser \in 0..(2 * MaxEvents)
  /\ mutex \in {"free", "ws", "main"}
  /\ ws \in WsLocations /\ main \in MainLocations
  /\ rtc \in {"idle", "using"} /\ rep \in {"idle", "using", "stopped"}
  /\ peer \in BOOLEAN /\ inputCh \in BOOLEAN /\ controlCh \in BOOLEAN
  /\ ops \in Seq(Operation)
  /\ sig \in {"stable", "have-local-offer"}
  /\ local \in 0..(2 * MaxEvents)
  /\ givenUp \in BOOLEAN
  /\ fate \in {"alive", "relock", "nullChannel"}

Init ==
  /\ events = MaxEvents
  /\ link = FALSE /\ present = FALSE
  /\ toHost = <<>> /\ toClient = <<>> /\ browser = 0
  /\ mutex = "free"
  /\ ws = "receive" /\ rtc = "idle" /\ rep = "idle" /\ main = "running"
  /\ peer = FALSE /\ inputCh = FALSE /\ controlCh = FALSE
  /\ ops = <<>> /\ sig = "stable" /\ local = 0 /\ givenUp = FALSE
  /\ fate = "alive"

----------------------------------------------------------------------------
\* The broker and the browser.

Relay(message) == toHost' = IF link THEN Append(toHost, message) ELSE toHost

ClientJoins ==
  /\ events > 0 /\ ~present
  /\ events' = events - 1
  /\ present' = TRUE
  /\ Relay([type |-> "peer-state", present |-> TRUE])
  /\ UNCHANGED <<link, toClient, browser>>

ClientLeaves ==
  /\ events > 0 /\ present
  /\ events' = events - 1
  /\ present' = FALSE
  /\ toClient' = <<>> /\ browser' = 0
  /\ Relay([type |-> "peer-state", present |-> FALSE])
  /\ UNCHANGED link

ClientRenegotiates ==
  /\ events > 0 /\ present
  /\ events' = events - 1
  /\ Relay([type |-> "renegotiate"])
  /\ UNCHANGED <<link, present, toClient, browser>>

ClientReadsOffer ==
  /\ present /\ toClient # <<>>
  /\ browser' = Head(toClient)
  /\ toClient' = Tail(toClient)
  /\ UNCHANGED <<events, link, present, toHost>>

ClientAnswers ==
  /\ browser # 0
  /\ Relay([type |-> "answer", to |-> browser])
  /\ browser' = 0
  /\ UNCHANGED <<events, link, present, toClient>>

SocketDrops ==
  /\ events > 0 /\ link
  /\ events' = events - 1
  /\ link' = FALSE
  /\ toHost' = <<>>
  /\ UNCHANGED <<present, toClient, browser>>

\* SignalingClient reconnects and registers; the broker says who is there.
Reconnect ==
  /\ ~link /\ ws = "receive"
  /\ link' = TRUE
  /\ toHost' = <<[type |-> "registered", present |-> present]>>
  /\ UNCHANGED <<events, present, toClient, browser>>

HostWaits == UNCHANGED <<mutex, ws, rtc, rep, main, peerVars, fate>>

Visitor ==
  HostWaits /\ (ClientJoins \/ ClientLeaves \/ ClientRenegotiates \/ SocketDrops)

Browser == HostWaits /\ (ClientReadsOffer \/ ClientAnswers)

----------------------------------------------------------------------------
\* HandleSignalingMessage on ws.

GotoWs(location) == ws' = location

GiveUp(offer) == givenUp' = (givenUp \/ offer = local)

\* Only an answer does anything here.  With a peer it is queued as
\* SetRemoteDescription, or dropped: it has no sdp, or one nobody can parse.
HandleAnswer(m) ==
  \/ m.type = "answer" /\ peer /\ ops' = Append(ops, m.to) /\ UNCHANGED givenUp
  \/ m.type = "answer" /\ peer /\ GiveUp(m.to) /\ UNCHANGED ops
  \/ ~(m.type = "answer" /\ peer) /\ UNCHANGED <<ops, givenUp>>

\* Mutant: the reconnected host waits for a peer-state that never comes.
DispatchNoOfferOnRegistered ==
  /\ ws = "receive" /\ toHost # <<>>
  /\ toHost' = Tail(toHost)
  /\ LET m == Head(toHost) IN
       /\ GotoWs(CASE m.type = "registered" -> "receive"
                   [] m.type = "peer-state" ->
                        IF m.present THEN "wantOffer" ELSE "wantLeave"
                   [] m.type = "renegotiate" -> "offer"
                   [] OTHER -> "receive")
       /\ HandleAnswer(m)
  /\ UNCHANGED <<events, link, present, toClient, browser, mutex, rtc, rep,
                 main, peer, inputCh, controlCh, sig, local, fate>>

\* A message is read and dispatched on its type.
Dispatch ==
  /\ ws = "receive" /\ toHost # <<>>
  /\ toHost' = Tail(toHost)
  /\ LET m == Head(toHost) IN
       /\ GotoWs(CASE m.type = "registered" ->
                        IF m.present THEN "wantOffer" ELSE "receive"
                   [] m.type = "peer-state" ->
                        IF m.present THEN "wantOffer" ELSE "wantLeave"
                   [] m.type = "renegotiate" -> "offer"
                   [] OTHER -> "receive")
       /\ HandleAnswer(m)
  /\ UNCHANGED <<events, link, present, toClient, browser, mutex, rtc, rep,
                 main, peer, inputCh, controlCh, sig, local, fate>>

WsLocks ==
  /\ ws \in {"wantOffer", "wantLeave"}
  /\ mutex = "free"
  /\ mutex' = "ws"
  /\ GotoWs(IF ws = "wantOffer" THEN "offerLocked" ELSE "leave")
  /\ UNCHANGED <<brokerVars, rtc, rep, main, peerVars, fate>>

\* CreatePeerConnection gives up where libwebrtc reports an error, and keeps
\* what it has assigned by then: nothing, the peer alone, the peer with the
\* input channel, or everything.
Built ==
  {<<FALSE, FALSE, FALSE>>, <<TRUE, FALSE, FALSE>>, <<TRUE, TRUE, FALSE>>,
   <<TRUE, TRUE, TRUE>>}

\* Mutant: a failed CreatePeerConnection returns without the unlock.
CreateOfferKeepsLock ==
  /\ ws \in {"offerLocked", "offer"}
  /\ rtc = "idle"
  /\ IF peer
     THEN /\ ops' = Append(ops, NewOffer)
          /\ UNCHANGED <<peer, inputCh, controlCh>>
     ELSE \E b \in Built :
            /\ peer' = b[1] /\ inputCh' = b[2] /\ controlCh' = b[3]
            /\ ops' = IF b[3] THEN <<NewOffer>> ELSE <<>>
  /\ mutex' = IF ws = "offerLocked" /\ controlCh' THEN "free" ELSE mutex
  /\ GotoWs("receive")
  /\ UNCHANGED <<brokerVars, rtc, rep, main, sig, local, givenUp, fate>>

\* CreateOffer, with the mutex or (renegotiate) without it.  A peer that is
\* there, even one left half built, is used as it is.
CreateOffer ==
  /\ ws \in {"offerLocked", "offer"}
  /\ rtc = "idle"
  /\ IF peer
     THEN /\ ops' = Append(ops, NewOffer)
          /\ UNCHANGED <<peer, inputCh, controlCh>>
     ELSE \E b \in Built :
            /\ peer' = b[1] /\ inputCh' = b[2] /\ controlCh' = b[3]
            /\ ops' = IF b[3] THEN <<NewOffer>> ELSE <<>>
  /\ mutex' = IF ws = "offerLocked" THEN "free" ELSE mutex
  /\ GotoWs("receive")
  /\ UNCHANGED <<brokerVars, rtc, rep, main, sig, local, givenUp, fate>>

\* Mutant: the mutex made recursive, so the handler closes the peer.
ClosePeerInHandler ==
  /\ ws = "leave" /\ rtc = "idle"
  /\ GotoWs("receive")
  /\ mutex' = "free"
  /\ peer' = FALSE /\ inputCh' = FALSE /\ controlCh' = FALSE
  /\ ops' = <<>> /\ sig' = "stable" /\ UNCHANGED <<local, givenUp>>
  /\ UNCHANGED <<brokerVars, rtc, rep, main, fate>>

\* The client left: ReleaseAll (module HeldInput), then ClosePeer, which
\* locks the std::mutex this thread already holds.  The standard leaves that
\* undefined: the thread blocks for good, or lock() throws and, with no
\* handler on this thread, the process terminates.
ClosePeerAgain ==
  /\ ws = "leave"
  /\ GotoWs("relock")
  /\ fate' \in {"alive", "relock"}
  /\ UNCHANGED <<brokerVars, mutex, rtc, rep, main, peerVars>>

----------------------------------------------------------------------------
\* libwebrtc's signaling thread.

\* CreateOffer ends in its observer.  It may have failed, or the offer cannot
\* be written out: that is only logged.
OfferFails ==
  /\ givenUp' = TRUE
  /\ UNCHANGED <<local, sig, toClient>>

\* Else the observer calls SetLocalDescription, whose own failure is only
\* logged, and sends the offer in any case; sending fails, and is forgotten,
\* while the socket is down.
OfferGoesOut ==
  /\ local' = local + 1
  /\ toClient' = IF link /\ present THEN Append(toClient, local') ELSE toClient
  /\ \/ sig' = "have-local-offer" /\ givenUp' = FALSE
     \/ sig' = sig /\ givenUp' = TRUE

OfferReady ==
  /\ rtc = "idle" /\ ops # <<>> /\ Head(ops) = NewOffer
  /\ ops' = Tail(ops)
  /\ OfferFails \/ OfferGoesOut
  /\ UNCHANGED <<events, link, present, toHost, browser, mutex, ws, rtc, rep,
                 main, peer, inputCh, controlCh, fate>>

\* Mutant: every negotiation that ends starts another.
AnswerOffersAgain ==
  /\ rtc = "idle" /\ ops # <<>> /\ Head(ops) # NewOffer
  /\ ops' = Append(Tail(ops), NewOffer)
  /\ sig' = "stable"
  /\ UNCHANGED <<brokerVars, mutex, ws, rtc, rep, main, peer, inputCh,
                 controlCh, local, givenUp, fate>>

\* SetRemoteDescription applies an answer to whatever offer is pending.  It
\* fails when none is, or when libwebrtc will not have this answer; either
\* is only logged.
AnswerApplied ==
  /\ rtc = "idle" /\ ops # <<>> /\ Head(ops) # NewOffer
  /\ ops' = Tail(ops)
  /\ \/ sig = "have-local-offer" /\ sig' = "stable" /\ UNCHANGED givenUp
     \/ GiveUp(Head(ops)) /\ UNCHANGED sig
  /\ UNCHANGED <<brokerVars, mutex, ws, rtc, rep, main, peer, inputCh,
                 controlCh, local, fate>>

\* SendHello from OnConnectionChange and OnStateChange, whenever libwebrtc
\* calls those: SendControl looks at control_channel_ ...
HelloChecks ==
  /\ rtc = "idle" /\ peer
  /\ main # "dropPeer"
  /\ controlCh
  /\ rtc' = "using"
  /\ UNCHANGED <<brokerVars, mutex, ws, rep, main, peerVars, fate>>

\* ... and goes through the pointer again.
HelloSends ==
  /\ rtc = "using"
  /\ rtc' = "idle"
  /\ fate' = IF controlCh THEN fate ELSE "nullChannel"
  /\ UNCHANGED <<brokerVars, mutex, ws, rep, main, peerVars>>

----------------------------------------------------------------------------
\* The reporter's SendControl, the same two looks at control_channel_.

ReporterChecks ==
  /\ rep = "idle" /\ controlCh /\ main = "running"
  /\ rep' = "using"
  /\ UNCHANGED <<brokerVars, mutex, ws, rtc, main, peerVars, fate>>

ReporterSends ==
  /\ rep = "using"
  /\ rep' = "idle"
  /\ fate' = IF controlCh THEN fate ELSE "nullChannel"
  /\ UNCHANGED <<brokerVars, mutex, ws, rtc, main, peerVars>>

----------------------------------------------------------------------------
\* main after Ctrl+C.  Each Stop joins the thread it stops.

GotoMain(from, to) == main = from /\ main' = to

StopReporter ==
  /\ GotoMain("running", "stopSignaling")
  /\ rep = "idle"
  /\ rep' = "stopped"
  /\ UNCHANGED <<brokerVars, mutex, ws, rtc, peerVars, fate>>

\* Mutant: Stop does not join the thread.
StopSignalingNoJoin ==
  /\ GotoMain("stopSignaling", "wantClose")
  /\ link' = FALSE
  /\ toHost' = <<>>
  /\ UNCHANGED <<events, present, toClient, browser, mutex, ws, rtc, rep,
                 peerVars, fate>>

\* The socket is closed, so the receive returns; a handler runs to its end.
StopSignaling ==
  /\ GotoMain("stopSignaling", "wantClose")
  /\ ws = "receive"
  /\ ws' = "stopped"
  /\ link' = FALSE
  /\ toHost' = <<>>
  /\ UNCHANGED <<events, present, toClient, browser, mutex, rtc, rep,
                 peerVars, fate>>

CloseLocks ==
  /\ GotoMain("wantClose", "closeInput")
  /\ mutex = "free"
  /\ mutex' = "main"
  /\ UNCHANGED <<brokerVars, ws, rtc, rep, peerVars, fate>>

\* ClosePeer: the calls wait for rtc to be free, the assignments do not.
CloseInput ==
  /\ GotoMain("closeInput", "closeControl")
  /\ rtc = "idle"
  /\ inputCh' = FALSE
  /\ UNCHANGED <<brokerVars, mutex, ws, rtc, rep, peer, controlCh, ops, sig,
                 local, givenUp, fate>>

CloseControl ==
  /\ GotoMain("closeControl", "dropControl")
  /\ rtc = "idle"
  /\ UNCHANGED <<brokerVars, mutex, ws, rtc, rep, peerVars, fate>>

DropControl ==
  /\ GotoMain("dropControl", "closePeer")
  /\ controlCh' = FALSE
  /\ UNCHANGED <<brokerVars, mutex, ws, rtc, rep, peer, inputCh, ops, sig,
                 local, givenUp, fate>>

CloseConnection ==
  /\ GotoMain("closePeer", "dropPeer")
  /\ rtc = "idle"
  /\ ops' = <<>>
  /\ UNCHANGED <<brokerVars, mutex, ws, rtc, rep, peer, inputCh, controlCh,
                 sig, local, givenUp, fate>>

DropPeer ==
  /\ GotoMain("dropPeer", "done")
  /\ peer' = FALSE
  /\ mutex' = "free"
  /\ UNCHANGED <<brokerVars, ws, rtc, rep, inputCh, controlCh, ops, sig,
                 local, givenUp, fate>>

ClosePeer ==
  \/ CloseLocks \/ CloseInput \/ CloseControl \/ DropControl
  \/ CloseConnection \/ DropPeer

----------------------------------------------------------------------------
Handler == Dispatch \/ WsLocks \/ CreateOffer \/ ClosePeerAgain
Connecting == Reconnect /\ HostWaits
OperationsChain == OfferReady \/ AnswerApplied
Rtc == OperationsChain \/ HelloSends
Reporter == ReporterChecks \/ ReporterSends
Shutdown == StopSignaling \/ ClosePeer

Host ==
  /\ fate = "alive"
  /\ \/ Handler \/ Connecting
     \/ Rtc \/ HelloChecks
     \/ Reporter
     \/ StopReporter \/ Shutdown

Next == Visitor \/ Browser \/ Host

Spec == Init /\ [][Next]_vars

(***************************************************************************)
(* The host's threads run; the socket is reconnected for as long as the    *)
(* host is not stopped; the browser answers an offer it has read.  The     *)
(* signaling thread joins the race for the mutex and for rtc again and     *)
(* again, so its steps and those of shutdown are strongly fair; so are the *)
(* operations, which libwebrtc's thread runs in turn with its callbacks.   *)
(* Nobody owes a join, a leave, a renegotiation, a drop or Ctrl+C.         *)
(***************************************************************************)
Live(A) == fate = "alive" /\ A

Fairness ==
  /\ SF_vars(Live(Handler))
  /\ WF_vars(Live(Connecting))
  /\ SF_vars(Live(OperationsChain))
  /\ WF_vars(Live(HelloSends))
  /\ WF_vars(Live(ReporterSends))
  /\ SF_vars(Live(Shutdown))
  /\ WF_vars(Browser)

FairSpec == Spec /\ Fairness
----------------------------------------------------------------------------
Closing ==
  {"closeInput", "closeControl", "dropControl", "closePeer", "dropPeer", "done"}

(***************************************************************************)
(* SendControl (from the reporter and from rtc), HandleAnswer and          *)
(* "renegotiate" use peer_ and the channels without mutex_, so they are    *)
(* safe only if nobody takes those away meanwhile.  Before main closes the *)
(* peer the two other threads of the host are gone, so nothing is left to  *)
(* run on the half-closed session but libwebrtc's own thread; and no work  *)
(* is queued or under way there for a peer that is gone.                   *)
(***************************************************************************)
ClosedOnceAlone ==
  /\ main \in Closing =>
       /\ ws = "stopped" /\ rep = "stopped"
       /\ mutex = (IF main = "done" THEN "free" ELSE "main")
  /\ ops # <<>> \/ rtc = "using" => peer

(***************************************************************************)
(* A client that joins, leaves, reloads or renegotiates cannot make the    *)
(* unlocked SendControl go through a null control_channel_: the only       *)
(* window for that is shutdown, after ClosePeer has nulled the channel and *)
(* before it has closed the peer, with SendHello on libwebrtc's thread.    *)
(***************************************************************************)
NullChannelOnlyInShutdown ==
  fate = "nullChannel" => main \in {"closePeer", "dropPeer", "done"}

(***************************************************************************)
(* An offer does not stay unanswered: whatever offers, drops of the socket *)
(* and renegotiations come in between, negotiation comes to rest.  An      *)
(* answer to an earlier offer that is applied, refused or useless does not *)
(* end it for the newest one.  The exceptions: the client leaves, the host *)
(* shuts down, its signaling thread is lost in ClosePeer; and, since every *)
(* failure in CreateOffer's observer and in HandleAnswer is only logged,   *)
(* the newest offer could not be made or set, or its answer not be used.   *)
(***************************************************************************)
NegotiationSettles ==
  sig = "have-local-offer" ~>
    \/ sig = "stable" \/ givenUp
    \/ ~present \/ main # "running" \/ ws = "relock" \/ fate # "alive"

(***************************************************************************)
(* Ctrl+C ends the process: main's joins and ClosePeer, which waits for    *)
(* the mutex and for libwebrtc's thread, all return, unless the signaling  *)
(* thread is lost in ClosePeer.                                            *)
(***************************************************************************)
StopCompletes ==
  main # "running" ~> main = "done" \/ ws = "relock" \/ fate # "alive"

(***************************************************************************)
(* What peer_session.h says of ClosePeer: it tears the current peer        *)
(* connection down when the client disconnects.                            *)
(***************************************************************************)
ClientLeavingClosesPeer == ws = "leave" ~> ~peer
============================================================================
