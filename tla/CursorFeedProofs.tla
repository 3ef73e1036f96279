--------------------------- MODULE CursorFeedProofs ---------------------------
(***************************************************************************)
(* Proofs about the cursor's snapshot and about the differences the        *)
(* reporter sends of it, for every set of shapes and positions, every      *)
(* grace period, and any number of changes and clients.                    *)
(***************************************************************************)
EXTENDS CursorFeed, SequenceTheorems, TLAPS

(***************************************************************************)
(* The grace counter follows the frames without a pointer up to its limit, *)
(* and the snapshot shows the pointer until it is reached.                 *)
(***************************************************************************)
Grace ==
  sticky.shape # NoShape =>
    /\ hidden = IF gone <= HideFrames THEN gone ELSE HideFrames
    /\ snapshot.visible <=> gone <= HideFrames

(***************************************************************************)
(* A shape once read is never given back: each copy of the cursor has one  *)
(* if the copy after it has, so a difference never ends in the empty shape *)
(* after another one.                                                      *)
(***************************************************************************)
ShapesStay ==
  /\ desktop.shape \in Shapes
  /\ sticky.shape # NoShape \/ snapshot.shape # NoShape => cursor.shape # NoShape
  /\ copied # NoCursor /\ copied.shape # NoShape => snapshot.shape # NoShape
  /\ last # NoCursor /\ last.shape # NoShape =>
       /\ snapshot.shape # NoShape
       /\ copied # NoCursor => copied.shape # NoShape

(***************************************************************************)
(* Before the first message, and without a channel, the client has nothing *)
(* and nothing is on its way; and told is about a message that was sent.   *)
(***************************************************************************)
StartsBlank ==
  /\ ~open \/ last = NoCursor => wire = << >> /\ client = NoView
  /\ told => last # NoCursor

(***************************************************************************)
(* The size the reporter repeats is that of the noted shape, unless that one *)
(* could not be decoded: then it is an older one's.                        *)
(***************************************************************************)
Sized ==
  IF last = NoCursor THEN size = NoShape
  ELSE last.shape \in Undecodable \/ size = last.shape

Feed == ShapesStay /\ StartsBlank /\ Sized /\ ClientHasWhatWasNoted

IInv == TypeOK /\ Grace /\ Feed

----------------------------------------------------------------------------
(***************************************************************************)
(* At the start nothing was seen, and no shape is kept.                    *)
(***************************************************************************)
LEMMA InitEstablishes == Init => IInv
<1> SUFFICES ASSUME Init PROVE IInv
  OBVIOUS
<1>1. Blank \in Cursors /\ Blank.shape = NoShape /\ NoView \in Messages
      /\ NoShape \in Sizes
  BY CursorAssumption DEF Blank, NoView, Cursors, Messages, Sizes
<1>2. desktop \in Cursors
  BY DEF Init, Cursors
<1>3. /\ 0 \in 0..HideFrames /\ 0 \in 0..HideFrames + 1
      /\ MaxChanges \in 0..MaxChanges /\ MaxClients \in 0..MaxClients
      /\ << >> \in Seq(Messages)
  BY CursorAssumption
<1>4. TypeOK
  BY <1>1, <1>2, <1>3 DEF Init, TypeOK
<1>5. Grace
  BY <1>1 DEF Init, Grace
<1>6. Feed
  BY <1>1 DEF Init, Feed, ShapesStay, StartsBlank, Sized, ClientHasWhatWasNoted
<1> QED
  BY <1>4, <1>5, <1>6 DEF IInv

(***************************************************************************)
(* UpdateCursor makes a cursor of the old one and the desktop's.           *)
(***************************************************************************)
LEMMA UpdatedIsCursor ==
  ASSUME TypeOK, NEW read \in BOOLEAN
  PROVE  Updated(read) \in Cursors
BY DEF TypeOK, Cursors, Updated

(***************************************************************************)
(* Publishing keeps the types and the bookkeeping of the grace period: a   *)
(* visible pointer starts it anew, an invisible one uses one frame of it.  *)
(***************************************************************************)
LEMMA PublishKeepsGrace ==
  ASSUME IInv, NEW c \in Cursors, Publish(c),
         gone' = IF c.visible THEN 0 ELSE IF gone > HideFrames THEN gone ELSE gone + 1
  PROVE  /\ sticky' \in Cursors /\ snapshot' \in Cursors
         /\ hidden' \in 0..HideFrames /\ gone' \in 0..HideFrames + 1
         /\ Grace'
<1>1. /\ sticky \in Cursors /\ hidden \in 0..HideFrames
      /\ gone \in 0..HideFrames + 1 /\ HideFrames \in Nat
      /\ c.visible \in BOOLEAN
      /\ [sticky EXCEPT !.visible = TRUE] \in Cursors
  BY CursorAssumption DEF IInv, TypeOK, Cursors
<1>2. CASE c.visible
  BY <1>1, <1>2 DEF Publish, Grace
<1>3. CASE ~c.visible /\ RideOut
  <2>1. /\ UNCHANGED sticky /\ hidden' = hidden + 1 /\ hidden < HideFrames
        /\ snapshot' = [sticky EXCEPT !.visible = TRUE]
        /\ sticky.shape # NoShape
    BY <1>3 DEF Publish, RideOut
  <2>2. gone < HideFrames /\ hidden = gone /\ gone' = gone + 1
    BY <1>1, <1>3, <2>1 DEF IInv, Grace
  <2>3. snapshot'.visible = TRUE
    BY <1>1, <2>1 DEF Cursors
  <2> QED
    BY <1>1, <2>1, <2>2, <2>3 DEF Grace
<1>4. CASE ~c.visible /\ ~RideOut
  <2>1. UNCHANGED sticky /\ hidden' = hidden /\ snapshot' = c
    BY <1>4 DEF Publish
  <2>2. sticky.shape # NoShape => gone >= HideFrames
    BY <1>1, <1>4 DEF IInv, Grace, RideOut
  <2>3. gone' \in 0..HideFrames + 1
        /\ (gone >= HideFrames => gone' > HideFrames)
    BY <1>1, <1>4
  <2>4. ASSUME sticky.shape # NoShape PROVE hidden = HideFrames
    BY <1>1, <2>2, <2>4 DEF IInv, Grace
  <2> QED
    BY <1>1, <1>4, <2>1, <2>2, <2>3, <2>4 DEF Grace
<1> QED
  BY <1>1, <1>2, <1>3, <1>4

(***************************************************************************)
(* A frame keeps the types and the grace, whether it is handed on or not.  *)
(***************************************************************************)
LEMMA FramePreserves ==
  ASSUME IInv, NEW read \in BOOLEAN, NEW handed \in BOOLEAN,
         Frame(read, handed)
  PROVE  TypeOK' /\ Grace'
<1>1. cursor' \in Cursors
  BY UpdatedIsCursor DEF IInv, Frame
<1>2. misread' \in BOOLEAN
  BY DEF IInv, TypeOK, Frame
<1>3. /\ sticky' \in Cursors /\ snapshot' \in Cursors
      /\ hidden' \in 0..HideFrames /\ gone' \in 0..HideFrames + 1
      /\ Grace'
  <2>1. CASE handed
    BY <1>1, <2>1, PublishKeepsGrace DEF Frame
  <2>2. CASE ~handed
    BY <2>2 DEF Frame, IInv, TypeOK, Grace
  <2> QED
    BY <2>1, <2>2
<1>4. TypeOK'
  BY <1>1, <1>2, <1>3 DEF IInv, TypeOK, Frame, reporterVars, clientVars
<1> QED
  BY <1>3, <1>4

(***************************************************************************)
(* emit_cursor's difference: the message has the copy's position and       *)
(* visibility, its pixels if the shape is new and can be decoded, and the  *)
(* size of those or of the last ones decoded.                              *)
(***************************************************************************)
LEMMA MessageIsDifference ==
  ASSUME TypeOK, copied # NoCursor
  PROVE  /\ copied \in Cursors /\ Message \in Messages
         /\ Message.spot = copied.spot /\ Message.visible = copied.visible
         /\ Message.shape = IF ShapeChanged THEN Pixels(copied.shape) ELSE NoShape
         /\ Message.size = IF ShapeChanged THEN Pixels(copied.shape) ELSE size
<1>1. copied \in Cursors /\ size \in Sizes
  BY DEF TypeOK
<1>2. Pixels(copied.shape) \in Sizes /\ NoShape \in Sizes
  BY <1>1 DEF Pixels, Sizes, Cursors
<1> QED
  BY <1>1, <1>2 DEF Message, Messages, Cursors

(***************************************************************************)
(* The steps of desktop, reporter and browser keep the types.              *)
(***************************************************************************)
LEMMA OthersKeepTypes ==
  ASSUME TypeOK,
         PointerChanges \/ ShapeChanges \/ Copies \/ Sends \/ Receives \/ Joins
           \/ Leaves
  PROVE  TypeOK'
<1>0. /\ changes \in 0..MaxChanges /\ MaxChanges \in Nat
      /\ clients \in 0..MaxClients /\ MaxClients \in Nat
      /\ unseen \subseteq {"pointer", "shape"}
      /\ open \in BOOLEAN /\ wire \in Seq(Messages)
  BY CursorAssumption DEF TypeOK
<1>6. NoView \in Messages
  BY CursorAssumption DEF NoView, Messages, Sizes
<1>1. CASE PointerChanges
  <2>1. desktop' \in Cursors
    BY <1>1 DEF PointerChanges, Cursors, TypeOK
  <2>2. changes' \in 0..MaxChanges /\ unseen' \subseteq {"pointer", "shape"}
    <3>1. changes > 0 /\ changes' = changes - 1 /\ unseen' = unseen \cup {"pointer"}
      BY <1>1 DEF PointerChanges
    <3> QED
      BY <1>0, <3>1
  <2> QED
    BY <1>1, <2>1, <2>2 DEF PointerChanges, TypeOK, captureVars, reporterVars,
                            clientVars
<1>2. CASE ShapeChanges
  <2>1. desktop' \in Cursors
    BY <1>2 DEF ShapeChanges, Cursors, TypeOK
  <2>2. changes' \in 0..MaxChanges /\ unseen' \subseteq {"pointer", "shape"}
    BY <1>0, <1>2 DEF ShapeChanges
  <2> QED
    BY <1>2, <2>1, <2>2 DEF ShapeChanges, TypeOK, captureVars, reporterVars,
                            clientVars
<1>3. CASE Copies
  BY <1>3 DEF Copies, TypeOK, desktopVars, captureVars, clientVars
<1>4. CASE Sends
  <2>1. copied \in Cursors
    BY <1>4 DEF Sends, TypeOK
  <2>2. Message \in Messages /\ size' \in Sizes
    BY <1>4, <2>1, MessageIsDifference DEF Sends, TypeOK, Messages
  <2>3. wire' \in Seq(Messages)
    BY <1>0, <1>4, <2>2, AppendProperties DEF Sends
  <2>4. told' \in BOOLEAN
    BY <1>0, <1>4 DEF Sends, TypeOK
  <2> QED
    BY <1>4, <2>1, <2>2, <2>3, <2>4 DEF Sends, TypeOK, desktopVars, captureVars
<1>5. CASE Receives
  <2>1. Head(wire) \in Messages /\ wire' \in Seq(Messages)
    BY <1>0, <1>5, HeadTailProperties DEF Receives
  <2>2. client' \in Messages
    BY <1>5, <2>1 DEF Receives, Drawn, Messages, TypeOK
  <2> QED
    BY <1>5, <2>1, <2>2 DEF Receives, TypeOK, desktopVars, captureVars,
                            reporterVars
<1>7. CASE Joins
  <2>1. clients' \in 0..MaxClients
    BY <1>0, <1>7 DEF Joins
  <2>2. client' = NoView /\ open' = TRUE /\ told' = FALSE /\ wire' = wire
    BY <1>7 DEF Joins
  <2> QED
    BY <1>6, <1>7, <2>1, <2>2 DEF Joins, TypeOK, desktopVars, captureVars,
                                  reporterVars
<1>8. CASE Leaves
  <2>1. client' = NoView /\ open' = FALSE /\ wire' \in Seq(Messages)
    BY <1>8 DEF Leaves
  <2> QED
    BY <1>6, <1>8, <2>1 DEF Leaves, TypeOK, desktopVars, captureVars,
                            reporterVars
<1> QED
  BY <1>1, <1>2, <1>3, <1>4, <1>5, <1>7, <1>8

(***************************************************************************)
(* What the client will draw depends on its picture and the wire alone.    *)
(***************************************************************************)
LEMMA DrawnAlike ==
  ASSUME UNCHANGED <<open, wire, client, told, last>>, ClientHasWhatWasNoted
  PROVE  ClientHasWhatWasNoted'
BY DEF ClientHasWhatWasNoted, WillDraw, Picture

(***************************************************************************)
(* Frames and changes of the desktop keep the shapes: the new cursor has   *)
(* the desktop's shape or the old one.                                     *)
(***************************************************************************)
LEMMA FrameKeepsFeed ==
  ASSUME TypeOK, Feed, NEW read \in BOOLEAN, NEW handed \in BOOLEAN,
         Frame(read, handed)
  PROVE  Feed'
<1>1. UNCHANGED <<desktop, copied, last, size, open, wire, client, told>>
  BY DEF Frame, reporterVars, clientVars
<1>2. cursor'.shape \in {desktop.shape, cursor.shape}
  BY DEF Frame, Updated
<1>3. desktop.shape # NoShape
  BY CursorAssumption DEF Feed, ShapesStay
<1>4. cursor.shape # NoShape => cursor'.shape # NoShape
  BY <1>2, <1>3
<1>5. /\ sticky'.shape \in {sticky.shape, cursor'.shape}
      /\ \/ snapshot'.shape \in {snapshot.shape, cursor'.shape}
         \/ snapshot'.shape = sticky.shape /\ sticky.shape # NoShape
  <2>1. sticky \in Cursors
    BY DEF TypeOK
  <2>2. [sticky EXCEPT !.visible = TRUE].shape = sticky.shape
    BY <2>1 DEF Cursors
  <2>3. CASE handed
    BY <2>2, <2>3 DEF Frame, Publish, RideOut
  <2>4. CASE ~handed
    BY <2>4 DEF Frame
  <2> QED
    BY <2>3, <2>4
<1>6. ShapesStay'
  <2>1. sticky.shape # NoShape \/ snapshot.shape # NoShape => cursor'.shape # NoShape
    BY <1>4 DEF Feed, ShapesStay
  <2>2. snapshot.shape # NoShape => snapshot'.shape # NoShape
    BY <1>5, <2>1
  <2>3. sticky'.shape # NoShape \/ snapshot'.shape # NoShape => cursor'.shape # NoShape
    BY <1>5, <2>1
  <2> QED
    BY <1>1, <2>2, <2>3 DEF Feed, ShapesStay
<1>7. StartsBlank' /\ Sized' /\ ClientHasWhatWasNoted'
  BY <1>1, DrawnAlike DEF Feed, StartsBlank, Sized
<1> QED
  BY <1>6, <1>7 DEF Feed

(***************************************************************************)
(* A message that is sent makes the client's next picture the noted one.   *)
(***************************************************************************)
LEMMA SendsKeepsFeed ==
  ASSUME TypeOK, Feed, Sends
  PROVE  Feed'
<1>1. /\ copied # NoCursor /\ last' = copied /\ copied' = NoCursor
      /\ wire' = (IF open THEN Append(wire, Message) ELSE wire)
      /\ told' = (IF ShapeChanged THEN open ELSE told)
      /\ size' = (IF Message.shape = NoShape THEN size ELSE Message.shape)
      /\ UNCHANGED <<desktop, cursor, sticky, snapshot, open, client>>
  BY DEF Sends, desktopVars, captureVars
<1>2. /\ copied \in Cursors /\ Message \in Messages
      /\ Message.spot = copied.spot /\ Message.visible = copied.visible
      /\ Message.shape = IF ShapeChanged THEN Pixels(copied.shape) ELSE NoShape
      /\ Message.size = IF ShapeChanged THEN Pixels(copied.shape) ELSE size
  BY <1>1, MessageIsDifference
<1>3. ShapesStay'
  BY <1>1 DEF Feed, ShapesStay
<1>4. StartsBlank'
  BY <1>1 DEF Feed, StartsBlank
<1>6. ASSUME copied.shape \notin Undecodable
      PROVE  /\ Pixels(copied.shape) = copied.shape
             /\ Message.size = copied.shape /\ size' = copied.shape
  <2>1. Pixels(copied.shape) = copied.shape
    BY <1>6 DEF Pixels
  <2>2. ~ShapeChanged => size = copied.shape
    BY <1>6 DEF Feed, Sized, ShapeChanged
  <2>3. ShapeChanged /\ copied.shape = NoShape => size = NoShape
    BY <1>1 DEF Feed, ShapesStay, Sized, ShapeChanged
  <2> QED
    BY <1>1, <1>2, <2>1, <2>2, <2>3
<1>7. Sized'
  BY <1>1, <1>2, <1>6 DEF Sized
<1>5. ASSUME open, told' PROVE WillDraw(last)'
  <2>1. wire \in Seq(Messages)
    BY DEF TypeOK
  <2>2. /\ wire' \in Seq(Messages) /\ Len(wire') = Len(wire) + 1 /\ Len(wire) \in Nat
        /\ wire'[Len(wire) + 1] = Message
        /\ \A i \in 1..Len(wire) : wire'[i] = wire[i]
    BY <1>1, <1>2, <1>5, <2>1, AppendProperties, LenProperties
  <2>3. Picture(Len(wire))' = Message
    BY <2>2 DEF Picture
  <2>4. ASSUME NEW i \in 0..Len(wire) PROVE Picture(i)' = Picture(i)
    BY <1>1, <2>2 DEF Picture
  <2>5. ASSUME copied.shape \notin Undecodable
        PROVE  \E i \in 0..Len(wire') :
                 /\ Picture(i)'.shape = copied.shape
                 /\ i = 0 \/ copied.shape # NoShape
                 /\ \A j \in (i + 1)..Len(wire') : wire'[j].shape = NoShape
    <3>1. CASE ShapeChanged /\ copied.shape # NoShape
      <4>1. PICK n \in Nat : n = Len(wire')
        BY <2>2
      <4>2. n \in 0..n /\ (n + 1)..n = {}
        BY <4>1
      <4>3. Picture(n)'.shape = copied.shape
        BY <1>2, <1>6, <2>3, <2>5, <3>1, <4>1
      <4> QED
        BY <3>1, <4>1, <4>2, <4>3
    <3>2. CASE ShapeChanged /\ copied.shape = NoShape
      <4>1. last = NoCursor
        BY <1>1, <3>2 DEF Feed, ShapesStay, ShapeChanged
      <4>2. wire = << >> /\ client = NoView
        BY <4>1 DEF Feed, StartsBlank
      <4>3. Len(wire') = 1 /\ wire'[1].shape = NoShape
        BY <1>2, <1>6, <2>2, <2>5, <3>2, <4>2
      <4>4. Picture(0)'.shape = NoShape
        BY <1>1, <4>2 DEF Picture, NoView
      <4>5. 0 \in 0..Len(wire') /\ (0 + 1)..Len(wire') = {1}
        BY <4>3
      <4> QED
        BY <3>2, <4>3, <4>4, <4>5
    <3>3. CASE ~ShapeChanged
      <4>1. told /\ last.shape = copied.shape
        BY <1>1, <1>5, <3>3 DEF ShapeChanged
      <4>2. PICK i \in 0..Len(wire) :
              /\ Picture(i).shape = copied.shape
              /\ i = 0 \/ copied.shape # NoShape
              /\ \A j \in (i + 1)..Len(wire) : wire[j].shape = NoShape
        BY <1>5, <2>5, <4>1 DEF Feed, ClientHasWhatWasNoted, WillDraw
      <4>3. \A j \in (i + 1)..Len(wire') : wire'[j].shape = NoShape
        <5>1. TAKE j \in (i + 1)..Len(wire')
        <5>2. CASE j = Len(wire) + 1
          BY <1>2, <2>2, <3>3, <5>2
        <5>3. CASE j # Len(wire) + 1
          BY <2>2, <4>2, <5>3
        <5> QED
          BY <5>2, <5>3
      <4>4. i \in 0..Len(wire')
        BY <2>2
      <4> QED
        BY <2>4, <4>2, <4>3, <4>4
    <3> QED
      BY <3>1, <3>2, <3>3
  <2> QED
    BY <1>1, <1>2, <1>6, <2>2, <2>3, <2>5 DEF WillDraw
<1> QED
  BY <1>1, <1>3, <1>4, <1>5, <1>7 DEF Feed, ClientHasWhatWasNoted

(***************************************************************************)
(* A message that arrives moves from the wire into the client's picture.   *)
(***************************************************************************)
LEMMA ReceivesKeepsFeed ==
  ASSUME TypeOK, Feed, Receives
  PROVE  Feed'
<1>1. /\ wire # << >> /\ wire' = Tail(wire) /\ client' = Drawn(client, Head(wire))
      /\ UNCHANGED <<desktop, cursor, sticky, snapshot, copied, last, size, open, told>>
  BY DEF Receives, desktopVars, captureVars, reporterVars
<1>2. /\ wire \in Seq(Messages) /\ Head(wire) \in Messages /\ Head(wire) = wire[1]
      /\ Len(wire) \in Nat \ {0} /\ Len(wire') = Len(wire) - 1
      /\ \A i \in 1..Len(wire') : wire'[i] = wire[i + 1]
  BY <1>1, HeadTailProperties, EmptySeq DEF TypeOK
<1>3. /\ client'.spot = wire[1].spot /\ client'.visible = wire[1].visible
      /\ client'.size = wire[1].size
      /\ client'.shape = IF wire[1].shape = NoShape THEN client.shape ELSE wire[1].shape
  BY <1>1, <1>2 DEF Drawn, Messages
<1>4. ShapesStay' /\ StartsBlank' /\ Sized'
  BY <1>1 DEF Feed, ShapesStay, StartsBlank, Sized
<1>5. ASSUME WillDraw(last) PROVE WillDraw(last)'
  <2>1. PICK n \in Nat : n = Len(wire') /\ n + 1 = Len(wire)
    BY <1>2
  <2>2. /\ Picture(n)'.spot = wire[n + 1].spot
        /\ Picture(n)'.visible = wire[n + 1].visible
        /\ Picture(n)'.size = wire[n + 1].size
    BY <1>2, <1>3, <2>1 DEF Picture
  <2>3. /\ Picture(n)'.spot = last.spot /\ Picture(n)'.visible = last.visible
        /\ last.shape \in Undecodable \/ Picture(n)'.size = last.shape
    BY <1>5, <2>1, <2>2 DEF WillDraw, Picture
  <2>5. ASSUME last.shape \notin Undecodable
        PROVE  \E k \in 0..n :
                 /\ Picture(k)'.shape = last.shape
                 /\ k = 0 \/ last.shape # NoShape
                 /\ \A j \in (k + 1)..n : wire'[j].shape = NoShape
    <3>0. PICK i \in 0..(n + 1) :
            /\ Picture(i).shape = last.shape
            /\ i = 0 \/ last.shape # NoShape
            /\ \A j \in (i + 1)..(n + 1) : wire[j].shape = NoShape
      BY <1>5, <2>1, <2>5 DEF WillDraw
    <3>1. CASE i \in {0, 1}
      <4>1. Picture(0)'.shape = last.shape
        BY <1>3, <2>1, <3>0, <3>1 DEF Picture
      <4>2. \A j \in (0 + 1)..n : wire'[j].shape = NoShape
        BY <1>2, <2>1, <3>0, <3>1
      <4> QED
        BY <4>1, <4>2
    <3>2. CASE i \notin {0, 1}
      <4>1. i - 1 \in 1..n /\ (i - 1) + 1 = i
        BY <3>0, <3>2
      <4>2. Picture(i - 1)'.shape = last.shape
        BY <1>2, <2>1, <3>0, <4>1 DEF Picture
      <4>3. \A j \in ((i - 1) + 1)..n : wire'[j].shape = NoShape
        BY <1>2, <2>1, <3>0, <4>1
      <4>4. last.shape # NoShape /\ i - 1 \in 0..n
        BY <3>0, <3>2, <4>1
      <4> QED
        BY <4>2, <4>3, <4>4
    <3> QED
      BY <3>1, <3>2
  <2> QED
    BY <1>1, <2>1, <2>3, <2>5 DEF WillDraw
<1> QED
  BY <1>1, <1>4, <1>5 DEF Feed, ClientHasWhatWasNoted

(***************************************************************************)
(* The desktop's changes, the reporter's copy, and clients that come and   *)
(* go: nothing of what is noted or on its way changes, or nobody is told.  *)
(***************************************************************************)
LEMMA OthersKeepFeed ==
  ASSUME TypeOK, Feed, PointerChanges \/ ShapeChanges \/ Copies \/ Joins \/ Leaves
  PROVE  Feed'
<1>1. CASE PointerChanges \/ ShapeChanges
  <2>1. desktop'.shape \in Shapes
    BY <1>1 DEF PointerChanges, ShapeChanges, Feed, ShapesStay, TypeOK, Cursors
  <2>2. UNCHANGED <<captureVars, reporterVars, clientVars, told>>
    BY <1>1 DEF PointerChanges, ShapeChanges
  <2> QED
    BY <2>1, <2>2, DrawnAlike DEF Feed, ShapesStay, StartsBlank, Sized,
                                  captureVars, reporterVars, clientVars
<1>2. CASE Copies
  BY <1>2, DrawnAlike DEF Copies, Feed, ShapesStay, StartsBlank, Sized,
                          desktopVars, captureVars, clientVars
<1>3. CASE Joins
  <2>1. /\ ~open /\ client' = NoView /\ told' = FALSE /\ wire' = wire
        /\ UNCHANGED <<desktop, cursor, sticky, snapshot, copied, last, size>>
    BY <1>3 DEF Joins, desktopVars, captureVars, reporterVars
  <2> QED
    BY <2>1 DEF Feed, ShapesStay, StartsBlank, Sized, ClientHasWhatWasNoted
<1>4. CASE Leaves
  <2>1. /\ open' = FALSE /\ wire' = << >> /\ client' = NoView
        /\ UNCHANGED <<desktop, cursor, sticky, snapshot, copied, last, size, told>>
    BY <1>4 DEF Leaves, desktopVars, captureVars, reporterVars
  <2> QED
    BY <2>1 DEF Feed, ShapesStay, StartsBlank, Sized, ClientHasWhatWasNoted
<1> QED
  BY <1>1, <1>2, <1>3, <1>4

(***************************************************************************)
(* The invariant holds in every behaviour of the feed: nobody but the      *)
(* capture thread touches what the grace period is kept with, and nobody   *)
(* but reporter and browser what the client will have drawn.               *)
(***************************************************************************)
LEMMA InvariantHolds == Spec => []IInv
<1>1. ASSUME IInv, [Next]_vars PROVE IInv'
  <2>1. CASE \E read \in BOOLEAN, handed \in BOOLEAN : Frame(read, handed)
    BY <1>1, <2>1, FramePreserves, FrameKeepsFeed DEF IInv
  <2>2. CASE PointerChanges \/ ShapeChanges \/ Copies \/ Sends \/ Receives
               \/ Joins \/ Leaves
    <3>1. UNCHANGED captureVars
      BY <2>2 DEF PointerChanges, ShapeChanges, Copies, Sends, Receives, Joins,
                  Leaves
    <3>2. Grace'
      BY <1>1, <3>1 DEF IInv, Grace, captureVars
    <3>3. Feed'
      BY <1>1, <2>2, OthersKeepFeed, SendsKeepsFeed, ReceivesKeepsFeed DEF IInv
    <3> QED
      BY <1>1, <2>2, <3>2, <3>3, OthersKeepTypes DEF IInv
  <2>3. CASE UNCHANGED vars
    <3>1. TypeOK' /\ Grace' /\ ShapesStay' /\ StartsBlank' /\ Sized'
      BY <1>1, <2>3 DEF vars, desktopVars, captureVars, reporterVars, clientVars,
                        IInv, TypeOK, Grace, Feed, ShapesStay, StartsBlank,
                        Sized
    <3>2. ClientHasWhatWasNoted'
      BY <1>1, <2>3, DrawnAlike DEF vars, reporterVars, clientVars, IInv, Feed
    <3> QED
      BY <3>1, <3>2 DEF IInv, Feed
  <2> QED
    BY <1>1, <2>1, <2>2, <2>3 DEF Next
<1> QED
  BY <1>1, InitEstablishes, PTL DEF Spec

----------------------------------------------------------------------------
(***************************************************************************)
(* The feed's variables keep their types, cursor_hide_frames_ among them.  *)
(***************************************************************************)
THEOREM Typing == Spec => []TypeOK
<1>1. IInv => TypeOK
  BY DEF IInv
<1> QED
  BY <1>1, InvariantHolds, PTL

(***************************************************************************)
(* The pointer the capture thread publishes does not strobe, and does not  *)
(* outlive its grace period.                                               *)
(***************************************************************************)
THEOREM PointerDoesNotStrobe == Spec => []NoStrobe
<1>1. IInv => NoStrobe
  BY DEF IInv, Grace, NoStrobe
<1> QED
  BY <1>1, InvariantHolds, PTL

(***************************************************************************)
(* The reporter's differences add up: when this client's channel took the  *)
(* noted shape, the client will have drawn the noted cursor, in shape and  *)
(* size if that shape can be decoded and in position and visibility in any *)
(* case, for any number of changes, frames, clients and messages on the    *)
(* wire, and any set of shapes that cannot be decoded.                     *)
(***************************************************************************)
THEOREM DifferencesAddUp == Spec => []ClientHasWhatWasNoted
<1>1. IInv => ClientHasWhatWasNoted
  BY DEF IInv, Feed
<1> QED
  BY <1>1, InvariantHolds, PTL

(***************************************************************************)
(* A cursor as the client sees it when it got everything.                  *)
(***************************************************************************)
Seen(c) ==
  [shape |-> c.shape, size |-> c.shape, spot |-> c.spot, visible |-> c.visible]

(***************************************************************************)
(* So when the wire has run empty, such a client draws the noted cursor, in *)
(* every field; if the noted shape could not be decoded, the noted position *)
(* and visibility, with pixels that are not the noted shape's.             *)
(***************************************************************************)
THEOREM CaughtUpClientDrawsTheNote ==
  Spec => [](open /\ told /\ wire = << >> =>
               IF last.shape \in Undecodable
               THEN /\ client.spot = last.spot /\ client.visible = last.visible
                    /\ client.shape # last.shape
               ELSE client = Seen(last))
<1>1. ASSUME IInv, open, told, wire = << >>
      PROVE  IF last.shape \in Undecodable
             THEN /\ client.spot = last.spot /\ client.visible = last.visible
                  /\ client.shape # last.shape
             ELSE client = Seen(last)
  <2>1. client \in Messages /\ last \in Cursors
    BY <1>1 DEF IInv, Feed, StartsBlank, TypeOK
  <2>2. WillDraw(last) /\ Len(wire) = 0
    BY <1>1 DEF IInv, Feed, ClientHasWhatWasNoted
  <2>3. client.spot = last.spot /\ client.visible = last.visible
    BY <2>2 DEF WillDraw, Picture
  <2>4. CASE last.shape \in Undecodable
    BY <2>1, <2>3, <2>4, CursorAssumption DEF Messages, Sizes
  <2>5. CASE last.shape \notin Undecodable
    <3>1. client.shape = last.shape /\ client.size = last.shape
      BY <2>2, <2>5 DEF WillDraw, Picture
    <3> QED
      BY <2>1, <2>3, <2>5, <3>1 DEF Messages, Seen
  <2> QED
    BY <2>4, <2>5
<1> QED
  BY <1>1, InvariantHolds, PTL

----------------------------------------------------------------------------
(***************************************************************************)
(* What the capture thread knows is what the desktop shows, but for what   *)
(* DXGI has yet to report and a shape that could not be read.              *)
(***************************************************************************)
Reported ==
  /\ "pointer" \notin unseen =>
       cursor.spot = desktop.spot /\ cursor.visible = desktop.visible
  /\ "shape" \notin unseen => misread \/ cursor.shape = desktop.shape

(***************************************************************************)
(* A change is announced with the part of the cursor it is about, and a    *)
(* frame takes over what was announced.                                    *)
(***************************************************************************)
LEMMA ReportedHolds == Spec => []Reported
<1>1. Init => Reported
  BY DEF Init, Reported
<1>2. ASSUME IInv, Reported, [Next]_vars PROVE Reported'
  <2>1. CASE PointerChanges
    <3>1. /\ "pointer" \in unseen' /\ ("shape" \in unseen' <=> "shape" \in unseen)
          /\ desktop'.shape = desktop.shape
          /\ UNCHANGED <<cursor, misread>>
      BY <1>2, <2>1 DEF PointerChanges, captureVars, IInv, TypeOK, Cursors
    <3> QED
      BY <1>2, <3>1 DEF Reported
  <2>2. CASE ShapeChanges
    <3>1. /\ "shape" \in unseen' /\ ("pointer" \in unseen' <=> "pointer" \in unseen)
          /\ desktop'.spot = desktop.spot /\ desktop'.visible = desktop.visible
          /\ UNCHANGED <<cursor, misread>>
      BY <1>2, <2>2 DEF ShapeChanges, captureVars, IInv, TypeOK, Cursors
    <3> QED
      BY <1>2, <3>1 DEF Reported
  <2>3. ASSUME NEW read \in BOOLEAN, NEW handed \in BOOLEAN, Frame(read, handed)
        PROVE  Reported'
    <3>1. /\ cursor' = Updated(read) /\ UNCHANGED desktop
          /\ misread' = IF "shape" \in unseen THEN ~read ELSE misread
      BY <2>3 DEF Frame
    <3> QED
      BY <1>2, <3>1 DEF Reported, Updated
  <2>4. CASE Copies \/ Sends \/ Receives \/ Joins \/ Leaves \/ UNCHANGED vars
    <3>1. UNCHANGED <<desktopVars, captureVars>>
      BY <2>4 DEF Copies, Sends, Receives, Joins, Leaves, vars
    <3> QED
      BY <1>2, <3>1 DEF Reported, desktopVars, captureVars
  <2> QED
    BY <1>2, <2>1, <2>2, <2>3, <2>4 DEF Next
<1> QED
  BY <1>1, <1>2, InvariantHolds, PTL DEF Spec

(***************************************************************************)
(* The safety half of ClientCatchesUp: when every stage has handed on what *)
(* it had (DXGI to the duplicator, the capture thread to the snapshot, the *)
(* reporter to the channel, the channel to the browser), the client draws  *)
(* the desktop's cursor.  The feed comes to rest on a wrong shape only if  *)
(* the shape on the desktop could not be read or cannot be decoded.        *)
(***************************************************************************)
THEOREM RestIsRight ==
  Spec => [](unseen = {} /\ snapshot = cursor /\ last = snapshot /\ wire = << >>
               => Right)
<1>1. IInv /\ Reported =>
        (unseen = {} /\ snapshot = cursor /\ last = snapshot /\ wire = << >> => Right)
  <2> SUFFICES ASSUME IInv, Reported, unseen = {}, snapshot = cursor,
                      last = snapshot, wire = << >>, open, told
               PROVE  /\ client.spot = desktop.spot
                      /\ client.visible = desktop.visible
                      /\ \/ misread \/ desktop.shape \in Undecodable
                         \/ /\ client.shape = desktop.shape
                            /\ client.size = desktop.shape
    BY DEF Right
  <2>1. WillDraw(last) /\ Len(wire) = 0
    BY DEF IInv, Feed, ClientHasWhatWasNoted
  <2>2. /\ client.spot = cursor.spot /\ client.visible = cursor.visible
        /\ \/ cursor.shape \in Undecodable
           \/ client.shape = cursor.shape /\ client.size = cursor.shape
    BY <2>1 DEF WillDraw, Picture
  <2> QED
    BY <2>2 DEF Reported
<1> QED
  BY <1>1, InvariantHolds, ReportedHolds, PTL
=============================================================================
