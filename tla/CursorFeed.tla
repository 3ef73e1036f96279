----------------------------- MODULE CursorFeed -----------------------------
(***************************************************************************)
(* How the desktop's cursor reaches the browser, which draws it: the       *)
(* duplicator reads what DXGI reports (dxgi_duplicator.cpp), the capture   *)
(* thread publishes a snapshot that rides out short disappearances         *)
(* (desktop_capture_source.cpp), the reporter's thread compares it with    *)
(* what it sent last and sends the difference (host_stats_reporter.cpp).   *)
(*                                                                         *)
(* The desktop, the browser and its control channel are external.  The     *)
(* channel is ordered and reliable while it is open; a new client brings a *)
(* new channel and knows nothing.  DXGI reports a change with one frame    *)
(* and does not repeat it; a rebuilt duplication reports what changed      *)
(* meanwhile, so a rebuild is a pause between two frames.  The hotspot     *)
(* goes with every message and is left out.                                *)
(***************************************************************************)
EXTENDS Naturals, Sequences

CONSTANTS
  Shapes,       \* cursor shapes: bytes, type and size
  Undecodable,  \* those among them that DecodeCursorRgba cannot turn into pixels
  NoShape,      \* the empty shape
  Spots,        \* pointer positions
  Origin,       \* the position before the first report
  HideFrames,   \* frames a disappearance is ridden out (90 in the code)
  NoCursor,     \* nothing copied, or nothing sent
  MaxChanges,   \* bound: changes of the desktop's cursor
  MaxClients    \* bound: clients, one after the other

ASSUME CursorAssumption ==
  /\ NoShape \notin Shapes /\ Undecodable \subseteq Shapes
  /\ Origin \in Spots
  /\ HideFrames \in Nat /\ MaxChanges \in Nat /\ MaxClients \in Nat

Cursors == [shape : Shapes \cup {NoShape}, spot : Spots, visible : BOOLEAN]

VARIABLES
  desktop,   \* the cursor on the desktop (external)
  unseen,    \* what of it changed since DXGI's last frame (external)
  changes,   \* changes left
  cursor,    \* DxgiDuplicator::cursor_
  sticky,    \* sticky_cursor_
  hidden,    \* cursor_hide_frames_
  snapshot,  \* cursor_state_
  copied,    \* the snapshot emit_cursor works on, NoCursor outside of it
  last,      \* last_shape, last_visible, last_x and last_y, NoCursor at first
  size,      \* last_w and last_h: the shape of that size, NoShape for 0x0
  open,      \* the control channel is open
  wire,      \* messages on it
  client,    \* what the browser draws (external)
  clients,   \* clients left
  gone,      \* history: frames in a row on which the pointer was invisible
  misread,   \* history: the last shape could not be read
  told       \* history: last's shape was taken by this client's channel

desktopVars == <<desktop, unseen, changes>>
captureVars == <<cursor, sticky, hidden, snapshot, gone, misread>>
reporterVars == <<copied, last, size>>
clientVars == <<open, wire, client, clients>>
vars == <<desktopVars, captureVars, reporterVars, clientVars, told>>

\* DecodeCursorRgba: the pixels of a shape, NoShape when it fails.
Pixels(s) == IF s \in Undecodable THEN NoShape ELSE s
Sizes == (Shapes \ Undecodable) \cup {NoShape}

\* A message: position, visibility and a size always, pixels if it brings a
\* shape.  What the browser draws has the same parts.
Messages == [shape : Sizes, size : Sizes, spot : Spots, visible : BOOLEAN]

Blank == [shape |-> NoShape, spot |-> Origin, visible |-> FALSE]
NoView == [shape |-> NoShape, size |-> NoShape, spot |-> Origin, visible |-> FALSE]

TypeOK ==
  /\ desktop \in Cursors
  /\ unseen \subseteq {"pointer", "shape"}
  /\ changes \in 0..MaxChanges
  /\ {cursor, sticky, snapshot} \subseteq Cursors
  /\ hidden \in 0..HideFrames
  /\ {copied, last} \subseteq Cursors \cup {NoCursor}
  /\ size \in Sizes
  /\ open \in BOOLEAN
  /\ wire \in Seq(Messages) /\ client \in Messages
  /\ clients \in 0..MaxClients
  /\ gone \in 0..HideFrames + 1
  /\ misread \in BOOLEAN
  /\ told \in BOOLEAN

Init ==
  /\ desktop \in [shape : Shapes, spot : Spots, visible : BOOLEAN]
  /\ unseen = {"pointer", "shape"}
  /\ changes = MaxChanges
  /\ cursor = Blank /\ sticky = Blank /\ hidden = 0 /\ snapshot = Blank
  /\ copied = NoCursor /\ last = NoCursor /\ size = NoShape
  /\ open = FALSE /\ wire = << >> /\ client = NoView /\ clients = MaxClients
  /\ gone = 0 /\ misread = FALSE /\ told = FALSE

----------------------------------------------------------------------------
\* The desktop: the pointer moves, appears or disappears, or an application
\* gives it another shape.

PointerChanges ==
  /\ changes > 0 /\ changes' = changes - 1
  /\ \E p \in Spots, v \in BOOLEAN :
       desktop' = [desktop EXCEPT !.spot = p, !.visible = v]
  /\ desktop' # desktop
  /\ unseen' = unseen \cup {"pointer"}
  /\ UNCHANGED <<captureVars, reporterVars, clientVars, told>>

ShapeChanges ==
  /\ changes > 0 /\ changes' = changes - 1
  /\ \E s \in Shapes \ {desktop.shape} : desktop' = [desktop EXCEPT !.shape = s]
  /\ unseen' = unseen \cup {"shape"}
  /\ UNCHANGED <<captureVars, reporterVars, clientVars, told>>

----------------------------------------------------------------------------
\* UpdateCursor: position and shape come separately; read: GetFramePointerShape
\* succeeds.

\* Mutant: the shape is taken for granted when the pointer has not moved.
UpdatedPointerOnly(read) ==
  [shape   |-> IF unseen = {"pointer", "shape"} /\ read THEN desktop.shape
               ELSE cursor.shape,
   spot    |-> IF "pointer" \in unseen THEN desktop.spot ELSE cursor.spot,
   visible |-> IF "pointer" \in unseen THEN desktop.visible ELSE cursor.visible]

Updated(read) ==
  [shape   |-> IF "shape" \in unseen /\ read THEN desktop.shape ELSE cursor.shape,
   spot    |-> IF "pointer" \in unseen THEN desktop.spot ELSE cursor.spot,
   visible |-> IF "pointer" \in unseen THEN desktop.visible ELSE cursor.visible]

\* The part of CaptureLoop that publishes.  A pointer that disappears is shown
\* as it was for HideFrames frames, if it ever had a shape.
\* Mutant: for ever.
RideOutAlways == sticky.shape # NoShape

RideOut == sticky.shape # NoShape /\ hidden < HideFrames

\* Mutant: cursor_hide_frames_ is not reset when the pointer is back.
PublishNoReset(c) ==
  /\ sticky' = IF c.visible THEN c ELSE sticky
  /\ hidden' = IF ~c.visible /\ RideOut THEN hidden + 1 ELSE hidden
  /\ snapshot' = IF ~c.visible /\ RideOut THEN [sticky EXCEPT !.visible = TRUE]
                 ELSE c

Publish(c) ==
  IF c.visible
  THEN sticky' = c /\ hidden' = 0 /\ snapshot' = c
  ELSE /\ UNCHANGED sticky
       /\ IF RideOut
          THEN hidden' = hidden + 1 /\ snapshot' = [sticky EXCEPT !.visible = TRUE]
          ELSE hidden' = hidden /\ snapshot' = c

\* AcquireFrame and what follows in the loop.  handed: it gave a texture; a
\* frame that failed after UpdateCursor, or came without one, publishes nothing.
Frame(read, handed) ==
  /\ cursor' = Updated(read)
  /\ unseen' = {}
  /\ misread' = IF "shape" \in unseen THEN ~read ELSE misread
  /\ IF handed
     THEN /\ Publish(cursor')
          /\ gone' = IF cursor'.visible THEN 0
                     ELSE IF gone > HideFrames THEN gone ELSE gone + 1
     ELSE UNCHANGED <<sticky, hidden, snapshot, gone>>
  /\ UNCHANGED <<desktop, changes, reporterVars, clientVars, told>>

----------------------------------------------------------------------------
\* emit_cursor on the reporter's thread: cursor_snapshot() copies, under its
\* mutex; what is sent goes through SendControl, which drops it when no channel
\* is open, and is noted either way.

Copies ==
  /\ copied = NoCursor
  /\ snapshot # last
  /\ copied' = snapshot
  /\ UNCHANGED <<desktopVars, captureVars, last, size, clientVars, told>>

ShapeChanged == last = NoCursor \/ copied.shape # last.shape

\* Mutant: a shape waits for a message about a visible pointer, and is noted.
MessageVisibleShape ==
  [shape   |-> IF ShapeChanged /\ copied.visible THEN Pixels(copied.shape)
               ELSE NoShape,
   size    |-> IF ShapeChanged THEN Pixels(copied.shape) ELSE size,
   spot    |-> copied.spot,
   visible |-> copied.visible]

\* A shape that cannot be decoded is sent as 0x0 without pixels.  A message that
\* brings no shape repeats the size of the last one decoded.
Message ==
  [shape   |-> IF ShapeChanged THEN Pixels(copied.shape) ELSE NoShape,
   size    |-> IF ShapeChanged THEN Pixels(copied.shape) ELSE size,
   spot    |-> copied.spot,
   visible |-> copied.visible]

Sends ==
  /\ copied # NoCursor
  /\ wire' = IF open THEN Append(wire, Message) ELSE wire
  /\ told' = IF ShapeChanged THEN open ELSE told
  /\ last' = copied
  /\ size' = IF Message.shape = NoShape THEN size ELSE Message.shape
  /\ copied' = NoCursor
  /\ UNCHANGED <<desktopVars, captureVars, open, client, clients>>

----------------------------------------------------------------------------
\* The browser.

Drawn(view, message) ==
  [message EXCEPT !.shape = IF @ = NoShape THEN view.shape ELSE @]

Receives ==
  /\ wire # << >>
  /\ client' = Drawn(client, Head(wire))
  /\ wire' = Tail(wire)
  /\ UNCHANGED <<desktopVars, captureVars, reporterVars, open, clients, told>>

Joins ==
  /\ ~open /\ clients > 0
  /\ open' = TRUE /\ clients' = clients - 1
  /\ client' = NoView
  /\ told' = FALSE
  /\ UNCHANGED <<desktopVars, captureVars, reporterVars, wire>>

Leaves ==
  /\ open
  /\ open' = FALSE /\ wire' = << >> /\ client' = NoView
  /\ UNCHANGED <<desktopVars, captureVars, reporterVars, clients, told>>

----------------------------------------------------------------------------
Next ==
  \/ PointerChanges \/ ShapeChanges
  \/ \E read \in BOOLEAN, handed \in BOOLEAN : Frame(read, handed)
  \/ Copies \/ Sends
  \/ Receives \/ Joins \/ Leaves

Spec == Init /\ [][Next]_vars

\* The capture thread goes on producing frames (FramesKeepComing in module
\* Capture), the reporter ticks, an open channel delivers.  Nobody owes a
\* change, a client, or a leave.
Fairness ==
  /\ WF_vars(\E read \in BOOLEAN : Frame(read, TRUE))
  /\ WF_vars(Copies) /\ WF_vars(Sends)
  /\ WF_vars(Receives)

FairSpec == Spec /\ Fairness
----------------------------------------------------------------------------
\* The pictures the client goes through: its own, and then the messages'.
Picture(i) == IF i = 0 THEN client ELSE wire[i]

\* What the client will draw when the wire is empty is c: position, visibility
\* and size of the last message, and the last pixels that come along.  Nothing
\* is said of the shape if it cannot be decoded.
WillDraw(c) ==
  /\ Picture(Len(wire)).spot = c.spot
  /\ Picture(Len(wire)).visible = c.visible
  /\ \/ c.shape \in Undecodable
     \/ /\ Picture(Len(wire)).size = c.shape
        /\ \E i \in 0..Len(wire) :
             /\ Picture(i).shape = c.shape
             /\ i = 0 \/ c.shape # NoShape
             /\ \A j \in (i + 1)..Len(wire) : wire[j].shape = NoShape

(***************************************************************************)
(* The reporter sends differences, so what it noted as sent must be what   *)
(* the client will have drawn.  It is, in position and visibility, whenever *)
(* this client's channel took the message that brought the noted shape;    *)
(* and in shape and size too, unless DecodeCursorRgba failed for that very *)
(* shape (it is noted all the same, and the client keeps what it had).  No *)
(* later message loses or resurrects anything, an undecodable shape in     *)
(* between does no lasting harm, and the size repeated with each message is *)
(* never that of another shape.                                            *)
(***************************************************************************)
ClientHasWhatWasNoted == open /\ told => WillDraw(last)

(***************************************************************************)
(* The published pointer does not strobe: once a pointer with a shape has  *)
(* been seen, it is published as invisible only after more than HideFrames *)
(* frames in a row without it, and it is not published as visible for      *)
(* longer than that.                                                       *)
(***************************************************************************)
NoStrobe ==
  sticky.shape # NoShape => (snapshot.visible <=> gone <= HideFrames)

(***************************************************************************)
(* When the desktop's cursor comes to rest, a client that was told the     *)
(* shape ends up drawing the desktop's cursor, in position, visibility,    *)
(* shape and size.  Position and visibility are right in every case; shape *)
(* and size unless the shape on the desktop could not be read from DXGI or *)
(* cannot be decoded, whatever could not be before it.                     *)
(***************************************************************************)
Right ==
  open /\ told =>
    /\ client.spot = desktop.spot
    /\ client.visible = desktop.visible
    /\ \/ misread \/ desktop.shape \in Undecodable
       \/ client.shape = desktop.shape /\ client.size = desktop.shape

ClientCatchesUp == <>[]Right
=============================================================================
