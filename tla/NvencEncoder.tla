---------------------------- MODULE NvencEncoder ----------------------------
(***************************************************************************)
(* NvencVideoEncoder (nvenc_video_encoder.cpp) and the NvencSession it     *)
(* owns (nvenc_session.cpp), which holds objects of the NVENC driver: an   *)
(* encode session and, for every slot of the ring, a registered input, a   *)
(* bitstream buffer and, inside Encode, a mapping.                         *)
(*                                                                         *)
(* libwebrtc calls the encoder on its encoder queue, one call at a time,   *)
(* and mutex_ is held through each, so a call is one step; Encode is taken *)
(* apart at its calls of the driver, and nothing comes in between.  The    *)
(* driver is external: any of its calls may fail.  A call that creates or  *)
(* encodes and fails ends the call it is in.  The status of a call that    *)
(* gives something back is ignored and the pointer nulled, so the driver may *)
(* keep what it refuses to take.                                           *)
(***************************************************************************)
EXTENDS Naturals, FiniteSets

CONSTANTS
  BufferCount,      \* kBufferCount
  Bitrates,         \* kbps, as libwebrtc asks for it; 0 when it has none
  FrameRates,       \* frames per second, likewise
  DefaultBitrate,   \* 25000, when libwebrtc has none
  DefaultFrameRate, \* 60, likewise
  FreshBitrate,     \* 20000, in settings_ of an encoder just made
  MaxKept           \* bound: objects the driver refuses to take back

ASSUME EncoderAssumption ==
  /\ BufferCount \in Nat \ {0}
  /\ Bitrates \subseteq Nat
  /\ FrameRates \subseteq Nat
  /\ MaxKept \in Nat
  /\ DefaultBitrate \in Bitrates \ {0} /\ FreshBitrate \in Bitrates
  /\ DefaultFrameRate \in FrameRates \ {0}

VARIABLES
  encoder,      \* libwebrtc owns an encoder made by the factory
  callback,     \* callback_ # nullptr
  initialised,  \* initialised_
  session,      \* session_ # nullptr
  held,         \* what the driver may hold for this process (external)
  kept,         \* history: what of it the driver refused to take back
  pointers,     \* what the session has a non-null pointer to
  next,         \* next_resource_, counted from 1
  frame,        \* the slot Encode has mapped, 0 outside of that
  encoded,      \* nvEncEncodePicture took that frame
  settings,     \* the encoder's settings_
  target,       \* the session's settings_
  driver,       \* what the driver encodes at (external)
  refused       \* history: nvEncReconfigureEncoder failed in this session

callVars == <<encoder, callback, initialised>>
sessionVars == <<session, held, kept, pointers, next, frame, encoded>>
rateVars == <<settings, target, driver, refused>>
vars == <<callVars, sessionVars, rateVars>>

Slots == 1..BufferCount
Session == <<"session", 0>>
Input(s) == <<"input", s>>
Bitstream(s) == <<"bitstream", s>>
Mapping(s) == <<"mapping", s>>
Objects ==
  {Session} \cup {Input(s) : s \in Slots} \cup {Bitstream(s) : s \in Slots}
    \cup {Mapping(s) : s \in Slots}

Rate == [kbps : Bitrates, fps : FrameRates]
NoRate == [kbps |-> FreshBitrate, fps |-> DefaultFrameRate]

TypeOK ==
  /\ encoder \in BOOLEAN /\ callback \in BOOLEAN
  /\ initialised \in BOOLEAN /\ session \in BOOLEAN
  /\ held \subseteq Objects /\ kept \subseteq Objects /\ pointers \subseteq Objects
  /\ next \in Slots /\ frame \in Slots \cup {0} /\ encoded \in BOOLEAN
  /\ settings \in Rate /\ target \in Rate /\ driver \in Rate
  /\ refused \in BOOLEAN

Init ==
  /\ encoder = FALSE /\ callback = FALSE
  /\ initialised = FALSE /\ session = FALSE
  /\ held = {} /\ kept = {} /\ pointers = {}
  /\ next = 1 /\ frame = 0 /\ encoded = FALSE
  /\ settings = NoRate /\ target = NoRate /\ driver = NoRate
  /\ refused = FALSE

----------------------------------------------------------------------------
\* The objects Initialise creates: the session, then the ring slot by slot.
\* It may stop after any number of them.
Complete == 2 * BufferCount + 1

Created(n) ==
  {o \in {Session} : n >= 1}
    \cup {Input(s) : s \in {t \in Slots : 2 * t <= n}}
    \cup {Bitstream(s) : s \in {t \in Slots : 2 * t + 1 <= n}}

\* What Shutdown gives back: all that is known, if the session was opened.
Shutdown(known) == IF Session \in known THEN known ELSE {}

\* The driver is asked to take objects back, and may refuse any of them.
KeptOf(objects) ==
  {k \in {kept \cup no : no \in SUBSET objects} : Cardinality(k) <= MaxKept}

GiveBack(holding, objects) ==
  /\ kept' \in KeptOf(objects)
  /\ held' = (holding \ objects) \cup kept'

\* Mutant: what libwebrtc asks for is used as it is.
Asked(kbps, fps) == [kbps |-> kbps, fps |-> fps]

\* Zero means that libwebrtc has no value.
Requested(kbps, fps) ==
  [kbps |-> IF kbps = 0 THEN DefaultBitrate ELSE kbps,
   fps |-> IF fps = 0 THEN DefaultFrameRate ELSE fps]

\* Configure: the driver encodes at the rate the session was given.
Configure(rate) == target' = rate /\ driver' = rate

\* No call of libwebrtc begins while a frame is being encoded.
Called == encoder /\ frame = 0

\* InitEncode succeeds: a session that was there is shut down first.
InitEncode(kbps, fps) ==
  /\ Called
  /\ session' = TRUE /\ initialised' = TRUE
  /\ kept' \in KeptOf(Shutdown(pointers))
  /\ held' = ((held \ Shutdown(pointers)) \cup kept') \cup Created(Complete)
  /\ pointers' = Created(Complete)
  /\ next' = 1
  /\ settings' = Requested(kbps, fps)
  /\ Configure(settings')
  /\ refused' = FALSE
  /\ UNCHANGED <<encoder, callback, frame, encoded>>

\* InitEncode fails after n objects; the new session is destroyed at once.
\* initialised_ stays what it was.
InitFails(kbps, fps, n) ==
  /\ Called
  /\ session' = FALSE
  /\ GiveBack(held \cup Created(n), Shutdown(pointers) \cup Shutdown(Created(n)))
  /\ pointers' = {}
  /\ settings' = Requested(kbps, fps)
  /\ UNCHANGED <<callVars, next, frame, encoded, target, driver, refused>>

----------------------------------------------------------------------------
\* Mutant: the index into the ring does not wrap.
NextNoWrap == next + 1

NextSlot == (next % BufferCount) + 1

\* NvencSession::Encode takes the next slot and maps its input.
MapsInput ==
  /\ Called /\ initialised /\ session /\ callback
  /\ next' = NextSlot
  /\ \/ /\ held' = held \cup {Mapping(next)}
        /\ pointers' = pointers \cup {Mapping(next)}
        /\ frame' = next
     \/ UNCHANGED <<held, pointers, frame>>
  /\ UNCHANGED <<callVars, session, kept, encoded, rateVars>>

\* Each way out of Encode after the map has this line of its own: the input is
\* unmapped, whether the driver takes it or not, and the pointer nulled.
Unmap ==
  /\ GiveBack(held, {Mapping(frame)})
  /\ pointers' = pointers \ {Mapping(frame)}

Leave == frame' = 0 /\ encoded' = FALSE

EncodeFails ==
  /\ frame # 0 /\ ~encoded
  /\ Unmap /\ Leave
  /\ UNCHANGED <<callVars, session, next, rateVars>>

Encodes ==
  /\ frame # 0 /\ ~encoded
  /\ encoded' = TRUE
  /\ UNCHANGED <<callVars, session, held, kept, pointers, next, frame, rateVars>>

\* Mutant: this exit forgets the mapping.
LockFailsStaysMapped ==
  /\ frame # 0 /\ encoded
  /\ Leave
  /\ UNCHANGED <<callVars, session, held, kept, pointers, next, rateVars>>

LockFails ==
  /\ frame # 0 /\ encoded
  /\ Unmap /\ Leave
  /\ UNCHANGED <<callVars, session, next, rateVars>>

\* The bitstream is copied and unlocked; then the frame is handed to libwebrtc.
Delivers ==
  /\ frame # 0 /\ encoded
  /\ Unmap /\ Leave
  /\ UNCHANGED <<callVars, session, next, rateVars>>

Encode == MapsInput \/ EncodeFails \/ Encodes \/ LockFails \/ Delivers

\* NvencSession::Reconfigure changes the session's settings before the driver
\* has accepted them.
Reconfigure(kbps, fps, accepted) ==
  /\ target' = [kbps |-> kbps, fps |-> IF fps > 0 THEN fps ELSE target.fps]
  /\ driver' = IF accepted THEN target' ELSE driver
  /\ refused' = (refused \/ ~accepted)

\* Mutant: the encoder notes the new rate whatever Reconfigure says.
SetRatesNotes(kbps, fps) ==
  /\ Called /\ session /\ kbps > 0
  /\ kbps # settings.kbps \/ (fps > 0 /\ fps # settings.fps)
  /\ \E accepted \in BOOLEAN : Reconfigure(kbps, fps, accepted)
  /\ settings' = [kbps |-> kbps, fps |-> IF fps > 0 THEN fps ELSE settings.fps]
  /\ UNCHANGED <<callVars, sessionVars>>

\* SetRates with a rate that is not the present one, which is noted only if
\* the driver took it.
SetRates(kbps, fps) ==
  /\ Called /\ session /\ kbps > 0
  /\ kbps # settings.kbps \/ (fps > 0 /\ fps # settings.fps)
  /\ \E accepted \in BOOLEAN :
       /\ Reconfigure(kbps, fps, accepted)
       /\ settings' =
            IF accepted
            THEN [kbps |-> kbps, fps |-> IF fps > 0 THEN fps ELSE settings.fps]
            ELSE settings
  /\ UNCHANGED <<callVars, sessionVars>>

----------------------------------------------------------------------------
\* NvencEncoderFactory::Create.
Create ==
  /\ ~encoder
  /\ encoder' = TRUE
  /\ callback' = FALSE /\ initialised' = FALSE
  /\ settings' = NoRate
  /\ UNCHANGED <<sessionVars, target, driver, refused>>

RegisterEncodeCompleteCallback(given) ==
  /\ Called
  /\ callback' = given
  /\ UNCHANGED <<encoder, initialised, sessionVars, rateVars>>

\* Release, and the destructor, which calls it.
Release(destroyed) ==
  /\ Called
  /\ encoder' = ~destroyed
  /\ callback' = FALSE /\ initialised' = FALSE
  /\ session' = FALSE
  /\ GiveBack(held, Shutdown(pointers))
  /\ pointers' = {}
  /\ UNCHANGED <<next, frame, encoded, rateVars>>

Next ==
  \/ Create
  \/ \E given \in BOOLEAN : RegisterEncodeCompleteCallback(given)
  \/ \E destroyed \in BOOLEAN : Release(destroyed)
  \/ \E kbps \in Bitrates, fps \in FrameRates :
       \/ InitEncode(kbps, fps)
       \/ \E n \in 0..Complete : InitFails(kbps, fps, n)
       \/ SetRates(kbps, fps)
  \/ Encode

Spec == Init /\ [][Next]_vars
----------------------------------------------------------------------------
(***************************************************************************)
(* Whatever failed, and wherever: all the driver may hold is what the      *)
(* session has pointers to, and so will give back, and what it refused to  *)
(* take back when it was asked.  The pointers are those of a complete      *)
(* session or none, and a mapping only while its frame is in the encoder: no *)
(* registration or bitstream outlives a session that could not be set up,  *)
(* and no slot of the ring has a mapping when its turn comes again.        *)
(***************************************************************************)
NothingLeaked ==
  /\ held = pointers \cup kept
  /\ pointers = IF session
                THEN Created(Complete) \cup {Mapping(s) : s \in {frame} \ {0}}
                ELSE {}

(***************************************************************************)
(* The encoder's idea of the rate, which decides whether the next SetRates *)
(* is passed on, is what the driver encodes at: congestion control is not  *)
(* answered with a rate the encoder only believes in.  Once a retarget has *)
(* been refused this is true of the bitrate alone.                         *)
(***************************************************************************)
RatesAgree ==
  session =>
    /\ driver.kbps = settings.kbps
    /\ ~refused => driver = settings

(***************************************************************************)
(* Configure and Reconfigure divide by the session's frame rate, whatever  *)
(* libwebrtc says it is and whatever was refused before.                   *)
(***************************************************************************)
FrameRatePositive == session => target.fps > 0 /\ target.kbps > 0
============================================================================
