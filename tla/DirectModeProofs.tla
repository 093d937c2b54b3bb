--------------------------- MODULE DirectModeProofs ---------------------------
(***************************************************************************)
(* The compositor and the thread of the encoder on Windows take turns with *)
(* the staging texture, for any number of frames and buffers, and wherever *)
(* the encoder is handed over or stopped.                                  *)
(***************************************************************************)
EXTENDS DirectMode, TLAPS

(* The compositor is past the wait for the encoder, or went round it. *)
Copying == comp \in {"label", "render", "signal", "set"}

(* The encoder's thread has seen the event. *)
Encoding == thread.pc \in {"transmit", "encoded"}

(* Of m_encodeFinished, the compositor that copies, m_newFrameReady and    *)
(* the thread that encodes there is one at a time; Stop sets               *)
(* m_newFrameReady in any case, but then the thread does not encode.       *)
OneTurn ==
  /\ Encoding => ~finished /\ ~Copying
  /\ newFrame /\ ~exiting => ~finished /\ ~Copying /\ ~Encoding
  /\ finished => comp \notin {"label", "render", "set"}

(* Before the encoder is handed over nothing has been sent. *)
BeforeEncoder ==
  encoder # "set" =>
    /\ finished /\ ~newFrame /\ ~exiting /\ thread.pc \in {"off", "wait"}
    /\ comp \in {"idle", "copy", "signal"}
    /\ staging = NoPacket
    /\ packet = NoPacket
    /\ sent = 0

(* What the texture shows is what its label says, but while it is drawn    *)
(* to; labels grow; and a label that is not sent yet is newer than the     *)
(* last packet.                                                            *)
Labelled ==
  /\ comp # "render" => staging.shows = staging.label
  /\ comp = "render" => staging.label = frame
  /\ packet.label <= staging.label
  /\ staging.label <= frame
  /\ comp \in {"copy", "wait", "label"} => staging.label < frame
  /\ staging.label # 0 =>
       frame = staging.label + (IF comp \in {"copy", "wait", "label"} THEN 1 ELSE 0)
  /\ thread.pc = "transmit" => thread.label = staging.label
  /\ comp \in {"render", "signal", "set"} \/ (newFrame /\ ~exiting) \/ thread.pc = "transmit"
       => staging.label = 0 \/ staging.label > packet.label

DirectInv == DirectTypeOK /\ OneTurn /\ BeforeEncoder /\ Labelled

LEMMA DirectInitInv == DirectInit => DirectInv
<1> SUFFICES ASSUME DirectInit PROVE DirectInv
  OBVIOUS
<1> USE DirectAssumption DEF DirectInit
<1>1. 0 \in Frames BY DEF Frames
<1>2. input \in [Slots -> Frames] BY <1>1
<1>3. got \in 0..sent /\ sent \in Nat /\ frame \in Frames /\ thread.label \in Frames
  BY <1>1
<1>4. NoPacket \in [shows : Frames, label : Frames] BY <1>1 DEF NoPacket
<1>5. DirectTypeOK BY <1>1, <1>2, <1>3, <1>4 DEF DirectTypeOK
<1>6. OneTurn /\ BeforeEncoder BY DEF OneTurn, BeforeEncoder, Copying, Encoding
<1>7. Labelled BY DEF Labelled, NoPacket
<1> QED BY <1>5, <1>6, <1>7 DEF DirectInv

-----------------------------------------------------------------------------
(* Types *)

LEMMA CompositorTypes ==
  ASSUME DirectTypeOK, Present \/ CompositorStep
  PROVE  DirectTypeOK'
<1> USE DirectAssumption DEF DirectTypeOK, Frames
<1>1. CASE Present BY <1>1 DEF Present
<1>2. CASE CopyTexture BY <1>2 DEF CopyTexture
<1>3. CASE WaitForEncode BY <1>3 DEF WaitForEncode
<1>4. CASE CopyToStaging BY <1>4 DEF CopyToStaging
<1>5. CASE NewFrameReady BY <1>5 DEF NewFrameReady
<1> QED BY <1>1, <1>2, <1>3, <1>4, <1>5 DEF CompositorStep

LEMMA EncoderTypes ==
  ASSUME DirectTypeOK, EncoderThread \/ StartStreaming \/ StopEncoder \/ ShutdownEncoder
  PROVE  DirectTypeOK'
<1> USE DirectAssumption DEF DirectTypeOK, Frames
<1>1. CASE WaitForFrame BY <1>1 DEF WaitForFrame
<1>2. CASE Transmit
  <2>1. input' \in [Slots -> Frames] BY <1>2 DEF Transmit
  <2>2. sent' = sent + 1 /\ got' \in {got, got + 1} BY <1>2 DEF Transmit
  <2>3. got' \in 0..sent' BY <2>2
  <2>4. ASSUME got < sent' - OutputDelay
        PROVE  packet' = [shows |-> input'[got % NumBuffers], label |-> thread.label]
    BY <1>2, <2>4 DEF Transmit
  <2>5. got % NumBuffers \in Slots BY DEF Slots
  <2>6. packet' \in [shows : Frames, label : Frames]
    BY <1>2, <2>1, <2>4, <2>5 DEF Transmit
  <2> QED BY <1>2, <2>1, <2>2, <2>3, <2>6 DEF Transmit
<1>3. CASE EncodeFinished BY <1>3 DEF EncodeFinished
<1>4. CASE StartStreaming BY <1>4 DEF StartStreaming
<1>5. CASE StopEncoder BY <1>5 DEF StopEncoder
<1>6. CASE ShutdownEncoder BY <1>6 DEF ShutdownEncoder
<1> QED BY <1>1, <1>2, <1>3, <1>4, <1>5, <1>6 DEF EncoderThread

-----------------------------------------------------------------------------
(* Turns and labels *)

LEMMA CompositorTurn ==
  ASSUME DirectInv, Present \/ CompositorStep
  PROVE  OneTurn' /\ BeforeEncoder' /\ Labelled'
<1> USE DEF DirectInv, DirectTypeOK, Frames, OneTurn, BeforeEncoder, Labelled, Copying, Encoding
<1>1. CASE Present BY <1>1 DEF Present
<1>2. CASE CopyTexture
  <2>1. CASE encoder = "set" BY <1>2, <2>1 DEF CopyTexture
  <2>2. CASE encoder # "set"
    <3>1. staging.label = 0 /\ staging.shows = 0 BY <2>2 DEF NoPacket
    <3> QED BY <1>2, <2>2, <3>1 DEF CopyTexture
  <2> QED BY <2>1, <2>2
<1>3. CASE WaitForEncode BY <1>3 DEF WaitForEncode
<1>4. CASE CopyToStaging
  <2>1. CASE comp = "label"
    <3>1. staging' = [staging EXCEPT !.label = frame] /\ comp' = "render"
      BY <1>4, <2>1 DEF CopyToStaging
    <3>2. staging'.label = frame BY <3>1
    <3>3. encoder = "set" BY <2>1
    <3> QED BY <1>4, <2>1, <3>1, <3>2, <3>3 DEF CopyToStaging
  <2>2. CASE comp = "render"
    <3>1. staging' = [staging EXCEPT !.shows = frame] /\ comp' = "signal"
      BY <1>4, <2>2 DEF CopyToStaging
    <3> QED BY <1>4, <2>2, <3>1 DEF CopyToStaging
  <2> QED BY <1>4, <2>1, <2>2 DEF CopyToStaging
<1>5. CASE NewFrameReady BY <1>5 DEF NewFrameReady
<1> QED BY <1>1, <1>2, <1>3, <1>4, <1>5 DEF CompositorStep

LEMMA EncoderTurn ==
  ASSUME DirectInv, EncoderThread \/ StartStreaming \/ StopEncoder \/ ShutdownEncoder
  PROVE  OneTurn' /\ BeforeEncoder' /\ Labelled'
<1> USE DEF DirectInv, DirectTypeOK, Frames, OneTurn, BeforeEncoder, Labelled, Copying, Encoding
<1>1. CASE WaitForFrame BY <1>1 DEF WaitForFrame
<1>2. CASE Transmit
  <2>1. /\ thread.pc = "transmit" /\ thread' = [thread EXCEPT !.pc = "encoded"]
        /\ UNCHANGED <<encoder, comp, frame, staging, newFrame, finished, exiting>>
        /\ encoder = "set"
        /\ packet' = packet \/ packet'.label = thread.label
    BY <1>2 DEF Transmit
  <2>2. thread'.pc = "encoded" BY <2>1
  <2>3. OneTurn' /\ BeforeEncoder' BY <2>1, <2>2
  <2>4. Labelled' BY <2>1, <2>2
  <2> QED BY <2>3, <2>4
<1>3. CASE EncodeFinished BY <1>3 DEF EncodeFinished
<1>4. CASE StartStreaming BY <1>4 DEF StartStreaming
<1>5. CASE StopEncoder BY <1>5 DEF StopEncoder
<1>6. CASE ShutdownEncoder BY <1>6 DEF ShutdownEncoder
<1> QED BY <1>1, <1>2, <1>3, <1>4, <1>5, <1>6 DEF EncoderThread

LEMMA DirectNextInv == DirectInv /\ [DirectNext]_directVars => DirectInv'
<1> SUFFICES ASSUME DirectInv, [DirectNext]_directVars PROVE DirectInv'
  OBVIOUS
<1>1. CASE UNCHANGED directVars
  BY <1>1
  DEF directVars, DirectInv, DirectTypeOK, OneTurn, BeforeEncoder, Labelled, Copying, Encoding
<1>2. CASE DirectNext
  BY <1>2, CompositorTypes, EncoderTypes, CompositorTurn, EncoderTurn DEF DirectNext, DirectInv
<1> QED BY <1>1, <1>2

-----------------------------------------------------------------------------
(* The ring of NvEncoder *)

(* Less than the length of the ring apart, two positions are in different  *)
(* buffers.                                                                *)
LEMMA Multiple == ASSUME NEW n \in Nat \ {0}, NEW q \in Int, q > 0 PROVE n * q >= n
  OBVIOUS

LEMMA DivMod ==
  ASSUME NEW n \in Nat \ {0}, NEW a \in Nat
  PROVE  a = n * (a \div n) + (a % n) /\ a \div n \in Int /\ a % n \in 0..(n - 1)
  OBVIOUS

LEMMA OtherBuffer ==
  ASSUME NEW n \in Nat \ {0}, NEW a \in Nat, NEW b \in Nat, a < b, b < a + n
  PROVE  a % n # b % n
<1> SUFFICES ASSUME a % n = b % n PROVE FALSE
  OBVIOUS
<1> DEFINE q == (b \div n) - (a \div n)
<1>1. q \in Int BY DivMod
<1>2. b - a = n * q
  <2>1. a = n * (a \div n) + (a % n) /\ a \div n \in Int /\ a % n \in Int BY DivMod
  <2>2. b = n * (b \div n) + (a % n) /\ b \div n \in Int BY DivMod
  <2> QED BY <2>1, <2>2
<1> HIDE DEF q
<1>3. CASE q <= 0
  <2>1. n * q <= 0 BY <1>1, <1>3
  <2> QED BY <2>1, <1>2
<1>4. CASE q > 0 BY <1>1, <1>2, <1>4, Multiple
<1> QED BY <1>1, <1>3, <1>4

(* The frame sent last, and whether another one is on its way to be sent *)
Last == input[(sent - 1) % NumBuffers]
Pending ==
  comp \in {"render", "signal", "set"} \/ (newFrame /\ ~exiting) \/ thread.pc = "transmit"

(* The ring holds consecutive frames, but for one that was announced       *)
(* before any was copied (0); the next one sent goes on from there.        *)
RingInv ==
  /\ thread.pc # "done" =>
       got = IF sent < NumBuffers THEN 0 ELSE sent - (NumBuffers - 1)
  /\ \A k \in Nat :
       k < sent /\ sent <= k + NumBuffers =>
         \/ input[k % NumBuffers] = 0
         \/ Last # 0 /\ Last - input[k % NumBuffers] = sent - 1 - k
  /\ sent > 0 /\ Last # 0 /\ (~exiting \/ thread.pc = "transmit") =>
       staging.label = IF Pending THEN Last + 1 ELSE Last

(* A step that leaves the ring alone *)
LEMMA RingKept ==
  ASSUME RingInv, LabelLag, UNCHANGED <<input, sent, packet>>,
         thread'.pc # "done" => thread.pc # "done" /\ got' = got,
         sent > 0 /\ Last # 0 /\ (~exiting' \/ thread'.pc = "transmit") =>
           staging'.label = IF Pending' THEN Last + 1 ELSE Last
  PROVE  RingInv' /\ LabelLag'
<1>1. Last' = Last BY DEF Last
<1>2. RingInv' BY <1>1 DEF RingInv
<1> QED BY <1>2 DEF LabelLag

LEMMA RingCompositor ==
  ASSUME DirectInv, RingInv, LabelLag, Present \/ CompositorStep
  PROVE  RingInv' /\ LabelLag'
<1>1. /\ UNCHANGED <<input, sent, packet, exiting, thread, got>>
  BY DEF Present, CompositorStep, CopyTexture, WaitForEncode, CopyToStaging, NewFrameReady
<1> SUFFICES ASSUME sent > 0, Last # 0, ~exiting \/ thread.pc = "transmit"
             PROVE  staging'.label = IF Pending' THEN Last + 1 ELSE Last
  BY <1>1, RingKept
<1>2. staging.label = IF Pending THEN Last + 1 ELSE Last BY DEF RingInv
<1>3. encoder = "set" BY DEF DirectInv, BeforeEncoder
<1>4. Last \in Nat
  BY DirectAssumption DEF Last, DirectInv, DirectTypeOK, Slots, Frames
<1> USE DEF DirectInv, DirectTypeOK, Frames, OneTurn, Labelled, Copying, Encoding, Pending
<1>5. CASE Present BY <1>1, <1>2, <1>5 DEF Present
<1>6. CASE CopyTexture BY <1>1, <1>2, <1>3, <1>6 DEF CopyTexture
<1>7. CASE WaitForEncode BY <1>1, <1>2, <1>7 DEF WaitForEncode
<1>8. CASE CopyToStaging BY <1>1, <1>2, <1>4, <1>8 DEF CopyToStaging
<1>9. CASE NewFrameReady BY <1>1, <1>2, <1>3, <1>9 DEF NewFrameReady
<1> QED BY <1>5, <1>6, <1>7, <1>8, <1>9 DEF CompositorStep

LEMMA RingTransmit ==
  ASSUME DirectInv, RingInv, LabelLag, Transmit
  PROVE  RingInv' /\ LabelLag'
<1> USE DirectAssumption
<1>1. /\ thread.pc = "transmit" /\ thread'.pc = "encoded"
      /\ UNCHANGED <<comp, staging, newFrame, exiting>>
      /\ sent \in Nat /\ sent' = sent + 1
      /\ thread.label = staging.label /\ staging.shows = staging.label /\ staging.label \in Nat
  BY DEF Transmit, DirectInv, DirectTypeOK, Labelled, OneTurn, Encoding, Copying, Frames
<1> DEFINE here == sent % NumBuffers
<1>2. here \in Slots /\ \A k \in Nat : k % NumBuffers \in Slots BY <1>1 DEF Slots
<1>3. \A s \in Slots : input'[s] = IF s = here THEN staging.label ELSE input[s]
  BY <1>1, <1>2 DEF Transmit, DirectInv, DirectTypeOK
<1>4. Last' = staging.label BY <1>1, <1>2, <1>3 DEF Last
<1>5. ASSUME NEW k \in Nat, k < sent, sent < k + NumBuffers
      PROVE  input'[k % NumBuffers] = input[k % NumBuffers]
  BY <1>1, <1>2, <1>3, <1>5, OtherBuffer
<1>6. \A s \in Slots : input[s] \in Nat BY DEF DirectInv, DirectTypeOK, Frames
<1>7. ~Pending'
  BY <1>1 DEF Pending, DirectInv, OneTurn, Encoding, Copying
<1>8. sent > 0 /\ Last # 0 => staging.label = Last + 1
  BY <1>1 DEF RingInv, Pending
<1>9. got' = IF sent' < NumBuffers THEN 0 ELSE sent' - (NumBuffers - 1)
  BY <1>1 DEF Transmit, RingInv, OutputDelay
<1>10. ASSUME NEW k \in Nat, k < sent', sent' <= k + NumBuffers
       PROVE  \/ input'[k % NumBuffers] = 0
              \/ Last' # 0 /\ Last' - input'[k % NumBuffers] = sent' - 1 - k
  <2>1. CASE k = sent BY <1>1, <1>2, <1>3, <1>4, <2>1
  <2>2. CASE k < sent
    <3>0. sent < k + NumBuffers /\ sent <= k + NumBuffers /\ sent - 1 \in Nat
      <4>1. sent + 1 <= k + NumBuffers BY <1>1, <1>10
      <4> QED BY <1>1, <2>2, <4>1
    <3>1. input'[k % NumBuffers] = input[k % NumBuffers] BY <1>5, <2>2, <3>0
    <3>2. \/ input[k % NumBuffers] = 0
          \/ Last # 0 /\ Last - input[k % NumBuffers] = sent - 1 - k
      BY <2>2, <3>0 DEF RingInv
    <3>3. Last \in Nat BY <1>2, <1>6, <3>0 DEF Last
    <3>4. CASE input[k % NumBuffers] = 0 BY <3>1, <3>4
    <3>5. CASE Last # 0 /\ Last - input[k % NumBuffers] = sent - 1 - k
      <4>1. input[k % NumBuffers] \in Nat BY <1>2, <1>6
      <4>2. staging.label = Last + 1 BY <1>1, <1>8, <3>0, <3>5 DEF DirectInv, DirectTypeOK
      <4> QED BY <1>1, <1>4, <3>1, <3>3, <3>5, <4>1, <4>2
    <3> QED BY <3>2, <3>4, <3>5
  <2> QED BY <1>1, <1>10, <2>1, <2>2
<1>11. RingInv' BY <1>1, <1>4, <1>7, <1>9, <1>10 DEF RingInv
<1>12. LabelLag'
  <2>1. CASE packet' = packet BY <2>1 DEF LabelLag
  <2>2. CASE packet' # packet
    <3>1. got < sent' - OutputDelay
          /\ packet' = [shows |-> input'[got % NumBuffers], label |-> thread.label]
      BY <2>2 DEF Transmit
    <3>2. got = sent' - NumBuffers /\ got \in Nat
      BY <1>1, <3>1 DEF RingInv, OutputDelay, DirectInv, DirectTypeOK
    <3>3. \/ packet'.shows = 0
          \/ Last' - packet'.shows = NumBuffers - 1
      BY <1>1, <1>10, <3>1, <3>2
    <3> QED BY <1>1, <1>4, <3>1, <3>3 DEF LabelLag
  <2> QED BY <2>1, <2>2
<1> QED BY <1>11, <1>12

LEMMA RingNext ==
  ASSUME DirectInv, RingInv, LabelLag, DirectNext
  PROVE  RingInv' /\ LabelLag'
<1>1. CASE WaitForFrame
  BY <1>1, RingKept
  DEF WaitForFrame, RingInv, Pending, DirectInv, DirectTypeOK, OneTurn, Encoding, Copying
<1>2. CASE EncodeFinished
  BY <1>2, RingKept
  DEF EncodeFinished, RingInv, Pending, DirectInv, DirectTypeOK, OneTurn, Encoding, Copying
<1>3. CASE StartStreaming
  BY <1>3, RingKept
  DEF StartStreaming, RingInv, DirectInv, BeforeEncoder
<1>4. CASE StopEncoder
  BY <1>4, RingKept
  DEF StopEncoder, RingInv, Pending
<1>5. CASE ShutdownEncoder
  <2>1. thread.pc = "done" /\ UNCHANGED <<comp, staging, newFrame, thread, exiting, input, sent, packet>>
    BY <1>5 DEF ShutdownEncoder
  <2> QED BY <2>1, RingKept DEF RingInv, Pending
<1> QED
  BY <1>1, <1>2, <1>3, <1>4, <1>5, RingCompositor, RingTransmit DEF DirectNext, EncoderThread

-----------------------------------------------------------------------------
(* The invariant *)

DirectRingInv == DirectInv /\ RingInv /\ LabelLag

LEMMA DirectInitRing == DirectInit => DirectRingInv
<1> SUFFICES ASSUME DirectInit PROVE RingInv /\ LabelLag
  BY DirectInitInv DEF DirectRingInv
<1> QED BY DirectAssumption DEF DirectInit, RingInv, LabelLag

LEMMA DirectNextRing == DirectRingInv /\ [DirectNext]_directVars => DirectRingInv'
<1> SUFFICES ASSUME DirectRingInv, [DirectNext]_directVars PROVE DirectRingInv'
  OBVIOUS
<1>1. DirectInv' BY DirectNextInv DEF DirectRingInv
<1>2. CASE UNCHANGED directVars
  <2>1. RingInv' /\ LabelLag'
    BY <1>2 DEF directVars, DirectRingInv, RingInv, LabelLag, Last, Pending
  <2> QED BY <1>1, <2>1 DEF DirectRingInv
<1>3. CASE DirectNext BY <1>1, <1>3, RingNext DEF DirectRingInv
<1> QED BY <1>2, <1>3

LEMMA DirectSafe == DirectRingInv => DirectTypeOK /\ StagingStable /\ NoFrameMixed /\ LabelLag
  BY DEF DirectRingInv, DirectInv, DirectTypeOK, Frames, OneTurn, Labelled, Copying, Encoding, StagingStable,
         NoFrameMixed
=============================================================================
