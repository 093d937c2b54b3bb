------------------------------ MODULE DirectMode ------------------------------
(***************************************************************************)
(* Frames on their way to the encoder on Windows.  The thread of the       *)
(* compositor presents a frame: it waits until the encoder has done with   *)
(* the one before, copies the layers to the staging texture, and sets an   *)
(* event.  The thread of the encoder waits for the event and transmits the *)
(* texture through the ring of buffers of NvEncoder.  HMD::StartStreaming  *)
(* makes the encoder and hands it to the component while frames are        *)
(* presented.                                                              *)
(***************************************************************************)
EXTENDS Integers

CONSTANTS
  NumBuffers,   \* m_nEncoderBuffer: frameIntervalP + lookaheadDepth
  MaxFrames     \* bound: calls of Present that reach CopyTexture

ASSUME DirectAssumption == NumBuffers \in Nat \ {0} /\ MaxFrames \in Nat

VARIABLES
  encoder,    \* what StartStreaming has done: none, made, started, set (m_pEncoder)
  comp,       \* the thread of the compositor in Present, with m_presentMutex
  frame,      \* frames presented so far; the number stands for m_targetTimestampNs
  staging,    \* the label (m_targetTimestampNs of CEncoder) and what the texture shows
  newFrame,   \* m_newFrameReady, set or not
  finished,   \* m_encodeFinished, set or not
  thread,     \* CEncoder::Run, and the arguments of Transmit
  exiting,    \* m_bExiting
  input,      \* input[s]: frame in the input buffer s of NvEncoder
  sent,       \* m_iToSend
  got,        \* m_iGot
  packet      \* the last packet that was sent: what it shows, and its label

directVars == <<encoder, comp, frame, staging, newFrame, finished, thread, exiting,
                input, sent, got, packet>>

Slots == 0..(NumBuffers - 1)
Frames == 0..MaxFrames          \* 0: the texture nobody rendered to
NoPacket == [shows |-> 0, label |-> 0]

DirectInit ==
  /\ encoder = "none"
  /\ comp = "idle"
  /\ frame = 0
  /\ staging = NoPacket
  /\ newFrame = FALSE
  /\ finished = TRUE
  /\ thread = [pc |-> "off", label |-> 0]
  /\ exiting = FALSE
  /\ input = [s \in Slots |-> 0]
  /\ sent = 0
  /\ got = 0
  /\ packet = NoPacket

-----------------------------------------------------------------------------
(* The compositor *)

(* Present, past the returns for a texture it does not know or cannot lock *)
Present ==
  /\ comp = "idle"
  /\ frame < MaxFrames
  /\ frame' = frame + 1
  /\ comp' = "copy"
  /\ UNCHANGED <<encoder, staging, newFrame, finished, thread, exiting, input, sent, got,
                 packet>>

(* CopyTexture looks for the encoder ... *)
CopyTexture ==
  /\ comp = "copy"
  /\ comp' = IF encoder = "set" THEN "wait" ELSE "signal"
  /\ UNCHANGED <<encoder, frame, staging, newFrame, finished, thread, exiting, input, sent,
                 got, packet>>

(* Mutant: the wait returns at once. *)
WaitForEncodeNever ==
  /\ comp = "wait"
  /\ finished' = FALSE
  /\ comp' = "label"
  /\ UNCHANGED <<encoder, frame, staging, newFrame, thread, exiting, input, sent, got,
                 packet>>

(* ... waits for it, which resets the event ... *)
WaitForEncode ==
  /\ comp = "wait"
  /\ finished
  /\ finished' = FALSE
  /\ comp' = "label"
  /\ UNCHANGED <<encoder, frame, staging, newFrame, thread, exiting, input, sent, got,
                 packet>>

(* ... and CopyToStaging writes the label first, then the texture. *)
CopyToStaging ==
  /\ \/ /\ comp = "label"
        /\ staging' = [staging EXCEPT !.label = frame]
        /\ comp' = "render"
     \/ /\ comp = "render"
        /\ staging' = [staging EXCEPT !.shows = frame]
        /\ comp' = "signal"
  /\ UNCHANGED <<encoder, frame, newFrame, finished, thread, exiting, input, sent, got,
                 packet>>

(* Mutant: only the event for the encoder is set. *)
NewFrameReadyOnly ==
  /\ comp = "signal"
  /\ newFrame' = (encoder = "set")
  /\ comp' = "idle"
  /\ UNCHANGED <<encoder, frame, staging, finished, thread, exiting, input, sent, got,
                 packet>>

(* NewFrameReady resets one event and sets the other, if there is an       *)
(* encoder by now.                                                         *)
NewFrameReady ==
  /\ \/ /\ comp = "signal"
        /\ encoder = "set"
        /\ finished' = FALSE
        /\ comp' = "set"
        /\ UNCHANGED newFrame
     \/ /\ comp = "set"
        /\ newFrame' = TRUE
        /\ comp' = "idle"
        /\ UNCHANGED finished
     \/ /\ comp = "signal"
        /\ encoder # "set"
        /\ comp' = "idle"
        /\ UNCHANGED <<newFrame, finished>>
  /\ UNCHANGED <<encoder, frame, staging, thread, exiting, input, sent, got, packet>>

-----------------------------------------------------------------------------
(* The thread of the encoder *)

(* The wait resets the event. *)
WaitForFrame ==
  /\ thread.pc = "wait"
  /\ newFrame
  /\ newFrame' = FALSE
  /\ thread' = IF exiting THEN [thread EXCEPT !.pc = "done"]
               ELSE [pc |-> "transmit", label |-> staging.label]
  /\ UNCHANGED <<encoder, comp, frame, staging, finished, exiting, input, sent, got, packet>>

(* Mutant: one packet fewer is left. *)
OutputDelayShort == IF NumBuffers = 1 THEN 0 ELSE NumBuffers - 2

(* Packets are fetched until this many are left in the ring. *)
OutputDelay == NumBuffers - 1

(* Transmit: the texture is copied into the next input buffer and encoded; *)
(* a packet that comes out gets the label of the frame that went in.       *)
Transmit ==
  /\ thread.pc = "transmit"
  /\ input' = [input EXCEPT ![sent % NumBuffers] = staging.shows]
  /\ sent' = sent + 1
  /\ IF got < sent' - OutputDelay
       THEN /\ got' = got + 1
            /\ packet' = [shows |-> input'[got % NumBuffers], label |-> thread.label]
       ELSE UNCHANGED <<got, packet>>
  /\ thread' = [thread EXCEPT !.pc = "encoded"]
  /\ UNCHANGED <<encoder, comp, frame, staging, newFrame, finished, exiting>>

(* Mutant: the event is set only when a packet came out. *)
EncodeFinishedOnPacket ==
  /\ thread.pc = "encoded"
  /\ finished' = (got > 0)
  /\ thread' = [thread EXCEPT !.pc = IF exiting THEN "done" ELSE "wait"]
  /\ UNCHANGED <<encoder, comp, frame, staging, newFrame, exiting, input, sent, got, packet>>

EncodeFinished ==
  /\ thread.pc = "encoded"
  /\ finished' = TRUE
  /\ thread' = [thread EXCEPT !.pc = IF exiting THEN "done" ELSE "wait"]
  /\ UNCHANGED <<encoder, comp, frame, staging, newFrame, exiting, input, sent, got, packet>>

-----------------------------------------------------------------------------
(* HMD *)

(* StartStreaming: make the encoder, start its thread, SetEncoder *)
StartStreaming ==
  /\ ~exiting
  /\ \/ encoder = "none" /\ encoder' = "made" /\ UNCHANGED thread
     \/ /\ encoder = "made"
        /\ encoder' = "started"
        /\ thread' = [thread EXCEPT !.pc = "wait"]
     \/ encoder = "started" /\ encoder' = "set" /\ UNCHANGED thread
  /\ UNCHANGED <<comp, frame, staging, newFrame, finished, exiting, input, sent, got, packet>>

(* Stop: the component keeps its pointer to the encoder. *)
StopEncoder ==
  /\ encoder = "set"
  /\ ~exiting
  /\ exiting' = TRUE
  /\ newFrame' = TRUE
  /\ UNCHANGED <<encoder, comp, frame, staging, finished, thread, input, sent, got, packet>>

(* ~CEncoder: EndEncode fetches what is left, and nobody sends it. *)
ShutdownEncoder ==
  /\ thread.pc = "done"
  /\ got < sent
  /\ got' = sent
  /\ UNCHANGED <<encoder, comp, frame, staging, newFrame, finished, thread, exiting, input,
                 sent, packet>>

CompositorStep == CopyTexture \/ WaitForEncode \/ CopyToStaging \/ NewFrameReady
EncoderThread == WaitForFrame \/ Transmit \/ EncodeFinished

DirectNext ==
  \/ Present \/ CompositorStep
  \/ EncoderThread
  \/ StartStreaming \/ StopEncoder \/ ShutdownEncoder

-----------------------------------------------------------------------------
(* Properties *)

(* Every variable has its type. *)
DirectTypeOK ==
  /\ encoder \in {"none", "made", "started", "set"}
  /\ comp \in {"idle", "copy", "wait", "label", "render", "signal", "set"}
  /\ frame \in Frames
  /\ staging \in [shows : Frames, label : Frames]
  /\ newFrame \in BOOLEAN
  /\ finished \in BOOLEAN
  /\ thread \in [pc : {"off", "wait", "transmit", "encoded", "done"}, label : Frames]
  /\ exiting \in BOOLEAN
  /\ input \in [Slots -> Frames]
  /\ sent \in Nat
  /\ got \in 0..sent
  /\ packet \in [shows : Frames, label : Frames]

(* The compositor does not write to the staging texture, and does not      *)
(* begin another frame, while the encoder reads the last one.              *)
StagingStable ==
  comp \in {"label", "render"} => thread.pc # "transmit" /\ (newFrame => exiting)

(* What the encoder transmits is of one frame, the texture as well as the  *)
(* label, and, once a frame was copied, with a later label than that of    *)
(* the last packet.                                                        *)
NoFrameMixed ==
  thread.pc = "transmit" =>
    /\ staging.shows = staging.label
    /\ thread.label = staging.label
    /\ staging.label = 0 \/ staging.label > packet.label

(* A packet leaves NvEncoder with the label of the frame that was sent one *)
(* ring later than the one it shows, and no frame is lost on the way: the  *)
(* label is right when there is one buffer only.                           *)
LabelLag ==
  \/ packet = NoPacket
  \/ packet.shows = 0
  \/ packet.label - packet.shows = NumBuffers - 1

(* Present returns as long as the encoder is not stopped: whether or not a *)
(* packet came out, the encoder tells that it is done with the texture.    *)
PresentReturns == (comp # "idle") ~> (comp = "idle" \/ exiting)
=============================================================================
