----------------------------- MODULE VideoStream -----------------------------
(***************************************************************************)
(* The video path: the encoder and its IDR scheduler, send_video with its  *)
(* bounded queue, the video_send thread, the network, video_receive on the *)
(* client and its decoder; and the control messages with which the client  *)
(* asks for an IDR frame and the server sends the decoder configuration.   *)
(*                                                                         *)
(* The network is what PacketChannel promises of the video stream: packets *)
(* are read in order, some are skipped, and a skip is reported unless it   *)
(* is before the first packet read.  The control socket is TCP.            *)
(*                                                                         *)
(* The encoder and STREAM_CORRUPTED outlive a connection.  The GOP is      *)
(* infinite: an IDR frame comes first and then only on request.            *)
(***************************************************************************)
EXTENDS Integers, Sequences

CONSTANTS
  AvoidGlitching,   \* settings.connection.avoid_video_glitching
  MaxQueued,        \* settings.connection.max_queued_server_video_frames
  MaxInFlight,      \* bound: packets in the network
  MaxControl,       \* bound: control messages under way, each way; more count as this many
  MaxFailures,      \* bound: packets the network loses, frames the decoder has no
                    \* input buffer for and sends on the stream socket that fail
  MaxConnections    \* bound: connections of the client

ASSUME SettingsAssumption == AvoidGlitching \in BOOLEAN /\ MaxQueued \in Nat
ASSUME BoundsAssumption ==
  /\ {MaxInFlight, MaxControl} \subseteq Nat \ {0}
  /\ {MaxFailures, MaxConnections} \subseteq Nat

VARIABLES
  conn,             \* off; on: the state is Streaming and VIDEO_CHANNEL_SENDER is set
  connections,      \* connections so far
  encoder,          \* off, on
  idr,              \* IDRScheduler: none, scheduled, due
  encoded,          \* the frame send_video is called with, if any
  serverCorrupted,  \* STREAM_CORRUPTED
  queue,            \* the channel of VIDEO_CHANNEL_SENDER
  inFlight,         \* packets of the video stream in the network
  missing,          \* missing[stage]: the frame before the next one does not reach the stage
  readBefore,       \* last_packet_index of the receiver is set
  clientCorrupted,  \* stream_corrupted
  decoder,          \* none; broken: needs an IDR frame; intact
  idrPushed,        \* the decoder got an IDR frame in this connection (history)
  requests,         \* RequestIdr messages on their way to the server
  configs,          \* InitializeDecoder messages on their way to the client
  failures,         \* failures so far
  sendFailed        \* one of them was a send

connVars == <<conn, connections>>
encoderVars == <<encoder, idr, encoded>>
serverVars == <<encoderVars, serverCorrupted, queue>>
clientVars == <<readBefore, clientCorrupted, decoder, idrPushed>>
controlVars == <<requests, configs>>
failureVars == <<failures, sendFailed>>
vars == <<connVars, serverVars, inFlight, missing, clientVars, controlVars, failureVars>>

Stages == {"queue", "network", "decoder"}

(* gap: the frame encoded just before this one is not the packet before it. *)
Frame(isIdr, gap) == [idr |-> isIdr, gap |-> gap]

Capped(n) == IF n > MaxControl THEN MaxControl ELSE n

Init ==
  /\ conn = "off"
  /\ connections = 0
  /\ encoder = "off"
  /\ idr = "none"
  /\ encoded = <<>>
  /\ serverCorrupted = TRUE
  /\ queue = <<>>
  /\ inFlight = <<>>
  /\ missing = [stage \in Stages |-> FALSE]
  /\ readBefore = FALSE
  /\ clientCorrupted = FALSE
  /\ decoder = "none"
  /\ idrPushed = FALSE
  /\ requests = 0
  /\ configs = 0
  /\ failures = 0
  /\ sendFailed = FALSE

-----------------------------------------------------------------------------
(* The connection *)

(* Only the first call creates an encoder; OnStreamStart makes its first   *)
(* frame an IDR frame.                                                     *)
StartStreaming ==
  IF encoder = "off"
  THEN encoder' = "on" /\ idr' = "due"
  ELSE UNCHANGED <<encoder, idr>>

(* VIDEO_CHANNEL_SENDER is set, the driver starts streaming, the state is  *)
(* Streaming: one step, as send_video waits for SERVER_DATA_MANAGER.       *)
Connect ==
  /\ conn = "off"
  /\ connections < MaxConnections
  /\ conn' = "on"
  /\ connections' = connections + 1
  /\ StartStreaming
  /\ readBefore' = FALSE
  /\ clientCorrupted' = FALSE
  /\ UNCHANGED <<encoded, serverCorrupted, queue>>
  /\ UNCHANGED <<inFlight, missing, decoder, idrPushed, controlVars, failureVars>>

(* The client drops its decoder; its control thread may create one         *)
(* afterwards for an InitializeDecoder that it got just before.            *)
DropDecoder ==
  \/ decoder' = "none"
  \/ configs > 0 /\ decoder' = "broken"

(* Both sides close the connection. *)
Disconnect ==
  /\ conn = "on"
  /\ conn' = "off"
  /\ queue' = <<>>
  /\ inFlight' = <<>>
  /\ missing' = [stage \in Stages |-> TRUE]
  /\ DropDecoder
  /\ idrPushed' = FALSE
  /\ requests' = 0
  /\ configs' = 0
  /\ UNCHANGED <<connections, encoderVars, serverCorrupted>>
  /\ UNCHANGED <<readBefore, clientCorrupted, failureVars>>

-----------------------------------------------------------------------------
(* The encoder thread *)

InsertIDR == idr' = IF idr = "none" THEN "scheduled" ELSE idr

(* minimum_idr_interval_ms have passed since the last IDR frame. *)
IntervalElapses ==
  /\ idr = "scheduled"
  /\ idr' = "due"
  /\ UNCHANGED <<connVars, encoder, encoded, serverCorrupted, queue>>
  /\ UNCHANGED <<inFlight, missing, clientVars, controlVars, failureVars>>

EncodeFrame ==
  /\ encoder # "off"
  /\ encoded = <<>>
  /\ encoded' = <<Frame(idr = "due", FALSE)>>
  /\ idr' = IF idr = "due" THEN "none" ELSE idr
  /\ UNCHANGED <<connVars, encoder, serverCorrupted, queue>>
  /\ UNCHANGED <<inFlight, missing, clientVars, controlVars, failureVars>>

(* Mutant: a full queue does not request an IDR frame. *)
CorruptOnly == serverCorrupted' = TRUE /\ UNCHANGED idr

CorruptAndRequest == serverCorrupted' = TRUE /\ InsertIDR

(* Mutant: one frame more than the channel has room for. *)
HasRoomForOneMore == Len(queue) <= MaxQueued

(* try_send does not block. *)
HasRoom == Len(queue) < MaxQueued

DropEncoded == missing' = [missing EXCEPT !["queue"] = TRUE]

(* send_video, called by the encoder thread *)
SendVideo ==
  LET frame == Head(encoded)
      waiting == serverCorrupted /\ ~frame.idr
      held == waiting /\ AvoidGlitching
  IN  /\ encoded # <<>>
      /\ encoded' = <<>>
      /\ \/ /\ conn = "off" \/ held
            /\ DropEncoded
            /\ UNCHANGED <<serverCorrupted, idr, queue>>
         \/ /\ conn = "on"
            /\ ~held
            /\ HasRoom
            /\ serverCorrupted' = waiting
            /\ queue' = Append(queue, Frame(frame.idr, missing["queue"]))
            /\ missing' = [missing EXCEPT !["queue"] = FALSE]
            /\ UNCHANGED idr
         \/ /\ conn = "on"
            /\ ~held
            /\ ~HasRoom
            /\ CorruptAndRequest
            /\ DropEncoded
            /\ UNCHANGED queue
      /\ UNCHANGED <<connVars, encoder, inFlight, clientVars, controlVars, failureVars>>

-----------------------------------------------------------------------------
(* The video_send thread *)

SendPacket ==
  /\ conn = "on"
  /\ queue # <<>>
  /\ Len(inFlight) < MaxInFlight
  /\ queue' = Tail(queue)
  /\ inFlight' = Append(inFlight, Frame(Head(queue).idr, Head(queue).gap \/ missing["network"]))
  /\ missing' = [missing EXCEPT !["network"] = FALSE]
  /\ UNCHANGED <<connVars, encoderVars, serverCorrupted, clientVars, controlVars, failureVars>>

(* `video_sender.send(buffer).ok()`: the packet is gone, and the next one  *)
(* gets its index.                                                         *)
FailSend ==
  /\ conn = "on"
  /\ queue # <<>>
  /\ failures < MaxFailures
  /\ failures' = failures + 1
  /\ sendFailed' = TRUE
  /\ queue' = Tail(queue)
  /\ missing' = [missing EXCEPT !["network"] = TRUE]
  /\ UNCHANGED <<connVars, encoderVars, serverCorrupted, inFlight, clientVars, controlVars>>

-----------------------------------------------------------------------------
(* The video_receive thread of the client.  It reads the k-th packet that  *)
(* is in the network: the packets before it are lost.                      *)

(* Mutant: the receiver does not report a loss. *)
LossUnseen(k) == FALSE

HadPacketLoss(k) == readBefore /\ k > 1

Push(packet, gap) ==
  /\ decoder' = IF packet.idr THEN "intact" ELSE IF gap THEN "broken" ELSE decoder
  /\ idrPushed' = (idrPushed \/ packet.idr)
  /\ missing' = [missing EXCEPT !["decoder"] = FALSE]

(* Mutant: the client only asks for an IDR frame when the network lost a packet. *)
RequestOnLoss(loss, dropped) == requests' = Capped(requests + (IF loss THEN 1 ELSE 0))

RequestIdr(loss, dropped) ==
  requests' = Capped(requests + (IF loss THEN 1 ELSE 0) + (IF dropped THEN 1 ELSE 0))

DropReceived(loss) ==
  /\ missing' = [missing EXCEPT !["decoder"] = TRUE]
  /\ clientCorrupted' = TRUE
  /\ RequestIdr(loss, TRUE)
  /\ UNCHANGED <<decoder, idrPushed>>

VideoReceive(k) ==
  LET packet == inFlight[k]
      loss == HadPacketLoss(k) /\ ~packet.idr
      corrupted == ~packet.idr /\ (clientCorrupted \/ loss)
      held == corrupted /\ AvoidGlitching
      gap == packet.gap \/ k > 1 \/ missing["decoder"]
  IN  /\ conn = "on"
      /\ k \in 1..Len(inFlight)
      /\ failures + k - 1 <= MaxFailures
      /\ inFlight' = SubSeq(inFlight, k + 1, Len(inFlight))
      /\ readBefore' = TRUE
      /\ \/ /\ held \/ decoder = "none"
            /\ DropReceived(loss)
            /\ failures' = failures + k - 1
         \/ /\ ~held
            /\ decoder # "none"
            /\ Push(packet, gap)
            /\ clientCorrupted' = corrupted
            /\ RequestIdr(loss, FALSE)
            /\ failures' = failures + k - 1
         \/ /\ ~held
            /\ decoder # "none"
            /\ failures + k <= MaxFailures
            /\ DropReceived(loss)
            /\ failures' = failures + k
      /\ UNCHANGED <<connVars, serverVars, configs, sendFailed>>

-----------------------------------------------------------------------------
(* The control threads *)

(* The server answers RequestIdr.  DECODER_CONFIG is set by then: the      *)
(* encoder provides it with its first frame, before that is sent.          *)
ServerHandlesRequest ==
  /\ conn = "on"
  /\ requests > 0
  /\ requests' = requests - 1
  /\ configs' = Capped(configs + 1)
  /\ InsertIDR
  /\ UNCHANGED <<connVars, encoder, encoded, serverCorrupted, queue>>
  /\ UNCHANGED <<inFlight, missing, clientVars, failureVars>>

(* create_decoder, with the decoder of the Android client *)
ClientHandlesConfig ==
  /\ conn = "on"
  /\ configs > 0
  /\ configs' = configs - 1
  /\ IF decoder = "none"
     THEN /\ decoder' = "broken"
          /\ requests' = Capped(requests + 1)
     ELSE UNCHANGED <<decoder, requests>>
  /\ UNCHANGED <<connVars, serverVars, inFlight, missing, failureVars>>
  /\ UNCHANGED <<readBefore, clientCorrupted, idrPushed>>

-----------------------------------------------------------------------------
Encoder == IntervalElapses \/ EncodeFrame \/ SendVideo

VideoReceiveThread == \E k \in 1..Len(inFlight) : VideoReceive(k)

Next ==
  \/ Connect
  \/ Disconnect
  \/ Encoder
  \/ SendPacket
  \/ FailSend
  \/ VideoReceiveThread
  \/ ServerHandlesRequest
  \/ ClientHandlesConfig

Spec == Init /\ [][Next]_vars

(* The application keeps presenting frames, time passes, and every thread  *)
(* that can take a step takes it.  Nobody has to connect or to leave.      *)
Fairness ==
  /\ WF_vars(IntervalElapses)
  /\ WF_vars(EncodeFrame)
  /\ WF_vars(SendVideo)
  /\ WF_vars(SendPacket)
  /\ WF_vars(VideoReceiveThread)
  /\ WF_vars(ServerHandlesRequest)
  /\ WF_vars(ClientHandlesConfig)

FairSpec == Spec /\ Fairness

-----------------------------------------------------------------------------
(* Properties *)

(* Types, and what belongs to a connection is empty without one. *)
Frames == [idr : BOOLEAN, gap : BOOLEAN]

TypeOK ==
  /\ conn \in {"off", "on"}
  /\ connections \in 0..MaxConnections
  /\ encoder \in {"off", "on"}
  /\ idr \in {"none", "scheduled", "due"}
  /\ encoded \in {<<>>} \cup {<<f>> : f \in Frames}
  /\ {serverCorrupted, readBefore, clientCorrupted, idrPushed, sendFailed} \subseteq BOOLEAN
  /\ queue \in Seq(Frames) /\ Len(queue) <= MaxQueued
  /\ inFlight \in Seq(Frames) /\ Len(inFlight) <= MaxInFlight
  /\ missing \in [Stages -> BOOLEAN]
  /\ decoder \in {"none", "broken", "intact"}
  /\ {requests, configs} \subseteq 0..MaxControl
  /\ failures \in 0..MaxFailures

(* With avoid_video_glitching, unless a send failed: once the decoder got  *)
(* an IDR frame, every frame it gets refers to the one it got before,      *)
(* whatever the queue, the network and the decoder drop on the way.        *)
GlitchFree == AvoidGlitching /\ ~sendFailed /\ idrPushed => decoder = "intact"

(* A client that drops frames gets the IDR frame it waits for. *)
ClientRecovers == clientCorrupted /\ conn = "on" ~> ~clientCorrupted \/ conn # "on"

(* The first client that connects gets to see video. *)
FirstVideoStarts ==
  conn = "on" /\ connections = 1 ~> idrPushed \/ conn # "on"

(* Every client that connects gets to see video.  The comment in           *)
(* send_video: it starts in the corrupted state, as the client did not     *)
(* receive the initial IDR frame yet.                                      *)
VideoStarts == conn = "on" ~> idrPushed \/ conn # "on"
=============================================================================
