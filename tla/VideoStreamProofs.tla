--------------------------- MODULE VideoStreamProofs ---------------------------
(***************************************************************************)
(* The decoder sees no glitch, for any length of the queue and of the      *)
(* network, any number of failures and any number of connections.          *)
(***************************************************************************)
EXTENDS VideoStream, TLAPS

(* A frame that refers to one that did not come this far *)
Dangling(frame) == frame.gap /\ ~frame.idr

(* Without a connection nothing is under way. *)
OffIsEmpty == conn = "off" => queue = <<>> /\ inFlight = <<>> /\ ~idrPushed

(* Only the first frame of a connection can be dangling. *)
OnlyFirstDangles ==
  /\ \A k \in 1..Len(queue) : Dangling(queue[k]) => k = 1 /\ inFlight = <<>> /\ ~idrPushed
  /\ \A k \in 1..Len(inFlight) : Dangling(inFlight[k]) => k = 1 /\ ~idrPushed

(* A frame that was dropped before the queue, before the network or before *)
(* the decoder leaves a mark, or this connection has not got that far.     *)
DropIsMarked ==
  /\ missing["queue"] /\ ~serverCorrupted => queue = <<>> /\ inFlight = <<>> /\ ~idrPushed
  /\ missing["network"] => inFlight = <<>> /\ ~idrPushed
  /\ missing["decoder"] /\ ~clientCorrupted => ~idrPushed

(* A receiver that read an IDR frame reports every loss from then on. *)
LossIsReported == idrPushed => readBefore

(* What holds with avoid_video_glitching unless a send failed *)
Unbroken ==
  AvoidGlitching /\ ~sendFailed => /\ OnlyFirstDangles
                                   /\ DropIsMarked
                                   /\ idrPushed => decoder = "intact"

VideoInv == TypeOK /\ OffIsEmpty /\ LossIsReported /\ Unbroken

-----------------------------------------------------------------------------
(* Types *)

LEMMA SeqFacts ==
  ASSUME NEW S, NEW s \in Seq(S)
  PROVE  /\ Len(s) \in Nat
         /\ \A e \in S : /\ Append(s, e) \in Seq(S) /\ Len(Append(s, e)) = Len(s) + 1
                         /\ \A k \in 1..Len(s) : Append(s, e)[k] = s[k]
                         /\ Append(s, e)[Len(s) + 1] = e
         /\ s # <<>> => /\ Head(s) \in S /\ Head(s) = s[1] /\ Tail(s) \in Seq(S)
                        /\ Len(s) > 0 /\ Len(Tail(s)) = Len(s) - 1
                        /\ \A k \in 1..Len(Tail(s)) : Tail(s)[k] = s[k + 1]
  OBVIOUS

LEMMA Cut ==
  ASSUME NEW S, NEW s \in Seq(S), NEW k \in 1..Len(s)
  PROVE  /\ SubSeq(s, k + 1, Len(s)) \in Seq(S)
         /\ Len(SubSeq(s, k + 1, Len(s))) = Len(s) - k
         /\ \A j \in 1..(Len(s) - k) : SubSeq(s, k + 1, Len(s))[j] = s[k + j]
  OBVIOUS

LEMMA FrameType == \A i, g \in BOOLEAN : Frame(i, g) \in Frames /\ Frame(i, g).idr = i
                                         /\ Frame(i, g).gap = g
  BY DEF Frame, Frames

LEMMA CappedType == \A n \in Nat : Capped(n) \in 0..MaxControl
  BY BoundsAssumption DEF Capped

LEMMA MissingType ==
  ASSUME missing \in [Stages -> BOOLEAN], NEW s \in Stages, NEW b \in BOOLEAN
  PROVE  [missing EXCEPT ![s] = b] \in [Stages -> BOOLEAN]
  OBVIOUS

LEMMA ConnectionTypes == ASSUME TypeOK, Connect \/ Disconnect PROVE TypeOK'
<1> USE DEF encoderVars, controlVars, failureVars
<1>1. CASE Connect
  <2>1. connections' \in 0..MaxConnections BY <1>1, BoundsAssumption DEF Connect, TypeOK
  <2>2. encoder' \in {"off", "on"} /\ idr' \in {"none", "scheduled", "due"}
    BY <1>1 DEF Connect, StartStreaming, TypeOK
  <2>3. conn' \in {"off", "on"} /\ readBefore' = FALSE /\ clientCorrupted' = FALSE
    BY <1>1 DEF Connect
  <2>4. UNCHANGED <<encoded, serverCorrupted, queue, inFlight, missing, decoder, idrPushed,
                    requests, configs, failures, sendFailed>>
    BY <1>1 DEF Connect
  <2> QED BY <2>1, <2>2, <2>3, <2>4 DEF TypeOK
<1>2. CASE Disconnect
  <2>1. <<>> \in Seq(Frames) /\ Len(<<>>) = 0 OBVIOUS
  <2>2. /\ queue' = <<>> /\ inFlight' = <<>> /\ conn' = "off" /\ idrPushed' = FALSE
        /\ requests' = 0 /\ configs' = 0
        /\ missing' = [stage \in Stages |-> TRUE]
        /\ decoder' \in {"none", "broken"}
    BY <1>2 DEF Disconnect, DropDecoder
  <2>3. UNCHANGED <<connections, encoder, idr, encoded, serverCorrupted, readBefore,
                    clientCorrupted, failures, sendFailed>>
    BY <1>2 DEF Disconnect
  <2>4. 0 \in 0..MaxControl BY BoundsAssumption
  <2>5. missing' \in [Stages -> BOOLEAN] BY <2>2
  <2>6. 0 <= MaxQueued /\ 0 <= MaxInFlight BY SettingsAssumption, BoundsAssumption
  <2> QED BY <2>1, <2>2, <2>3, <2>4, <2>5, <2>6 DEF TypeOK
<1> QED BY <1>1, <1>2

LEMMA ServerTypes ==
  ASSUME TypeOK, IntervalElapses \/ EncodeFrame \/ SendVideo \/ SendPacket \/ FailSend
  PROVE  TypeOK'
<1> USE DEF connVars, encoderVars, clientVars, controlVars, failureVars, Stages
<1>1. CASE IntervalElapses BY <1>1 DEF IntervalElapses, TypeOK
<1>2. CASE EncodeFrame
  <2>1. encoded' \in {<<f>> : f \in Frames} BY <1>2, FrameType DEF EncodeFrame
  <2>2. idr' \in {"none", "scheduled", "due"} BY <1>2 DEF EncodeFrame, TypeOK
  <2> QED BY <1>2, <2>1, <2>2 DEF EncodeFrame, TypeOK
<1>3. CASE SendVideo
  <2>1. encoded # <<>> /\ encoded' = <<>>
        /\ UNCHANGED <<connVars, encoder, inFlight, clientVars, controlVars, failureVars>>
    BY <1>3 DEF SendVideo
  <2>2. PICK f \in Frames : encoded = <<f>> BY <2>1 DEF TypeOK
  <2>3. Head(encoded) = f BY <2>2
  <2>4. Frame(f.idr, missing["queue"]) \in Frames BY FrameType DEF TypeOK, Frames
  <2>5. queue' \in Seq(Frames) /\ Len(queue') <= MaxQueued
    <3>1. \/ queue' = queue
          \/ HasRoom /\ queue' = Append(queue, Frame(f.idr, missing["queue"]))
      BY <1>3, <2>3 DEF SendVideo
    <3>2. queue \in Seq(Frames) /\ Len(queue) <= MaxQueued BY DEF TypeOK
    <3> DEFINE g == Frame(f.idr, missing["queue"])
    <3>3. g \in Frames BY <2>4
    <3> HIDE DEF g
    <3>4. ASSUME Len(queue) < MaxQueued, queue' = Append(queue, g)
          PROVE  queue' \in Seq(Frames) /\ Len(queue') <= MaxQueued
      <4>1. queue' \in Seq(Frames) /\ Len(queue') = Len(queue) + 1 /\ Len(queue) \in Nat
        BY <3>2, <3>3, <3>4, SeqFacts
      <4> QED BY <3>4, <4>1, SettingsAssumption
    <3> QED BY <3>1, <3>2, <3>4 DEF HasRoom, g
  <2>6. missing' \in [Stages -> BOOLEAN]
    BY <1>3, MissingType DEF SendVideo, DropEncoded, TypeOK
  <2>7. idr' \in {"none", "scheduled", "due"} /\ serverCorrupted' \in BOOLEAN
    BY <1>3, <2>3 DEF SendVideo, CorruptAndRequest, InsertIDR, TypeOK, Frames
  <2> QED BY <2>1, <2>5, <2>6, <2>7 DEF TypeOK
<1>4. CASE SendPacket
  <2>1. /\ queue # <<>> /\ Len(inFlight) < MaxInFlight /\ queue' = Tail(queue)
        /\ inFlight' = Append(inFlight, Frame(Head(queue).idr,
                                              Head(queue).gap \/ missing["network"]))
        /\ missing' = [missing EXCEPT !["network"] = FALSE]
        /\ UNCHANGED <<connVars, encoderVars, serverCorrupted, clientVars, controlVars,
                       failureVars>>
    BY <1>4 DEF SendPacket
  <2>2. queue \in Seq(Frames) /\ inFlight \in Seq(Frames) BY DEF TypeOK
  <2>3. Head(queue) \in Frames BY <2>1, <2>2
  <2> DEFINE g == Head(queue).gap \/ missing["network"]
  <2>4. Frame(Head(queue).idr, g) \in Frames BY <2>3, FrameType DEF Frames
  <2>5. inFlight' \in Seq(Frames) /\ Len(inFlight') <= MaxInFlight
    BY <2>1, <2>2, <2>4, SeqFacts, BoundsAssumption
  <2>6. queue' \in Seq(Frames) /\ Len(queue') <= MaxQueued
    BY <2>1, <2>2, SeqFacts, SettingsAssumption DEF TypeOK
  <2> QED BY <2>1, <2>5, <2>6, MissingType DEF TypeOK
<1>5. CASE FailSend
  <2>1. queue \in Seq(Frames) BY DEF TypeOK
  <2>2. queue' \in Seq(Frames) /\ Len(queue') <= MaxQueued
    BY <1>5, <2>1, SeqFacts, SettingsAssumption DEF FailSend, TypeOK
  <2> QED BY <1>5, <2>2, MissingType, BoundsAssumption DEF FailSend, TypeOK
<1> QED BY <1>1, <1>2, <1>3, <1>4, <1>5

LEMMA ClientTypes ==
  ASSUME TypeOK, VideoReceiveThread \/ ServerHandlesRequest \/ ClientHandlesConfig
  PROVE  TypeOK'
<1> USE DEF connVars, serverVars, encoderVars, controlVars, failureVars, Stages
<1>1. ASSUME NEW k \in 1..Len(inFlight), VideoReceive(k) PROVE TypeOK'
  <2> DEFINE packet == inFlight[k]
             loss == HadPacketLoss(k) /\ ~packet.idr
             gap == packet.gap \/ k > 1 \/ missing["decoder"]
  <2>1. inFlight \in Seq(Frames) /\ Len(inFlight) <= MaxInFlight /\ Len(inFlight) \in Nat
    BY SeqFacts DEF TypeOK
  <2>2. packet \in Frames BY <2>1
  <2>3. inFlight' \in Seq(Frames) /\ Len(inFlight') <= MaxInFlight
    BY <1>1, <2>1, Cut, BoundsAssumption DEF VideoReceive
  <2>4. requests' \in 0..MaxControl
    <3>1. requests \in Nat BY BoundsAssumption DEF TypeOK
    <3>2. \A l, d \in BOOLEAN : requests + (IF l THEN 1 ELSE 0) + (IF d THEN 1 ELSE 0) \in Nat
      BY <3>1
    <3>3. \A l, d \in BOOLEAN : RequestIdr(l, d) => requests' \in 0..MaxControl
      BY <3>2, CappedType DEF RequestIdr
    <3>4. loss \in BOOLEAN OBVIOUS
    <3>5. RequestIdr(loss, TRUE) \/ RequestIdr(loss, FALSE)
      BY <1>1 DEF VideoReceive, DropReceived
    <3> HIDE DEF loss
    <3> QED BY <3>3, <3>4, <3>5
  <2>5. missing' \in [Stages -> BOOLEAN] /\ decoder' \in {"none", "broken", "intact"}
        /\ idrPushed' \in BOOLEAN /\ clientCorrupted' \in BOOLEAN
    <3>1. CASE DropReceived(loss) BY <3>1, MissingType DEF DropReceived, TypeOK
    <3>2. CASE Push(packet, gap) /\ clientCorrupted' = (~packet.idr /\ (clientCorrupted \/ loss))
      BY <2>2, <3>2, MissingType DEF Push, TypeOK, Frames
    <3> QED BY <1>1, <3>1, <3>2 DEF VideoReceive
  <2>6. failures' \in 0..MaxFailures /\ readBefore' = TRUE
    <3>1. failures \in Nat /\ MaxFailures \in Nat /\ k \in Nat /\ k >= 1
      BY <2>1, BoundsAssumption DEF TypeOK
    <3>2. readBefore' = TRUE /\ failures + k - 1 <= MaxFailures
          /\ \/ failures' = failures + k - 1
             \/ failures + k <= MaxFailures /\ failures' = failures + k
      BY <1>1 DEF VideoReceive
    <3> QED BY <3>1, <3>2
  <2>7. UNCHANGED <<connVars, serverVars, configs, sendFailed>> BY <1>1 DEF VideoReceive
  <2> QED BY <2>3, <2>4, <2>5, <2>6, <2>7 DEF TypeOK
<1>2. CASE ServerHandlesRequest
  <2>1. configs' \in 0..MaxControl
    <3>1. configs + 1 \in Nat BY BoundsAssumption DEF TypeOK
    <3> QED BY <1>2, <3>1, CappedType DEF ServerHandlesRequest
  <2>2. requests' \in 0..MaxControl BY <1>2, BoundsAssumption DEF ServerHandlesRequest, TypeOK
  <2> QED BY <1>2, <2>1, <2>2 DEF ServerHandlesRequest, InsertIDR, TypeOK, clientVars
<1>3. CASE ClientHandlesConfig
  <2>1. requests' \in 0..MaxControl
    <3>1. requests + 1 \in Nat BY BoundsAssumption DEF TypeOK
    <3> QED BY <1>3, <3>1, CappedType DEF ClientHandlesConfig, TypeOK
  <2>2. configs' \in 0..MaxControl BY <1>3, BoundsAssumption DEF ClientHandlesConfig, TypeOK
  <2> QED BY <1>3, <2>1, <2>2 DEF ClientHandlesConfig, TypeOK
<1> QED BY <1>1, <1>2, <1>3 DEF VideoReceiveThread
-----------------------------------------------------------------------------
(* Drops before the network *)

LEMMA SendVideoKeeps ==
  ASSUME VideoInv, SendVideo PROVE OffIsEmpty' /\ LossIsReported' /\ Unbroken'
<1> USE DEF connVars, encoderVars, clientVars, controlVars, failureVars, Stages
<1>0. TypeOK /\ OffIsEmpty /\ LossIsReported /\ Unbroken BY DEF VideoInv
<1>1. encoded # <<>>
      /\ UNCHANGED <<conn, inFlight, readBefore, clientCorrupted, decoder, idrPushed, sendFailed>>
  BY DEF SendVideo
<1>2. PICK f \in Frames : Head(encoded) = f
  <2>1. PICK f \in Frames : encoded = <<f>> BY <1>0, <1>1 DEF TypeOK
  <2>2. Head(encoded) = f BY <2>1
  <2> QED BY <2>2
<1> DEFINE waiting == serverCorrupted /\ ~f.idr
           held == waiting /\ AvoidGlitching
           drop == missing' = [missing EXCEPT !["queue"] = TRUE]
<1>3. \/ (conn = "off" \/ held) /\ drop /\ UNCHANGED <<serverCorrupted, queue>>
      \/ /\ conn = "on" /\ ~held /\ serverCorrupted' = waiting
         /\ queue' = Append(queue, Frame(f.idr, missing["queue"]))
         /\ missing' = [missing EXCEPT !["queue"] = FALSE]
      \/ conn = "on" /\ serverCorrupted' = TRUE /\ drop /\ UNCHANGED queue
  BY <1>2 DEF SendVideo, DropEncoded, CorruptAndRequest
<1>4. LossIsReported' BY <1>0, <1>1 DEF LossIsReported
<1>5. OffIsEmpty' BY <1>0, <1>1, <1>3 DEF OffIsEmpty
<1>6. ASSUME AvoidGlitching /\ ~sendFailed'
      PROVE  OnlyFirstDangles' /\ DropIsMarked' /\ (idrPushed' => decoder' = "intact")
  <2>1. OnlyFirstDangles /\ DropIsMarked /\ (idrPushed => decoder = "intact")
    BY <1>0, <1>1, <1>6 DEF Unbroken
  <2>2. missing \in [Stages -> BOOLEAN] BY <1>0 DEF TypeOK
  <2>3. CASE drop /\ queue' = queue /\ (conn = "off" \/ serverCorrupted')
    <3>1. missing'["network"] = missing["network"] /\ missing'["decoder"] = missing["decoder"]
      BY <2>2, <2>3
    <3>2. OnlyFirstDangles' BY <1>1, <2>1, <2>3 DEF OnlyFirstDangles, Dangling
    <3>3. DropIsMarked' BY <1>0, <1>1, <2>1, <2>3, <3>1 DEF DropIsMarked, OffIsEmpty
    <3> QED BY <1>1, <2>1, <3>2, <3>3
  <2>4. CASE /\ ~held /\ serverCorrupted' = waiting
             /\ queue' = Append(queue, Frame(f.idr, missing["queue"]))
             /\ missing' = [missing EXCEPT !["queue"] = FALSE]
    <3> DEFINE g == Frame(f.idr, missing["queue"])
    <3>1. g \in Frames /\ g.idr = f.idr /\ g.gap = missing["queue"]
      BY <2>2, FrameType DEF Frames
    <3>2. Dangling(g) => queue = <<>> /\ inFlight = <<>> /\ ~idrPushed
      BY <1>6, <2>1, <2>4, <3>1 DEF Dangling, DropIsMarked
    <3> HIDE DEF g
    <3>3. queue \in Seq(Frames) BY <1>0 DEF TypeOK
    <3>4. /\ Len(queue') = Len(queue) + 1 /\ queue'[Len(queue) + 1] = g /\ Len(queue) \in Nat
          /\ \A k \in 1..Len(queue) : queue'[k] = queue[k]
      BY <2>4, <3>1, <3>3, SeqFacts DEF g
    <3>5. ASSUME NEW k \in 1..Len(queue'), Dangling(queue'[k])
          PROVE  k = 1 /\ inFlight = <<>> /\ ~idrPushed
      <4>1. CASE k \in 1..Len(queue)
        BY <2>1, <3>4, <3>5, <4>1 DEF OnlyFirstDangles
      <4>2. CASE k = Len(queue) + 1
        <5>1. queue = <<>> BY <3>2, <3>4, <3>5, <4>2
        <5> QED BY <3>2, <3>4, <3>5, <4>2, <5>1
      <4> QED BY <3>4, <4>1, <4>2
    <3>6. OnlyFirstDangles' BY <1>1, <2>1, <3>5 DEF OnlyFirstDangles, Dangling
    <3>7. /\ ~missing'["queue"] /\ missing'["network"] = missing["network"]
          /\ missing'["decoder"] = missing["decoder"]
      BY <2>2, <2>4
    <3>8. DropIsMarked' BY <1>1, <2>1, <3>7 DEF DropIsMarked
    <3> QED BY <1>1, <2>1, <3>6, <3>8
  <2> QED BY <1>3, <2>3, <2>4
<1> QED BY <1>4, <1>5, <1>6 DEF Unbroken

LEMMA SendPacketKeeps ==
  ASSUME VideoInv, SendPacket PROVE OffIsEmpty' /\ LossIsReported' /\ Unbroken'
<1> USE DEF connVars, encoderVars, clientVars, controlVars, failureVars, Stages
<1>0. TypeOK /\ OffIsEmpty /\ LossIsReported /\ Unbroken BY DEF VideoInv
<1>1. /\ conn = "on" /\ queue # <<>> /\ queue' = Tail(queue)
      /\ inFlight' = Append(inFlight, Frame(Head(queue).idr,
                                            Head(queue).gap \/ missing["network"]))
      /\ missing' = [missing EXCEPT !["network"] = FALSE]
      /\ UNCHANGED <<conn, serverCorrupted, readBefore, clientCorrupted, decoder, idrPushed,
                     sendFailed>>
  BY DEF SendPacket
<1>2. OffIsEmpty' /\ LossIsReported' BY <1>0, <1>1 DEF OffIsEmpty, LossIsReported
<1>3. ASSUME AvoidGlitching /\ ~sendFailed'
      PROVE  OnlyFirstDangles' /\ DropIsMarked' /\ (idrPushed' => decoder' = "intact")
  <2>1. OnlyFirstDangles /\ DropIsMarked /\ (idrPushed => decoder = "intact")
    BY <1>0, <1>1, <1>3 DEF Unbroken
  <2>2. /\ missing \in [Stages -> BOOLEAN] /\ queue \in Seq(Frames) /\ inFlight \in Seq(Frames)
    BY <1>0 DEF TypeOK
  <2>3. /\ Head(queue) = queue[1] /\ Head(queue) \in Frames /\ 1 \in 1..Len(queue)
        /\ Len(queue) \in Nat /\ Len(inFlight) \in Nat
        /\ Len(queue') = Len(queue) - 1
        /\ \A k \in 1..Len(queue') : queue'[k] = queue[k + 1]
    BY <1>1, <2>2, SeqFacts
  <2> DEFINE gap == Head(queue).gap \/ missing["network"]
             g == Frame(Head(queue).idr, gap)
  <2>4. g \in Frames /\ g.idr = Head(queue).idr /\ g.gap = gap BY <2>3, FrameType DEF Frames
  <2>5. Dangling(g) => inFlight = <<>> /\ ~idrPushed
    <3>1. CASE missing["network"] BY <2>1, <3>1 DEF DropIsMarked
    <3>2. CASE ~missing["network"]
      <4>1. Dangling(g) => Dangling(queue[1]) BY <2>3, <2>4, <3>2 DEF Dangling
      <4> QED BY <2>1, <2>3, <4>1 DEF OnlyFirstDangles
    <3> QED BY <3>1, <3>2
  <2>6. inFlight' = Append(inFlight, g) BY <1>1
  <2> HIDE DEF g
  <2>7. /\ Len(inFlight') = Len(inFlight) + 1 /\ inFlight'[Len(inFlight) + 1] = g
        /\ \A k \in 1..Len(inFlight) : inFlight'[k] = inFlight[k]
    BY <2>2, <2>4, <2>6, SeqFacts
  <2>8. ASSUME NEW k \in 1..Len(queue') PROVE ~Dangling(queue'[k])
    <3>1. k + 1 \in 1..Len(queue) /\ k + 1 # 1 /\ queue'[k] = queue[k + 1] BY <2>3
    <3> QED BY <2>1, <3>1 DEF OnlyFirstDangles
  <2>9. ASSUME NEW k \in 1..Len(inFlight'), Dangling(inFlight'[k]) PROVE k = 1 /\ ~idrPushed
    <3>1. CASE k \in 1..Len(inFlight) BY <2>1, <2>7, <2>9, <3>1 DEF OnlyFirstDangles
    <3>2. CASE k = Len(inFlight) + 1
      <4>1. inFlight = <<>> BY <2>5, <2>7, <2>9, <3>2
      <4> QED BY <2>5, <2>7, <2>9, <3>2, <4>1
    <3> QED BY <2>3, <2>7, <3>1, <3>2
  <2>10. OnlyFirstDangles' BY <1>1, <2>8, <2>9 DEF OnlyFirstDangles
  <2>11. /\ ~missing'["network"] /\ missing'["queue"] = missing["queue"]
         /\ missing'["decoder"] = missing["decoder"]
    BY <1>1, <2>2
  <2>12. DropIsMarked' BY <1>1, <2>1, <2>11 DEF DropIsMarked
  <2> QED BY <1>1, <2>1, <2>10, <2>12
<1> QED BY <1>2, <1>3 DEF Unbroken

-----------------------------------------------------------------------------
(* Drops on the way to the decoder *)

LEMMA VideoReceiveKeeps ==
  ASSUME VideoInv, NEW k \in 1..Len(inFlight), VideoReceive(k)
  PROVE  OffIsEmpty' /\ LossIsReported' /\ Unbroken'
<1> USE DEF connVars, serverVars, encoderVars, controlVars, failureVars, Stages
<1>0. TypeOK /\ OffIsEmpty /\ LossIsReported /\ Unbroken BY DEF VideoInv
<1> DEFINE packet == inFlight[k]
           loss == HadPacketLoss(k) /\ ~packet.idr
           corrupted == ~packet.idr /\ (clientCorrupted \/ loss)
           held == corrupted /\ AvoidGlitching
           gap == packet.gap \/ k > 1 \/ missing["decoder"]
<1>1. /\ conn = "on" /\ UNCHANGED <<conn, queue, serverCorrupted, sendFailed>>
      /\ inFlight' = SubSeq(inFlight, k + 1, Len(inFlight)) /\ readBefore' = TRUE
  BY DEF VideoReceive
<1>2. \/ DropReceived(loss)
      \/ ~held /\ Push(packet, gap) /\ clientCorrupted' = corrupted
  BY DEF VideoReceive
<1>3. /\ inFlight \in Seq(Frames) /\ packet \in Frames /\ inFlight # <<>>
      /\ missing \in [Stages -> BOOLEAN]
  BY <1>0 DEF TypeOK
<1>4. OffIsEmpty' /\ LossIsReported' BY <1>1 DEF OffIsEmpty, LossIsReported
<1>5. ASSUME AvoidGlitching /\ ~sendFailed'
      PROVE  OnlyFirstDangles' /\ DropIsMarked' /\ (idrPushed' => decoder' = "intact")
  <2>1. OnlyFirstDangles /\ DropIsMarked /\ (idrPushed => decoder = "intact")
    BY <1>0, <1>1, <1>5 DEF Unbroken
  <2>2. \A j \in 1..Len(queue) : ~Dangling(queue[j]) BY <1>3, <2>1 DEF OnlyFirstDangles
  <2>3. ASSUME NEW j \in 1..Len(inFlight') PROVE ~Dangling(inFlight'[j])
    <3>1. Len(inFlight) \in Nat /\ Len(inFlight') = Len(inFlight) - k
          /\ inFlight'[j] = inFlight[k + j]
      BY <1>1, <1>3, Cut, SeqFacts
    <3>2. k + j \in 1..Len(inFlight) /\ k + j # 1 BY <3>1
    <3> QED BY <2>1, <3>1, <3>2 DEF OnlyFirstDangles
  <2>4. OnlyFirstDangles' BY <1>1, <2>2, <2>3 DEF OnlyFirstDangles, Dangling
  <2>5. /\ ~(missing["queue"] /\ ~serverCorrupted) /\ ~missing["network"]
        /\ missing'["queue"] = missing["queue"] /\ missing'["network"] = missing["network"]
        /\ missing' \in [Stages -> BOOLEAN]
    BY <1>2, <1>3, <2>1 DEF DropIsMarked, DropReceived, Push
  <2>6. missing'["decoder"] => clientCorrupted' BY <1>2, <1>3 DEF DropReceived, Push
  <2>7. DropIsMarked' BY <1>1, <2>5, <2>6 DEF DropIsMarked
  <2>8. idrPushed' => decoder' = "intact"
    <3>1. CASE DropReceived(loss) BY <2>1, <3>1 DEF DropReceived
    <3>2. CASE ~held /\ Push(packet, gap)
      <4>1. CASE packet.idr BY <3>2, <4>1 DEF Push
      <4>2. CASE ~packet.idr /\ idrPushed
        <5>1. readBefore BY <1>0, <4>2 DEF LossIsReported
        <5>2. ~clientCorrupted /\ ~loss BY <1>5, <3>2, <4>2
        <5>3. k = 1 BY <4>2, <5>1, <5>2 DEF HadPacketLoss
        <5>4. ~missing["decoder"] BY <2>1, <4>2, <5>2 DEF DropIsMarked
        <5>5. ~packet.gap BY <2>1, <4>2 DEF OnlyFirstDangles, Dangling
        <5>6. ~gap BY <5>3, <5>4, <5>5
        <5> QED BY <2>1, <3>2, <4>2, <5>6 DEF Push
      <4>3. CASE ~packet.idr /\ ~idrPushed BY <3>2, <4>3 DEF Push
      <4> QED BY <4>1, <4>2, <4>3
    <3> QED BY <1>2, <3>1, <3>2
  <2> QED BY <2>4, <2>7, <2>8
<1> QED BY <1>4, <1>5 DEF Unbroken

LEMMA OthersKeep ==
  ASSUME VideoInv,
         \/ Connect \/ Disconnect \/ IntervalElapses \/ EncodeFrame \/ FailSend
         \/ ServerHandlesRequest \/ ClientHandlesConfig
  PROVE  OffIsEmpty' /\ LossIsReported' /\ Unbroken'
<1> USE DEF connVars, serverVars, encoderVars, clientVars, controlVars, failureVars, Stages
<1>0. TypeOK /\ OffIsEmpty /\ LossIsReported /\ Unbroken BY DEF VideoInv
<1>1. CASE Connect
  <2>1. /\ conn = "off" /\ conn' = "on" /\ readBefore' = FALSE /\ clientCorrupted' = FALSE
        /\ UNCHANGED <<serverCorrupted, queue, inFlight, missing, decoder, idrPushed, sendFailed>>
    BY <1>1 DEF Connect
  <2>2. queue = <<>> /\ inFlight = <<>> /\ ~idrPushed BY <1>0, <2>1 DEF OffIsEmpty
  <2>3. OnlyFirstDangles' /\ DropIsMarked' BY <2>1, <2>2 DEF OnlyFirstDangles, DropIsMarked
  <2> QED BY <2>1, <2>2, <2>3 DEF OffIsEmpty, LossIsReported, Unbroken
<1>2. CASE Disconnect
  <2>1. queue' = <<>> /\ inFlight' = <<>> /\ idrPushed' = FALSE BY <1>2 DEF Disconnect
  <2>2. OnlyFirstDangles' /\ DropIsMarked' BY <2>1 DEF OnlyFirstDangles, DropIsMarked
  <2> QED BY <2>1, <2>2 DEF OffIsEmpty, LossIsReported, Unbroken
<1>3. CASE FailSend
  <2>1. sendFailed' = TRUE /\ conn = "on" /\ UNCHANGED <<conn, readBefore, idrPushed>>
    BY <1>3 DEF FailSend
  <2> QED BY <1>0, <2>1 DEF OffIsEmpty, LossIsReported, Unbroken
<1>4. CASE ClientHandlesConfig
  <2>1. /\ UNCHANGED <<conn, queue, inFlight, missing, serverCorrupted, clientCorrupted,
                       readBefore, idrPushed, sendFailed>>
        /\ decoder' = decoder \/ decoder = "none"
    BY <1>4 DEF ClientHandlesConfig
  <2> QED BY <1>0, <2>1
    DEF OffIsEmpty, LossIsReported, Unbroken, OnlyFirstDangles, DropIsMarked, Dangling
<1>5. CASE IntervalElapses \/ EncodeFrame \/ ServerHandlesRequest
  <2>1. UNCHANGED <<conn, queue, inFlight, missing, serverCorrupted, clientCorrupted,
                    readBefore, idrPushed, sendFailed, decoder>>
    BY <1>5 DEF IntervalElapses, EncodeFrame, ServerHandlesRequest
  <2> QED BY <1>0, <2>1
    DEF OffIsEmpty, LossIsReported, Unbroken, OnlyFirstDangles, DropIsMarked, Dangling
<1> QED BY <1>1, <1>2, <1>3, <1>4, <1>5

-----------------------------------------------------------------------------
(* The theorems *)

LEMMA InitVideo == Init => VideoInv
<1> SUFFICES ASSUME Init PROVE VideoInv
  OBVIOUS
<1>1. TypeOK
  <2>1. <<>> \in Seq(Frames) /\ Len(<<>>) = 0 OBVIOUS
  <2>2. 0 \in 0..MaxControl /\ 0 \in 0..MaxConnections /\ 0 \in 0..MaxFailures
        /\ 0 <= MaxQueued /\ 0 <= MaxInFlight
    BY SettingsAssumption, BoundsAssumption
  <2> QED BY <2>1, <2>2 DEF Init, TypeOK
<1>2. OffIsEmpty /\ LossIsReported /\ Unbroken
  BY DEF Init, OffIsEmpty, LossIsReported, Unbroken, OnlyFirstDangles, DropIsMarked, Stages
<1> QED BY <1>1, <1>2 DEF VideoInv

LEMMA NextVideo == VideoInv /\ [Next]_vars => VideoInv'
<1> SUFFICES ASSUME VideoInv, [Next]_vars PROVE VideoInv'
  OBVIOUS
<1>1. CASE UNCHANGED vars
  BY <1>1 DEF vars, connVars, serverVars, encoderVars, clientVars, controlVars, failureVars,
     VideoInv, TypeOK, OffIsEmpty, LossIsReported, Unbroken, OnlyFirstDangles, DropIsMarked,
     Dangling
<1>2. CASE Next
  <2>1. TypeOK' BY <1>2, ConnectionTypes, ServerTypes, ClientTypes DEF Next, Encoder, VideoInv
  <2>2. OffIsEmpty' /\ LossIsReported' /\ Unbroken'
    BY <1>2, SendVideoKeeps, SendPacketKeeps, VideoReceiveKeeps, OthersKeep
    DEF Next, Encoder, VideoReceiveThread
  <2> QED BY <2>1, <2>2 DEF VideoInv
<1> QED BY <1>1, <1>2

(* A frame that dangles is never without a mark that an IDR frame follows. *)
THEOREM VideoInvariant == Spec => []VideoInv
  BY InitVideo, NextVideo, PTL DEF Spec

(* The variables of the video path have their types; the queue never holds *)
(* more than max_queued_server_video_frames.                               *)
THEOREM VideoTypes == Spec => []TypeOK
<1>1. VideoInv => TypeOK BY DEF VideoInv
<1> QED BY <1>1, VideoInvariant, PTL

(* With avoid_video_glitching the decoder never decodes a frame that       *)
(* refers to one it did not get, unless a send failed: whatever the queue, *)
(* the network and the decoder drop, and however often the client          *)
(* reconnects.                                                             *)
THEOREM NoGlitch == Spec => []GlitchFree
<1>1. VideoInv => GlitchFree BY DEF VideoInv, Unbroken, GlitchFree
<1> QED BY <1>1, VideoInvariant, PTL
=============================================================================
