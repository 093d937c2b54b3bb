------------------------ MODULE StreamSocketChannelProofs ------------------------
(***************************************************************************)
(* Unless a write fails, packets arrive whole and in order and the gaps    *)
(* between them are counted exactly, for any number of streams, buffers,   *)
(* packets and shards, any reordering, loss and duplication.  The indices  *)
(* may wrap, as long as what the socket and the receiver compare is within *)
(* their reach (WithinReach), which is always so below 2^31 packets per    *)
(* stream in the code (NoWrap).  Without wrap-around the highest frame     *)
(* index covers the packets, too.                                          *)
(*                                                                         *)
(* The argument: consecutive sends have consecutive indices modulo         *)
(* IndexMod, so that within reach the index of a shard tells which send it *)
(* belongs to (SendsNumbered, ShardsSent).  A packet is complete when as   *)
(* many different shards as the send wrote have arrived, hence all of them *)
(* (QueueWhole).  The last index read is that of the last packet read      *)
(* (ReadPosition), and within reach wrapping_cmp compares positions.       *)
(***************************************************************************)
EXTENDS StreamSocketChannel, StreamSocketProofs

(* wrapping_cmp orders indices that are this far apart. *)
Reach == (IndexMod - 1) \div 2

(* No stream sends more packets than wrapping_cmp can tell apart. *)
NoWrap == MaxPackets <= Reach

(* The index of the send i positions further on *)
SendsNumbered ==
  \A s \in Streams :
    /\ Len(sent[s]) <= MaxPackets
    /\ \A i, j \in 1..Len(sent[s]) :
         i <= j /\ j - i < IndexMod =>
           sent[s][j].index = WrappingAdd(sent[s][i].index, j - i)
    /\ sent[s] # <<>> =>
         nextIndex[s] = IF sending[s].active
                        THEN sent[s][Len(sent[s])].index
                        ELSE WrappingAdd(sent[s][Len(sent[s])].index, 1)

IsSent(sh) ==
  /\ sh.attempt \in 1..Len(sent[sh.stream])
  /\ sh \in PacketShards(sh.stream, sh.attempt)

ShardsSent ==
  /\ \A sh \in net : IsSent(sh)
  /\ recvState # NoShard => IsSent(recvState.shard)
  /\ \A s \in Streams : \A sh \in stored[s] : IsSent(sh) /\ sh.stream = s

(* The packet is what send k wrote. *)
IsPacket(s, packet, k) ==
  /\ packet.index = sent[s][k].index
  /\ packet.shards = PacketShards(s, k)
  /\ packet.shards # {}

IsWhole(s, packet) == \E k \in 1..Len(sent[s]) : IsPacket(s, packet, k)

QueueWhole == \A s \in Streams : \A i \in 1..Len(queue[s]) : IsWhole(s, queue[s][i])

ReadPosition ==
  \A s \in Streams :
    /\ latest[s].attempt <= Len(sent[s])
    /\ lastIndex[s] = IF latest[s].attempt = 0 THEN NoneRead
                      ELSE sent[s][latest[s].attempt].index

OrderInv == SendsNumbered /\ ShardsSent /\ QueueWhole /\ ReadPosition

(* What is compared is near enough: the shard being read is less than      *)
(* IndexMod sends away from every shard of an unfinished packet, and the   *)
(* first packet of a queue at most Reach sends from the last one read.     *)
Apart(a, b, distance) == a - b <= distance /\ b - a <= distance

ShardsWithinReach ==
  recvState # NoShard =>
    \A sh \in stored[recvState.shard.stream] :
      Apart(sh.attempt, recvState.shard.attempt, IndexMod - 1)

PacketsWithinReach ==
  \A s \in Streams :
    queue[s] # <<>> /\ latest[s].attempt # 0 =>
      \A sh \in Head(queue[s]).shards : Apart(sh.attempt, latest[s].attempt, Reach)

WithinReach == ShardsWithinReach /\ PacketsWithinReach

(* The inductive invariant *)
ChannelInv == TypeInv /\ (errors = 0 => OrderInv)

-----------------------------------------------------------------------------
(* Index arithmetic.  Without wrap-around it is arithmetic: *)
LEMMA ReachBounds ==
  /\ IndexMod \in Nat /\ IndexMod >= 2 /\ MaxPackets \in Nat
  /\ Reach \in Nat /\ 2 * Reach <= IndexMod - 1
<1>1. IndexMod \in Nat /\ IndexMod >= 2 /\ MaxPackets \in Nat
  BY SizeAssumption, BoundAssumption
<1> QED
  BY <1>1 DEF Reach

LEMMA IndexOrder ==
  ASSUME NoWrap, NEW a \in 0..(MaxPackets - 1), NEW b \in 0..MaxPackets
  PROVE  /\ wrapping_cmp(a, b) = "Less" <=> a < b
         /\ wrapping_cmp(a, b) = "Greater" <=> a > b
         /\ a >= b => WrappingSub(a, b) = a - b
         /\ WrappingAdd(a, 1) = a + 1
<1>1. MaxPackets <= Reach
  BY DEF NoWrap
<1>2. WrappingSub(a, b) = IF a >= b THEN a - b ELSE a + IndexMod - b
  BY DEF WrappingSub
<1>3. wrapping_cmp(a, b) = IF WrappingSub(a, b) = 0 THEN "Equal"
                           ELSE IF WrappingSub(a, b) < Reach THEN "Greater" ELSE "Less"
  BY DEF wrapping_cmp, Reach
<1>4. CASE a >= b
  <2>1. WrappingSub(a, b) = a - b /\ a - b < Reach
    BY ReachBounds, <1>1, <1>2, <1>4
  <2> QED
    BY ReachBounds, <1>1, <1>3, <1>4, <2>1 DEF WrappingAdd
<1>5. CASE a < b
  <2>1. WrappingSub(a, b) = a + IndexMod - b /\ a + IndexMod - b > Reach
    BY ReachBounds, <1>1, <1>2, <1>5
  <2> QED
    BY ReachBounds, <1>1, <1>3, <1>5, <2>1 DEF WrappingAdd
<1> QED
  BY <1>4, <1>5

(* With it, an index is compared with the one after b by how far it is     *)
(* ahead of b, or behind it.                                               *)
LEMMA IndexAhead ==
  ASSUME NEW b \in Index, NEW d \in 1..Reach, NEW a, a = WrappingAdd(b, d)
  PROVE  /\ WrappingSub(a, WrappingAdd(b, 1)) = d - 1
         /\ wrapping_cmp(a, WrappingAdd(b, 1)) = IF d = 1 THEN "Equal" ELSE "Greater"
<1>1. b \in Nat /\ b < IndexMod /\ d \in Nat /\ d >= 1 /\ d <= Reach
  BY ReachBounds DEF Index
<1>2. WrappingSub(a, WrappingAdd(b, 1)) = d - 1
  BY <1>1, ReachBounds DEF WrappingAdd, WrappingSub
<1> QED
  BY <1>1, <1>2, ReachBounds DEF wrapping_cmp, Reach

LEMMA IndexBehind ==
  ASSUME NEW a \in Index, NEW d \in 0..Reach, NEW b, b = WrappingAdd(a, d)
  PROVE  wrapping_cmp(a, WrappingAdd(b, 1)) = "Less"
<1>1. a \in Nat /\ a < IndexMod /\ d \in Nat /\ d <= Reach
  BY ReachBounds DEF Index
<1>2. WrappingSub(a, WrappingAdd(b, 1)) = IndexMod - (d + 1)
  BY <1>1, ReachBounds DEF WrappingAdd, WrappingSub
<1>3. IndexMod - (d + 1) # 0 /\ ~(IndexMod - (d + 1) < Reach)
  BY <1>1, ReachBounds
<1> QED
  BY <1>2, <1>3 DEF wrapping_cmp, Reach

(* One step further on *)
LEMMA IndexNext ==
  ASSUME NEW a \in Index, NEW d \in 0..(IndexMod - 2)
  PROVE  WrappingAdd(WrappingAdd(a, d), 1) = WrappingAdd(a, d + 1)
<1>1. a \in Nat /\ a < IndexMod /\ d \in Nat /\ d <= IndexMod - 2
  BY ReachBounds DEF Index
<1> QED
  BY <1>1, ReachBounds DEF WrappingAdd

LEMMA SentType ==
  ASSUME TypeInv, NEW s \in Streams
  PROVE  /\ Len(sent[s]) \in Nat
         /\ \A k \in 1..Len(sent[s]) : sent[s][k].index \in Index
<1>1. sent[s] \in Seq([index : Index, count : Nat])
  BY DEF TypeInv, TypeOK, SenderTypeOK
<1>2. \A k \in 1..Len(sent[s]) : sent[s][k] \in [index : Index, count : Nat]
  BY <1>1, ElementOfSeq
<1> QED
  BY <1>1, <1>2, LenProperties

(* Two sends that are less than IndexMod apart have different indices. *)
LEMMA SameIndex ==
  ASSUME TypeInv, SendsNumbered, NEW s \in Streams,
         NEW i \in 1..Len(sent[s]), NEW j \in 1..Len(sent[s]),
         Apart(i, j, IndexMod - 1), sent[s][i].index = sent[s][j].index
  PROVE  i = j
<1>1. /\ Len(sent[s]) \in Nat
      /\ \A k \in 1..Len(sent[s]) : sent[s][k].index \in Index
  BY SentType
<1>2. ASSUME NEW a \in 1..Len(sent[s]), NEW b \in 1..Len(sent[s]), a < b, b - a < IndexMod
      PROVE  sent[s][a].index # sent[s][b].index
  <2>1. sent[s][b].index = WrappingAdd(sent[s][a].index, b - a)
    BY <1>1, <1>2 DEF SendsNumbered
  <2>2. PICK x \in Index : x = sent[s][a].index
    BY <1>1
  <2>3. x \in Nat /\ x < IndexMod /\ b - a \in Nat /\ b - a > 0
    BY <1>1, <1>2, ReachBounds DEF Index
  <2>4. WrappingAdd(x, b - a) # x
    BY <1>2, <2>3, ReachBounds DEF WrappingAdd
  <2> QED
    BY <2>1, <2>2, <2>4
<1>3. i - j < IndexMod /\ j - i < IndexMod
  BY <1>1, ReachBounds DEF Apart
<1>4. ~(i < j) /\ ~(j < i)
  BY <1>2, <1>3
<1> QED
  BY <1>1, <1>4

(* Within reach, the comparison of recv compares the order of the sends. *)
LEMMA OrderWithinReach ==
  ASSUME TypeInv, SendsNumbered, NEW s \in Streams,
         NEW k \in 1..Len(sent[s]), NEW l \in 1..Len(sent[s]), Apart(k, l, Reach),
         NEW index, index = sent[s][k].index,
         NEW next, next = WrappingAdd(sent[s][l].index, 1)
  PROVE  /\ wrapping_cmp(index, next) = "Less" <=> k <= l
         /\ wrapping_cmp(index, next) = "Greater" <=> k > l + 1
         /\ k > l => WrappingSub(index, next) = k - l - 1
<1>1. index \in Index /\ sent[s][l].index \in Index /\ Len(sent[s]) \in Nat
  BY SentType
<1>2. CASE k > l
  <2>1. k - l \in 1..Reach /\ k - l < IndexMod
    BY <1>1, <1>2, ReachBounds DEF Apart
  <2>2. index = WrappingAdd(sent[s][l].index, k - l)
    BY <1>1, <1>2, <2>1 DEF SendsNumbered
  <2>3. /\ WrappingSub(index, next) = k - l - 1
        /\ wrapping_cmp(index, next) = IF k - l = 1 THEN "Equal" ELSE "Greater"
    BY <1>1, <2>1, <2>2, IndexAhead
  <2> QED
    BY <1>1, <1>2, <2>3
<1>3. CASE k <= l
  <2>1. l - k \in 0..Reach /\ l - k < IndexMod
    BY <1>1, <1>3, ReachBounds DEF Apart
  <2>2. sent[s][l].index = WrappingAdd(index, l - k)
    BY <1>1, <1>3, <2>1 DEF SendsNumbered
  <2>3. wrapping_cmp(index, next) = "Less"
    BY <1>1, <2>1, <2>2, IndexBehind
  <2> QED
    BY <1>1, <1>3, <2>3
<1> QED
  BY <1>1, <1>2, <1>3

(* A send of count shards writes count different ones. *)
LEMMA PacketShardsCount ==
  ASSUME TypeOK, NEW s \in Streams, NEW k \in 1..Len(sent[s])
  PROVE  /\ sent[s][k] \in [index : Index, count : Nat]
         /\ IsFiniteSet(PacketShards(s, k))
         /\ Cardinality(PacketShards(s, k)) = sent[s][k].count
<1>1. sent[s] \in Seq([index : Index, count : Nat])
  BY DEF TypeOK, SenderTypeOK
<1>2. sent[s][k] \in [index : Index, count : Nat]
  BY <1>1, ElementOfSeq
<1> DEFINE count == sent[s][k].count
           range == 0..(count - 1)
           f == [i \in range |-> Shard(s, k, i)]
<1>3. count \in Nat
  BY <1>2
<1>4. IsFiniteSet(range) /\ Cardinality(range) = count
  <2> HIDE DEF count
  <2>1. 0 \in Int /\ count - 1 \in Int
    BY <1>3
  <2>2. /\ IsFiniteSet(range)
        /\ Cardinality(range) = IF 0 > count - 1 THEN 0 ELSE (count - 1) - 0 + 1
    BY <2>1, FS_Interval
  <2> QED
    BY <1>3, <2>2
<1>5. f \in Bijection(range, PacketShards(s, k))
  <2>1. \A i, j \in range : f[i] = f[j] => i = j
    BY DEF Shard
  <2>2. \A y \in PacketShards(s, k) : \E i \in range : f[i] = y
    BY DEF PacketShards
  <2>3. f \in [range -> PacketShards(s, k)]
    BY DEF PacketShards
  <2> HIDE DEF f, range
  <2> QED
    BY <2>1, <2>2, <2>3 DEF Bijection, Injection, Surjection, IsInjective
<1>6. ExistsBijection(range, PacketShards(s, k))
  BY <1>5 DEF ExistsBijection
<1> QED
  BY <1>2, <1>4, <1>6, FS_Bijection

(* The fields of a shard that was sent. *)
LEMMA SentFields ==
  ASSUME NEW sh, sh.stream \in Streams, IsSent(sh)
  PROVE  /\ sh.attempt \in 1..Len(sent[sh.stream])
         /\ sh.index = sent[sh.stream][sh.attempt].index
         /\ sh.count = sent[sh.stream][sh.attempt].count
         /\ sh \in PacketShards(sh.stream, sh.attempt)
<1>1. sh \in PacketShards(sh.stream, sh.attempt) /\ sh.attempt \in 1..Len(sent[sh.stream])
  BY DEF IsSent
<1>2. PICK i : sh = Shard(sh.stream, sh.attempt, i)
  BY <1>1 DEF PacketShards
<1>3. sh.index = sent[sh.stream][sh.attempt].index /\ sh.count = sent[sh.stream][sh.attempt].count
  BY <1>2 DEF Shard
<1> QED
  BY <1>1, <1>3

(* The origin of what send k wrote is send k, and each of its shards says  *)
(* so.                                                                     *)
LEMMA OriginOfPacket ==
  ASSUME NEW s \in Streams, NEW packet, NEW k \in 1..Len(sent[s]), IsPacket(s, packet, k)
  PROVE  /\ Origin(s, packet.shards) = k
         /\ \E sh \in packet.shards : sh.attempt = k
<1>1. \A j : \A sh \in PacketShards(s, j) : sh.attempt = j
  BY DEF PacketShards, Shard
<1>2. PICK sh : sh \in packet.shards
  BY DEF IsPacket
<1>3. ASSUME NEW j \in 1..Len(sent[s]), packet.shards = PacketShards(s, j)
      PROVE  j = k
  BY <1>1, <1>2, <1>3 DEF IsPacket
<1> QED
  BY <1>1, <1>2, <1>3 DEF Origin, IsPacket

-----------------------------------------------------------------------------
(* Sends are never forgotten, so what was sent or whole stays so. *)
LEMMA SentStable ==
  ASSUME TypeInv, [Next]_vars, NEW s \in Streams
  PROVE  /\ Len(sent[s]) \in Nat
         /\ Len(sent'[s]) \in Nat
         /\ Len(sent[s]) <= Len(sent'[s])
         /\ \A i \in 1..Len(sent[s]) : sent'[s][i] = sent[s][i]
<1>1. sent \in [Streams -> Seq([index : Index, count : Nat])]
  BY DEF TypeInv, TypeOK, SenderTypeOK
<1>2. CASE sent' = sent
  BY <1>1, <1>2, LenProperties
<1>3. ASSUME NEW t \in Streams, NEW count \in ShardCounts[t], BeginSend(t, count)
      PROVE  /\ Len(sent[s]) \in Nat
             /\ Len(sent'[s]) \in Nat
             /\ Len(sent[s]) <= Len(sent'[s])
             /\ \A i \in 1..Len(sent[s]) : sent'[s][i] = sent[s][i]
  <2> DEFINE call == [index |-> nextIndex[t], count |-> count]
  <2>1. call \in [index : Index, count : Nat]
    BY SizeAssumption DEF TypeInv, TypeOK, SenderTypeOK
  <2>2. sent' = [sent EXCEPT ![t] = Append(@, call)]
    BY <1>3 DEF BeginSend
  <2> HIDE DEF call
  <2>3. sent'[s] = IF s = t THEN Append(sent[s], call) ELSE sent[s]
    BY <1>1, <2>2
  <2> QED
    BY <1>1, <2>1, <2>3, AppendProperties, LenProperties
<1>4. \/ sent' = sent
      \/ \E t \in Streams : \E count \in ShardCounts[t] : BeginSend(t, count)
  BY DEF Next, vars, senderVars, Sender, SendShard, EndSend, FailSend, Receiver, DropOldPacket,
         ReadPacket, DropReceiverData, Network, LoseShard, Socket, PeekShard, ReadDiscarded,
         StoreShard, CompletePacket
<1> QED
  BY <1>2, <1>3, <1>4

LEMMA PacketShardsStable ==
  ASSUME TypeInv, [Next]_vars, NEW s \in Streams, NEW k \in 1..Len(sent[s])
  PROVE  k \in 1..Len(sent'[s]) /\ PacketShards(s, k)' = PacketShards(s, k)
<1>1. k \in 1..Len(sent'[s]) /\ sent'[s][k] = sent[s][k]
  BY SentStable
<1> QED
  BY <1>1 DEF PacketShards, Shard

LEMMA IsSentStable ==
  ASSUME TypeInv, [Next]_vars, NEW sh, sh.stream \in Streams, IsSent(sh)
  PROVE  IsSent(sh)'
  BY PacketShardsStable DEF IsSent

LEMMA IsWholeStable ==
  ASSUME TypeInv, [Next]_vars, NEW s \in Streams, NEW packet, IsWhole(s, packet)
  PROVE  IsWhole(s, packet)'
<1>1. PICK k \in 1..Len(sent[s]) : IsPacket(s, packet, k)
  BY DEF IsWhole
<1>2. /\ k \in 1..Len(sent'[s])
      /\ PacketShards(s, k)' = PacketShards(s, k)
      /\ sent'[s][k] = sent[s][k]
  BY PacketShardsStable, SentStable
<1> QED
  BY <1>1, <1>2 DEF IsWhole, IsPacket

-----------------------------------------------------------------------------
(* The four parts of OrderInv, one after the other. *)

LEMMA InitOrder == Init => OrderInv
<1> SUFFICES ASSUME Init PROVE OrderInv
  OBVIOUS
<1>1. SendsNumbered
  BY BoundAssumption DEF Init, SendsNumbered, Idle
<1>2. ShardsSent
  BY DEF Init, ShardsSent
<1>3. QueueWhole
  BY DEF Init, QueueWhole
<1>4. ReadPosition
  BY DEF Init, ReadPosition
<1> QED
  BY <1>1, <1>2, <1>3, <1>4 DEF OrderInv

(* Every send takes the next index. *)
LEMMA NextSendNumbered ==
  ASSUME TypeInv, SendsNumbered, NEW s \in Streams, ~sending[s].active,
         NEW i \in 1..Len(sent[s]), Len(sent[s]) + 1 - i < IndexMod
  PROVE  nextIndex[s] = WrappingAdd(sent[s][i].index, Len(sent[s]) + 1 - i)
<1>1. sent[s] \in Seq([index : Index, count : Nat]) /\ Len(sent[s]) \in Nat
  BY LenProperties DEF TypeInv, TypeOK, SenderTypeOK
<1> DEFINE last == Len(sent[s])
<1>2. /\ i \in 1..last /\ last \in 1..last
      /\ last - i \in 0..(IndexMod - 2)
      /\ i <= last /\ last - i < IndexMod
  <2>1. last \in Nat /\ i \in 1..last /\ last + 1 - i < IndexMod
    BY <1>1
  <2> HIDE DEF last
  <2> QED
    BY <2>1, ReachBounds
<1>3. sent[s][last].index = WrappingAdd(sent[s][i].index, last - i)
  <2> HIDE DEF last
  <2>1. \A k \in 1..Len(sent[s]) : k = last =>
          sent[s][k].index = WrappingAdd(sent[s][i].index, k - i)
    BY <1>2 DEF SendsNumbered, last
  <2> QED
    BY <1>2, <2>1 DEF last
<1>4. nextIndex[s] = WrappingAdd(sent[s][last].index, 1)
  BY <1>1, <1>2, EmptySeq DEF SendsNumbered
<1>5. sent[s][i].index \in Index
  BY <1>2, SentType
<1>6. WrappingAdd(WrappingAdd(sent[s][i].index, last - i), 1)
        = WrappingAdd(sent[s][i].index, (last - i) + 1)
  BY <1>2, <1>5, IndexNext
<1>7. (last - i) + 1 = last + 1 - i
  BY <1>1
<1> QED
  BY <1>3, <1>4, <1>6, <1>7

LEMMA SendsNumberedStep ==
  ASSUME TypeInv, OrderInv, [Next]_vars, errors' = 0
  PROVE  SendsNumbered'
<1> USE DEF TypeInv, TypeOK
<1>1. /\ sent \in [Streams -> Seq([index : Index, count : Nat])]
      /\ \A s \in Streams : Len(sent[s]) \in Nat
  BY LenProperties DEF SenderTypeOK
<1>2. CASE UNCHANGED <<sent, nextIndex, sending>>
  BY <1>2 DEF OrderInv, SendsNumbered
<1>3. ASSUME NEW s \in Streams, Sender(s)
      PROVE  SendsNumbered'
  <2>1. ASSUME NEW count \in ShardCounts[s], BeginSend(s, count)
        PROVE  SendsNumbered'
    <3> DEFINE call == [index |-> nextIndex[s], count |-> count]
               last == Len(sent[s])
    <3>1. call \in [index : Index, count : Nat]
      BY SizeAssumption DEF SenderTypeOK
    <3>2. sent'[s] = Append(sent[s], call)
      BY <1>1, <2>1 DEF BeginSend
    <3>3. call.index = nextIndex[s] /\ last < MaxPackets /\ ~sending[s].active
      BY <2>1 DEF BeginSend, CurrentSend
    <3> HIDE DEF call
    <3>4. /\ Len(sent'[s]) = last + 1
          /\ \A i \in 1..(last + 1) :
               sent'[s][i] = IF i <= last THEN sent[s][i] ELSE call
      BY <1>1, <3>1, <3>2, AppendProperties
    <3>5. ASSUME NEW i \in 1..Len(sent'[s]), NEW j \in 1..Len(sent'[s]),
                 i <= j, j - i < IndexMod
          PROVE  sent'[s][j].index = WrappingAdd(sent'[s][i].index, j - i)
      <4>1. CASE j <= last
        <5>1. sent'[s][j] = sent[s][j] /\ sent'[s][i] = sent[s][i] /\ i <= last
          BY <1>1, <3>4, <3>5, <4>1
        <5> QED
          BY <1>1, <3>4, <3>5, <4>1, <5>1 DEF OrderInv, SendsNumbered
      <4>2. CASE j = last + 1 /\ i <= last
        <5>1. sent'[s][j] = call /\ sent'[s][i] = sent[s][i] /\ i \in 1..last
          BY <1>1, <3>4, <3>5, <4>2
        <5>2. nextIndex[s] = WrappingAdd(sent[s][i].index, last + 1 - i)
          BY <3>3, <3>5, <4>2, <5>1, NextSendNumbered DEF OrderInv
        <5> QED
          BY <3>3, <4>2, <5>1, <5>2
      <4>3. CASE i = last + 1 /\ j = i
        <5>1. sent'[s][j] = call /\ sent'[s][i] = call /\ j - i = 0
          BY <1>1, <3>4, <3>5, <4>3
        <5>2. call.index \in Nat /\ call.index < IndexMod
          BY <3>1, ReachBounds DEF Index
        <5> QED
          BY <5>1, <5>2 DEF WrappingAdd
      <4> QED
        BY <1>1, <3>4, <3>5, <4>1, <4>2, <4>3
    <3>6. sending'[s].active /\ nextIndex'[s] = sent'[s][Len(sent'[s])].index
      <4>1. sent'[s][last + 1] = call
        BY <1>1, <3>4
      <4> QED
        BY <2>1, <3>3, <3>4, <4>1 DEF BeginSend, SenderTypeOK
    <3>7. Len(sent'[s]) <= MaxPackets
      BY <1>1, <3>3, <3>4, BoundAssumption
    <3>8. \A t \in Streams \ {s} : /\ sent'[t] = sent[t]
                                  /\ sending'[t] = sending[t]
                                  /\ nextIndex'[t] = nextIndex[t]
      BY <1>1, <2>1 DEF BeginSend, SenderTypeOK
    <3>9. \A i, j \in 1..Len(sent'[s]) :
            i <= j /\ j - i < IndexMod =>
              sent'[s][j].index = WrappingAdd(sent'[s][i].index, j - i)
      BY <3>5
    <3> QED
      BY <3>6, <3>7, <3>8, <3>9 DEF OrderInv, SendsNumbered
  <2>2. CASE SendShard(s)
    <3>1. UNCHANGED <<sent, nextIndex>> /\ \A t \in Streams : sending'[t].active = sending[t].active
      BY <2>2 DEF SendShard, SenderTypeOK
    <3> QED
      BY <3>1 DEF OrderInv, SendsNumbered
  <2>3. CASE EndSend(s)
    <3>1. sent[s] # <<>> /\ sending[s].active
      BY <2>3 DEF EndSend, SendingHasPacket
    <3>2. nextIndex[s] = sent[s][Len(sent[s])].index
      BY <3>1 DEF OrderInv, SendsNumbered
    <3>3. /\ sent' = sent
          /\ nextIndex'[s] = WrappingAdd(sent[s][Len(sent[s])].index, 1)
          /\ ~sending'[s].active
          /\ \A t \in Streams \ {s} : sending'[t] = sending[t] /\ nextIndex'[t] = nextIndex[t]
      BY <2>3, <3>2 DEF EndSend, SenderTypeOK, Idle
    <3> QED
      BY <3>3 DEF OrderInv, SendsNumbered
  <2>4. CASE FailSend(s)
    BY <2>4 DEF FailSend, SenderTypeOK
  <2> QED
    BY <1>3, <2>1, <2>2, <2>3, <2>4 DEF Sender
<1>4. \/ UNCHANGED <<sent, nextIndex, sending>>
      \/ \E s \in Streams : Sender(s)
  BY DEF Next, vars, senderVars, Receiver, DropOldPacket, ReadPacket, DropReceiverData,
         Network, LoseShard, Socket, PeekShard, ReadDiscarded, StoreShard, CompletePacket
<1> QED
  BY <1>2, <1>3, <1>4

(* A shard in the hands of the network or the socket was sent. *)
LEMMA ShardsSentStep ==
  ASSUME TypeInv, OrderInv, [Next]_vars, errors' = 0
  PROVE  ShardsSent'
<1> USE DEF TypeInv, TypeOK
<1>1. \A sh \in net : sh.stream \in Streams /\ IsSent(sh)'
  BY IsSentStable DEF NetTypeOK, Shards, OrderInv, ShardsSent
<1>2. \A s \in Streams : \A sh \in stored[s] : IsSent(sh)' /\ sh.stream = s
  BY IsSentStable DEF OrderInv, ShardsSent
<1>3. ASSUME NEW sh, recvState # NoShard, sh = recvState.shard
      PROVE  IsSent(sh)'
  <2>1. sh.stream \in Streams
    BY <1>3 DEF BufferTypeOK, Shards
  <2>2. IsSent(sh)
    BY <1>3 DEF OrderInv, ShardsSent
  <2> QED
    BY <2>1, <2>2, IsSentStable
<1>4. ASSUME UNCHANGED <<recvState, stored>>, net' \subseteq net
      PROVE  ShardsSent'
  BY <1>1, <1>2, <1>3, <1>4 DEF ShardsSent
<1>5. ASSUME NEW s \in Streams, Sender(s)
      PROVE  ShardsSent'
  <2>1. CASE SendShard(s)
    <3>k. PICK k : k = CurrentSend(s)
      OBVIOUS
    <3>s. PICK sh : sh = Shard(s, k, sending[s].shard)
      OBVIOUS
    <3>1. k \in 1..Len(sent[s])
      BY <3>k, <2>1, LenProperties, EmptySeq DEF SendShard, SenderTypeOK, SendingHasPacket, CurrentSend
    <3>2. sending[s].shard \in 0..(sent[s][k].count - 1)
      <4>1. sent[s][k].count \in Nat
        BY <3>1, PacketShardsCount
      <4> QED
        BY <3>k, <2>1, <4>1 DEF SendShard, SenderTypeOK
    <3>3. sh.stream = s /\ sh.attempt = k
      BY <3>s DEF Shard
    <3>4. IsSent(sh)
      BY <3>s, <3>1, <3>2, <3>3 DEF IsSent, PacketShards
    <3>5. net' = net \cup {sh} /\ UNCHANGED <<recvState, stored>>
      BY <3>k, <3>s, <2>1 DEF SendShard, bufferVars
    <3>6. IsSent(sh)'
      BY <3>3, <3>4, IsSentStable
    <3> QED
      BY <1>1, <1>2, <1>3, <3>5, <3>6 DEF ShardsSent
  <2>2. CASE ~SendShard(s)
    BY <1>4, <1>5, <2>2 DEF Sender, BeginSend, EndSend, FailSend, netVars, bufferVars
  <2> QED
    BY <2>1, <2>2
<1>6. ASSUME NEW sh \in net, PeekShard(sh)
      PROVE  ShardsSent'
  <2>1. net' \subseteq net
    BY <1>6 DEF PeekShard, TakeFromNet
  <2>2. recvState' = Reading(sh) \/ recvState' = Discarding(sh)
    BY <1>6 DEF PeekShard, ChooseBuffer
  <2>3. recvState'.shard = sh /\ IsSent(sh)'
    BY <1>1, <2>2 DEF Reading, Discarding
  <2>4. \A s \in Streams : stored'[s] \subseteq stored[s]
    BY <1>6 DEF PeekShard, ChooseBuffer, BufferTypeOK
  <2> QED
    BY <1>1, <1>2, <2>1, <2>3, <2>4 DEF ShardsSent
<1>7. ASSUME recvState # NoShard, recvState' = NoShard, net' = net,
             \A s \in Streams : stored'[s] \subseteq stored[s] \cup
               (IF s = recvState.shard.stream THEN {recvState.shard} ELSE {})
      PROVE  ShardsSent'
  BY <1>1, <1>2, <1>3, <1>7 DEF ShardsSent
<1>8. CASE Socket
  <2>1. CASE ReadDiscarded
    BY <1>7, <2>1 DEF ReadDiscarded, netVars, NoShard
  <2>2. CASE StoreShard
    BY <1>7, <2>2, ReadingType DEF StoreShard, StoredWith, netVars, NoShard, BufferTypeOK
  <2>3. CASE CompletePacket
    BY <1>7, <2>3, ReadingType DEF CompletePacket, netVars, NoShard, BufferTypeOK
  <2> QED
    BY <1>6, <1>8, <2>1, <2>2, <2>3 DEF Socket
<1>9. CASE Network
  BY <1>4, <1>9 DEF Network, LoseShard, bufferVars
<1>10. ASSUME NEW s \in Streams, Receiver(s)
       PROVE  ShardsSent'
  BY <1>4, <1>10 DEF Receiver, DropOldPacket, ReadPacket, DropReceiverData, netVars, bufferVars
<1>11. CASE UNCHANGED vars
  BY <1>4, <1>11 DEF vars, netVars, bufferVars
<1> QED
  BY <1>5, <1>8, <1>9, <1>10, <1>11 DEF Next

(* What has been received of a complete packet is all its send wrote. *)
LEMMA CompletedIsWhole ==
  ASSUME TypeInv, OrderInv, ShardsWithinReach, CompletePacket
  PROVE  IsWhole(recvState.shard.stream, Reconstructed(recvState.shard))
<1> USE DEF TypeInv, TypeOK
<1>1. PICK sh \in Shards : sh = recvState.shard
  BY ReadingType DEF CompletePacket
<1> DEFINE s == sh.stream
           k == sh.attempt
<1>2. recvState # NoShard /\ s \in Streams /\ IsSent(sh)
  BY <1>1 DEF OrderInv, ShardsSent, CompletePacket, NoShard, Shards
<1>3. /\ k \in 1..Len(sent[s])
      /\ sh.index = sent[s][k].index
      /\ sh.count = sent[s][k].count
      /\ sh \in PacketShards(s, k)
  BY <1>2, SentFields
<1>4. Received(sh) \subseteq PacketShards(s, k) /\ sh \in Received(sh)
  <2>1. ASSUME NEW other \in Received(sh)
        PROVE  other \in PacketShards(s, k)
    <3>1. other.index = sh.index /\ (other \in stored[s] \/ other = sh)
      BY <2>1 DEF Received, StoredWith
    <3>2. CASE other \in stored[s]
      <4>1. IsSent(other) /\ other.stream = s /\ Apart(other.attempt, k, IndexMod - 1)
        BY <1>1, <1>2, <3>2 DEF OrderInv, ShardsSent, ShardsWithinReach
      <4>2. /\ other.attempt \in 1..Len(sent[s])
            /\ sent[s][other.attempt].index = sent[s][k].index
            /\ other \in PacketShards(s, other.attempt)
        BY <1>2, <1>3, <3>1, <4>1, SentFields
      <4>3. other.attempt = k
        BY <1>2, <1>3, <4>1, <4>2, SameIndex DEF OrderInv
      <4> QED
        BY <4>2, <4>3
    <3> QED
      BY <1>3, <3>1, <3>2
  <2>2. sh \in Received(sh)
    BY DEF Received, StoredWith
  <2> QED
    BY <2>1, <2>2
<1>5. Cardinality(Received(sh)) = sh.count
  BY <1>1 DEF CompletePacket, Completes
<1>6. Received(sh) = PacketShards(s, k)
  <2>1. IsFiniteSet(PacketShards(s, k)) /\ Cardinality(PacketShards(s, k)) = sh.count
    BY <1>2, <1>3, PacketShardsCount
  <2> QED
    BY <1>4, <1>5, <2>1, FS_Subset
<1>7. IsPacket(s, Reconstructed(sh), k)
  BY <1>3, <1>4, <1>6 DEF IsPacket, Reconstructed
<1> QED
  BY <1>1, <1>3, <1>7 DEF IsWhole

LEMMA QueueWholeStep ==
  ASSUME TypeInv, OrderInv, ShardsWithinReach, [Next]_vars
  PROVE  QueueWhole'
<1> USE DEF TypeInv, TypeOK
<1>1. \A s \in Streams : queue[s] \in Seq(Packets)
  BY DEF BufferTypeOK
<1>2. ASSUME NEW s \in Streams, NEW i \in 1..Len(queue[s]), NEW p, p = queue[s][i]
      PROVE  IsWhole(s, p)'
  BY <1>2, IsWholeStable DEF OrderInv, QueueWhole
<1>3. CASE queue' = queue
  BY <1>2, <1>3 DEF QueueWhole
<1>4. CASE CompletePacket
  <2>1. PICK s \in Streams : s = recvState.shard.stream
    BY <1>4, ReadingType DEF CompletePacket
  <2> DEFINE packet == Reconstructed(recvState.shard)
  <2>2. PICK p : p = packet
    OBVIOUS
  <2>3. p \in Packets
    BY <1>4, <2>2, ReadingType DEF CompletePacket, Reconstructed, Packets, StatTypeOK
  <2>4. IsWhole(s, p)'
    BY <1>4, <2>1, <2>2, CompletedIsWhole, IsWholeStable
  <2>5. queue' = [queue EXCEPT ![s] = Append(@, p)]
    BY <1>4, <2>1, <2>2 DEF CompletePacket
  <2>6. queue'[s] = Append(queue[s], p) /\ \A t \in Streams \ {s} : queue'[t] = queue[t]
    BY <2>5 DEF BufferTypeOK
  <2>7. ASSUME NEW i \in 1..Len(queue'[s]), NEW q, q = queue'[s][i]
        PROVE  IsWhole(s, q)'
    BY <1>1, <1>2, <2>3, <2>4, <2>6, <2>7, AppendProperties, LenProperties
  <2> QED
    BY <1>2, <2>6, <2>7 DEF QueueWhole
<1>5. ASSUME NEW s \in Streams, queue[s] # <<>>, queue' = [queue EXCEPT ![s] = Tail(@)]
      PROVE  QueueWhole'
  <2>1. queue'[s] = Tail(queue[s]) /\ \A t \in Streams \ {s} : queue'[t] = queue[t]
    BY <1>5 DEF BufferTypeOK
  <2>2. /\ Len(Tail(queue[s])) = Len(queue[s]) - 1
        /\ \A i \in 1..Len(Tail(queue[s])) : Tail(queue[s])[i] = queue[s][i + 1]
    BY <1>1, <1>5, HeadTailProperties
  <2>3. ASSUME NEW i \in 1..Len(queue'[s]), NEW q, q = queue'[s][i]
        PROVE  IsWhole(s, q)'
    <3>1. i + 1 \in 1..Len(queue[s]) /\ q = queue[s][i + 1]
      BY <1>1, <2>1, <2>2, <2>3, LenProperties
    <3> QED
      BY <1>2, <3>1
  <2> QED
    BY <1>2, <2>1, <2>3 DEF QueueWhole
<1>6. \/ queue' = queue
      \/ CompletePacket
      \/ \E s \in Streams : queue[s] # <<>> /\ queue' = [queue EXCEPT ![s] = Tail(@)]
  BY DEF Next, vars, Sender, BeginSend, SendShard, EndSend, FailSend, Receiver, DropOldPacket,
         ReadPacket, DropReceiverData, Network, LoseShard, Socket, PeekShard, ReadDiscarded,
         StoreShard
<1> QED
  BY <1>3, <1>4, <1>5, <1>6

(* A packet that is read is that of a send after the last one read, and    *)
(* the gap between them is what is reported.                               *)
LEMMA ReadPacketPosition ==
  ASSUME TypeInv, OrderInv, PacketsWithinReach, NEW s \in Streams, ReadPacket(s)
  PROVE  LET packet == Head(queue[s])
             position == Origin(s, packet.shards)
         IN  /\ position \in (latest[s].attempt + 1)..Len(sent[s])
             /\ packet.index = sent[s][position].index
             /\ SkippedBefore(s, packet.index) =
                  IF latest[s].attempt = 0 THEN 0 ELSE position - latest[s].attempt - 1
<1> USE DEF TypeInv, TypeOK
<1>1. PICK packet \in Packets : packet = Head(queue[s])
  BY HeadType DEF ReadPacket
<1>2. IsWhole(s, packet)
  <2>1. queue[s] \in Seq(Packets) /\ queue[s] # <<>>
    BY DEF BufferTypeOK, ReadPacket
  <2>2. 1 \in 1..Len(queue[s]) /\ packet = queue[s][1]
    BY <1>1, <2>1, EmptySeq, LenProperties
  <2> QED
    BY <2>2 DEF OrderInv, QueueWhole
<1>3. PICK k \in 1..Len(sent[s]) : IsPacket(s, packet, k)
  BY <1>2 DEF IsWhole
<1>4. /\ Origin(s, packet.shards) = k
      /\ \E sh \in packet.shards : sh.attempt = k
      /\ packet.index = sent[s][k].index
  BY <1>3, OriginOfPacket DEF IsPacket
<1> DEFINE index == packet.index
           last == lastIndex[s]
           position == latest[s].attempt
<1>5. /\ Len(sent[s]) \in Nat
      /\ position \in Nat
      /\ position <= Len(sent[s])
      /\ last = IF position = 0 THEN NoneRead ELSE sent[s][position].index
  BY LenProperties DEF SenderTypeOK, ReaderTypeOK, OrderInv, ReadPosition
<1>6. ~IsOld(s, index)
  BY <1>1 DEF ReadPacket
<1> HIDE DEF index, last, position
<1>7. CASE position = 0
  <2>1. SkippedBefore(s, index) = 0
    BY <1>5, <1>7 DEF SkippedBefore, last
  <2> QED
    BY <1>1, <1>4, <1>5, <1>7, <2>1 DEF index, position
<1>8. CASE position # 0
  <2>1. position \in 1..Len(sent[s])
    BY <1>5, <1>8
  <2>2. last # NoneRead
    <3>1. last \in Nat
      <4>1. sent[s][position] \in [index : Index, count : Nat]
        BY <2>1, PacketShardsCount
      <4> QED
        BY <1>5, <1>8, <4>1, ReachBounds DEF Index
    <3> QED
      BY <3>1 DEF NoneRead
  <2> DEFINE next == WrappingAdd(last, 1)
  <2>3. /\ wrapping_cmp(index, next) = "Less" <=> k <= position
        /\ wrapping_cmp(index, next) = "Greater" <=> k > position + 1
        /\ k > position => WrappingSub(index, next) = k - position - 1
    <3>1. Apart(k, position, Reach)
      BY <1>1, <1>4, <1>8 DEF PacketsWithinReach, ReadPacket, position
    <3>2. index = sent[s][k].index /\ next = WrappingAdd(sent[s][position].index, 1)
      BY <1>4, <1>5, <1>8 DEF index
    <3> HIDE DEF next
    <3> QED
      BY <2>1, <3>1, <3>2, OrderWithinReach DEF OrderInv
  <2>4. k > position
    <3>1. wrapping_cmp(index, next) # "Less"
      BY <1>6, <2>2 DEF IsOld, last
    <3> QED
      BY <1>5, <2>3, <3>1
  <2>5. SkippedBefore(s, index) = k - position - 1
    <3>1. SkippedBefore(s, index) =
            IF wrapping_cmp(index, next) = "Greater" THEN WrappingSub(index, next) ELSE 0
      BY <2>2 DEF SkippedBefore, last
    <3> HIDE DEF next
    <3> QED
      BY <1>5, <2>3, <2>4, <3>1
  <2> QED
    BY <1>1, <1>4, <1>5, <1>8, <2>4, <2>5 DEF index, position
<1> QED
  BY <1>7, <1>8

(* Only reading a packet changes what a receiver has read. *)
LEMMA ReadOnlyByReadPacket ==
  ASSUME [Next]_vars
  PROVE  \/ UNCHANGED <<latest, lastIndex>>
         \/ \E s \in Streams : ReadPacket(s)
  BY DEF Next, vars, readerVars, Sender, BeginSend, SendShard, EndSend, FailSend, Receiver,
         DropOldPacket, DropReceiverData, Network, LoseShard, Socket, PeekShard, ReadDiscarded,
         StoreShard, CompletePacket

LEMMA ReadPositionStep ==
  ASSUME TypeInv, OrderInv, PacketsWithinReach, [Next]_vars
  PROVE  ReadPosition'
<1>1. /\ latest \in [Streams -> [attempt : Nat, skipped : Nat, loss : BOOLEAN]]
      /\ \A s \in Streams : latest[s].attempt \in Nat
  BY DEF TypeInv, TypeOK, ReaderTypeOK
<1>2. CASE UNCHANGED <<latest, lastIndex>>
  <2> SUFFICES ASSUME NEW s \in Streams
               PROVE  /\ latest[s].attempt <= Len(sent'[s])
                      /\ lastIndex[s] = IF latest[s].attempt = 0 THEN NoneRead
                                        ELSE sent'[s][latest[s].attempt].index
    BY <1>2 DEF ReadPosition
  <2>1. /\ Len(sent[s]) \in Nat /\ Len(sent'[s]) \in Nat
        /\ Len(sent[s]) <= Len(sent'[s])
        /\ \A i \in 1..Len(sent[s]) : sent'[s][i] = sent[s][i]
    BY SentStable
  <2>2. /\ latest[s].attempt <= Len(sent[s])
        /\ lastIndex[s] = IF latest[s].attempt = 0 THEN NoneRead
                          ELSE sent[s][latest[s].attempt].index
    BY DEF OrderInv, ReadPosition
  <2> QED
    BY <1>1, <2>1, <2>2
<1>3. ASSUME NEW s \in Streams, ReadPacket(s)
      PROVE  ReadPosition'
  <2> DEFINE position == Origin(s, Head(queue[s]).shards)
  <2>1. /\ position \in (latest[s].attempt + 1)..Len(sent[s])
        /\ Head(queue[s]).index = sent[s][position].index
    BY <1>3, ReadPacketPosition
  <2>2. latest'[s].attempt = position
    BY <1>1, <1>3 DEF ReadPacket
  <2>3. lastIndex'[s] = Head(queue[s]).index
    BY <1>3 DEF ReadPacket, TypeInv, TypeOK, ReaderTypeOK
  <2> HIDE DEF position
  <2>4. position # 0 /\ position <= Len(sent[s])
    BY <1>1, <2>1, SentStable
  <2>5. sent' = sent
    BY <1>3 DEF ReadPacket, senderVars
  <2>6. \A t \in Streams \ {s} : latest'[t] = latest[t] /\ lastIndex'[t] = lastIndex[t]
    BY <1>3, <1>1 DEF ReadPacket, TypeInv, TypeOK, ReaderTypeOK
  <2> QED
    BY <2>1, <2>2, <2>3, <2>4, <2>5, <2>6 DEF OrderInv, ReadPosition
<1> QED
  BY <1>2, <1>3, ReadOnlyByReadPacket

LEMMA ErrorsStay ==
  ASSUME TypeInv, [Next]_vars, errors' = 0
  PROVE  errors = 0
<1>1. errors \in Nat
  BY BoundAssumption DEF TypeInv, TypeOK, SenderTypeOK
<1>2. errors' = errors \/ errors' = errors + 1
  BY DEF Next, vars, senderVars, Sender, BeginSend, SendShard, EndSend, FailSend, Receiver,
         DropOldPacket, ReadPacket, DropReceiverData, Network, LoseShard, Socket, PeekShard,
         ReadDiscarded, StoreShard, CompletePacket
<1> QED
  BY <1>1, <1>2

LEMMA ChannelInvStep ==
  ChannelInv /\ (errors = 0 => WithinReach) /\ [Next]_vars => ChannelInv'
<1> SUFFICES ASSUME ChannelInv, errors = 0 => WithinReach, [Next]_vars
             PROVE  ChannelInv'
  OBVIOUS
<1>1. TypeInv /\ TypeInv'
  BY NextType DEF ChannelInv
<1>2. ASSUME errors' = 0 PROVE OrderInv'
  <2>1. OrderInv /\ ShardsWithinReach /\ PacketsWithinReach
    BY <1>1, <1>2, ErrorsStay DEF ChannelInv, WithinReach
  <2> QED
    BY <1>1, <1>2, <2>1, SendsNumberedStep, ShardsSentStep, QueueWholeStep, ReadPositionStep
       DEF OrderInv
<1> QED
  BY <1>1, <1>2 DEF ChannelInv

(* While no write has failed, within reach an index names one send.        *)
THEOREM ChannelInvariant == Spec /\ []WithinReach => []ChannelInv
<1>1. Init => ChannelInv
  BY InitType, InitOrder DEF ChannelInv
<1>2. ChannelInv /\ WithinReach /\ [Next]_vars => ChannelInv'
  BY ChannelInvStep
<1> QED
  BY <1>1, <1>2, PTL DEF Spec

(* Below the wrap-around everything is within reach. *)
LEMMA ReachWithoutWrap ==
  ASSUME NoWrap
  PROVE  ChannelInv /\ errors = 0 => WithinReach
<1> SUFFICES ASSUME ChannelInv, errors = 0 PROVE WithinReach
  OBVIOUS
<1> USE DEF ChannelInv, TypeInv, TypeOK
<1>1. ASSUME NEW s \in Streams, NEW i \in 1..Len(sent[s]), NEW j \in 1..Len(sent[s])
      PROVE  Apart(i, j, Reach) /\ Apart(i, j, IndexMod - 1)
  <2>1. Len(sent[s]) <= MaxPackets /\ Len(sent[s]) \in Nat
    BY LenProperties DEF OrderInv, SendsNumbered, SenderTypeOK
  <2> QED
    BY <2>1, ReachBounds DEF Apart, NoWrap
<1>2. ShardsWithinReach
  <2> SUFFICES ASSUME recvState # NoShard, NEW sh \in stored[recvState.shard.stream]
               PROVE  Apart(sh.attempt, recvState.shard.attempt, IndexMod - 1)
    BY DEF ShardsWithinReach
  <2>1. recvState.shard.stream \in Streams
    BY DEF BufferTypeOK, Shards
  <2>2. IsSent(sh) /\ IsSent(recvState.shard) /\ sh.stream = recvState.shard.stream
    BY <2>1 DEF OrderInv, ShardsSent
  <2> QED
    BY <1>1, <2>1, <2>2 DEF IsSent
<1>3. PacketsWithinReach
  <2> SUFFICES ASSUME NEW s \in Streams, queue[s] # <<>>, latest[s].attempt # 0,
                      NEW sh \in Head(queue[s]).shards
               PROVE  Apart(sh.attempt, latest[s].attempt, Reach)
    BY DEF PacketsWithinReach
  <2>1. IsWhole(s, queue[s][1]) /\ Head(queue[s]) = queue[s][1]
    <3>1. queue[s] \in Seq(Packets)
      BY DEF BufferTypeOK
    <3>2. 1 \in 1..Len(queue[s])
      BY <3>1, EmptySeq, LenProperties
    <3> QED
      BY <3>1, <3>2 DEF OrderInv, QueueWhole
  <2>2. sh.attempt \in 1..Len(sent[s])
    BY <2>1 DEF IsWhole, IsPacket, PacketShards, Shard
  <2>3. latest[s].attempt \in 1..Len(sent[s])
    <3>1. latest[s].attempt \in Nat /\ latest[s].attempt <= Len(sent[s]) /\ Len(sent[s]) \in Nat
      BY LenProperties DEF OrderInv, ReadPosition, ReaderTypeOK, SenderTypeOK
    <3> QED
      BY <3>1
  <2> QED
    BY <1>1, <2>2, <2>3
<1> QED
  BY <1>2, <1>3 DEF WithinReach

LEMMA NoWrapInvariant ==
  ASSUME NoWrap
  PROVE  Spec => [](ChannelInv /\ (errors = 0 => WithinReach))
<1>1. Init => ChannelInv
  BY InitType, InitOrder DEF ChannelInv
<1>2. ChannelInv => (errors = 0 => WithinReach)
  BY ReachWithoutWrap
<1>3. ChannelInv /\ [Next]_vars => ChannelInv'
  BY <1>2, ChannelInvStep
<1> QED
  BY <1>1, <1>2, <1>3, PTL DEF Spec

-----------------------------------------------------------------------------
(* Unless a write failed, what the socket hands to a receiver is all the   *)
(* shards of one send, however shards are reordered, lost and duplicated   *)
(* and buffers are taken away from unfinished packets.                     *)
LEMMA IntactInvariant == ChannelInv => PacketsIntact
<1> SUFFICES ASSUME ChannelInv, errors = 0, NEW s \in Streams, NEW i \in 1..Len(queue[s])
             PROVE  Origin(s, queue[s][i].shards) # 0
  BY DEF PacketsIntact
<1>1. PICK packet : packet = queue[s][i]
  OBVIOUS
<1>2. PICK k \in 1..Len(sent[s]) : IsPacket(s, packet, k)
  BY <1>1 DEF ChannelInv, OrderInv, QueueWhole, IsWhole
<1>3. Origin(s, packet.shards) = k
  BY <1>2, OriginOfPacket
<1> QED
  BY <1>1, <1>3

THEOREM PacketsAreIntact == Spec /\ []WithinReach => []PacketsIntact
  BY ChannelInvariant, IntactInvariant, PTL

(* What a step that reads does, in terms of the positions of the sends. *)
LEMMA ReadStep ==
  ASSUME ChannelInv, errors = 0 => WithinReach, [Next]_vars, errors = 0,
         NEW s \in Streams, latest'[s] # latest[s]
  PROVE  /\ ReadPacket(s)
         /\ latest'[s].attempt \in (latest[s].attempt + 1)..Len(sent[s])
         /\ latest'[s].skipped = IF latest[s].attempt = 0 THEN 0
                                 ELSE latest'[s].attempt - latest[s].attempt - 1
         /\ latest' = [latest EXCEPT ![s] = [attempt |-> latest'[s].attempt,
                                             skipped |-> latest'[s].skipped,
                                             loss |-> latest'[s].skipped > 0]]
<1>1. latest \in [Streams -> [attempt : Nat, skipped : Nat, loss : BOOLEAN]]
  BY DEF ChannelInv, TypeInv, TypeOK, ReaderTypeOK
<1>2. ReadPacket(s)
  BY <1>1, ReadOnlyByReadPacket DEF ReadPacket
<1> DEFINE attempt == Origin(s, Head(queue[s]).shards)
           skipped == SkippedBefore(s, Head(queue[s]).index)
<1>3. latest' = [latest EXCEPT ![s] = [attempt |-> attempt, skipped |-> skipped,
                                       loss |-> skipped > 0]]
  BY <1>2 DEF ReadPacket
<1>4. /\ attempt \in (latest[s].attempt + 1)..Len(sent[s])
      /\ skipped = IF latest[s].attempt = 0 THEN 0 ELSE attempt - latest[s].attempt - 1
  BY <1>2, ReadPacketPosition DEF ChannelInv, WithinReach
<1> HIDE DEF attempt, skipped
<1>5. latest'[s].attempt = attempt /\ latest'[s].skipped = skipped
  BY <1>1, <1>3
<1> QED
  BY <1>2, <1>3, <1>4, <1>5

LEMMA ReadInOrderStep ==
  ChannelInv /\ (errors = 0 => WithinReach) /\ [Next]_vars =>
    [\A s \in Streams :
       errors = 0 /\ latest'[s] # latest[s] => latest'[s].attempt > latest[s].attempt]_vars
<1> SUFFICES ASSUME ChannelInv, errors = 0 => WithinReach, [Next]_vars,
                    NEW s \in Streams, errors = 0, latest'[s] # latest[s]
             PROVE  latest'[s].attempt > latest[s].attempt
  OBVIOUS
<1>1. latest[s].attempt \in Nat
  BY DEF ChannelInv, TypeInv, TypeOK, ReaderTypeOK
<1>2. latest'[s].attempt \in (latest[s].attempt + 1)..Len(sent[s])
  BY ReadStep
<1> QED
  BY <1>1, <1>2, SentStable DEF ChannelInv

LEMMA SkippedExactStep ==
  ChannelInv /\ (errors = 0 => WithinReach) /\ [Next]_vars =>
    [\A s \in Streams :
       errors = 0 /\ latest[s].attempt # 0 /\ latest'[s] # latest[s] =>
         latest'[s].skipped = latest'[s].attempt - latest[s].attempt - 1]_vars
  BY ReadStep

(* Unless a write failed, packets are read in the order of their sends,    *)
(* each at most once, also when the index wraps around.                    *)
THEOREM PacketsReadInOrder == Spec /\ []WithinReach => ReadInOrder
<1>1. WithinReach => (errors = 0 => WithinReach)
  OBVIOUS
<1> QED
  BY <1>1, ReadInOrderStep, ChannelInvariant, PTL DEF Spec, ReadInOrder

(* Unless a write failed, the frames_skipped of a packet are exactly the   *)
(* sends since the one read before it, also when the index wraps around.   *)
THEOREM SkippedIsExact == Spec /\ []WithinReach => SkippedExact
<1>1. WithinReach => (errors = 0 => WithinReach)
  OBVIOUS
<1> QED
  BY <1>1, SkippedExactStep, ChannelInvariant, PTL DEF Spec, SkippedExact

(* Below the wrap-around, all three hold without further conditions: the   *)
(* packets handed to a receiver are whole, read in order, and the gaps     *)
(* between them are counted exactly, unless a write failed.                *)
THEOREM DeliveryWithoutWrap ==
  ASSUME NoWrap
  PROVE  Spec => []PacketsIntact /\ ReadInOrder /\ SkippedExact
  BY NoWrapInvariant, IntactInvariant, ReadInOrderStep, SkippedExactStep, PTL
     DEF Spec, ReadInOrder, SkippedExact

-----------------------------------------------------------------------------
(* Whatever the network and the writes do, the highest frame only grows:   *)
(* it covers the shard in the hands of the socket, and is copied into the  *)
(* packet that shard completes.                                            *)

SendsLow ==
  \A s \in Streams :
    /\ Len(sent[s]) <= MaxPackets
    /\ nextIndex[s] <= IF sending[s].active THEN Len(sent[s]) - 1 ELSE Len(sent[s])
    /\ \A k \in 1..Len(sent[s]) : sent[s][k].index < MaxPackets

ShardsLow ==
  /\ highest.frame >= -1 /\ highest.frame < MaxPackets
  /\ \A sh \in net : sh.index < MaxPackets
  /\ recvState # NoShard =>
       /\ recvState.shard.index < MaxPackets
       /\ recvState.shard.stream = VIDEO => recvState.shard.index <= highest.frame

QueueCovered ==
  \A i \in 1..Len(queue[VIDEO]) :
    /\ queue[VIDEO][i].index <= queue[VIDEO][i].highest.frame
    /\ queue[VIDEO][i].highest.frame < MaxPackets

CoverInv == TypeInv /\ SendsLow /\ ShardsLow /\ QueueCovered

LEMMA InitCover == Init => CoverInv
<1> SUFFICES ASSUME Init PROVE CoverInv
  OBVIOUS
<1>1. SendsLow
  BY BoundAssumption DEF Init, SendsLow, Idle
<1>2. ShardsLow
  BY BoundAssumption DEF Init, ShardsLow
<1>3. QueueCovered
  BY StreamAssumption DEF Init, QueueCovered
<1> QED
  BY <1>1, <1>2, <1>3, InitType DEF CoverInv

(* A failed write leaves the index to the next send, so that a stream      *)
(* never uses more indices than it has sends.                              *)
LEMMA SendsLowStep ==
  ASSUME NoWrap, TypeInv, SendsLow, [Next]_vars
  PROVE  SendsLow'
<1> USE DEF TypeInv, TypeOK
<1>1. /\ sent \in [Streams -> Seq([index : Index, count : Nat])]
      /\ \A s \in Streams : Len(sent[s]) \in Nat
  BY LenProperties DEF SenderTypeOK
<1>2. CASE UNCHANGED <<sent, nextIndex, sending>>
  BY <1>2 DEF SendsLow
<1>3. ASSUME NEW s \in Streams, Sender(s)
      PROVE  SendsLow'
  <2>1. ASSUME NEW count \in ShardCounts[s], BeginSend(s, count)
        PROVE  SendsLow'
    <3> DEFINE call == [index |-> nextIndex[s], count |-> count]
    <3>1. call \in [index : Index, count : Nat]
      BY SizeAssumption DEF SenderTypeOK
    <3>2. sent'[s] = Append(sent[s], call)
      BY <1>1, <2>1 DEF BeginSend
    <3>3. call.index = nextIndex[s] /\ nextIndex[s] <= Len(sent[s]) /\ Len(sent[s]) < MaxPackets
      BY <2>1 DEF BeginSend, SendsLow, CurrentSend
    <3>4. nextIndex[s] \in Nat
      BY SizeAssumption DEF SenderTypeOK, Index
    <3> HIDE DEF call
    <3>5. Len(sent'[s]) = Len(sent[s]) + 1
      BY <1>1, <3>1, <3>2, AppendProperties
    <3>6. \A i \in 1..Len(sent'[s]) :
            sent'[s][i] = IF i <= Len(sent[s]) THEN sent[s][i] ELSE call
      BY <1>1, <3>1, <3>2, <3>5, AppendProperties
    <3>7. \A i \in 1..Len(sent'[s]) : sent'[s][i].index < MaxPackets
      BY <1>1, <3>3, <3>4, <3>5, <3>6, BoundAssumption DEF SendsLow
    <3>8. sending'[s].active /\ nextIndex'[s] = nextIndex[s]
      BY <2>1 DEF BeginSend, SenderTypeOK
    <3>9. \A t \in Streams \ {s} : /\ sent'[t] = sent[t]
                                  /\ sending'[t] = sending[t]
                                  /\ nextIndex'[t] = nextIndex[t]
      BY <1>1, <2>1 DEF BeginSend, SenderTypeOK
    <3>10. Len(sent'[s]) <= MaxPackets /\ nextIndex'[s] <= Len(sent'[s]) - 1
      BY <1>1, <3>3, <3>4, <3>5, <3>8, BoundAssumption
    <3> QED
      BY <3>7, <3>8, <3>9, <3>10 DEF SendsLow
  <2>2. CASE SendShard(s)
    <3>1. UNCHANGED <<sent, nextIndex>> /\ \A t \in Streams : sending'[t].active = sending[t].active
      BY <2>2 DEF SendShard, SenderTypeOK
    <3> QED
      BY <3>1 DEF SendsLow
  <2>3. CASE EndSend(s)
    <3>1. nextIndex[s] \in 0..(MaxPackets - 1) /\ nextIndex[s] + 1 <= Len(sent[s])
      BY <1>1, <2>3, SizeAssumption, BoundAssumption DEF EndSend, SendsLow, SenderTypeOK, Index
    <3>2. WrappingAdd(nextIndex[s], 1) = nextIndex[s] + 1
      BY <3>1, IndexOrder, BoundAssumption
    <3>3. /\ sent' = sent
          /\ nextIndex'[s] = nextIndex[s] + 1
          /\ ~sending'[s].active
          /\ \A t \in Streams \ {s} : sending'[t] = sending[t] /\ nextIndex'[t] = nextIndex[t]
      BY <2>3, <3>2 DEF EndSend, SenderTypeOK, Idle
    <3> QED
      BY <3>1, <3>3 DEF SendsLow
  <2>4. CASE FailSend(s)
    <3>1. nextIndex[s] <= Len(sent[s])
      BY <1>1, <2>4, SizeAssumption DEF FailSend, SendsLow, SenderTypeOK, Index
    <3>2. /\ UNCHANGED <<sent, nextIndex>> /\ ~sending'[s].active
          /\ \A t \in Streams \ {s} : sending'[t] = sending[t]
      BY <2>4 DEF FailSend, SenderTypeOK, Idle
    <3> QED
      BY <3>1, <3>2 DEF SendsLow
  <2> QED
    BY <1>3, <2>1, <2>2, <2>3, <2>4 DEF Sender
<1>4. \/ UNCHANGED <<sent, nextIndex, sending>>
      \/ \E s \in Streams : Sender(s)
  BY DEF Next, vars, senderVars, Receiver, DropOldPacket, ReadPacket, DropReceiverData,
         Network, LoseShard, Socket, PeekShard, ReadDiscarded, StoreShard, CompletePacket
<1> QED
  BY <1>2, <1>3, <1>4

(* A video shard is counted before it is read. *)
LEMMA PeekCovers ==
  ASSUME NoWrap, TypeInv, ShardsLow, NEW sh \in net, PeekShard(sh)
  PROVE  ShardsLow'
<1> USE DEF TypeInv, TypeOK
<1>1. sh.index \in Nat /\ sh.index < MaxPackets /\ sh.stream \in Streams
  BY SizeAssumption DEF NetTypeOK, Shards, Index, ShardsLow
<1>2. AsI32(sh.index) = sh.index
  <2>1. MaxPackets <= IndexMod \div 2
    BY ReachBounds DEF NoWrap, Reach
  <2> QED
    BY <1>1, <2>1, SizeAssumption, BoundAssumption DEF AsI32
<1>3. highest.frame \in Int
  BY DEF StatTypeOK, Highest
<1>4. /\ highest'.frame >= -1 /\ highest'.frame < MaxPackets
      /\ sh.stream = VIDEO => sh.index <= highest'.frame
  <2>1. CASE sh.stream = VIDEO
    <3>1. highest' = NewHighest(sh)
      BY <2>1 DEF PeekShard, CountShard
    <3>2. highest'.frame = IF highest.frame < sh.index THEN sh.index ELSE highest.frame
      BY <1>1, <1>2, <1>3, <3>1 DEF NewHighest, StatTypeOK, Highest
    <3> QED
      BY <1>1, <1>3, <3>2 DEF ShardsLow
  <2>2. CASE sh.stream # VIDEO
    <3>1. highest' = highest
      BY <2>2 DEF PeekShard, CountShard, statVars
    <3> QED
      BY <2>2, <3>1 DEF ShardsLow
  <2> QED
    BY <2>1, <2>2
<1>5. net' \subseteq net
  BY DEF PeekShard, TakeFromNet
<1>6. recvState'.shard = sh
  BY DEF PeekShard, ChooseBuffer, Reading, Discarding
<1> QED
  BY <1>1, <1>4, <1>5, <1>6 DEF ShardsLow

LEMMA ShardsLowStep ==
  ASSUME NoWrap, CoverInv, [Next]_vars
  PROVE  ShardsLow'
<1> USE DEF CoverInv, TypeInv, TypeOK
<1>1. CASE UNCHANGED <<highest, net, recvState>>
  BY <1>1 DEF ShardsLow
<1>2. ASSUME NEW s \in Streams, SendShard(s)
      PROVE  ShardsLow'
  <2> DEFINE k == CurrentSend(s)
  <2>1. sending[s].active /\ k \in 1..Len(sent[s])
    BY <1>2, EmptySeq, LenProperties DEF SendShard, SendingHasPacket, CurrentSend, SenderTypeOK
  <2>2. Shard(s, k, sending[s].shard).index < MaxPackets
    BY <2>1 DEF Shard, SendsLow
  <2>3. /\ net' = net \cup {Shard(s, k, sending[s].shard)}
        /\ UNCHANGED <<highest, recvState>>
    BY <1>2 DEF SendShard, statVars, bufferVars
  <2> HIDE DEF k
  <2> QED
    BY <2>2, <2>3 DEF ShardsLow
<1>3. ASSUME NEW sh \in net, LoseShard(sh)
      PROVE  ShardsLow'
  <2>1. net' \subseteq net /\ UNCHANGED <<highest, recvState>>
    BY <1>3 DEF LoseShard, statVars, bufferVars
  <2> QED
    BY <2>1 DEF ShardsLow
<1>4. ASSUME NEW sh \in net, PeekShard(sh)
      PROVE  ShardsLow'
  BY <1>4, PeekCovers
<1>5. CASE recvState' = NoShard /\ UNCHANGED <<highest, net>>
  BY <1>5 DEF ShardsLow
<1>6. CASE ReadDiscarded \/ StoreShard \/ CompletePacket
  BY <1>5, <1>6 DEF ReadDiscarded, StoreShard, CompletePacket, ResetVideoCounters, netVars, statVars
<1>7. \/ UNCHANGED <<highest, net, recvState>>
      \/ \E s \in Streams : SendShard(s)
      \/ \E sh \in net : LoseShard(sh) \/ PeekShard(sh)
      \/ ReadDiscarded \/ StoreShard \/ CompletePacket
  BY DEF Next, vars, netVars, statVars, bufferVars, Sender, BeginSend, EndSend, FailSend, Receiver,
         DropOldPacket, ReadPacket, DropReceiverData, Network, Socket
<1> QED
  BY <1>1, <1>2, <1>3, <1>4, <1>6, <1>7

LEMMA QueueCoveredStep ==
  ASSUME CoverInv, [Next]_vars
  PROVE  QueueCovered'
<1> USE StreamAssumption DEF CoverInv, TypeInv, TypeOK
<1>1. queue \in [Streams -> Seq(Packets)] /\ queue[VIDEO] \in Seq(Packets)
  BY DEF BufferTypeOK
<1>2. CASE UNCHANGED queue
  BY <1>2 DEF QueueCovered
<1>3. CASE CompletePacket
  <2> DEFINE sh == recvState.shard
             packet == Reconstructed(sh)
  <2>1. recvState # NoShard /\ sh \in Shards
    BY <1>3 DEF CompletePacket, NoShard, BufferTypeOK
  <2>2. CASE sh.stream = VIDEO
    <3>1. packet.index = sh.index /\ packet.highest = highest
      BY DEF Reconstructed
    <3>2. packet.index <= packet.highest.frame /\ packet.highest.frame < MaxPackets
      BY <2>1, <2>2, <3>1 DEF ShardsLow
    <3>3. queue'[VIDEO] = Append(queue[VIDEO], packet)
      BY <1>1, <1>3, <2>2 DEF CompletePacket
    <3>4. packet \in Packets
      <4>1. queue' \in [Streams -> Seq(Packets)]
        BY NextType DEF BufferTypeOK
      <4>2. queue'[VIDEO] \in Seq(Packets)
        BY <4>1
      <4> HIDE DEF packet
      <4>3. packet = queue'[VIDEO][Len(queue[VIDEO]) + 1] /\ Len(queue'[VIDEO]) = Len(queue[VIDEO]) + 1
        BY <1>1, <3>3
      <4> QED
        BY <1>1, <4>2, <4>3, ElementOfSeq, LenProperties
    <3> HIDE DEF packet
    <3>5. /\ Len(queue[VIDEO]) \in Nat
          /\ Len(queue'[VIDEO]) = Len(queue[VIDEO]) + 1
          /\ \A i \in 1..Len(queue'[VIDEO]) :
               queue'[VIDEO][i] = IF i <= Len(queue[VIDEO]) THEN queue[VIDEO][i] ELSE packet
      BY <1>1, <3>3, <3>4, AppendProperties, LenProperties
    <3> QED
      BY <3>2, <3>5 DEF QueueCovered
  <2>3. CASE sh.stream # VIDEO
    <3>1. queue'[VIDEO] = queue[VIDEO]
      BY <1>1, <1>3, <2>3 DEF CompletePacket
    <3> QED
      BY <3>1 DEF QueueCovered
  <2> QED
    BY <2>2, <2>3
<1>4. ASSUME NEW s \in Streams, DropOldPacket(s) \/ ReadPacket(s)
      PROVE  QueueCovered'
  <2>1. queue[s] # <<>> /\ queue' = [queue EXCEPT ![s] = Tail(@)]
    BY <1>4 DEF DropOldPacket, ReadPacket
  <2>2. CASE s = VIDEO
    <3>1. queue'[VIDEO] = Tail(queue[VIDEO]) /\ queue[VIDEO] # <<>>
      BY <1>1, <2>1, <2>2
    <3>2. /\ Len(queue[VIDEO]) \in Nat
          /\ Len(queue'[VIDEO]) = Len(queue[VIDEO]) - 1
          /\ \A i \in 1..Len(queue'[VIDEO]) : queue'[VIDEO][i] = queue[VIDEO][i + 1]
      BY <1>1, <3>1, HeadTailProperties, LenProperties
    <3> QED
      BY <3>2 DEF QueueCovered
  <2>3. CASE s # VIDEO
    <3>1. queue'[VIDEO] = queue[VIDEO]
      BY <1>1, <2>1, <2>3
    <3> QED
      BY <3>1 DEF QueueCovered
  <2> QED
    BY <2>2, <2>3
<1>5. \/ UNCHANGED queue
      \/ CompletePacket
      \/ \E s \in Streams : DropOldPacket(s) \/ ReadPacket(s)
  BY DEF Next, vars, Sender, BeginSend, SendShard, EndSend, FailSend, Receiver, DropReceiverData,
         Network, LoseShard, Socket, PeekShard, ReadDiscarded, StoreShard
<1> QED
  BY <1>2, <1>3, <1>4, <1>5

(* A video packet is never newer than the highest frame index reported     *)
(* with it, whether or not writes fail, and whatever the network does.     *)
THEOREM HighestCovers ==
  ASSUME NoWrap
  PROVE  Spec => []HighestCoversPacket
<1>1. CoverInv /\ [Next]_vars => CoverInv'
  BY NextType, SendsLowStep, ShardsLowStep, QueueCoveredStep DEF CoverInv
<1>2. CoverInv => HighestCoversPacket
  <2> SUFFICES ASSUME CoverInv, NEW i \in 1..Len(queue[VIDEO])
               PROVE  wrapping_cmp(AsU32(queue[VIDEO][i].highest.frame), queue[VIDEO][i].index)
                        # "Less"
    BY DEF HighestCoversPacket
  <2>1. PICK index, frame : index = queue[VIDEO][i].index /\ frame = queue[VIDEO][i].highest.frame
    OBVIOUS
  <2>2. queue[VIDEO][i] \in Packets
    BY StreamAssumption, ElementOfSeq DEF CoverInv, TypeInv, TypeOK, BufferTypeOK
  <2>3. index \in Nat /\ frame \in Int
    BY <2>1, <2>2, SizeAssumption DEF Packets, Index, Highest
  <2>4. index <= frame /\ frame < MaxPackets
    BY <2>1 DEF CoverInv, QueueCovered
  <2>5. AsU32(frame) = frame /\ frame \in 0..(MaxPackets - 1) /\ index \in 0..MaxPackets
    BY <2>3, <2>4, BoundAssumption DEF AsU32
  <2>6. wrapping_cmp(frame, index) = "Less" <=> frame < index
    BY <2>5, IndexOrder
  <2> QED
    BY <2>1, <2>3, <2>4, <2>5, <2>6
<1> QED
  BY <1>1, <1>2, InitCover, PTL DEF Spec

-----------------------------------------------------------------------------
(* If writes do not fail, the stream socket implements PacketChannel: it   *)
(* starts as an empty channel, and each of its steps is a send, a read or  *)
(* no step of the channel.                                                 *)
LEMMA ChannelRefinement ==
  ASSUME MaxErrors = 0
  PROVE  /\ Init => Channel!ChannelInit
         /\ ChannelInv /\ (errors = 0 => WithinReach) /\ [Next]_vars =>
              [Channel!ChannelNext]_(Channel!channelVars)
<1>1. Init => Channel!ChannelInit
  <2> SUFFICES ASSUME Init PROVE Channel!ChannelInit
    OBVIOUS
  <2>1. channelLog = [s \in Streams |-> <<>>]
    BY DEF Init, channelLog
  <2>2. channelLatest = [s \in Streams |-> Channel!NothingRead]
    BY DEF Init, channelLatest, Channel!NothingRead
  <2> QED
    BY <2>1, <2>2 DEF Channel!ChannelInit
<1>2. ChannelInv /\ (errors = 0 => WithinReach) /\ [Next]_vars =>
        [Channel!ChannelNext]_(Channel!channelVars)
  <2> SUFFICES ASSUME ChannelInv, errors = 0 => WithinReach, [Next]_vars
               PROVE  [Channel!ChannelNext]_(Channel!channelVars)
    OBVIOUS
  <2>0. /\ errors = 0
        /\ sent \in [Streams -> Seq([index : Index, count : Nat])]
        /\ latest \in [Streams -> [attempt : Nat, skipped : Nat, loss : BOOLEAN]]
    <3>1. errors \in 0..MaxErrors
      BY DEF ChannelInv, TypeInv, TypeOK, SenderTypeOK
    <3>2. errors = 0
      BY <3>1
    <3> QED
      BY <3>2 DEF ChannelInv, TypeInv, TypeOK, SenderTypeOK, ReaderTypeOK
  <2>1. CASE UNCHANGED <<sent, latest>>
    BY <2>1 DEF channelLog, channelLatest, Channel!channelVars
  <2>2. ASSUME NEW s \in Streams, NEW count \in ShardCounts[s], BeginSend(s, count)
        PROVE  Channel!ChannelNext
    <3> DEFINE call == [index |-> nextIndex[s], count |-> count]
    <3>1. call \in [index : Index, count : Nat]
      BY SizeAssumption DEF ChannelInv, TypeInv, TypeOK, SenderTypeOK
    <3>2. sent' = [sent EXCEPT ![s] = Append(@, call)] /\ UNCHANGED latest
      BY <2>2 DEF BeginSend, readerVars
    <3>3. call.count = count
      OBVIOUS
    <3> HIDE DEF call
    <3>4. channelLog' = [channelLog EXCEPT ![s] = Append(@, count)]
      <4> DEFINE entries(q) == [i \in 1..Len(q) |-> q[i].count]
      <4>1. entries(Append(sent[s], call)) = Append(entries(sent[s]), count)
        <5>1. /\ Len(Append(sent[s], call)) = Len(sent[s]) + 1
              /\ \A i \in 1..Len(sent[s]) : Append(sent[s], call)[i] = sent[s][i]
              /\ Append(sent[s], call)[Len(sent[s]) + 1] = call
              /\ Len(sent[s]) \in Nat
          BY <2>0, <3>1, AppendProperties, LenProperties
        <5> QED
          BY <3>3, <5>1
      <4> QED
        BY <2>0, <3>2, <4>1 DEF channelLog
    <3>5. channelLatest' = channelLatest
      BY <3>2 DEF channelLatest
    <3>6. count \in UNION {ShardCounts[t] : t \in Streams}
      BY <2>2
    <3> QED
      BY <3>4, <3>5, <3>6 DEF Channel!ChannelNext, Channel!ChannelSend
  <2>3. ASSUME NEW s \in Streams, ReadPacket(s)
        PROVE  [Channel!ChannelNext]_(Channel!channelVars)
    <3>1. CASE latest' = latest
      BY <2>1, <2>3, <3>1 DEF ReadPacket, senderVars
    <3>2. CASE latest' # latest
      <4>1. latest'[s] # latest[s]
        BY <2>0, <2>3, <3>2 DEF ReadPacket
      <4> DEFINE position == latest'[s].attempt
                 skipped == latest'[s].skipped
      <4>2. /\ position \in (latest[s].attempt + 1)..Len(sent[s])
            /\ skipped = IF latest[s].attempt = 0 THEN 0 ELSE position - latest[s].attempt - 1
            /\ latest' = [latest EXCEPT ![s] = [attempt |-> position, skipped |-> skipped,
                                                loss |-> skipped > 0]]
        BY <2>0, <4>1, ReadStep
      <4> HIDE DEF position, skipped
      <4>3. channelLatest' = [channelLatest EXCEPT ![s] =
                                [position |-> position, skipped |-> skipped, loss |-> skipped > 0]]
        BY <2>0, <4>2 DEF channelLatest
      <4>4. channelLog' = channelLog
        BY <2>3 DEF ReadPacket, senderVars, channelLog
      <4>5. channelLatest[s].position = latest[s].attempt /\ latest[s].attempt \in Nat
        BY <2>0 DEF channelLatest
      <4>6. Len(channelLog[s]) = Len(sent[s]) /\ Len(sent[s]) \in Nat
        BY <2>0, LenProperties DEF channelLog
      <4>7. Channel!ChannelRead(s, position)
        BY <4>2, <4>3, <4>4, <4>5, <4>6 DEF Channel!ChannelRead
      <4>8. position \in 1..Len(channelLog[s])
        BY <4>2, <4>5, <4>6
      <4> QED
        BY <4>7, <4>8 DEF Channel!ChannelNext
    <3> QED
      BY <3>1, <3>2
  <2>4. \/ UNCHANGED <<sent, latest>>
        \/ \E s \in Streams : \E count \in ShardCounts[s] : BeginSend(s, count)
        \/ \E s \in Streams : ReadPacket(s)
    BY DEF Next, vars, senderVars, readerVars, Sender, SendShard, EndSend, FailSend, Receiver,
           DropOldPacket, DropReceiverData, Network, LoseShard, Socket, PeekShard, ReadDiscarded,
           StoreShard, CompletePacket
  <2> QED
    BY <2>1, <2>2, <2>3, <2>4
<1> QED
  BY <1>1, <1>2

(* Every behaviour of the stream socket that stays within reach is one of  *)
(* the channel of ordered packets with gaps, across the wrap-around.       *)
THEOREM SocketImplementsChannel ==
  ASSUME MaxErrors = 0
  PROVE  Spec /\ []WithinReach => ImplementsChannel
<1>1. WithinReach => (errors = 0 => WithinReach)
  OBVIOUS
<1> QED
  BY <1>1, ChannelRefinement, ChannelInvariant, PTL
     DEF Spec, ImplementsChannel, Channel!ChannelSpec

(* Below the wrap-around, every behaviour is. *)
THEOREM SocketImplementsChannelWithoutWrap ==
  ASSUME NoWrap, MaxErrors = 0
  PROVE  Spec => ImplementsChannel
  BY ChannelRefinement, NoWrapInvariant, PTL DEF Spec, ImplementsChannel, Channel!ChannelSpec
=============================================================================
