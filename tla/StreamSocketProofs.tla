--------------------------- MODULE StreamSocketProofs ---------------------------
(***************************************************************************)
(* Type correctness of the stream socket, the conservation of its buffers  *)
(* and the counting of its shards, for every number of streams, buffers,   *)
(* shards and packets, with or without loss, duplicates and failed writes. *)
(***************************************************************************)
EXTENDS StreamSocket, FiniteSetTheorems, SequenceTheorems,
        WellFoundedInduction, TLAPS

(* While a send is in progress, its packet is the last one in sent. *)
SendingHasPacket == \A s \in Streams : sending[s].active => sent[s] # <<>>

TypeInv == TypeOK /\ SendingHasPacket

(* u32 arithmetic stays within u32. *)
LEMMA IndexArithmetic ==
  ASSUME NEW a \in Index, NEW b \in Index
  PROVE  /\ WrappingAdd(a, b) \in Index
         /\ WrappingSub(a, b) \in Index
         /\ 1 \in Index
  BY SizeAssumption DEF Index, WrappingAdd, WrappingSub

(* Every set of indices is finite. *)
LEMMA IndexSetsFinite ==
  ASSUME NEW S \in SUBSET Index
  PROVE  IsFiniteSet(S) /\ Cardinality(S) \in Nat
<1>1. IsFiniteSet(Index)
  BY FS_Interval, SizeAssumption DEF Index
<1> QED
  BY <1>1, FS_Subset, FS_CardinalityType

LEMMA InitType == Init => TypeInv
<1> SUFFICES ASSUME Init PROVE TypeInv
  OBVIOUS
<1> USE SizeAssumption, BoundAssumption DEF Init
<1>1. SenderTypeOK
  BY DEF SenderTypeOK, Index, Idle
<1>2. NetTypeOK
  BY DEF NetTypeOK
<1>3. StatTypeOK
  BY DEF StatTypeOK, Counts, NoCount, Highest
<1>4. BufferTypeOK
  BY DEF BufferTypeOK, NoShard
<1>5. ReaderTypeOK
  BY DEF ReaderTypeOK, Counts, NoCount, NoneRead
<1>6. SendingHasPacket
  BY DEF SendingHasPacket, Idle
<1> QED
  BY <1>1, <1>2, <1>3, <1>4, <1>5, <1>6 DEF TypeInv, TypeOK

-----------------------------------------------------------------------------
LEMMA SenderStepType ==
  ASSUME TypeInv, NEW s \in Streams, Sender(s)
  PROVE  TypeInv'
<1> USE DEF TypeInv, TypeOK
<1>1. NetTypeOK'
  <2>1. CASE SendShard(s)
    <3>1. CurrentSend(s) \in 1..Len(sent[s])
      BY <2>1 DEF SendShard, SenderTypeOK, SendingHasPacket, CurrentSend
    <3>2. Shard(s, CurrentSend(s), sending[s].shard) \in Shards
      <4>1. sent[s] \in Seq([index : Index, count : Nat])
        BY DEF SenderTypeOK
      <4>2. sent[s][CurrentSend(s)] \in [index : Index, count : Nat]
        BY <3>1, <4>1, ElementOfSeq
      <4>3. sending[s].shard \in Nat /\ CurrentSend(s) \in Nat
        BY <3>1 DEF SenderTypeOK
      <4> QED
        BY <4>2, <4>3 DEF Shard, Shards
    <3> QED
      BY <2>1, <3>2 DEF SendShard, NetTypeOK
  <2>2. CASE ~SendShard(s)
    BY <2>2 DEF Sender, BeginSend, EndSend, FailSend, netVars, NetTypeOK
  <2> QED
    BY <2>1, <2>2
<1>2. SenderTypeOK' /\ SendingHasPacket'
  <2>1. ASSUME NEW count \in ShardCounts[s], BeginSend(s, count)
        PROVE  SenderTypeOK' /\ SendingHasPacket'
    <3>1. count \in Nat
      BY SizeAssumption
    <3> DEFINE call == [index |-> nextIndex[s], count |-> count]
    <3>2. call \in [index : Index, count : Nat]
      BY <3>1 DEF SenderTypeOK
    <3>3. sent[s] \in Seq([index : Index, count : Nat])
      BY DEF SenderTypeOK
    <3> HIDE DEF call
    <3>4. /\ Append(sent[s], call) \in Seq([index : Index, count : Nat])
          /\ Append(sent[s], call) # <<>>
      BY <3>2, <3>3, AppendProperties
    <3> QED
      BY <2>1, <3>4 DEF call, BeginSend, SenderTypeOK, SendingHasPacket
  <2>2. CASE SendShard(s)
    <3>1. sending[s] \in [active : BOOLEAN, shard : Nat]
      BY DEF SenderTypeOK
    <3>2. [sending[s] EXCEPT !.shard = sending[s].shard + 1] \in [active : BOOLEAN, shard : Nat]
      BY <3>1
    <3> QED
      BY <2>2, <3>2 DEF SendShard, SenderTypeOK, SendingHasPacket
  <2>3. CASE EndSend(s)
    BY <2>3, IndexArithmetic DEF EndSend, SenderTypeOK, SendingHasPacket, Idle
  <2>4. CASE FailSend(s)
    <3>1. errors' \in 0..MaxErrors
      BY <2>4, BoundAssumption DEF FailSend, SenderTypeOK
    <3> QED
      BY <2>4, <3>1 DEF FailSend, SenderTypeOK, SendingHasPacket, Idle
  <2> QED
    BY <2>1, <2>2, <2>3, <2>4 DEF Sender
<1>3. UNCHANGED <<statVars, bufferVars, free, queue, readerVars>>
  BY DEF Sender, BeginSend, SendShard, EndSend, FailSend
<1>4. StatTypeOK' /\ BufferTypeOK' /\ ReaderTypeOK'
  BY <1>3 DEF statVars, bufferVars, readerVars, StatTypeOK, BufferTypeOK, ReaderTypeOK
<1> QED
  BY <1>1, <1>2, <1>4

LEMMA NetworkStepType ==
  ASSUME TypeInv, Network
  PROVE  TypeInv'
<1> USE DEF TypeInv, TypeOK
<1>1. PICK sh \in net : LoseShard(sh)
  BY DEF Network
<1>2. NetTypeOK'
  BY <1>1, BoundAssumption DEF LoseShard, NetTypeOK
<1>3. UNCHANGED <<senderVars, statVars, bufferVars, free, queue, readerVars>>
  BY <1>1 DEF LoseShard
<1>4. SenderTypeOK' /\ StatTypeOK' /\ BufferTypeOK' /\ ReaderTypeOK' /\ SendingHasPacket'
  BY <1>3 DEF senderVars, statVars, bufferVars, readerVars, SenderTypeOK, StatTypeOK,
              BufferTypeOK, ReaderTypeOK, SendingHasPacket
<1> QED
  BY <1>2, <1>4

LEMMA AddCountsType ==
  ASSUME NEW a \in Counts, NEW b \in Counts
  PROVE  AddCounts(a, b) \in Counts
  BY DEF Counts, AddCounts

(* Counting a shard keeps the types of the statistics. *)
LEMMA CountShardType ==
  ASSUME StatTypeOK, NEW sh \in Shards, CountShard(sh)
  PROVE  StatTypeOK'
<1>1. CASE sh.stream # VIDEO
  BY <1>1 DEF CountShard, statVars, StatTypeOK
<1>2. CASE sh.stream = VIDEO
  <2> DEFINE key == <<sh.index, sh.shard>>
  <2>1. key \in Index \X Nat
    BY DEF Shards
  <2>2. mapRx' \subseteq Index \X Nat
    BY <1>2, <2>1 DEF CountShard, StatTypeOK
  <2>3. rx' \in Counts
    BY <1>2 DEF CountShard, StatTypeOK, AddCounts, Counts
  <2>4. highest' \in Highest
    <3>1. AsI32(sh.index) \in Int /\ sh.shard \in Int
      BY SizeAssumption DEF AsI32, Shards, Index
    <3>2. highest \in Highest
      BY DEF StatTypeOK
    <3>3. NewHighest(sh) \in Highest
      BY <3>1, <3>2 DEF NewHighest, Highest
    <3> QED
      BY <1>2, <3>3 DEF CountShard
  <2>5. arrivals' \in [distinct : SUBSET (Index \X Nat), forgotten : Nat, total : Nat]
    BY <1>2, <2>1 DEF CountShard, StatTypeOK
  <2> QED
    BY <2>2, <2>3, <2>4, <2>5 DEF StatTypeOK
<1> QED
  BY <1>1, <1>2

(* So does choosing a buffer, for the state of the buffers. *)
LEMMA ChooseBufferType ==
  ASSUME BufferTypeOK, NEW sh \in Shards, ChooseBuffer(sh), UNCHANGED queue
  PROVE  BufferTypeOK'
<1> DEFINE s == sh.stream
<1>1. s \in Streams /\ sh.index \in Index
  BY DEF Shards
<1>2. recvState' \in {NoShard} \cup [kind : {"read", "discard"}, shard : Shards]
  BY DEF ChooseBuffer, Reading, Discarding
<1> DEFINE Typed == /\ free' \in [Streams -> Nat]
                    /\ inProgress' \in [Streams -> SUBSET Index]
                    /\ stored' \in [Streams -> SUBSET Shards]
<1>3. ASSUME UNCHANGED <<free, inProgress, stored>>
      PROVE  Typed
  BY <1>3 DEF BufferTypeOK
<1>4. ASSUME free[s] > 0,
             free' = [free EXCEPT ![s] = @ - 1],
             inProgress' = [inProgress EXCEPT ![s] = @ \cup {sh.index}],
             stored' = stored
      PROVE  Typed
  <2>1. free' \in [Streams -> Nat]
    BY <1>1, <1>4 DEF BufferTypeOK
  <2>2. inProgress' \in [Streams -> SUBSET Index]
    BY <1>1, <1>4 DEF BufferTypeOK
  <2> QED
    BY <1>4, <2>1, <2>2 DEF BufferTypeOK
<1>5. ASSUME NEW victim \in inProgress[s],
             inProgress' = [inProgress EXCEPT ![s] = (@ \ {victim}) \cup {sh.index}],
             stored' = [stored EXCEPT ![s] = @ \ ShardsOf(s, victim)],
             free' = free
      PROVE  Typed
  <2>1. inProgress' \in [Streams -> SUBSET Index]
    BY <1>1, <1>5 DEF BufferTypeOK
  <2>2. stored' \in [Streams -> SUBSET Shards]
    BY <1>1, <1>5 DEF BufferTypeOK
  <2> QED
    BY <1>5, <2>1, <2>2 DEF BufferTypeOK
<1>6. Typed
  BY <1>3, <1>4, <1>5 DEF ChooseBuffer
<1> QED
  BY <1>2, <1>6 DEF BufferTypeOK

LEMMA PeekShardType ==
  ASSUME TypeInv, NEW sh \in net, PeekShard(sh)
  PROVE  TypeInv'
<1> USE DEF TypeInv, TypeOK
<1>1. sh \in Shards
  BY DEF NetTypeOK
<1>2. NetTypeOK'
  BY BoundAssumption DEF PeekShard, TakeFromNet, NetTypeOK
<1>3. StatTypeOK'
  BY <1>1, CountShardType DEF PeekShard
<1>4. BufferTypeOK'
  BY <1>1, ChooseBufferType DEF PeekShard
<1>5. SenderTypeOK' /\ ReaderTypeOK' /\ SendingHasPacket'
  BY DEF PeekShard, senderVars, readerVars, SenderTypeOK, ReaderTypeOK, SendingHasPacket
<1> QED
  BY <1>2, <1>3, <1>4, <1>5

LEMMA ReadDiscardedType ==
  ASSUME TypeInv, ReadDiscarded
  PROVE  TypeInv'
  BY DEF TypeInv, TypeOK, ReadDiscarded, senderVars, netVars, statVars, readerVars,
         SenderTypeOK, NetTypeOK, StatTypeOK, BufferTypeOK, ReaderTypeOK, SendingHasPacket

(* A shard that is being read is a shard of some packet, and so is what it *)
(* is stored with.                                                         *)
LEMMA ReadingType ==
  ASSUME BufferTypeOK, recvState.kind = "read"
  PROVE  LET sh == recvState.shard
         IN  /\ sh \in Shards
             /\ sh.stream \in Streams
             /\ sh.index \in Index
             /\ StoredWith(sh) \in SUBSET Shards
             /\ Received(sh) \in SUBSET Shards
<1> DEFINE sh == recvState.shard
<1>1. sh \in Shards
  BY DEF BufferTypeOK, NoShard
<1>2. sh.stream \in Streams /\ sh.index \in Index
  BY <1>1 DEF Shards
<1>3. stored[sh.stream] \in SUBSET Shards
  BY <1>2 DEF BufferTypeOK
<1>4. StoredWith(sh) \in SUBSET Shards
  BY <1>1, <1>3 DEF StoredWith
<1> QED
  BY <1>1, <1>2, <1>4 DEF Received

LEMMA StoreShardType ==
  ASSUME TypeInv, StoreShard
  PROVE  TypeInv'
<1> USE DEF TypeInv, TypeOK
<1>1. BufferTypeOK'
  <2> DEFINE sh == recvState.shard
  <2>1. sh.stream \in Streams /\ StoredWith(sh) \in SUBSET Shards
    BY ReadingType DEF StoreShard
  <2>2. stored' \in [Streams -> SUBSET Shards]
    BY <2>1 DEF StoreShard, BufferTypeOK
  <2> QED
    BY <2>2 DEF StoreShard, BufferTypeOK
<1>2. SenderTypeOK' /\ NetTypeOK' /\ StatTypeOK' /\ ReaderTypeOK' /\ SendingHasPacket'
  BY DEF StoreShard, senderVars, netVars, statVars, readerVars,
         SenderTypeOK, NetTypeOK, StatTypeOK, ReaderTypeOK, SendingHasPacket
<1> QED
  BY <1>1, <1>2

LEMMA CompletePacketType ==
  ASSUME TypeInv, CompletePacket
  PROVE  TypeInv'
<1> USE DEF TypeInv, TypeOK
<1> DEFINE sh == recvState.shard
           s == sh.stream
           gone == Older(s, sh.index) \ {sh.index}
<1>1. /\ sh \in Shards
      /\ s \in Streams
      /\ sh.index \in Index
      /\ Received(sh) \in SUBSET Shards
  BY ReadingType DEF CompletePacket
<1>2. StatTypeOK'
  BY DEF CompletePacket, ResetVideoCounters, StatTypeOK, statVars, NoCount, Counts
<1>3. BufferTypeOK'
  <2>1. queue' \in [Streams -> Seq(Packets)]
    <3>1. Reconstructed(sh) \in Packets
      BY <1>1 DEF Reconstructed, Packets, StatTypeOK
    <3>2. queue[s] \in Seq(Packets)
      BY <1>1 DEF BufferTypeOK
    <3>3. Append(queue[s], Reconstructed(sh)) \in Seq(Packets)
      BY <3>1, <3>2, AppendProperties
    <3> QED
      BY <1>1, <3>3 DEF CompletePacket, BufferTypeOK
  <2>2. free' \in [Streams -> Nat]
    <3>1. gone \in SUBSET Index
      BY <1>1 DEF Older, BufferTypeOK
    <3>2. Cardinality(gone) \in Nat
      BY <3>1, IndexSetsFinite
    <3> QED
      BY <1>1, <3>2 DEF CompletePacket, BufferTypeOK
  <2>3. inProgress' \in [Streams -> SUBSET Index]
    BY <1>1 DEF CompletePacket, BufferTypeOK
  <2>4. stored' \in [Streams -> SUBSET Shards]
    BY <1>1 DEF CompletePacket, BufferTypeOK
  <2> QED
    BY <2>1, <2>2, <2>3, <2>4 DEF CompletePacket, BufferTypeOK
<1>4. SenderTypeOK' /\ NetTypeOK' /\ ReaderTypeOK' /\ SendingHasPacket'
  BY DEF CompletePacket, senderVars, netVars, readerVars,
         SenderTypeOK, NetTypeOK, ReaderTypeOK, SendingHasPacket
<1> QED
  BY <1>2, <1>3, <1>4

(* The first packet of a queue, and the rest. *)
LEMMA HeadType ==
  ASSUME BufferTypeOK, NEW s \in Streams, queue[s] # <<>>
  PROVE  /\ Head(queue[s]) \in Packets
         /\ Tail(queue[s]) \in Seq(Packets)
         /\ Len(Tail(queue[s])) = Len(queue[s]) - 1
<1>1. queue[s] \in Seq(Packets)
  BY DEF BufferTypeOK
<1> QED
  BY <1>1, HeadTailProperties

LEMMA ReceiverStepType ==
  ASSUME TypeInv, NEW s \in Streams, Receiver(s)
  PROVE  TypeInv'
<1> USE DEF TypeInv, TypeOK
<1> DEFINE packet == Head(queue[s])
<1>1. BufferTypeOK'
  <2>1. CASE DropReceiverData(s)
    BY <2>1 DEF DropReceiverData, bufferVars, BufferTypeOK
  <2>2. CASE DropOldPacket(s)
    <3>1. Tail(queue[s]) \in Seq(Packets)
      BY <2>2, HeadType DEF DropOldPacket
    <3> QED
      BY <2>2, <3>1 DEF DropOldPacket, bufferVars, BufferTypeOK
  <2>3. CASE ReadPacket(s)
    <3>1. Tail(queue[s]) \in Seq(Packets)
      BY <2>3, HeadType DEF ReadPacket
    <3> QED
      BY <2>3, <3>1 DEF ReadPacket, bufferVars, BufferTypeOK
  <2> QED
    BY <2>1, <2>2, <2>3 DEF Receiver
<1>2. ReaderTypeOK'
  <2>1. CASE DropReceiverData(s)
    BY <2>1 DEF DropReceiverData, ReaderTypeOK
  <2>2. CASE DropOldPacket(s)
    <3>1. packet.counts \in Counts
      BY <2>2, HeadType DEF DropOldPacket, Packets
    <3>2. AddCounts(acc[s], packet.counts) \in Counts
      BY <3>1, AddCountsType DEF ReaderTypeOK
    <3> QED
      BY <2>2, <3>2 DEF DropOldPacket, ReaderTypeOK
  <2>3. CASE ReadPacket(s)
    <3>1. packet \in Packets
      BY <2>3, HeadType DEF ReadPacket
    <3>2. packet.index \in Index /\ packet.counts \in Counts
      BY <3>1 DEF Packets
    <3>3. SkippedBefore(s, packet.index) \in Nat
      <4>1. CASE lastIndex[s] \in Index
        <5>1. WrappingAdd(lastIndex[s], 1) \in Index
          BY <4>1, IndexArithmetic
        <5>2. WrappingSub(packet.index, WrappingAdd(lastIndex[s], 1)) \in Index
          BY <3>2, <5>1, IndexArithmetic
        <5>3. Index \subseteq Nat
          BY SizeAssumption DEF Index
        <5> QED
          BY <5>2, <5>3 DEF SkippedBefore
      <4>2. CASE lastIndex[s] = NoneRead
        BY <4>2 DEF SkippedBefore
      <4> QED
        BY <4>1, <4>2 DEF ReaderTypeOK
    <3>4. Origin(s, packet.shards) \in Nat
      BY DEF Origin
    <3>5. reported' \in Counts
      BY <2>3, <3>2, AddCountsType DEF ReadPacket, ReaderTypeOK
    <3>6. lastIndex' \in [Streams -> Index \cup {NoneRead}]
      BY <2>3, <3>2 DEF ReadPacket, ReaderTypeOK
    <3>7. latest' \in [Streams -> [attempt : Nat, skipped : Nat, loss : BOOLEAN]]
      BY <2>3, <3>3, <3>4 DEF ReadPacket, ReaderTypeOK
    <3>8. acc' \in [Streams -> Counts] /\ held' \in [Streams -> {0, 1}]
      BY <2>3 DEF ReadPacket, ReaderTypeOK, NoCount, Counts
    <3> QED
      BY <3>5, <3>6, <3>7, <3>8 DEF ReaderTypeOK
  <2> QED
    BY <2>1, <2>2, <2>3 DEF Receiver
<1>3. SenderTypeOK' /\ NetTypeOK' /\ StatTypeOK' /\ SendingHasPacket'
  BY DEF Receiver, DropReceiverData, DropOldPacket, ReadPacket, senderVars, netVars, statVars,
         SenderTypeOK, NetTypeOK, StatTypeOK, SendingHasPacket
<1> QED
  BY <1>1, <1>2, <1>3

LEMMA NextType == TypeInv /\ [Next]_vars => TypeInv'
<1> SUFFICES ASSUME TypeInv, [Next]_vars PROVE TypeInv'
  OBVIOUS
<1>1. ASSUME NEW s \in Streams, Sender(s) PROVE TypeInv'
  BY <1>1, SenderStepType
<1>2. ASSUME NEW s \in Streams, Receiver(s) PROVE TypeInv'
  BY <1>2, ReceiverStepType
<1>3. CASE Network
  BY <1>3, NetworkStepType
<1>4. CASE Socket
  BY <1>4, PeekShardType, ReadDiscardedType, StoreShardType, CompletePacketType DEF Socket
<1>5. CASE UNCHANGED vars
  BY <1>5 DEF vars, senderVars, netVars, statVars, bufferVars, readerVars, TypeInv, TypeOK,
              SenderTypeOK, NetTypeOK, StatTypeOK, BufferTypeOK, ReaderTypeOK, SendingHasPacket
<1> QED
  BY <1>1, <1>2, <1>3, <1>4, <1>5 DEF Next

(* The types, and that a send in progress is the last one recorded.        *)
THEOREM TypeInvariant == Spec => []TypeInv
  BY InitType, NextType, PTL DEF Spec

(* Every variable keeps its type, for all constants. *)
THEOREM TypeCorrect == Spec => []TypeOK
<1>1. TypeInv => TypeOK
  BY DEF TypeInv
<1> QED
  BY <1>1, TypeInvariant, PTL

-----------------------------------------------------------------------------
(* BufferConservation.  It is inductive together with the fact that the    *)
(* packet a shard is being read for has a buffer: completing the packet    *)
(* moves that buffer to the queue.                                         *)

ReadHasBuffer ==
  recvState.kind = "read" => recvState.shard.index \in inProgress[recvState.shard.stream]

BuffersOf(s) == free[s] + Cardinality(inProgress[s]) + Len(queue[s]) + held[s]

BufferInv == ReadHasBuffer /\ \A s \in Streams : BuffersOf(s) = MaxBuffers

(* The four terms of BuffersOf are numbers. *)
LEMMA BufferTerms ==
  ASSUME BufferTypeOK, ReaderTypeOK, NEW s \in Streams
  PROVE  /\ free[s] \in Nat
         /\ inProgress[s] \in SUBSET Index
         /\ IsFiniteSet(inProgress[s])
         /\ Cardinality(inProgress[s]) \in Nat
         /\ Len(queue[s]) \in Nat
         /\ held[s] \in {0, 1}
<1>1. queue[s] \in Seq(Packets) /\ inProgress[s] \in SUBSET Index
  BY DEF BufferTypeOK
<1> QED
  BY <1>1, LenProperties, IndexSetsFinite DEF BufferTypeOK, ReaderTypeOK

LEMMA InitBuffers == Init => BufferInv
  BY FS_EmptySet, SizeAssumption DEF Init, BufferInv, ReadHasBuffer, BuffersOf, NoShard

(* A stream whose four terms stay the same keeps its buffers. *)
LEMMA SameBuffers ==
  ASSUME NEW s \in Streams,
         free'[s] = free[s], inProgress'[s] = inProgress[s],
         queue'[s] = queue[s], held'[s] = held[s]
  PROVE  BuffersOf(s)' = BuffersOf(s)
  BY DEF BuffersOf

(* A shard that was peeked goes to the buffer its packet has, takes a free *)
(* one or one away from another packet, or is discarded.                   *)
LEMMA PeekShardBuffers ==
  ASSUME TypeInv, BufferInv, NEW sh \in net, PeekShard(sh)
  PROVE  BufferInv'
<1> USE DEF TypeInv, TypeOK
<1> DEFINE s == sh.stream
<1>1. s \in Streams /\ sh.index \in Index
  BY DEF NetTypeOK, Shards
<1>2. /\ inProgress \in [Streams -> SUBSET Index]
      /\ free \in [Streams -> Nat]
      /\ UNCHANGED <<queue, held>>
  BY DEF BufferTypeOK, PeekShard, readerVars
<1>3. /\ IsFiniteSet(inProgress[s])
      /\ Cardinality(inProgress[s]) \in Nat
      /\ Len(queue[s]) \in Nat
      /\ held[s] \in {0, 1}
  BY <1>1, BufferTerms
<1> DEFINE Kept == /\ ReadHasBuffer'
                   /\ \A t \in Streams \ {s} : free'[t] = free[t] /\ inProgress'[t] = inProgress[t]
                   /\ BuffersOf(s)' = BuffersOf(s)
<1>4. ASSUME UNCHANGED <<free, inProgress>>,
             \/ recvState' = Reading(sh) /\ sh.index \in inProgress[s]
             \/ recvState' = Discarding(sh)
      PROVE  Kept
  <2>1. ReadHasBuffer'
    BY <1>4 DEF ReadHasBuffer, Reading, Discarding
  <2> QED
    BY <1>2, <1>4, <2>1 DEF BuffersOf
<1>5. ASSUME sh.index \notin inProgress[s],
             free[s] > 0,
             free' = [free EXCEPT ![s] = @ - 1],
             inProgress' = [inProgress EXCEPT ![s] = @ \cup {sh.index}],
             recvState' = Reading(sh)
      PROVE  Kept
  <2>1. Cardinality(inProgress'[s]) = Cardinality(inProgress[s]) + 1
    BY <1>1, <1>2, <1>3, <1>5, FS_AddElement
  <2>2. BuffersOf(s)' = BuffersOf(s)
    BY <1>1, <1>2, <1>3, <1>5, <2>1 DEF BuffersOf
  <2>3. ReadHasBuffer'
    BY <1>1, <1>2, <1>5 DEF ReadHasBuffer, Reading
  <2> QED
    BY <1>2, <1>5, <2>2, <2>3
<1>6. ASSUME sh.index \notin inProgress[s],
             NEW victim \in inProgress[s],
             inProgress' = [inProgress EXCEPT ![s] = (@ \ {victim}) \cup {sh.index}],
             free' = free,
             recvState' = Reading(sh)
      PROVE  Kept
  <2> DEFINE others == inProgress[s] \ {victim}
  <2>1. IsFiniteSet(others) /\ Cardinality(others) = Cardinality(inProgress[s]) - 1
    BY <1>3, <1>6, FS_RemoveElement
  <2>2. Cardinality(others \cup {sh.index}) = Cardinality(others) + 1
    BY <1>6, <2>1, FS_AddElement
  <2>3. inProgress'[s] = others \cup {sh.index}
    BY <1>1, <1>2, <1>6
  <2>4. Cardinality(inProgress'[s]) = Cardinality(inProgress[s])
    BY <1>3, <2>1, <2>2, <2>3
  <2>6. BuffersOf(s)' = BuffersOf(s)
    BY <1>2, <1>6, <2>4 DEF BuffersOf
  <2>5. ReadHasBuffer'
    BY <1>6, <2>3 DEF ReadHasBuffer, Reading
  <2> QED
    BY <1>2, <1>6, <2>5, <2>6
<1>7. Kept
  BY <1>4, <1>5, <1>6 DEF PeekShard, ChooseBuffer
<1>8. \A t \in Streams : BuffersOf(t)' = BuffersOf(t)
  BY <1>2, <1>7, SameBuffers
<1> QED
  BY <1>7, <1>8 DEF BufferInv

(* The buffer of a completed packet moves to the queue, those of the older *)
(* packets become free.                                                    *)
LEMMA CompletePacketBuffers ==
  ASSUME TypeInv, BufferInv, CompletePacket
  PROVE  BufferInv'
<1> USE DEF TypeInv, TypeOK
<1>0. PICK sh \in Shards : sh = recvState.shard
  BY ReadingType DEF CompletePacket
<1>s. PICK s \in Streams : s = sh.stream
  BY DEF Shards
<1> DEFINE gone == Older(s, sh.index) \ {sh.index}
           rest == inProgress[s] \ gone
<1>1. sh.index \in Index /\ sh.index \in inProgress[s]
  BY <1>0, <1>s, ReadingType DEF CompletePacket, BufferInv, ReadHasBuffer
<1>2. /\ inProgress \in [Streams -> SUBSET Index]
      /\ free \in [Streams -> Nat]
      /\ queue \in [Streams -> Seq(Packets)]
      /\ UNCHANGED held
  BY DEF BufferTypeOK, CompletePacket, readerVars
<1>3. /\ IsFiniteSet(inProgress[s])
      /\ Cardinality(inProgress[s]) \in Nat
      /\ Len(queue[s]) \in Nat
      /\ held[s] \in {0, 1}
  BY BufferTerms
<1>4. gone \in SUBSET inProgress[s] /\ sh.index \notin gone
  BY DEF Older
<1>5. /\ IsFiniteSet(rest)
      /\ Cardinality(rest) = Cardinality(inProgress[s]) - Cardinality(gone)
      /\ Cardinality(gone) \in Nat
  <2>1. inProgress[s] \cap gone = gone
    BY <1>4
  <2>2. IsFiniteSet(gone) /\ Cardinality(gone) \in Nat
    BY <1>3, <1>4, FS_Subset, FS_CardinalityType
  <2> HIDE DEF gone
  <2> QED
    BY <1>3, <2>1, <2>2, FS_Difference
<1>6. Cardinality(rest \ {sh.index}) = Cardinality(rest) - 1
  BY <1>1, <1>4, <1>5, FS_RemoveElement
<1>7. inProgress'[s] = rest \ {sh.index}
  BY <1>0, <1>s, <1>2 DEF CompletePacket
<1>8. Len(queue'[s]) = Len(queue[s]) + 1
  <2>1. Reconstructed(sh) \in Packets
    BY <1>0, <1>s, ReadingType DEF CompletePacket, Reconstructed, Packets, StatTypeOK
  <2>2. queue'[s] = Append(queue[s], Reconstructed(sh))
    BY <1>0, <1>s, <1>2 DEF CompletePacket
  <2> QED
    BY <1>2, <2>1, <2>2, AppendProperties
<1>9. free'[s] = free[s] + Cardinality(gone)
  BY <1>0, <1>s, <1>2 DEF CompletePacket
<1>10. BuffersOf(s)' = BuffersOf(s)
  <2> HIDE DEF gone, rest
  <2>1. free[s] \in Nat
    BY <1>2
  <2>2. Cardinality(inProgress'[s]) = Cardinality(inProgress[s]) - Cardinality(gone) - 1
    BY <1>5, <1>6, <1>7
  <2>3. /\ Cardinality(inProgress'[s]) \in Int
        /\ Len(queue'[s]) \in Int
        /\ free'[s] \in Int
        /\ held[s] \in Int
    BY <1>3, <1>5, <1>8, <1>9, <2>1, <2>2
  <2>4. free'[s] + Cardinality(inProgress'[s]) + Len(queue'[s]) + held[s] = BuffersOf(s)
    BY <1>3, <1>5, <1>8, <1>9, <2>1, <2>2, <2>3 DEF BuffersOf
  <2> QED
    BY <1>2, <2>4 DEF BuffersOf
<1>11. ASSUME NEW t \in Streams \ {s}
       PROVE  BuffersOf(t)' = BuffersOf(t)
  BY <1>0, <1>s, <1>2, <1>11, SameBuffers DEF CompletePacket
<1>12. ReadHasBuffer'
  BY DEF CompletePacket, ReadHasBuffer, NoShard
<1> QED
  BY <1>10, <1>11, <1>12 DEF BufferInv

(* Reading or dropping a packet moves its buffer on. *)
LEMMA ReceiverStepBuffers ==
  ASSUME TypeInv, BufferInv, NEW s \in Streams, Receiver(s)
  PROVE  BufferInv'
<1> USE DEF TypeInv, TypeOK
<1>1. /\ UNCHANGED <<recvState, inProgress>>
      /\ free \in [Streams -> Nat]
      /\ queue \in [Streams -> Seq(Packets)]
      /\ held \in [Streams -> {0, 1}]
  BY DEF Receiver, DropOldPacket, ReadPacket, DropReceiverData, bufferVars, BufferTypeOK, ReaderTypeOK
<1>2. free[s] \in Nat /\ Cardinality(inProgress[s]) \in Nat /\ Len(queue[s]) \in Nat
  BY BufferTerms
<1>3. BuffersOf(s)' = BuffersOf(s)
  <2>1. CASE DropReceiverData(s)
    BY <1>1, <1>2, <2>1 DEF DropReceiverData, BuffersOf
  <2>2. CASE DropOldPacket(s)
    <3>1. Len(Tail(queue[s])) = Len(queue[s]) - 1
      BY <2>2, HeadType DEF DropOldPacket
    <3> QED
      BY <1>1, <1>2, <2>2, <3>1 DEF DropOldPacket, BuffersOf
  <2>3. CASE ReadPacket(s)
    <3>1. Len(Tail(queue[s])) = Len(queue[s]) - 1
      BY <2>3, HeadType DEF ReadPacket
    <3> QED
      BY <1>1, <1>2, <2>3, <3>1 DEF ReadPacket, BuffersOf
  <2> QED
    BY <2>1, <2>2, <2>3 DEF Receiver
<1>4. ASSUME NEW t \in Streams \ {s}
      PROVE  BuffersOf(t)' = BuffersOf(t)
  BY <1>1, <1>4, SameBuffers DEF Receiver, DropOldPacket, ReadPacket, DropReceiverData
<1> QED
  BY <1>1, <1>3, <1>4 DEF BufferInv, ReadHasBuffer

LEMMA NextBuffers == TypeInv /\ BufferInv /\ [Next]_vars => BufferInv'
<1> SUFFICES ASSUME TypeInv, BufferInv, [Next]_vars PROVE BufferInv'
  OBVIOUS
<1>1. ASSUME UNCHANGED <<free, inProgress, queue, held>>,
             recvState' \in {recvState, NoShard}
      PROVE  BufferInv'
  BY <1>1 DEF BufferInv, ReadHasBuffer, BuffersOf, NoShard
<1>2. ASSUME NEW s \in Streams, Sender(s) PROVE BufferInv'
  BY <1>1, <1>2 DEF Sender, BeginSend, SendShard, EndSend, FailSend, bufferVars, readerVars
<1>3. ASSUME NEW s \in Streams, Receiver(s) PROVE BufferInv'
  BY <1>3, ReceiverStepBuffers
<1>4. CASE Network
  BY <1>1, <1>4 DEF Network, LoseShard, bufferVars, readerVars
<1>5. CASE ReadDiscarded \/ StoreShard
  BY <1>1, <1>5 DEF ReadDiscarded, StoreShard, readerVars
<1>6. CASE Socket
  BY <1>5, <1>6, PeekShardBuffers, CompletePacketBuffers DEF Socket
<1>7. CASE UNCHANGED vars
  BY <1>1, <1>7 DEF vars, bufferVars, readerVars
<1> QED
  BY <1>2, <1>3, <1>4, <1>6, <1>7 DEF Next

(* No buffer of a stream is ever lost or used twice, for any number of     *)
(* buffers and streams and whatever the network and the socket do.         *)
THEOREM BuffersConserved == Spec => []BufferConservation
<1>1. BufferInv => BufferConservation
  BY DEF BufferInv, BuffersOf, BufferConservation
<1> QED
  BY <1>1, InitBuffers, NextBuffers, TypeInvariant, PTL DEF Spec

-----------------------------------------------------------------------------

(* Counting through the queue.  CountsQueued is a recursive function over  *)
(* the queue: that it exists, and what one packet more or less makes of    *)
(* it, takes induction, which rests on the least number principle.         *)

LEMMA SmallestOfSet ==
  ASSUME NEW S, S \subseteq Nat, S # {}
  PROVE  \E x \in S : \A y \in S : x <= y
<1>1. PICK R : R = OpToRel(<, Nat)
  OBVIOUS
<1>2. IsWellFoundedOn(R, Nat)
  BY <1>1, NatLessThanWellFounded
<1>3. PICK x \in S : \A y \in S : ~(<<y, x>> \in R)
  BY <1>2, WFMin
<1>4. ASSUME NEW y \in S PROVE x <= y
  <2>1. <<y, x>> \in R <=> y < x
    BY <1>1 DEF OpToRel
  <2> QED
    BY <1>3, <2>1
<1> QED
  BY <1>4

LEMMA SetInduction ==
  ASSUME NEW S, 0 \in S, \A n \in Nat : n \in S => n + 1 \in S
  PROVE  \A n \in Nat : n \in S
<1> SUFFICES ASSUME Nat \ S # {} PROVE FALSE
  OBVIOUS
<1>1. PICK x \in Nat \ S : \A y \in Nat \ S : x <= y
  BY SmallestOfSet
<1>2. x - 1 \in Nat /\ (x - 1) + 1 = x
  OBVIOUS
<1>3. x - 1 \in S
  BY <1>1, <1>2
<1> QED
  BY <1>2, <1>3

(* f adds up the counters of a sequence of packets. *)
AddsUp(f, q) ==
  f = [i \in 0..Len(q) |-> IF i = 0 THEN NoCount ELSE AddCounts(f[i - 1], q[i].counts)]

CountsOf(q) ==
  LET upTo[i \in 0..Len(q)] ==
        IF i = 0 THEN NoCount ELSE AddCounts(upTo[i - 1], q[i].counts)
  IN  upTo[Len(q)]

LEMMA CountsExist ==
  ASSUME NEW q \in Seq(Packets)
  PROVE  \E f : AddsUp(f, q)
<1> DEFINE UpTo(g, n) ==
             g = [i \in 0..n |-> IF i = 0 THEN NoCount ELSE AddCounts(g[i - 1], q[i].counts)]
           S == {n \in Nat : \E g : UpTo(g, n)}
<1>1. 0 \in S
  <2>1. UpTo([i \in 0..0 |-> NoCount], 0)
    OBVIOUS
  <2> QED
    BY <2>1
<1>2. ASSUME NEW n \in Nat, n \in S
      PROVE  n + 1 \in S
  <2>1. PICK g : UpTo(g, n)
    BY <1>2
  <2> DEFINE h == [i \in 0..(n + 1) |->
                     IF i = n + 1 THEN AddCounts(g[n], q[n + 1].counts) ELSE g[i]]
  <2>2. \A i \in 0..(n + 1) :
          h[i] = IF i = 0 THEN NoCount ELSE AddCounts(h[i - 1], q[i].counts)
    <3> SUFFICES ASSUME NEW i \in 0..(n + 1)
                 PROVE  h[i] = IF i = 0 THEN NoCount ELSE AddCounts(h[i - 1], q[i].counts)
      OBVIOUS
    <3>1. \A j \in 0..n : g[j] = IF j = 0 THEN NoCount ELSE AddCounts(g[j - 1], q[j].counts)
      BY <2>1
    <3>2. i # 0 => h[i - 1] = g[i - 1]
      OBVIOUS
    <3>3. CASE i = n + 1
      <4>1. i # 0 /\ h[i] = AddCounts(g[n], q[n + 1].counts) /\ h[i - 1] = g[n]
        BY <3>2, <3>3
      <4> QED
        BY <3>3, <4>1
    <3>4. CASE i # n + 1
      <4>1. i \in 0..n /\ h[i] = g[i]
        BY <3>4
      <4> QED
        BY <3>1, <3>2, <4>1
    <3> QED
      BY <3>3, <3>4
  <2>3. UpTo(h, n + 1)
    <3>1. h = [i \in 0..(n + 1) |-> h[i]]
      OBVIOUS
    <3> HIDE DEF h
    <3> QED
      BY <2>2, <3>1
  <2>4. \E k : UpTo(k, n + 1)
    <3> HIDE DEF h, UpTo
    <3> QED
      BY <2>3
  <2> HIDE DEF UpTo
  <2> QED
    BY <2>4
<1>3. Len(q) \in S
  <2>1. Len(q) \in Nat
    BY LenProperties
  <2> HIDE DEF S
  <2> QED
    BY <1>1, <1>2, <2>1, SetInduction
<1> QED
  BY <1>3 DEF AddsUp

LEMMA CountsDefined ==
  ASSUME NEW q \in Seq(Packets)
  PROVE  \E f : AddsUp(f, q) /\ CountsOf(q) = f[Len(q)]
<1> DEFINE f == CHOOSE g : AddsUp(g, q)
<1>1. AddsUp(f, q)
  BY CountsExist
<1>2. CountsOf(q) = f[Len(q)]
  BY DEF CountsOf, AddsUp
<1> QED
  BY <1>1, <1>2

LEMMA AddCountsFacts ==
  ASSUME NEW a \in Counts, NEW b \in Counts, NEW c \in Counts
  PROVE  /\ AddCounts(a, b) \in Counts
         /\ AddCounts(a, b).fresh = a.fresh + b.fresh
         /\ AddCounts(a, b).again = a.again + b.again
         /\ AddCounts(AddCounts(a, b), c) = AddCounts(a, AddCounts(b, c))
         /\ AddCounts(NoCount, a) = a /\ AddCounts(a, NoCount) = a
         /\ NoCount \in Counts
  BY DEF Counts, AddCounts, NoCount

LEMMA PacketCounts ==
  ASSUME NEW q \in Seq(Packets), NEW i \in 1..Len(q)
  PROVE  q[i].counts \in Counts
<1>1. q[i] \in Packets
  BY ElementOfSeq
<1> QED
  BY <1>1 DEF Packets

LEMMA AddsUpType ==
  ASSUME NEW q \in Seq(Packets), NEW f, AddsUp(f, q)
  PROVE  /\ \A i \in 0..Len(q) : f[i] \in Counts
         /\ f[0] = NoCount
         /\ \A i \in 1..Len(q) : f[i] = AddCounts(f[i - 1], q[i].counts)
<1>1. Len(q) \in Nat /\ \A i \in 1..Len(q) : q[i].counts \in Counts
  BY LenProperties, PacketCounts
<1>2. \A i \in 0..Len(q) : f[i] = IF i = 0 THEN NoCount ELSE AddCounts(f[i - 1], q[i].counts)
  BY DEF AddsUp
<1>3. f[0] = NoCount /\ \A i \in 1..Len(q) : f[i] = AddCounts(f[i - 1], q[i].counts)
  BY <1>1, <1>2
<1> DEFINE S == {n \in Nat : n <= Len(q) => f[n] \in Counts}
<1>4. 0 \in S
  BY <1>3 DEF NoCount, Counts
<1>5. ASSUME NEW n \in Nat, n \in S PROVE n + 1 \in S
  <2> SUFFICES ASSUME n + 1 <= Len(q) PROVE f[n + 1] \in Counts
    OBVIOUS
  <2>1. f[n] \in Counts /\ n + 1 \in 1..Len(q) /\ (n + 1) - 1 = n
    BY <1>1, <1>5
  <2>2. f[n + 1] = AddCounts(f[n], q[n + 1].counts)
    BY <1>3, <2>1
  <2> QED
    BY <1>1, <2>1, <2>2, AddCountsFacts
<1>6. \A n \in Nat : n \in S
  <2> HIDE DEF S
  <2> QED
    BY <1>4, <1>5, SetInduction
<1> QED
  BY <1>1, <1>3, <1>6

LEMMA CountsType ==
  ASSUME NEW q \in Seq(Packets)
  PROVE  CountsOf(q) \in Counts
<1>1. PICK f : AddsUp(f, q) /\ CountsOf(q) = f[Len(q)]
  BY CountsDefined
<1>2. Len(q) \in 0..Len(q)
  BY LenProperties
<1> QED
  BY <1>1, <1>2, AddsUpType

(* A packet at the end adds its counters. *)
LEMMA CountsAppend ==
  ASSUME NEW q \in Seq(Packets), NEW packet \in Packets
  PROVE  /\ CountsOf(q) \in Counts
         /\ CountsOf(Append(q, packet)) = AddCounts(CountsOf(q), packet.counts)
<1> DEFINE longer == Append(q, packet)
           n == Len(q)
<1>1. /\ n \in Nat
      /\ longer \in Seq(Packets) /\ Len(longer) = n + 1
      /\ longer[n + 1] = packet
      /\ \A i \in 1..n : longer[i] = q[i]
  BY LenProperties, AppendProperties
<1> HIDE DEF longer
<1>2. PICK f : AddsUp(f, q) /\ CountsOf(q) = f[n]
  BY CountsDefined
<1>3. PICK g : AddsUp(g, longer) /\ CountsOf(longer) = g[n + 1]
  BY <1>1, CountsDefined
<1>4. /\ \A i \in 0..n : f[i] \in Counts
      /\ f[0] = NoCount
      /\ \A i \in 1..n : f[i] = AddCounts(f[i - 1], q[i].counts)
  BY <1>2, AddsUpType
<1>5. /\ g[0] = NoCount
      /\ \A i \in 1..(n + 1) : g[i] = AddCounts(g[i - 1], longer[i].counts)
  BY <1>1, <1>3, AddsUpType
<1> HIDE DEF n
<1> DEFINE S == {i \in Nat : i <= n => g[i] = f[i]}
<1>6. 0 \in S
  BY <1>4, <1>5
<1>7. ASSUME NEW i \in Nat, i \in S PROVE i + 1 \in S
  <2> SUFFICES ASSUME i + 1 <= n PROVE g[i + 1] = f[i + 1]
    OBVIOUS
  <2>1. g[i] = f[i] /\ i + 1 \in 1..n /\ i + 1 \in 1..(n + 1) /\ (i + 1) - 1 = i
    BY <1>1, <1>7
  <2>2. f[i + 1] = AddCounts(f[i], q[i + 1].counts)
    BY <1>4, <2>1
  <2>3. g[i + 1] = AddCounts(g[i], longer[i + 1].counts)
    BY <1>5, <2>1
  <2> QED
    BY <1>1, <2>1, <2>2, <2>3
<1>8. \A i \in Nat : i \in S
  <2> HIDE DEF S
  <2> QED
    BY <1>6, <1>7, SetInduction
<1>9. g[n] = f[n] /\ f[n] \in Counts
  BY <1>1, <1>4, <1>8
<1>10. g[n + 1] = AddCounts(g[n], packet.counts)
  <2>1. n + 1 \in 1..(n + 1) /\ (n + 1) - 1 = n
    BY <1>1
  <2>2. g[n + 1] = AddCounts(g[n], longer[n + 1].counts)
    BY <1>5, <2>1
  <2> QED
    BY <1>1, <2>2
<1> QED
  BY <1>2, <1>3, <1>9, <1>10 DEF longer

(* A packet at the front is taken off with its counters. *)
LEMMA CountsTail ==
  ASSUME NEW q \in Seq(Packets), q # <<>>
  PROVE  /\ Head(q).counts \in Counts
         /\ CountsOf(Tail(q)) \in Counts
         /\ CountsOf(q) = AddCounts(Head(q).counts, CountsOf(Tail(q)))
<1> DEFINE rest == Tail(q)
           n == Len(rest)
<1>1. /\ n \in Nat
      /\ rest \in Seq(Packets) /\ Len(q) = n + 1
      /\ \A i \in 1..n : rest[i] = q[i + 1]
      /\ Head(q) = q[1] /\ Head(q) \in Packets
  BY HeadTailProperties, LenProperties, EmptySeq
<1> HIDE DEF rest
<1>2. PICK f : AddsUp(f, q) /\ CountsOf(q) = f[n + 1]
  BY <1>1, CountsDefined
<1>3. PICK g : AddsUp(g, rest) /\ CountsOf(rest) = g[n]
  BY <1>1, CountsDefined
<1>4. /\ f[0] = NoCount
      /\ \A i \in 1..(n + 1) : f[i] = AddCounts(f[i - 1], q[i].counts)
  BY <1>1, <1>2, AddsUpType
<1>5. /\ \A i \in 0..n : g[i] \in Counts
      /\ g[0] = NoCount
      /\ \A i \in 1..n : g[i] = AddCounts(g[i - 1], rest[i].counts)
  BY <1>1, <1>3, AddsUpType
<1>6. q[1].counts \in Counts /\ \A i \in 1..n : rest[i].counts \in Counts
  <2>1. 1 \in 1..Len(q)
    BY <1>1
  <2> QED
    BY <1>1, <2>1, PacketCounts
<1> HIDE DEF n
<1> DEFINE S == {i \in Nat : i <= n => f[i + 1] = AddCounts(q[1].counts, g[i])}
<1>7. 0 \in S
  <2>1. f[1] = AddCounts(f[0], q[1].counts)
    <3>1. 1 \in 1..(n + 1) /\ 1 - 1 = 0
      BY <1>1
    <3> QED
      BY <1>4, <3>1
  <2>2. f[0 + 1] = AddCounts(q[1].counts, g[0])
    BY <1>4, <1>5, <1>6, <2>1, AddCountsFacts
  <2> QED
    BY <2>2
<1>8. ASSUME NEW i \in Nat, i \in S PROVE i + 1 \in S
  <2> SUFFICES ASSUME i + 1 <= n PROVE f[(i + 1) + 1] = AddCounts(q[1].counts, g[i + 1])
    OBVIOUS
  <2>1. /\ i \in 0..n /\ i + 1 \in 1..n /\ (i + 1) - 1 = i
        /\ (i + 1) + 1 \in 1..(n + 1) /\ ((i + 1) + 1) - 1 = i + 1
    BY <1>1
  <2>2. f[i + 1] = AddCounts(q[1].counts, g[i])
    BY <1>1, <1>8
  <2>3. g[i + 1] = AddCounts(g[i], rest[i + 1].counts)
    BY <1>5, <2>1
  <2>4. f[(i + 1) + 1] = AddCounts(f[i + 1], q[(i + 1) + 1].counts)
    BY <1>4, <2>1
  <2>5. rest[i + 1] = q[(i + 1) + 1] /\ rest[i + 1].counts \in Counts /\ g[i] \in Counts
    BY <1>1, <1>5, <1>6, <2>1
  <2>6. AddCounts(AddCounts(q[1].counts, g[i]), rest[i + 1].counts)
          = AddCounts(q[1].counts, AddCounts(g[i], rest[i + 1].counts))
    <3>1. \A a, b, c \in Counts : AddCounts(AddCounts(a, b), c) = AddCounts(a, AddCounts(b, c))
      BY AddCountsFacts
    <3> QED
      BY <1>6, <2>5, <3>1
  <2> QED
    BY <2>2, <2>3, <2>4, <2>5, <2>6
<1>9. \A i \in Nat : i \in S
  <2> HIDE DEF S
  <2> QED
    BY <1>7, <1>8, SetInduction
<1>10. f[n + 1] = AddCounts(q[1].counts, g[n]) /\ g[n] \in Counts
  BY <1>1, <1>5, <1>9
<1> QED
  BY <1>1, <1>2, <1>3, <1>6, <1>10 DEF rest

-----------------------------------------------------------------------------
(* The shards counted so far: since the last completed frame, in the       *)
(* queue, in dropped packets, and reported.                                *)
Counted == AddCounts(AddCounts(rx, CountsOf(queue[VIDEO])), AddCounts(acc[VIDEO], reported))

(* map_rx never has a shard that did not arrive. *)
CountInv ==
  /\ TypeInv
  /\ mapRx \subseteq arrivals.distinct
  /\ IsFiniteSet(arrivals.distinct)
  /\ Counted.fresh + Counted.again = arrivals.total
  /\ Counted.fresh = Cardinality(arrivals.distinct) + arrivals.forgotten

LEMMA CountedType ==
  ASSUME TypeOK
  PROVE  /\ CountsOf(queue[VIDEO]) \in Counts
         /\ rx \in Counts /\ acc[VIDEO] \in Counts /\ reported \in Counts
         /\ Counted \in Counts
         /\ Counted.fresh = rx.fresh + CountsOf(queue[VIDEO]).fresh + acc[VIDEO].fresh + reported.fresh
         /\ Counted.again = rx.again + CountsOf(queue[VIDEO]).again + acc[VIDEO].again + reported.again
<1>1. queue[VIDEO] \in Seq(Packets)
  BY StreamAssumption DEF TypeOK, BufferTypeOK
<1>2. CountsOf(queue[VIDEO]) \in Counts
  BY <1>1, CountsType
<1>3. rx \in Counts /\ acc[VIDEO] \in Counts /\ reported \in Counts
  BY StreamAssumption DEF TypeOK, StatTypeOK, ReaderTypeOK
<1> QED
  BY <1>2, <1>3 DEF Counted, AddCounts, Counts

LEMMA InitCount == Init => CountInv
<1> SUFFICES ASSUME Init PROVE CountInv
  OBVIOUS
<1>1. TypeInv /\ TypeOK
  BY InitType DEF TypeInv
<1>2. queue[VIDEO] = <<>> /\ acc[VIDEO] = NoCount
  BY StreamAssumption DEF Init
<1>3. CountsOf(queue[VIDEO]) = NoCount
  <2>1. <<>> \in Seq(Packets) /\ Len(<<>>) = 0
    BY EmptySeq
  <2>2. PICK f : AddsUp(f, <<>>) /\ CountsOf(<<>>) = f[0]
    BY <2>1, CountsDefined
  <2> QED
    BY <1>2, <2>1, <2>2, AddsUpType
<1>4. Counted.fresh = 0 /\ Counted.again = 0
  BY <1>1, <1>2, <1>3, CountedType DEF Init, NoCount
<1>5. IsFiniteSet({}) /\ Cardinality({}) = 0
  BY FS_EmptySet
<1> QED
  BY <1>1, <1>4, <1>5 DEF Init, CountInv

(* A shard is new, or came before map_rx dropped its entry, or is in it. *)
LEMMA PeekCounts ==
  ASSUME CountInv, NEW sh \in net, PeekShard(sh), TypeInv'
  PROVE  CountInv'
<1>1. TypeOK /\ TypeOK'
  BY DEF CountInv, TypeInv
<1>2. UNCHANGED <<queue, acc, reported>>
  BY DEF PeekShard, readerVars
<1>3. CASE sh.stream # VIDEO
  <2>1. UNCHANGED <<rx, mapRx, arrivals>>
    BY <1>3 DEF PeekShard, CountShard, statVars
  <2> QED
    BY <1>2, <2>1 DEF CountInv, Counted
<1>4. CASE sh.stream = VIDEO
  <2> DEFINE key == <<sh.index, sh.shard>>
             seen == arrivals.distinct
             n == Cardinality(seen)
  <2>1. /\ mapRx' = mapRx \cup {key}
        /\ rx' = AddCounts(rx, IF key \in mapRx THEN [fresh |-> 0, again |-> 1]
                                                ELSE [fresh |-> 1, again |-> 0])
        /\ arrivals' = [distinct |-> seen \cup {key},
                        forgotten |-> arrivals.forgotten + (IF key \in seen \ mapRx THEN 1 ELSE 0),
                        total |-> arrivals.total + 1]
    BY <1>4 DEF PeekShard, CountShard
  <2>2. /\ n \in Nat
        /\ IsFiniteSet(seen \cup {key})
        /\ Cardinality(seen \cup {key}) = IF key \in seen THEN n ELSE n + 1
    BY FS_AddElement, FS_CardinalityType DEF CountInv
  <2>3. arrivals.forgotten \in Nat /\ arrivals.total \in Nat /\ rx \in Counts
    BY <1>1 DEF TypeOK, StatTypeOK
  <2>4. /\ arrivals'.distinct = seen \cup {key}
        /\ arrivals'.forgotten = arrivals.forgotten + (IF key \in seen \ mapRx THEN 1 ELSE 0)
        /\ arrivals'.total = arrivals.total + 1
    BY <2>1
  <2> HIDE DEF key, n
  <2>5. /\ Counted'.fresh = Counted.fresh + (IF key \in mapRx THEN 0 ELSE 1)
        /\ Counted'.again = Counted.again + (IF key \in mapRx THEN 1 ELSE 0)
    <3>1. /\ rx'.fresh = rx.fresh + (IF key \in mapRx THEN 0 ELSE 1)
          /\ rx'.again = rx.again + (IF key \in mapRx THEN 1 ELSE 0)
      BY <2>1, <2>3 DEF AddCounts, Counts
    <3>2. /\ Counted'.fresh = rx'.fresh + CountsOf(queue[VIDEO]).fresh + acc[VIDEO].fresh + reported.fresh
          /\ Counted'.again = rx'.again + CountsOf(queue[VIDEO]).again + acc[VIDEO].again + reported.again
      BY <1>1, <1>2, <2>1, <2>3, CountedType DEF Counted, AddCounts, Counts
    <3> QED
      BY <1>1, <2>3, <3>1, <3>2, CountedType DEF Counts
  <2>6. Counted.fresh \in Nat /\ Counted.again \in Nat
    BY <1>1, CountedType DEF Counts
  <2>7. mapRx' \subseteq arrivals'.distinct
    BY <2>1, <2>4 DEF CountInv
  <2>8. Counted'.fresh + Counted'.again = arrivals'.total
    BY <2>3, <2>4, <2>5, <2>6 DEF CountInv
  <2>9. Counted'.fresh = Cardinality(arrivals'.distinct) + arrivals'.forgotten
    <3>1. key \in mapRx => key \in seen
      BY DEF CountInv
    <3>2. Counted.fresh = n + arrivals.forgotten
      BY DEF CountInv, n
    <3> QED
      BY <2>2, <2>3, <2>4, <2>5, <2>6, <3>1, <3>2
  <2> QED
    BY <2>2, <2>4, <2>7, <2>8, <2>9 DEF CountInv
<1> QED
  BY <1>3, <1>4

(* What only moves counters from one place to the next *)
LEMMA MovesCounts ==
  ASSUME CountInv, TypeInv', UNCHANGED arrivals, mapRx' \subseteq mapRx, Counted' = Counted
  PROVE  CountInv'
  BY DEF CountInv

LEMMA CompleteCounts ==
  ASSUME CountInv, CompletePacket, TypeInv'
  PROVE  CountInv'
<1> DEFINE sh == recvState.shard
           packet == Reconstructed(sh)
<1>1. TypeOK /\ TypeOK' /\ UNCHANGED <<acc, reported>>
  BY DEF CountInv, TypeInv, CompletePacket, readerVars
<1>2. queue \in [Streams -> Seq(Packets)] /\ queue' \in [Streams -> Seq(Packets)]
  BY <1>1 DEF TypeOK, BufferTypeOK
<1>3. queue' = [queue EXCEPT ![sh.stream] = Append(@, packet)]
  BY DEF CompletePacket
<1>4. CASE sh.stream # VIDEO
  <2>1. UNCHANGED <<rx, mapRx, arrivals>>
    BY <1>4 DEF CompletePacket, ResetVideoCounters, statVars
  <2>2. queue'[VIDEO] = queue[VIDEO]
    BY <1>2, <1>3, <1>4
  <2>3. Counted' = Counted
    BY <1>1, <2>1, <2>2 DEF Counted
  <2> QED
    BY <2>1, <2>3, MovesCounts
<1>5. CASE sh.stream = VIDEO
  <2>1. rx' = NoCount /\ mapRx' \subseteq mapRx /\ UNCHANGED arrivals
    BY <1>5 DEF CompletePacket, ResetVideoCounters
  <2>2. queue'[VIDEO] = Append(queue[VIDEO], packet) /\ packet.counts = rx
    BY <1>2, <1>3, <1>5, StreamAssumption DEF Reconstructed
  <2> HIDE DEF packet
  <2>3. packet \in Packets
    <3>1. queue'[VIDEO] \in Seq(Packets) /\ queue[VIDEO] \in Seq(Packets)
      BY <1>2, StreamAssumption
    <3>2. Len(queue[VIDEO]) \in Nat
      BY <3>1, LenProperties
    <3>3. packet = queue'[VIDEO][Len(queue[VIDEO]) + 1] /\ Len(queue'[VIDEO]) = Len(queue[VIDEO]) + 1
      BY <2>2, <3>1
    <3> QED
      BY <3>1, <3>2, <3>3, ElementOfSeq
  <2>4. CountsOf(queue'[VIDEO]) = AddCounts(CountsOf(queue[VIDEO]), rx)
    <3>1. queue[VIDEO] \in Seq(Packets)
      BY <1>2, StreamAssumption
    <3> QED
      BY <2>2, <2>3, <3>1, CountsAppend
  <2>5. AddCounts(NoCount, AddCounts(CountsOf(queue[VIDEO]), rx)) = AddCounts(rx, CountsOf(queue[VIDEO]))
    BY <1>1, CountedType DEF AddCounts, Counts, NoCount
  <2>6. Counted' = Counted
    BY <1>1, <2>1, <2>4, <2>5 DEF Counted
  <2> QED
    BY <2>1, <2>6, MovesCounts
<1> QED
  BY <1>4, <1>5

LEMMA ReceiverCounts ==
  ASSUME CountInv, NEW s \in Streams, DropOldPacket(s) \/ ReadPacket(s), TypeInv'
  PROVE  CountInv'
<1> DEFINE packet == Head(queue[s])
<1>1. TypeOK /\ TypeOK' /\ UNCHANGED <<rx, mapRx, arrivals>>
  BY DEF CountInv, TypeInv, DropOldPacket, ReadPacket, statVars
<1>2. queue \in [Streams -> Seq(Packets)] /\ acc \in [Streams -> Counts] /\ VIDEO \in Streams
  BY <1>1, StreamAssumption DEF TypeOK, BufferTypeOK, ReaderTypeOK
<1>3. queue' = [queue EXCEPT ![s] = Tail(@)] /\ queue[s] # <<>>
  BY DEF DropOldPacket, ReadPacket
<1>4. CASE s # VIDEO
  <2>1. queue'[VIDEO] = queue[VIDEO] /\ acc'[VIDEO] = acc[VIDEO] /\ reported' = reported
    BY <1>2, <1>3, <1>4 DEF DropOldPacket, ReadPacket
  <2>2. Counted' = Counted
    BY <1>1, <2>1 DEF Counted
  <2> QED
    BY <1>1, <2>2, MovesCounts
<1>5. CASE s = VIDEO
  <2>1. /\ queue'[VIDEO] = Tail(queue[VIDEO])
        /\ queue[VIDEO] \in Seq(Packets) /\ queue[VIDEO] # <<>>
    BY <1>2, <1>3, <1>5
  <2>2. /\ packet.counts \in Counts
        /\ CountsOf(queue'[VIDEO]) \in Counts
        /\ CountsOf(queue[VIDEO]) = AddCounts(packet.counts, CountsOf(queue'[VIDEO]))
    BY <1>5, <2>1, CountsTail
  <2>3. AddCounts(acc'[VIDEO], reported') =
          AddCounts(AddCounts(acc[VIDEO], packet.counts), reported)
    <3>1. CASE DropOldPacket(s)
      BY <1>2, <1>5, <3>1 DEF DropOldPacket
    <3>2. CASE ReadPacket(s)
      <4>1. acc'[VIDEO] = NoCount /\ reported' = AddCounts(reported, AddCounts(acc[VIDEO], packet.counts))
        BY <1>2, <1>5, <3>2 DEF ReadPacket
      <4>2. acc[VIDEO] \in Counts /\ reported \in Counts
        BY <1>1, CountedType
      <4> HIDE DEF packet
      <4> QED
        BY <2>2, <4>1, <4>2 DEF AddCounts, Counts, NoCount
    <3> QED
      BY <3>1, <3>2
  <2> HIDE DEF packet
  <2>4. Counted' = Counted
    <3>1. rx \in Counts /\ acc[VIDEO] \in Counts /\ reported \in Counts
      BY <1>1, CountedType
    <3>2. AddCounts(AddCounts(rx, CountsOf(queue'[VIDEO])),
                    AddCounts(AddCounts(acc[VIDEO], packet.counts), reported))
            = AddCounts(AddCounts(rx, AddCounts(packet.counts, CountsOf(queue'[VIDEO]))),
                        AddCounts(acc[VIDEO], reported))
      BY <2>2, <3>1 DEF AddCounts, Counts
    <3> QED
      BY <1>1, <2>2, <2>3, <3>2 DEF Counted
  <2> QED
    BY <1>1, <2>4, MovesCounts
<1> QED
  BY <1>4, <1>5

LEMMA NextCount == CountInv /\ [Next]_vars => CountInv'
<1> SUFFICES ASSUME CountInv, [Next]_vars PROVE CountInv'
  OBVIOUS
<1>1. TypeInv'
  BY NextType DEF CountInv
<1>2. CASE UNCHANGED <<rx, queue, acc, reported, mapRx, arrivals>>
  <2>1. Counted' = Counted
    BY <1>2 DEF Counted
  <2> QED
    BY <1>1, <1>2, <2>1, MovesCounts
<1>3. ASSUME NEW sh \in net, PeekShard(sh) PROVE CountInv'
  BY <1>1, <1>3, PeekCounts
<1>4. CASE CompletePacket
  BY <1>1, <1>4, CompleteCounts
<1>5. ASSUME NEW s \in Streams, DropOldPacket(s) \/ ReadPacket(s) PROVE CountInv'
  BY <1>1, <1>5, ReceiverCounts
<1>6. \/ UNCHANGED <<rx, queue, acc, reported, mapRx, arrivals>>
      \/ \E sh \in net : PeekShard(sh)
      \/ CompletePacket
      \/ \E s \in Streams : DropOldPacket(s) \/ ReadPacket(s)
  BY DEF Next, vars, senderVars, netVars, statVars, bufferVars, readerVars, Sender, BeginSend,
         SendShard, EndSend, FailSend, Receiver, DropReceiverData, Network, LoseShard, Socket,
         ReadDiscarded, StoreShard
<1> QED
  BY <1>2, <1>3, <1>4, <1>5, <1>6

(* Every video shard that arrives is reported once, as new or as a         *)
(* duplicate, whatever is lost, dropped or recycled, and also when indices *)
(* wrap around and writes fail.                                            *)
THEOREM ShardsAreCountedOnce == Spec => []ShardsCountedOnce
<1>1. CountInv => ShardsCountedOnce
  BY DEF CountInv, Counted, CountsOf, CountsQueued, ShardsCountedOnce
<1> QED
  BY <1>1, InitCount, NextCount, PTL DEF Spec
=============================================================================
