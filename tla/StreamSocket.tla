---------------------------- MODULE StreamSocket ----------------------------
(***************************************************************************)
(* The stream socket of alvr/sockets/src/stream_socket.rs over UDP: one    *)
(* StreamSender per stream cuts packets into shards, the network loses,    *)
(* reorders and duplicates shards, StreamSocket::recv puts packets         *)
(* together again in recycled buffers, and one StreamReceiver per stream   *)
(* drops the packets that come too late and reports the gaps.  TCP is the  *)
(* special case in which shards are neither lost, nor reordered, nor       *)
(* duplicated.                                                             *)
(*                                                                         *)
(* Actors: the thread that owns each StreamSender, the thread that calls   *)
(* StreamSocket::recv, and the thread that owns each StreamReceiver.  The  *)
(* writer mutex is taken per shard, so sends interleave shard by shard.    *)
(***************************************************************************)
EXTENDS Integers, Sequences, FiniteSets

CONSTANTS
  Streams,        \* the stream IDs in use, all of them subscribed
  VIDEO,          \* the stream the socket keeps statistics of
  MaxBuffers,     \* max_concurrent_buffers of subscribe_to_stream
  IndexMod,       \* packet indices are computed modulo this: 2^32 in the code
  KeepWindow,     \* packets map_rx is kept for: 5 in the code
  ShardCounts,    \* ShardCounts[s]: the sizes, in shards, of the packets sent on s
  MaxPackets,     \* bound: sends per stream
  MaxLag,         \* bound: sends a shard can be late by
  MaxDuplicates,  \* bound: shards the network delivers once more
  MaxLost,        \* bound: shards the network loses
  MaxErrors       \* bound: failed writes to the socket

ASSUME StreamAssumption == VIDEO \in Streams
ASSUME SizeAssumption ==
  /\ MaxBuffers \in Nat
  /\ ShardCounts \in [Streams -> SUBSET Nat]
  /\ IndexMod \in Nat \ {0, 1}
  /\ KeepWindow \in 0..(IndexMod - 1)
ASSUME BoundAssumption ==
  /\ MaxPackets \in Nat
  /\ MaxLag \in Nat
  /\ MaxDuplicates \in Nat
  /\ MaxLost \in Nat
  /\ MaxErrors \in Nat

VARIABLES
  sent,        \* sent[s]: every call of send so far, its index and size (history)
  nextIndex,   \* nextIndex[s]: next_packet_index
  sending,     \* sending[s]: the send in progress and the next shard it writes
  errors,      \* writes that failed so far
  net,         \* shards in the network and in the kernel's receive buffer
  lost,        \* shards lost so far
  duplicates,  \* shards delivered once more so far
  recvState,   \* shard_recv_state: the shard being read
  free,        \* free[s]: length of the used_buffer queue
  inProgress,  \* inProgress[s]: keys of in_progress_packets
  stored,      \* stored[s]: the shards in the buffers of those packets
  queue,       \* queue[s]: reconstructed packets the receiver has not taken
  mapRx,       \* map_rx: the video shards counted, by packet and shard index
  rx,          \* counters of video shards since the last completed frame
  highest,     \* highest_rx_frame_index and highest_rx_shard_index
  lastIndex,   \* lastIndex[s]: last_packet_index
  acc,         \* acc[s]: shard counters of packets dropped since the last one read
  held,        \* held[s]: 1 while the application uses a ReceiverData
  latest,      \* latest[s]: what the last successful recv returned (history)
  arrivals,    \* video shards that arrived; forgotten: again, after map_rx dropped them (history)
  reported     \* video shards reported to the application (history)

senderVars == <<sent, nextIndex, sending, errors>>
netVars == <<net, lost, duplicates>>
statVars == <<mapRx, rx, highest, arrivals>>
bufferVars == <<inProgress, stored, recvState>>
readerVars == <<lastIndex, acc, held, latest, reported>>
vars == <<senderVars, netVars, statVars, bufferVars, free, queue, readerVars>>

-----------------------------------------------------------------------------
(* Indices are u32: they wrap, and are compared by their distance. *)

(* Mutant: the index does not wrap around. *)
UnboundedAdd(a, b) == a + b

(* Mutant: a difference below zero is cut off. *)
SaturatingSub(a, b) == IF a >= b THEN a - b ELSE 0

WrappingAdd(a, b) == IF a + b < IndexMod THEN a + b ELSE a + b - IndexMod
WrappingSub(a, b) == IF a >= b THEN a - b ELSE a + IndexMod - b

wrapping_cmp(lhs, rhs) ==
  LET diff == WrappingSub(lhs, rhs)
  IN  IF diff = 0 THEN "Equal"
      ELSE IF diff < (IndexMod - 1) \div 2 THEN "Greater" ELSE "Less"

(* `packet_index as i32` *)
AsI32(index) == IF index < IndexMod \div 2 THEN index ELSE index - IndexMod

-----------------------------------------------------------------------------
(* The prefix of a shard, and attempt: which call of send wrote it.  The   *)
(* attempt stands for the payload, no code reads it.                       *)
Shard(s, attempt, shard) ==
  [stream |-> s,
   index |-> sent[s][attempt].index,
   count |-> sent[s][attempt].count,
   shard |-> shard,
   attempt |-> attempt]

PacketShards(s, attempt) ==
  {Shard(s, attempt, i) : i \in 0..(sent[s][attempt].count - 1)}

NoShard == [kind |-> "none"]
Reading(shard) == [kind |-> "read", shard |-> shard]
Discarding(shard) == [kind |-> "discard", shard |-> shard]

NoneRead == -1
NoCount == [fresh |-> 0, again |-> 0]
AddCounts(a, b) == [fresh |-> a.fresh + b.fresh, again |-> a.again + b.again]
Idle == [active |-> FALSE, shard |-> 0]

Init ==
  /\ sent = [s \in Streams |-> <<>>]
  /\ nextIndex = [s \in Streams |-> 0]
  /\ sending = [s \in Streams |-> Idle]
  /\ errors = 0
  /\ net = {}
  /\ lost = 0
  /\ duplicates = 0
  /\ recvState = NoShard
  /\ free = [s \in Streams |-> MaxBuffers]
  /\ inProgress = [s \in Streams |-> {}]
  /\ stored = [s \in Streams |-> {}]
  /\ queue = [s \in Streams |-> <<>>]
  /\ mapRx = {}
  /\ rx = NoCount
  /\ highest = [frame |-> -1, shard |-> -1]
  /\ lastIndex = [s \in Streams |-> NoneRead]
  /\ acc = [s \in Streams |-> NoCount]
  /\ held = [s \in Streams |-> 0]
  /\ latest = [s \in Streams |-> [attempt |-> 0, skipped |-> 0, loss |-> FALSE]]
  /\ arrivals = [distinct |-> {}, forgotten |-> 0, total |-> 0]
  /\ reported = NoCount

-----------------------------------------------------------------------------
(* StreamSender::send.  A packet without data has no shard and still takes *)
(* an index.                                                               *)

CurrentSend(s) == Len(sent[s])

(* Bound: no shard stays in the network or in the hands of the socket, and *)
(* no packet in the receiver's queue, for more than MaxLag further sends.  *)
Overdue(s) ==
  LET underWay == net \cup (IF recvState = NoShard THEN {} ELSE {recvState.shard})
                      \cup UNION {queue[s][i].shards : i \in 1..Len(queue[s])}
  IN  \E sh \in underWay : sh.stream = s /\ CurrentSend(s) - sh.attempt >= MaxLag

BeginSend(s, count) ==
  /\ ~sending[s].active
  /\ CurrentSend(s) < MaxPackets
  /\ ~Overdue(s)
  /\ sent' = [sent EXCEPT ![s] = Append(@, [index |-> nextIndex[s], count |-> count])]
  /\ sending' = [sending EXCEPT ![s] = [active |-> TRUE, shard |-> 0]]
  /\ UNCHANGED <<nextIndex, errors, netVars, statVars, bufferVars, free, queue, readerVars>>

SendShard(s) ==
  LET i == sending[s].shard
  IN  /\ sending[s].active
      /\ i < sent[s][CurrentSend(s)].count
      /\ net' = net \cup {Shard(s, CurrentSend(s), i)}
      /\ sending' = [sending EXCEPT ![s].shard = i + 1]
      /\ UNCHANGED <<sent, nextIndex, errors, lost, duplicates>>
      /\ UNCHANGED <<statVars, bufferVars, free, queue, readerVars>>

EndSend(s) ==
  /\ sending[s].active
  /\ sending[s].shard = sent[s][CurrentSend(s)].count
  /\ nextIndex' = [nextIndex EXCEPT ![s] = WrappingAdd(@, 1)]
  /\ sending' = [sending EXCEPT ![s] = Idle]
  /\ UNCHANGED <<sent, errors, netVars, statVars, bufferVars, free, queue, readerVars>>

(* The write fails and `?` leaves send: the shards already written stay    *)
(* written, and the next packet gets the same index.                       *)
FailSend(s) ==
  /\ errors < MaxErrors
  /\ sending[s].active
  /\ sending[s].shard < sent[s][CurrentSend(s)].count
  /\ errors' = errors + 1
  /\ sending' = [sending EXCEPT ![s] = Idle]
  /\ UNCHANGED <<sent, nextIndex, netVars, statVars, bufferVars, free, queue, readerVars>>

-----------------------------------------------------------------------------
(* The network, outside the repository. *)

LoseShard(sh) ==
  /\ lost < MaxLost
  /\ lost' = lost + 1
  /\ net' = net \ {sh}
  /\ UNCHANGED <<senderVars, duplicates, statVars, bufferVars, free, queue, readerVars>>

(* The shard the next read of the socket returns, and what is left.  A     *)
(* shard is peeked and then read: it leaves the network when it is peeked. *)
TakeFromNet(sh) ==
  \/ /\ net' = net \ {sh}
     /\ UNCHANGED <<lost, duplicates>>
  \/ /\ duplicates < MaxDuplicates
     /\ duplicates' = duplicates + 1
     /\ UNCHANGED <<net, lost>>

-----------------------------------------------------------------------------
(* StreamSocket::recv, first half: peek the prefix, count the shard if it  *)
(* is video, and choose the buffer it goes to.                             *)

(* Mutant: the highest shard is kept, the frame it belongs to is not. *)
NewHighestShard(sh) ==
  [highest EXCEPT !.shard = IF @ < sh.shard THEN sh.shard ELSE @]

NewHighest(sh) ==
  LET frame == AsI32(sh.index)
  IN  IF highest.frame = frame
      THEN [highest EXCEPT !.shard = IF @ < sh.shard THEN sh.shard ELSE @]
      ELSE IF highest.frame < frame
           THEN [frame |-> frame, shard |-> sh.shard]
           ELSE highest

CountShard(sh) ==
  LET key == <<sh.index, sh.shard>>
  IN  IF sh.stream = VIDEO
      THEN /\ highest' = NewHighest(sh)
           /\ mapRx' = mapRx \cup {key}
           /\ rx' = AddCounts(rx, IF key \in mapRx THEN [fresh |-> 0, again |-> 1]
                                                   ELSE [fresh |-> 1, again |-> 0])
           /\ arrivals' = [distinct |-> arrivals.distinct \cup {key},
                           forgotten |-> arrivals.forgotten +
                             (IF key \in arrivals.distinct \ mapRx THEN 1 ELSE 0),
                           total |-> arrivals.total + 1]
      ELSE UNCHANGED statVars

ShardsOf(s, index) == {sh \in stored[s] : sh.index = index}

(* in_progress_packets is a HashMap: which packet loses its buffer when no *)
(* used buffer is left is arbitrary.                                       *)
ChooseBuffer(sh) ==
  LET s == sh.stream
  IN  \/ /\ sh.index \in inProgress[s]
         /\ recvState' = Reading(sh)
         /\ UNCHANGED <<free, inProgress, stored>>
      \/ /\ sh.index \notin inProgress[s]
         /\ free[s] > 0
         /\ free' = [free EXCEPT ![s] = @ - 1]
         /\ inProgress' = [inProgress EXCEPT ![s] = @ \cup {sh.index}]
         /\ recvState' = Reading(sh)
         /\ UNCHANGED stored
      \/ /\ sh.index \notin inProgress[s]
         /\ free[s] = 0
         /\ \E victim \in inProgress[s] :
              /\ inProgress' = [inProgress EXCEPT ![s] = (@ \ {victim}) \cup {sh.index}]
              /\ stored' = [stored EXCEPT ![s] = @ \ ShardsOf(s, victim)]
         /\ recvState' = Reading(sh)
         /\ UNCHANGED free
      \/ /\ sh.index \notin inProgress[s]
         /\ free[s] = 0
         /\ inProgress[s] = {}
         /\ recvState' = Discarding(sh)
         /\ UNCHANGED <<free, inProgress, stored>>

PeekShard(sh) ==
  /\ recvState = NoShard
  /\ TakeFromNet(sh)
  /\ CountShard(sh)
  /\ ChooseBuffer(sh)
  /\ UNCHANGED <<senderVars, queue, readerVars>>

-----------------------------------------------------------------------------
(* StreamSocket::recv, second half: the bytes of the shard are read, in    *)
(* this call or, after a timeout, in a later one that finds recvState set. *)

ReadDiscarded ==
  /\ recvState.kind = "discard"
  /\ recvState' = NoShard
  /\ UNCHANGED <<senderVars, netVars, statVars, free, inProgress, stored, queue, readerVars>>

(* A shard that was received before is written over itself. *)
StoredWith(sh) ==
  {old \in stored[sh.stream] : <<old.index, old.shard>> # <<sh.index, sh.shard>>} \cup {sh}

Received(sh) == {other \in StoredWith(sh) : other.index = sh.index}

(* Mutant: the last shard of a packet completes it. *)
CompletesWithLast(sh) == sh.shard = sh.count - 1

Completes(sh) == Cardinality(Received(sh)) = sh.count

StoreShard ==
  LET sh == recvState.shard
  IN  /\ recvState.kind = "read"
      /\ ~Completes(sh)
      /\ stored' = [stored EXCEPT ![sh.stream] = StoredWith(sh)]
      /\ recvState' = NoShard
      /\ UNCHANGED <<senderVars, netVars, statVars, free, inProgress, queue, readerVars>>

Older(s, index) == {q \in inProgress[s] : wrapping_cmp(q, index) = "Less"}

ResetVideoCounters(s, index) ==
  IF s = VIDEO
  THEN /\ rx' = NoCount
       /\ mapRx' = {key \in mapRx :
                      wrapping_cmp(WrappingAdd(key[1], KeepWindow), index) # "Less"}
       /\ UNCHANGED <<highest, arrivals>>
  ELSE UNCHANGED statVars

(* rx_shard_counter and the other video counters are copied into every     *)
(* packet, whatever its stream; a receiver of another stream adds them up  *)
(* too, and nobody reads them there.                                       *)
Reconstructed(sh) ==
  [index |-> sh.index, shards |-> Received(sh), counts |-> rx, highest |-> highest]

CompletePacket ==
  LET sh == recvState.shard
      s == sh.stream
      gone == Older(s, sh.index) \ {sh.index}
  IN  /\ recvState.kind = "read"
      /\ Completes(sh)
      /\ queue' = [queue EXCEPT ![s] = Append(@, Reconstructed(sh))]
      /\ ResetVideoCounters(s, sh.index)
      /\ inProgress' = [inProgress EXCEPT ![s] = @ \ (gone \cup {sh.index})]
      /\ stored' = [stored EXCEPT ![s] =
                      {old \in @ : old.index \notin gone \cup {sh.index}}]
      /\ free' = [free EXCEPT ![s] = @ + Cardinality(gone)]
      /\ recvState' = NoShard
      /\ UNCHANGED <<senderVars, netVars, readerVars>>

-----------------------------------------------------------------------------
(* StreamReceiver::recv, and the drop of the ReceiverData it returned.     *)
(* Every receive loop of the clients of this module drops the one before   *)
(* it calls recv again.                                                    *)

(* Mutant: a packet is only old if it is before the last one read. *)
IsBeforeLast(s, index) ==
  /\ lastIndex[s] # NoneRead
  /\ wrapping_cmp(index, lastIndex[s]) = "Less"

(* Mutant: indices are compared as numbers. *)
IsSmaller(s, index) == lastIndex[s] # NoneRead /\ index < lastIndex[s] + 1

IsOld(s, index) ==
  /\ lastIndex[s] # NoneRead
  /\ wrapping_cmp(index, WrappingAdd(lastIndex[s], 1)) = "Less"

(* Mutant: the packet that is read counts as skipped. *)
SkippedSinceLast(s, index) ==
  IF lastIndex[s] # NoneRead /\ wrapping_cmp(index, WrappingAdd(lastIndex[s], 1)) = "Greater"
  THEN WrappingSub(index, lastIndex[s])
  ELSE 0

SkippedBefore(s, index) ==
  IF lastIndex[s] # NoneRead /\ wrapping_cmp(index, WrappingAdd(lastIndex[s], 1)) = "Greater"
  THEN WrappingSub(index, WrappingAdd(lastIndex[s], 1))
  ELSE 0

(* The send all shards of the packet come from; 0 if there is none, that   *)
(* is, if the packet is not one that was sent.                             *)
Origin(s, shards) ==
  IF \E attempt \in 1..Len(sent[s]) : shards = PacketShards(s, attempt)
  THEN CHOOSE attempt \in 1..Len(sent[s]) : shards = PacketShards(s, attempt)
  ELSE 0

(* Mutant: the buffer of an old packet is not returned. *)
DropOldPacketAndBuffer(s) ==
  LET packet == Head(queue[s])
  IN  /\ held[s] = 0
      /\ queue[s] # <<>>
      /\ IsOld(s, packet.index)
      /\ queue' = [queue EXCEPT ![s] = Tail(@)]
      /\ acc' = [acc EXCEPT ![s] = AddCounts(@, packet.counts)]
      /\ UNCHANGED <<senderVars, netVars, statVars, bufferVars, free>>
      /\ UNCHANGED <<lastIndex, held, latest, reported>>

(* Mutant: the counters of an old packet are dropped with it. *)
DropOldPacketAndCounts(s) ==
  LET packet == Head(queue[s])
  IN  /\ held[s] = 0
      /\ queue[s] # <<>>
      /\ IsOld(s, packet.index)
      /\ queue' = [queue EXCEPT ![s] = Tail(@)]
      /\ free' = [free EXCEPT ![s] = @ + 1]
      /\ UNCHANGED <<senderVars, netVars, statVars, bufferVars, readerVars>>

DropOldPacket(s) ==
  LET packet == Head(queue[s])
  IN  /\ held[s] = 0
      /\ queue[s] # <<>>
      /\ IsOld(s, packet.index)
      /\ queue' = [queue EXCEPT ![s] = Tail(@)]
      /\ acc' = [acc EXCEPT ![s] = AddCounts(@, packet.counts)]
      /\ free' = [free EXCEPT ![s] = @ + 1]
      /\ UNCHANGED <<senderVars, netVars, statVars, bufferVars>>
      /\ UNCHANGED <<lastIndex, held, latest, reported>>

ReadPacket(s) ==
  LET packet == Head(queue[s])
      skipped == SkippedBefore(s, packet.index)
  IN  /\ held[s] = 0
      /\ queue[s] # <<>>
      /\ ~IsOld(s, packet.index)
      /\ queue' = [queue EXCEPT ![s] = Tail(@)]
      /\ lastIndex' = [lastIndex EXCEPT ![s] = packet.index]
      /\ acc' = [acc EXCEPT ![s] = NoCount]
      /\ held' = [held EXCEPT ![s] = 1]
      /\ latest' = [latest EXCEPT ![s] = [attempt |-> Origin(s, packet.shards),
                                          skipped |-> skipped,
                                          loss |-> skipped > 0]]
      /\ reported' = IF s = VIDEO
                     THEN AddCounts(reported, AddCounts(acc[s], packet.counts))
                     ELSE reported
      /\ UNCHANGED <<senderVars, netVars, statVars, bufferVars, free>>

DropReceiverData(s) ==
  /\ held[s] = 1
  /\ held' = [held EXCEPT ![s] = 0]
  /\ free' = [free EXCEPT ![s] = @ + 1]
  /\ UNCHANGED <<senderVars, netVars, statVars, bufferVars, queue>>
  /\ UNCHANGED <<lastIndex, acc, latest, reported>>

-----------------------------------------------------------------------------
Sender(s) ==
  \/ \E count \in ShardCounts[s] : BeginSend(s, count)
  \/ SendShard(s)
  \/ EndSend(s)
  \/ FailSend(s)

Network == \E sh \in net : LoseShard(sh)

Socket ==
  \/ \E sh \in net : PeekShard(sh)
  \/ ReadDiscarded
  \/ StoreShard
  \/ CompletePacket

Receiver(s) ==
  \/ DropOldPacket(s)
  \/ ReadPacket(s)
  \/ DropReceiverData(s)

Next ==
  \/ \E s \in Streams : Sender(s) \/ Receiver(s)
  \/ Network
  \/ Socket

Spec == Init /\ [][Next]_vars

(* Every thread that got as far as a step takes it: a send that started    *)
(* goes on, the receive loops call recv again, ReceiverData goes out of    *)
(* scope at the end of an iteration.  Whether the application sends, and   *)
(* whether the network loses a shard, is up to them.                       *)
Fairness ==
  /\ WF_vars(Socket)
  /\ \A s \in Streams : /\ WF_vars(SendShard(s) \/ EndSend(s))
                        /\ WF_vars(DropOldPacket(s) \/ ReadPacket(s))
                        /\ WF_vars(DropReceiverData(s))

FairSpec == Spec /\ Fairness

-----------------------------------------------------------------------------
(* Properties *)

Index == 0..(IndexMod - 1)
Counts == [fresh : Nat, again : Nat]
Highest == [frame : Int, shard : Int]
Shards == [stream : Streams, index : Index, count : Nat, shard : Nat, attempt : Nat]
Packets == [index : Index, shards : SUBSET Shards, counts : Counts, highest : Highest]

SenderTypeOK ==
  /\ sent \in [Streams -> Seq([index : Index, count : Nat])]
  /\ nextIndex \in [Streams -> Index]
  /\ sending \in [Streams -> [active : BOOLEAN, shard : Nat]]
  /\ errors \in 0..MaxErrors

NetTypeOK ==
  /\ net \subseteq Shards
  /\ lost \in 0..MaxLost
  /\ duplicates \in 0..MaxDuplicates

StatTypeOK ==
  /\ mapRx \subseteq Index \X Nat
  /\ rx \in Counts
  /\ highest \in Highest
  /\ arrivals \in [distinct : SUBSET (Index \X Nat), forgotten : Nat, total : Nat]

BufferTypeOK ==
  /\ recvState \in {NoShard} \cup [kind : {"read", "discard"}, shard : Shards]
  /\ inProgress \in [Streams -> SUBSET Index]
  /\ stored \in [Streams -> SUBSET Shards]
  /\ free \in [Streams -> Nat]
  /\ queue \in [Streams -> Seq(Packets)]

ReaderTypeOK ==
  /\ lastIndex \in [Streams -> Index \cup {NoneRead}]
  /\ acc \in [Streams -> Counts]
  /\ held \in [Streams -> {0, 1}]
  /\ latest \in [Streams -> [attempt : Nat, skipped : Nat, loss : BOOLEAN]]
  /\ reported \in Counts

(* Every variable keeps its type: in particular an index stays a u32, as   *)
(* it is incremented and compared modulo IndexMod.                         *)
TypeOK == SenderTypeOK /\ NetTypeOK /\ StatTypeOK /\ BufferTypeOK /\ ReaderTypeOK

(* No buffer is ever lost or used twice: the max_concurrent_buffers        *)
(* buffers of a stream are in the used queue, in a packet being put        *)
(* together, in a packet waiting to be read, or with the application,      *)
(* whatever is recycled, discarded or dropped as too old.                  *)
BufferConservation ==
  \A s \in Streams :
    free[s] + Cardinality(inProgress[s]) + Len(queue[s]) + held[s] = MaxBuffers

(* Unless a write failed, a packet handed to the receiver consists of all  *)
(* the shards of one send and of nothing else, in spite of reordering,     *)
(* duplicates, and buffers that are taken away from unfinished packets.    *)
PacketsIntact ==
  errors = 0 =>
    \A s \in Streams : \A i \in 1..Len(queue[s]) : Origin(s, queue[s][i].shards) # 0

(* Unless a write failed, what recv returns only moves forward in the      *)
(* order of the sends: no packet is read twice or after a later one, even  *)
(* when the index wraps around.                                            *)
ReadInOrder ==
  [][\A s \in Streams :
       errors = 0 /\ latest'[s] # latest[s] => latest'[s].attempt > latest[s].attempt]_vars

(* Unless a write failed, the frames_skipped of the packets read so far    *)
(* are exactly the sends between them that were not read.                  *)
SkippedExact ==
  [][\A s \in Streams :
       errors = 0 /\ latest[s].attempt # 0 /\ latest'[s] # latest[s] =>
         latest'[s].skipped = latest'[s].attempt - latest[s].attempt - 1]_vars

CountsQueued ==
  LET upTo[i \in 0..Len(queue[VIDEO])] ==
        IF i = 0 THEN NoCount ELSE AddCounts(upTo[i - 1], queue[VIDEO][i].counts)
  IN  upTo[Len(queue[VIDEO])]

(* The video shard counters lose and invent nothing on their way from the  *)
(* socket through the queue and the packets dropped as old to the          *)
(* application.  A shard counts as new the first time it arrives, and again *)
(* only if map_rx has dropped its entry by then.                           *)
ShardsCountedOnce ==
  LET all == AddCounts(AddCounts(rx, CountsQueued), AddCounts(acc[VIDEO], reported))
  IN  /\ all.fresh + all.again = arrivals.total
      /\ all.fresh = Cardinality(arrivals.distinct) + arrivals.forgotten

AsU32(index) == IF index < 0 THEN index + IndexMod ELSE index

(* A video packet is never newer than the highest frame index reported     *)
(* with it.                                                                *)
HighestCoversPacket ==
  \A i \in 1..Len(queue[VIDEO]) :
    wrapping_cmp(AsU32(queue[VIDEO][i].highest.frame), queue[VIDEO][i].index) # "Less"

(* If the network loses nothing and there is a buffer for every packet,    *)
(* the newest packet of a stream is read, whatever is duplicated or        *)
(* reordered.                                                              *)
NewestIsRead ==
  \A s \in Streams : <>[](latest[s].attempt = Len(sent[s]))
=============================================================================
