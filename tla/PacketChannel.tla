--------------------------- MODULE PacketChannel ---------------------------
(***************************************************************************)
(* What a pair StreamSender / StreamReceiver (alvr/sockets) promises its   *)
(* users: one channel per stream ID.  A packet that is read was sent and   *)
(* is whole, packets are read in the order they were sent, each at most    *)
(* once, any of them may be missing, and a packet read after a gap says    *)
(* how many packets the gap holds.  A gap before the first packet read is  *)
(* not reported: the receiver has nothing to compare the first index with. *)
(***************************************************************************)
EXTENDS Integers, Sequences

CONSTANTS
  Streams,    \* the stream IDs in use
  Contents    \* what a packet can hold

VARIABLES
  log,        \* log[s]: the contents of the packets sent on s, in order
  latest      \* latest[s]: what the last successful read on s returned

channelVars == <<log, latest>>

NothingRead == [position |-> 0, skipped |-> 0, loss |-> FALSE]

ChannelInit ==
  /\ log = [s \in Streams |-> <<>>]
  /\ latest = [s \in Streams |-> NothingRead]

ChannelSend(s, content) ==
  /\ log' = [log EXCEPT ![s] = Append(@, content)]
  /\ UNCHANGED latest

(* Reads the packet at some later position of the log.  What is read is    *)
(* the content of that position, so the position stands for both.          *)
ChannelRead(s, position) ==
  LET last == latest[s].position
      skipped == IF last = 0 THEN 0 ELSE position - last - 1
  IN  /\ position \in (last + 1)..Len(log[s])
      /\ latest' = [latest EXCEPT ![s] = [position |-> position,
                                          skipped |-> skipped,
                                          loss |-> skipped > 0]]
      /\ UNCHANGED log

ChannelNext ==
  \E s \in Streams :
    \/ \E content \in Contents : ChannelSend(s, content)
    \/ \E position \in 1..Len(log[s]) : ChannelRead(s, position)

ChannelSpec == ChannelInit /\ [][ChannelNext]_channelVars
=============================================================================
