------------------------- MODULE StreamSocketChannel -------------------------
(***************************************************************************)
(* The stream socket implements PacketChannel as long as no write to the   *)
(* socket fails.                                                           *)
(***************************************************************************)
EXTENDS StreamSocket

channelLog == [s \in Streams |-> [i \in 1..Len(sent[s]) |-> sent[s][i].count]]

channelLatest ==
  [s \in Streams |-> [position |-> latest[s].attempt,
                      skipped |-> latest[s].skipped,
                      loss |-> latest[s].loss]]

Channel == INSTANCE PacketChannel
             WITH Contents <- UNION {ShardCounts[s] : s \in Streams},
                  log <- channelLog,
                  latest <- channelLatest

(* Every step of the stream socket is a send, a read or no step of the     *)
(* channel of ordered packets with gaps that its users rely on.            *)
ImplementsChannel == Channel!ChannelSpec
=============================================================================
