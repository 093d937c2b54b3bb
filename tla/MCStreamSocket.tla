---------------------------- MODULE MCStreamSocket ----------------------------
(***************************************************************************)
(* Instances of StreamSocket for TLC: one video stream whose frames have   *)
(* one or two shards, and one with one shard per frame.                    *)
(***************************************************************************)
EXTENDS StreamSocketChannel

MixedFrames == [s \in Streams |-> {1, 2}]
SmallFrames == [s \in Streams |-> {1}]
=============================================================================
