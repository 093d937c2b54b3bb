--------------------------- MODULE MCServerLocks ---------------------------
EXTENDS ServerLocks

(* The largest sets of activities that do not block each other *)
Compatible ==
  {{x, y, z} : x \in {"disconnect", "frames"},
               y \in {"statistics", "frame_rate"},
               z \in {"tracking", "playspace"}}

(* Sets of activities that do *)
FramesAndDisconnect == {{"frames", "disconnect"}}
StatisticsAndFrameRate == {{"statistics", "frame_rate"}}
TrackingAndPlayspace == {{"tracking", "playspace", "disconnect"}}
=============================================================================
