----------------------------- MODULE LinuxCapture -----------------------------
(***************************************************************************)
(* Frames on their way from the swapchains of the compositor to the        *)
(* encoder of the server on Linux.  A page flip thread connects to the     *)
(* socket of the encoder when it submits its first image, and writes one   *)
(* packet for each image.  The thread of the encoder accepts one client,   *)
(* reads the latest packet, looks for the pose, renders from the image of  *)
(* the swapchain and encodes.                                              *)
(***************************************************************************)
EXTENDS Swapchain

CONSTANTS
  PipeCapacity,   \* bound: packets the socket holds before a write fails
  EncodedChains   \* bound: swapchains that are created while the encoder runs

VARIABLES
  connected,  \* m_connected
  closed,     \* closed[c]: the swapchain closed m_socket
  pipe,       \* pipe[c]: images of the packets written and not read
  latest,     \* latest[c]: image submitted last
  backlog,    \* connections that wait for accept
  enc         \* CEncoder::Run, its client, and frame_info.image

encVars == <<connected, closed, pipe, latest, backlog, enc>>
socketVars == <<swapVars, connected, closed, latest>>
linuxVars == <<swapVars, encVars>>

LinuxInit ==
  /\ SwapInit
  /\ connected = [c \in Chains |-> FALSE]
  /\ closed = [c \in Chains |-> FALSE]
  /\ pipe = [c \in Chains |-> <<>>]
  /\ latest = [c \in Chains |-> NoImage]
  /\ backlog = <<>>
  /\ enc = [pc |-> "off", client |-> NoChain, image |-> NoImage]

(* The socket is there, though it is accepted from once only. *)
Listening == enc.pc \notin {"off", "stopped"}

(* submit_image: connect if need be, then write without waiting; a packet  *)
(* that does not go through is not written again.                          *)
Submit(c, i) ==
  LET connects == ~connected[c] /\ ~closed[c] /\ Listening
  IN  /\ latest' = [latest EXCEPT ![c] = i]
      /\ connected' = [connected EXCEPT ![c] = @ \/ connects]
      /\ backlog' = IF connects THEN Append(backlog, c) ELSE backlog
      /\ pipe' = IF connected'[c] /\ ~closed[c] /\ Len(pipe[c]) < PipeCapacity
                   THEN [pipe EXCEPT ![c] = Append(@, i)] ELSE pipe

TakeAndSubmit(c) ==
  /\ TakePending(c)
  /\ Submit(c, Head(ring[c]))
  /\ UNCHANGED <<closed, enc>>

(* ~swapchain closes the socket, which the first submit_image opens, before *)
(* the teardown.                                                           *)
Destroy(c) ==
  /\ BeginTeardown(c)
  /\ closed' = [closed EXCEPT ![c] = latest[c] # NoImage]
  /\ UNCHANGED <<connected, pipe, latest, backlog, enc>>

(* With more swapchains than EncodedChains there is no encoder. *)
WithinScope == enc.pc # "off" => \A c \in Chains : c > EncodedChains => life'[c] = "none"

Compositor ==
  \/ AppCall /\ WithinScope /\ UNCHANGED encVars
  \/ (AppStep \/ \E c \in Chains : FlipStep(c)) /\ UNCHANGED encVars
  \/ \E c \in Chains : TakeAndSubmit(c) \/ Destroy(c)

-----------------------------------------------------------------------------
(* The encoder thread *)

Listen ==
  /\ enc.pc = "off"
  /\ \A c \in Chains : c > EncodedChains => life[c] = "none"
  /\ enc' = [enc EXCEPT !.pc = "listen"]
  /\ UNCHANGED <<socketVars, pipe, backlog>>

(* accept_timeout, and the packet and descriptors that follow it *)
Accept ==
  /\ enc.pc = "listen"
  /\ backlog # <<>>
  /\ backlog' = Tail(backlog)
  /\ enc' = [enc EXCEPT !.pc = "read", !.client = Head(backlog)]
  /\ UNCHANGED <<socketVars, pipe>>

(* read_latest: a packet replaces the one read before it ... *)
ReadPacket ==
  LET c == enc.client
  IN  /\ enc.pc \in {"read", "more"}
      /\ pipe[c] # <<>>
      /\ pipe' = [pipe EXCEPT ![c] = Tail(@)]
      /\ enc' = [enc EXCEPT !.pc = "more", !.image = Head(pipe[c])]
      /\ UNCHANGED <<socketVars, backlog>>

(* ... until nothing more is there.  The end of a closed socket counts as  *)
(* something to read that never comes.  When the pose history, which       *)
(* SetTransform clears, has no match, the frame is left.                   *)
ReadEnds ==
  /\ enc.pc = "more"
  /\ pipe[enc.client] = <<>>
  /\ ~closed[enc.client]
  /\ enc' \in {[enc EXCEPT !.pc = "render"], [enc EXCEPT !.pc = "read", !.image = NoImage]}
  /\ UNCHANGED <<socketVars, pipe, backlog>>

(* Render, PushFrame and GetEncoded, whether or not it returns a packet *)
Encode ==
  /\ enc.pc = "render"
  /\ enc' = [enc EXCEPT !.pc = "read", !.image = NoImage]
  /\ UNCHANGED <<socketVars, pipe, backlog>>

(* An exception once it had a client, or Stop, which unlinks the socket *)
EncoderEnds(pc) ==
  /\ \/ pc = "failed" /\ enc.client # NoChain
     \/ pc = "stopped" /\ enc.pc \notin {"off", "stopped"}
  /\ enc' = [pc |-> pc, client |-> NoChain, image |-> NoImage]
  /\ UNCHANGED <<socketVars, pipe, backlog>>

LinuxNext ==
  \/ Compositor
  \/ Listen \/ Accept \/ ReadPacket \/ ReadEnds \/ Encode
  \/ \E pc \in {"failed", "stopped"} : EncoderEnds(pc)

-----------------------------------------------------------------------------
(* Properties *)

(* Every variable has its type. *)
LinuxTypeOK ==
  /\ connected \in [Chains -> BOOLEAN]
  /\ closed \in [Chains -> BOOLEAN]
  /\ pipe \in [Chains -> Seq(Images)]
  /\ latest \in [Chains -> Images \cup {NoImage}]
  /\ backlog \in Seq(Chains)
  /\ enc \in [pc : {"off", "listen", "read", "more", "render", "failed", "stopped"},
              client : Chains \cup {NoChain}, image : Images \cup {NoImage}]

(* The encoder renders from no image the application draws into, unless a *)
(* newer one was submitted since.                                          *)
NewestNotDrawnInto ==
  enc.pc = "render" /\ enc.image = latest[enc.client]
    => image[enc.client][enc.image] # "ACQUIRED"
=============================================================================
