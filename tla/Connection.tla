------------------------------ MODULE Connection ------------------------------
(***************************************************************************)
(* The life of the connections of the server: handshake_loop, which        *)
(* connects to clients that are Disconnected, a thread for each connection *)
(* (connection_pipeline, and what try_connect does after it), the threads  *)
(* of a connection that notice its end, the request of the dashboard to    *)
(* remove a client, and shutdown_driver.                                   *)
(*                                                                         *)
(* They share the client list, under the RwLock SERVER_DATA_MANAGER, and   *)
(* CLIENTS_TO_BE_REMOVED, under its Mutex.  What a thread does under a     *)
(* lock while it waits for nothing else is one step.  The clients are      *)
(* trusted: the user did so, or auto_trust_clients is on.                  *)
(***************************************************************************)
EXTENDS Integers, FiniteSets

CONSTANTS
  Clients,          \* hostnames
  MaxConnections,   \* bound: calls of try_connect that succeed
  MaxRequests,      \* bound: requests to remove a client or to shut down
  SlowWait          \* bound: whether threads run between the unlocking in
                    \* wait_rwlock and the wait on the condition variable

NoClient == "no client"

ASSUME ConnectionAssumption ==
  /\ MaxConnections \in Nat
  /\ MaxRequests \in Nat
  /\ SlowWait \in BOOLEAN
  /\ NoClient \notin Clients

Pipelines == 1..MaxConnections
NoOne == 0

(* stream_receive_thread does what keepalive_thread does. *)
Watchers == {"keepalive", "control", "lifecycle"}

VARIABLES
  list,        \* list[c]: connection_state of the entry of c, or absent
  marked,      \* CLIENTS_TO_BE_REMOVED
  writer,      \* who has the guard of SERVER_DATA_MANAGER.write()
  marker,      \* who has the guard of CLIENTS_TO_BE_REMOVED
  pipe,        \* pipe[p]: the thread that try_connect spawned
  gone,        \* connections that go on though their client left or is silent
  watch,       \* watch[p]: the threads of connection p that have not returned
  lost,        \* connections that go on and missed a notification
  hand,        \* handshake_loop
  web,         \* the handler of the request to remove a client
  requests,    \* requests of both kinds so far
  shut         \* shutdown_driver; once it began, LIFECYCLE_STATE is ShuttingDown

vars == <<list, marked, writer, marker, pipe, gone, watch, lost, hand, web,
          requests, shut>>
others == <<gone, lost, hand, requests, shut>>   \* changed by few actions

Init ==
  /\ list = [c \in Clients |-> "absent"]
  /\ marked = {}
  /\ writer = NoOne
  /\ marker = NoOne
  /\ pipe = [p \in Pipelines |-> [pc |-> "none", client |-> NoClient]]
  /\ gone = {}
  /\ watch = [p \in Pipelines |-> {}]
  /\ lost = {}
  /\ hand = [pc |-> "look", client |-> NoClient]
  /\ web = [pc |-> "idle", client |-> NoClient]
  /\ requests = 0
  /\ shut = "run"

Unlocked == writer = NoOne
ShuttingDown == shut # "run"

(* update_client_list, SetConnectionState: of an entry that is there *)
SetState(c, state) == [list EXCEPT ![c] = IF @ = "absent" THEN @ ELSE state]

Goto(p, pc) == pipe' = [pipe EXCEPT ![p].pc = pc]
At(p, pc) == pipe[p].pc = pc
ClientOf(p) == pipe[p].client

-----------------------------------------------------------------------------
(* handshake_loop *)

(* A client announces itself, or has a manual address: it is added if it   *)
(* is missing, and connected to if it is Disconnected.                     *)
Announce(c) ==
  /\ hand.pc = "look" /\ ~ShuttingDown
  /\ Unlocked
  /\ list[c] \in {"absent", "Disconnected"}
  /\ list' = [list EXCEPT ![c] = "Disconnected"]
  /\ hand' = [pc |-> "connect", client |-> c]
  /\ UNCHANGED <<marked, writer, marker, pipe, gone, watch, lost, web, requests, shut>>

(* Mutant: the hostname is lost on the way to the thread. *)
TryConnectNameless ==
  /\ hand.pc = "connect"
  /\ hand' = [pc |-> "look", client |-> NoClient]
  /\ \E p \in Pipelines : At(p, "none") /\ Goto(p, "start")
  /\ UNCHANGED <<list, marked, writer, marker, gone, watch, lost, web, requests, shut>>

(* try_connect: the socket connects and a thread is spawned, or it fails. *)
TryConnect ==
  /\ hand.pc = "connect"
  /\ hand' = [pc |-> "look", client |-> NoClient]
  /\ \/ \E p \in Pipelines :
          /\ At(p, "none") /\ \A q \in 1..(p - 1) : ~At(q, "none")
          /\ pipe' = [pipe EXCEPT ![p] = [pc |-> "start", client |-> hand.client]]
     \/ UNCHANGED pipe
  /\ UNCHANGED <<list, marked, writer, marker, gone, watch, lost, web, requests,
                 shut>>

(* The loop ends, and joins the threads of CONNECTION_THREADS. *)
EndHandshakes ==
  /\ ShuttingDown
  /\ \/ hand.pc = "look" /\ hand' = [hand EXCEPT !.pc = "join"]
     \/ /\ hand.pc = "join"
        /\ \A p \in Pipelines : pipe[p].pc \in {"none", "done"}
        /\ hand' = [hand EXCEPT !.pc = "done"]
  /\ UNCHANGED <<list, marked, writer, marker, pipe, gone, watch, lost, web,
                 requests, shut>>

-----------------------------------------------------------------------------
(* connection_pipeline, under the guard for writing until it streams *)

Begin(p) ==
  /\ At(p, "start")
  /\ Unlocked
  /\ writer' = p
  /\ list' = SetState(ClientOf(p), "Connecting")
  /\ Goto(p, "handshake")
  /\ UNCHANGED <<marked, marker, watch, web, others>>

(* The client does not answer, is in standby or incompatible, a device or  *)
(* a socket fails, ...: an early return.                                   *)
Leave(p) ==
  /\ At(p, "handshake")
  /\ writer' = NoOne
  /\ Goto(p, "finish")
  /\ UNCHANGED <<list, marked, marker, watch, web, others>>

(* The threads are spawned; wait_rwlock unlocks, and then waits. *)
Stream(p) ==
  /\ At(p, "handshake")
  /\ writer' = NoOne
  /\ watch' = [watch EXCEPT ![p] = Watchers]
  /\ list' = SetState(ClientOf(p), "Streaming")
  /\ Goto(p, IF SlowWait THEN "unlocked" ELSE "wait")
  /\ UNCHANGED <<marked, marker, web, others>>

StartWait(p) ==
  /\ At(p, "unlocked")
  /\ Goto(p, "wait")
  /\ UNCHANGED <<list, marked, writer, marker, watch, web, others>>

(* Mutant: the state stays Streaming. *)
DisconnectKeepsState(p) ==
  /\ At(p, "woken")
  /\ Unlocked
  /\ Goto(p, "join")
  /\ UNCHANGED <<list, marked, writer, marker, watch, web, others>>

(* Notified: the guard is taken again for the shutdown of the threads. *)
Disconnect(p) ==
  /\ At(p, "woken")
  /\ Unlocked
  /\ list' = SetState(ClientOf(p), "Disconnecting")
  /\ Goto(p, "join")
  /\ UNCHANGED <<marked, writer, marker, watch, web, others>>

JoinThreads(p) ==
  /\ At(p, "join")
  /\ watch[p] = {}
  /\ Goto(p, "finish")
  /\ UNCHANGED <<list, marked, writer, marker, watch, web, others>>

(* try_connect, after connection_pipeline: CLIENTS_TO_BE_REMOVED is locked *)
(* first, then SERVER_DATA_MANAGER.                                        *)
LockRemovals(p) ==
  /\ At(p, "finish")
  /\ marker = NoOne
  /\ marker' = p
  /\ Goto(p, "update")
  /\ UNCHANGED <<list, marked, writer, watch, web, others>>

(* Mutant: the mark is not taken back. *)
UpdateListKeepsMark(p) ==
  LET c == ClientOf(p)
  IN  /\ At(p, "update")
      /\ Unlocked
      /\ list' = IF c \in marked THEN [list EXCEPT ![c] = "absent"]
                 ELSE SetState(c, "Disconnected")
      /\ marker' = NoOne
      /\ Goto(p, "done")
      /\ gone' = gone \ {p}
      /\ lost' = lost \ {p}
      /\ UNCHANGED <<marked, writer, watch, hand, web, requests, shut>>

UpdateList(p) ==
  LET c == ClientOf(p)
  IN  /\ At(p, "update")
      /\ Unlocked
      /\ marked' = marked \ {c}
      /\ list' = IF c \in marked THEN [list EXCEPT ![c] = "absent"]
                 ELSE SetState(c, "Disconnected")
      /\ marker' = NoOne
      /\ Goto(p, "done")
      /\ gone' = gone \ {p}
      /\ lost' = lost \ {p}
      /\ UNCHANGED <<writer, watch, hand, web, requests, shut>>

-----------------------------------------------------------------------------
(* The threads of a connection *)

ClientLeaves(p) ==
  /\ pipe[p].pc \in {"unlocked", "wait"}
  /\ p \notin gone
  /\ gone' = gone \cup {p}
  /\ UNCHANGED <<list, marked, writer, marker, pipe, watch, lost, hand, web,
                 requests, shut>>

Streams(p) == list[ClientOf(p)] = "Streaming"

(* Mutant: LIFECYCLE_STATE is not looked at. *)
EndsByClient(p, t) == IF t = "lifecycle" THEN ~Streams(p) ELSE ~Streams(p) \/ p \in gone

(* A thread that looked at the client list and used its socket ends ... *)
Ends(p, t) ==
  IF t = "lifecycle" THEN ~Streams(p) \/ ShuttingDown ELSE ~Streams(p) \/ p \in gone

(* Mutant: only the thread that looks at LIFECYCLE_STATE notifies. *)
NotifiesLifecycle(p, t) == t = "lifecycle"

(* ... and most notify: is_streaming alone ends keepalive silently. *)
Notifies(p, t) == t # "keepalive" \/ Streams(p)

(* notify_one wakes the pipeline if it waits, and nobody else.  A thread   *)
(* that notifies later does what one does that looks later.                *)
WatcherEnds(p, t) ==
  /\ t \in watch[p]
  /\ Unlocked
  /\ Ends(p, t)
  /\ watch' = [watch EXCEPT ![p] = @ \ {t}]
  /\ IF Notifies(p, t) /\ At(p, "wait") THEN Goto(p, "woken") ELSE UNCHANGED pipe
  /\ lost' = IF Notifies(p, t) /\ At(p, "unlocked") THEN lost \cup {p} ELSE lost
  /\ UNCHANGED <<list, marked, writer, marker, web, gone, hand, requests, shut>>

-----------------------------------------------------------------------------
(* The dashboard and the driver *)

Web == -1

(* RemoveEntry: of a client that is Disconnected, the entry; of another    *)
(* one, CLIENTS_TO_BE_REMOVED is locked under the guard for writing.       *)
RequestRemoval(c) ==
  /\ web.pc = "idle"
  /\ requests < MaxRequests
  /\ Unlocked
  /\ list[c] # "absent"
  /\ requests' = requests + 1
  /\ IF list[c] = "Disconnected"
       THEN /\ list' = [list EXCEPT ![c] = "absent"]
            /\ UNCHANGED <<writer, web>>
       ELSE /\ writer' = Web
            /\ web' = [pc |-> "mark", client |-> c]
            /\ UNCHANGED list
  /\ UNCHANGED <<marked, marker, pipe, gone, watch, lost, hand, shut>>

Mark ==
  /\ web.pc = "mark"
  /\ marker = NoOne
  /\ marked' = marked \cup {web.client}
  /\ list' = SetState(web.client, "Disconnecting")
  /\ writer' = NoOne
  /\ web' = [pc |-> "idle", client |-> NoClient]
  /\ UNCHANGED <<marker, pipe, watch, others>>

(* shutdown_driver: CONNECTION_THREAD, which it would join, is never set. *)
Shutdown ==
  /\ \/ /\ shut = "run" /\ shut' = "mark"
        /\ requests < MaxRequests
        /\ requests' = requests + 1
        /\ UNCHANGED list
     \/ /\ shut = "mark" /\ shut' = "wait"
        /\ Unlocked
        /\ UNCHANGED requests
        /\ list' = [c \in Clients |-> IF list[c] \in {"Connecting", "Streaming"}
                                        THEN "Disconnecting" ELSE list[c]]
     \/ /\ shut = "wait" /\ shut' = "done"
        /\ Unlocked
        /\ \A c \in Clients : list[c] \in {"absent", "Disconnected"}
        /\ UNCHANGED <<list, requests>>
  /\ UNCHANGED <<marked, writer, marker, pipe, gone, watch, lost, hand, web>>

HandshakeStep == TryConnect \/ EndHandshakes

PipelineStep(p) ==
  \/ Leave(p) \/ Stream(p) \/ StartWait(p) \/ JoinThreads(p)
  \/ Begin(p) \/ Disconnect(p) \/ LockRemovals(p) \/ UpdateList(p)

Next ==
  \/ \E c \in Clients : Announce(c) \/ RequestRemoval(c)
  \/ HandshakeStep
  \/ \E p \in Pipelines : PipelineStep(p) \/ ClientLeaves(p)
  \/ \E p \in Pipelines, t \in Watchers : WatcherEnds(p, t)
  \/ Mark \/ Shutdown

(* Every thread goes on, and a handshake ends by its time-outs.  Users,    *)
(* clients and the call of shutdown_driver are free.                       *)
Spec ==
  /\ Init
  /\ [][Next]_vars
  /\ WF_vars(HandshakeStep)
  /\ \A p \in Pipelines : /\ WF_vars(PipelineStep(p))
                          /\ WF_vars(\E t \in Watchers : WatcherEnds(p, t))
  /\ WF_vars(Mark)
  /\ WF_vars(ShuttingDown /\ Shutdown)

-----------------------------------------------------------------------------
(* Properties *)

(* Every variable has its type. *)
TypeOK ==
  /\ list \in [Clients -> {"absent", "Disconnected", "Connecting", "Streaming",
                           "Disconnecting"}]
  /\ marked \subseteq Clients
  /\ writer \in Pipelines \cup {NoOne, Web}
  /\ marker \in Pipelines \cup {NoOne}
  /\ pipe \in [Pipelines -> [pc : {"none", "start", "handshake", "unlocked", "wait", "woken",
                                   "join", "finish", "update", "done"},
                             client : Clients \cup {NoClient}]]
  /\ \A p \in Pipelines : pipe[p].client = NoClient <=> pipe[p].pc = "none"
  /\ gone \subseteq Pipelines
  /\ watch \in [Pipelines -> SUBSET Watchers]
  /\ lost \subseteq Pipelines
  /\ hand \in [pc : {"look", "connect", "join", "done"},
               client : Clients \cup {NoClient}]
  /\ web \in [pc : {"idle", "mark"}, client : Clients \cup {NoClient}]
  /\ requests \in 0..MaxRequests
  /\ shut \in {"run", "mark", "wait", "done"}

Streaming(p) == pipe[p].pc \in {"unlocked", "wait", "woken"}
Over(p) == pipe[p].pc \in {"none", "done"}

(* A client that is to be removed has a connection whose end removes it:   *)
(* the mark never waits for a later connection of the same client.         *)
MarkIsServed ==
  \A c \in marked : \E p \in Pipelines : ClientOf(p) = c /\ ~Over(p)

(* The client list calls a client Streaming, Connecting or Disconnecting   *)
(* only while one of its connections goes on: no state is left behind that *)
(* keeps handshake_loop from connecting again and shutdown_driver waiting. *)
StateIsServed ==
  \A c \in Clients :
    /\ list[c] \notin {"absent", "Disconnected"} =>
         \E p \in Pipelines : ClientOf(p) = c /\ ~Over(p) /\ ~At(p, "start")
    /\ list[c] = "Streaming" => \E p \in Pipelines : ClientOf(p) = c /\ Streaming(p)

(* The two locks are each held by one who waits for the other. *)
LockedUp == writer = Web /\ marker # NoOne

Waits(p) == pipe[p].pc \in {"unlocked", "wait"}

(* connection_pipeline notices that the client left, unless a notification *)
(* was lost or the removal of a client locked the server up.               *)
DisconnectNoticed ==
  \A p \in Pipelines : (p \in gone) ~> (~Waits(p) \/ p \in lost \/ LockedUp)

(* shutdown_driver returns, with the same exceptions. *)
ShutdownReturns == ShuttingDown ~> (shut = "done" \/ lost # {} \/ LockedUp)

(* Once LIFECYCLE_STATE is ShuttingDown, all connections terminate. *)
ThreadsTerminate == ShuttingDown ~> (hand.pc = "done")
=============================================================================
