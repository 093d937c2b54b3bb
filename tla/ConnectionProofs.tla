--------------------------- MODULE ConnectionProofs ---------------------------
(***************************************************************************)
(* What holds of the client list and of the marks for removal for any      *)
(* number of clients, connections and requests.                            *)
(***************************************************************************)
EXTENDS Connection, TLAPS

(* Whoever connects or removes has a client to do it for. *)
ClientsAtHand ==
  /\ hand.pc = "connect" => hand.client \in Clients
  /\ web.pc = "mark" => web.client \in Clients

(* The guard for writing is with the pipeline that is in its handshake, or *)
(* with the request that waits to mark its client, whose connection goes   *)
(* on meanwhile: it cannot end without that guard.                         *)
GuardHeld ==
  /\ \A p \in Pipelines : At(p, "handshake") => writer = p
  /\ web.pc = "mark" =>
       /\ writer = Web
       /\ \E p \in Pipelines : ClientOf(p) = web.client /\ ~Over(p) /\ ~At(p, "start")

Inv == TypeOK /\ ClientsAtHand /\ GuardHeld /\ MarkIsServed /\ StateIsServed

(* A thread is none of those that have another name. *)
LEMMA Names == \A p \in Pipelines : p # Web /\ p # NoOne /\ Web # NoOne
  BY ConnectionAssumption DEF Pipelines, Web, NoOne

LEMMA InitInv == Init => Inv
  BY ConnectionAssumption
  DEF Init, Inv, TypeOK, ClientsAtHand, GuardHeld, MarkIsServed, StateIsServed, At, ClientOf,
      Over, Streaming

-----------------------------------------------------------------------------
(* One lemma for each group of actions *)

USE DEF others

LEMMA HandStep ==
  ASSUME Inv, (\E c \in Clients : Announce(c)) \/ HandshakeStep
  PROVE  Inv'
<1> USE ConnectionAssumption
<1>1. ASSUME NEW c \in Clients, Announce(c) PROVE Inv'
  <2>1. TypeOK' BY <1>1 DEF Inv, TypeOK, Announce
  <2>2. ClientsAtHand' /\ GuardHeld' /\ MarkIsServed'
    BY <1>1 DEF Inv, Announce, ClientsAtHand, GuardHeld, MarkIsServed, At, ClientOf, Over
  <2>3. StateIsServed'
    BY <1>1 DEF Inv, TypeOK, Announce, StateIsServed, At, ClientOf, Over, Streaming
  <2> QED BY <2>1, <2>2, <2>3 DEF Inv
<1>2. ASSUME TryConnect PROVE Inv'
  <2>1. CASE UNCHANGED pipe
    BY <1>2, <2>1
    DEF Inv, TypeOK, TryConnect, ClientsAtHand, GuardHeld, MarkIsServed, StateIsServed, At,
        ClientOf, Over, Streaming
  <2>2. ASSUME NEW p \in Pipelines, At(p, "none"),
               pipe' = [pipe EXCEPT ![p] = [pc |-> "start", client |-> hand.client]]
        PROVE  Inv'
    <3>1. hand.client \in Clients BY <1>2 DEF Inv, TryConnect, ClientsAtHand
    <3>2. TypeOK' BY <1>2, <2>2, <3>1 DEF Inv, TypeOK, TryConnect, At
    <3>3. \A q \in Pipelines : q # p => pipe'[q] = pipe[q]
      BY <2>2 DEF Inv, TypeOK
    <3>4. pipe'[p].pc = "start" BY <2>2 DEF Inv, TypeOK
    <3>5. ClientsAtHand' BY <1>2 DEF Inv, TryConnect, ClientsAtHand
    <3>6. \A q \in Pipelines : ~Over(q) => q # p BY <2>2 DEF Over, At
    <3>7. GuardHeld'
      BY <1>2, <3>3, <3>4, <3>6 DEF Inv, TryConnect, GuardHeld, At, ClientOf, Over
    <3>8. MarkIsServed'
      BY <1>2, <3>3, <3>6 DEF Inv, TryConnect, MarkIsServed, ClientOf, Over
    <3>9. StateIsServed'
      BY <1>2, <3>3, <3>6
      DEF Inv, TryConnect, StateIsServed, At, ClientOf, Over, Streaming
    <3> QED BY <3>2, <3>5, <3>7, <3>8, <3>9 DEF Inv
  <2> QED BY <1>2, <2>1, <2>2 DEF TryConnect
<1>3. ASSUME EndHandshakes PROVE Inv'
  BY <1>3
  DEF Inv, TypeOK, EndHandshakes, ClientsAtHand, GuardHeld, MarkIsServed, StateIsServed, At,
      ClientOf, Over, Streaming
<1> QED BY <1>1, <1>2, <1>3 DEF HandshakeStep

(* A step of pipeline p alone: the others stay where they are. *)
LEMMA OnlyOne ==
  ASSUME TypeOK, NEW p \in Pipelines, NEW pc, Goto(p, pc)
  PROVE  /\ \A q \in Pipelines : q # p => pipe'[q] = pipe[q]
         /\ pipe'[p].pc = pc
         /\ \A q \in Pipelines : pipe'[q].client = pipe[q].client
<1> DEFINE next == [pipe[p] EXCEPT !.pc = pc]
<1>1. pipe' = [q \in Pipelines |-> IF q = p THEN next ELSE pipe[q]]
  BY DEF TypeOK, Goto
<1>2. next.client = pipe[p].client /\ next.pc = pc
  BY DEF TypeOK
<1> HIDE DEF next
<1>3. pipe'[p] = next BY <1>1
<1>4. \A q \in Pipelines : q # p => pipe'[q] = pipe[q] BY <1>1
<1> QED BY <1>2, <1>3, <1>4

(* A step of pipeline p that is neither its first nor its last, does not   *)
(* leave Streaming and keeps the list, the marks and the guards.           *)
LEMMA QuietStep ==
  ASSUME Inv, NEW p \in Pipelines,
         NEW pc \in {"wait", "woken", "finish", "update"}, Goto(p, pc),
         pipe[p].pc \notin {"none", "start", "done"},
         Streaming(p) => pc \in {"wait", "woken"},
         At(p, "handshake") => writer' = NoOne,
         ~At(p, "handshake") => writer' = writer,
         UNCHANGED <<list, marked, hand, web>>
  PROVE  ClientsAtHand' /\ GuardHeld' /\ MarkIsServed' /\ StateIsServed'
<1>1. /\ \A q \in Pipelines : q # p => pipe'[q] = pipe[q]
      /\ pipe'[p].pc = pc
      /\ \A q \in Pipelines : pipe'[q].client = pipe[q].client
  BY OnlyOne DEF Inv
<1>2. ClientsAtHand' BY DEF Inv, ClientsAtHand
<1>3. \A q \in Pipelines : ~Over(q) /\ ~At(q, "start") => (~Over(q) /\ ~At(q, "start"))'
  BY <1>1 DEF Over, At
<1>4. \A q \in Pipelines : Streaming(q) => Streaming(q)' BY <1>1 DEF Streaming
<1>5. GuardHeld'
  BY <1>1, <1>3, Names DEF Inv, GuardHeld, At, ClientOf
<1>6. \A q \in Pipelines : ~Over(q) => ~Over(q)' BY <1>1 DEF Over
<1>7. MarkIsServed' BY <1>1, <1>6 DEF Inv, MarkIsServed, ClientOf
<1>8. StateIsServed' BY <1>1, <1>3, <1>4 DEF Inv, StateIsServed, ClientOf
<1> QED BY <1>2, <1>5, <1>7, <1>8

(* The type of the variables after a step of pipeline p *)
LEMMA PipelineTypes ==
  ASSUME Inv, NEW p \in Pipelines, PipelineStep(p)
  PROVE  TypeOK'
<1> USE ConnectionAssumption DEF Goto, At, ClientOf, SetState, Watchers
<1>0. ASSUME Begin(p) \/ Leave(p) \/ StartWait(p) PROVE TypeOK'
  BY <1>0 DEF Inv, TypeOK, Begin, Leave, StartWait
<1>1. ASSUME Stream(p) PROVE TypeOK'
  <2>1. CASE SlowWait BY <1>1, <2>1 DEF Inv, TypeOK, Stream
  <2>2. CASE ~SlowWait BY <1>1, <2>2 DEF Inv, TypeOK, Stream
  <2> QED BY <2>1, <2>2
<1>2. ASSUME Disconnect(p) \/ JoinThreads(p) \/ LockRemovals(p) PROVE TypeOK'
  BY <1>2 DEF Inv, TypeOK, Disconnect, JoinThreads, LockRemovals
<1>3. ASSUME UpdateList(p) PROVE TypeOK'
  BY <1>3 DEF Inv, TypeOK, UpdateList
<1> QED BY <1>0, <1>1, <1>2, <1>3 DEF PipelineStep

LEMMA PipelineInv ==
  ASSUME Inv, NEW p \in Pipelines, PipelineStep(p)
  PROVE  Inv'
<1>1. TypeOK' BY PipelineTypes
<1>2. ASSUME NEW pc, Goto(p, pc)
      PROVE  /\ \A q \in Pipelines : q # p => pipe'[q] = pipe[q]
             /\ pipe'[p].pc = pc
             /\ \A q \in Pipelines : pipe'[q].client = pipe[q].client
  BY <1>2, OnlyOne DEF Inv
<1>3. CASE Leave(p)
  BY <1>1, <1>3, QuietStep DEF Leave, At, Streaming, Inv
<1>4. CASE StartWait(p)
  BY <1>1, <1>4, QuietStep DEF StartWait, At, Inv
<1>5. CASE JoinThreads(p)
  BY <1>1, <1>5, QuietStep DEF JoinThreads, At, Streaming, Inv
<1>6. CASE LockRemovals(p)
  BY <1>1, <1>6, QuietStep DEF LockRemovals, At, Streaming, Inv
<1>7. CASE Begin(p)
  <2>1. Goto(p, "handshake") /\ pipe[p].pc = "start" BY <1>7 DEF Begin, At
  <2>0. /\ \A q \in Pipelines : q # p => pipe'[q] = pipe[q]
        /\ pipe'[p].pc = "handshake"
        /\ \A q \in Pipelines : pipe'[q].client = pipe[q].client
    BY <2>1, <1>2
  <2>2. ClientsAtHand' BY <1>7 DEF Begin, Inv, ClientsAtHand
  <2>3. \A q \in Pipelines : ~Over(q) => ~Over(q)' BY <2>1, <2>0 DEF Over
  <2>4. GuardHeld'
    BY <1>7, <2>1, <2>0, Names DEF Begin, Unlocked, Inv, GuardHeld, At
  <2>5. MarkIsServed' BY <1>7, <2>1, <2>0, <2>3 DEF Begin, Inv, MarkIsServed, ClientOf
  <2>6. ASSUME NEW c \in Clients, c # ClientOf(p) PROVE list'[c] = list[c]
    BY <1>7, <2>6 DEF Begin, SetState
  <2>8. ~Over(p)' /\ ~At(p, "start")' BY <2>1, <2>0 DEF Over, At
  <2>9. list'[ClientOf(p)] # "Streaming"
    BY <1>7 DEF Begin, SetState, Inv, TypeOK, ClientOf, At
  <2>7. StateIsServed'
    BY <2>1, <2>0, <2>6, <2>8, <2>9 DEF Inv, StateIsServed, ClientOf, Over, At, Streaming
  <2> QED BY <1>1, <2>2, <2>4, <2>5, <2>7 DEF Inv
<1>8. CASE Stream(p)
  <2>0. /\ \A q \in Pipelines : q # p => pipe'[q] = pipe[q]
        /\ pipe'[p].pc \in {"unlocked", "wait"}
        /\ \A q \in Pipelines : pipe'[q].client = pipe[q].client
    BY <1>8, <1>2 DEF Stream
  <2>1. pipe[p].pc = "handshake" BY <1>8 DEF Stream, At
  <2>2. ClientsAtHand' BY <1>8 DEF Stream, Inv, ClientsAtHand
  <2>3. \A q \in Pipelines : ~Over(q) => ~Over(q)' BY <2>0 DEF Over
  <2>4. GuardHeld'
    BY <1>8, <2>1, <2>0, Names DEF Stream, Inv, GuardHeld, At
  <2>5. MarkIsServed' BY <1>8, <2>0, <2>3 DEF Stream, Inv, MarkIsServed, ClientOf
  <2>6. ASSUME NEW c \in Clients, c # ClientOf(p) PROVE list'[c] = list[c]
    BY <1>8, <2>6 DEF Stream, SetState
  <2>7. ~Over(p)' /\ ~At(p, "start")' /\ Streaming(p)' BY <2>0 DEF Over, At, Streaming
  <2>8. StateIsServed'
    BY <2>1, <2>0, <2>6, <2>7 DEF Inv, StateIsServed, ClientOf, Over, At, Streaming
  <2> QED BY <1>1, <2>2, <2>4, <2>5, <2>8 DEF Inv
<1>9. CASE Disconnect(p)
  <2>0. /\ \A q \in Pipelines : q # p => pipe'[q] = pipe[q]
        /\ pipe'[p].pc = "join"
        /\ \A q \in Pipelines : pipe'[q].client = pipe[q].client
    BY <1>9, <1>2 DEF Disconnect
  <2>1. pipe[p].pc = "woken" /\ writer = NoOne BY <1>9 DEF Disconnect, At, Unlocked
  <2>2. ClientsAtHand' BY <1>9 DEF Disconnect, Inv, ClientsAtHand
  <2>3. \A q \in Pipelines : ~Over(q) => ~Over(q)' BY <2>0 DEF Over
  <2>4. GuardHeld'
    BY <1>9, <2>1, <2>0, Names DEF Disconnect, Inv, GuardHeld, At
  <2>5. MarkIsServed' BY <1>9, <2>0, <2>3 DEF Disconnect, Inv, MarkIsServed, ClientOf
  <2>6. ASSUME NEW c \in Clients, c # ClientOf(p) PROVE list'[c] = list[c]
    BY <1>9, <2>6 DEF Disconnect, SetState
  <2>7. ~Over(p)' /\ ~At(p, "start")' BY <2>0 DEF Over, At
  <2>8. ClientOf(p) \in Clients => list'[ClientOf(p)] # "Streaming"
    BY <1>9 DEF Disconnect, SetState, Inv, TypeOK
  <2>9. StateIsServed'
    BY <2>1, <2>0, <2>6, <2>7, <2>8 DEF Inv, StateIsServed, ClientOf, Over, At, Streaming
  <2> QED BY <1>1, <2>2, <2>4, <2>5, <2>9 DEF Inv
<1>10. CASE UpdateList(p)
  <2>0. /\ \A q \in Pipelines : q # p => pipe'[q] = pipe[q]
        /\ pipe'[p].pc = "done"
        /\ \A q \in Pipelines : pipe'[q].client = pipe[q].client
    BY <1>10, <1>2 DEF UpdateList
  <2>1. pipe[p].pc = "update" /\ writer = NoOne BY <1>10 DEF UpdateList, At, Unlocked
  <2>2. ClientsAtHand' BY <1>10 DEF UpdateList, Inv, ClientsAtHand
  <2>4. GuardHeld'
    BY <1>10, <2>1, <2>0, Names DEF UpdateList, Inv, GuardHeld, At
  <2>5. MarkIsServed'
    BY <1>10, <2>0 DEF UpdateList, Inv, TypeOK, MarkIsServed, ClientOf, Over
  <2>6. ASSUME NEW c \in Clients, c # ClientOf(p) PROVE list'[c] = list[c]
    BY <1>10, <2>6 DEF UpdateList, SetState
  <2>7. ClientOf(p) \in Clients => list'[ClientOf(p)] \in {"absent", "Disconnected"}
    BY <1>10 DEF UpdateList, SetState, Inv, TypeOK
  <2>8. StateIsServed'
    BY <2>1, <2>0, <2>6, <2>7 DEF Inv, StateIsServed, ClientOf, Over, At, Streaming
  <2> QED BY <1>1, <2>2, <2>4, <2>5, <2>8 DEF Inv
<1> QED BY <1>3, <1>4, <1>5, <1>6, <1>7, <1>8, <1>9, <1>10 DEF PipelineStep

LEMMA ClientInv ==
  ASSUME Inv, NEW p \in Pipelines,
         ClientLeaves(p) \/ \E t \in Watchers : WatcherEnds(p, t)
  PROVE  Inv'
<1>1. CASE ClientLeaves(p)
  BY <1>1
  DEF ClientLeaves, Inv, TypeOK, ClientsAtHand, GuardHeld, MarkIsServed, StateIsServed, At,
      ClientOf, Over, Streaming
<1>2. ASSUME NEW t \in Watchers, WatcherEnds(p, t) PROVE Inv'
  <2>1. TypeOK' BY <1>2 DEF WatcherEnds, Goto, At, Inv, TypeOK
  <2>2. CASE UNCHANGED pipe
    BY <1>2, <2>1, <2>2
    DEF WatcherEnds, Inv, ClientsAtHand, GuardHeld, MarkIsServed, StateIsServed, At, ClientOf,
        Over, Streaming
  <2>3. CASE At(p, "wait") /\ Goto(p, "woken")
    <3>1. UNCHANGED <<list, marked, hand, web, writer>> BY <1>2 DEF WatcherEnds
    <3> QED BY <2>1, <2>3, <3>1, QuietStep DEF At, Inv
  <2> QED BY <1>2, <2>2, <2>3 DEF WatcherEnds
<1> QED BY <1>1, <1>2

LEMMA RemovalInv ==
  ASSUME Inv, (\E c \in Clients : RequestRemoval(c)) \/ Mark \/ Shutdown
  PROVE  Inv'
<1> USE ConnectionAssumption
<1>1. ASSUME NEW c \in Clients, RequestRemoval(c) PROVE Inv'
  <2>1. TypeOK' BY <1>1 DEF RequestRemoval, Inv, TypeOK
  <2>2. CASE list[c] = "Disconnected"
    BY <1>1, <2>1, <2>2
    DEF RequestRemoval, Inv, TypeOK, ClientsAtHand, GuardHeld, MarkIsServed, StateIsServed,
        At, ClientOf, Over, Streaming
  <2>3. CASE list[c] # "Disconnected"
    <3>1. \E p \in Pipelines : ClientOf(p) = c /\ ~Over(p) /\ ~At(p, "start")
      BY <1>1, <2>3 DEF RequestRemoval, Inv, StateIsServed
    <3>2. GuardHeld'
      BY <1>1, <2>3, <3>1, Names
      DEF RequestRemoval, Unlocked, Inv, GuardHeld, At, ClientOf, Over
    <3> QED
      BY <1>1, <2>1, <2>3, <3>2
      DEF RequestRemoval, Inv, ClientsAtHand, MarkIsServed, StateIsServed, At, ClientOf,
          Over, Streaming
  <2> QED BY <2>2, <2>3
<1>2. ASSUME Mark PROVE Inv'
  <2>1. TypeOK' BY <1>2 DEF Mark, Inv, TypeOK, ClientsAtHand, SetState
  <2>2. web.client \in Clients /\ writer = Web
    BY <1>2 DEF Mark, Inv, ClientsAtHand, GuardHeld
  <2>3. \E p \in Pipelines : ClientOf(p) = web.client /\ ~Over(p) /\ ~At(p, "start")
    BY <1>2 DEF Mark, Inv, GuardHeld
  <2>4. ClientsAtHand' /\ GuardHeld'
    BY <1>2, <2>2, Names DEF Mark, Inv, ClientsAtHand, GuardHeld, At
  <2>5. MarkIsServed' BY <1>2, <2>3 DEF Mark, Inv, MarkIsServed, ClientOf, Over
  <2>6. \A c \in Clients :
          list'[c] = IF c = web.client /\ list[c] # "absent" THEN "Disconnecting" ELSE list[c]
    BY <1>2, <2>2 DEF Mark, SetState, Inv, TypeOK
  <2>7. StateIsServed'
    BY <1>2, <2>3, <2>6 DEF Mark, Inv, StateIsServed, ClientOf, Over, At, Streaming
  <2> QED BY <2>1, <2>4, <2>5, <2>7 DEF Inv
<1>3. ASSUME Shutdown PROVE Inv'
  <2>1. TypeOK' BY <1>3 DEF Shutdown, Inv, TypeOK
  <2>2. ClientsAtHand' /\ GuardHeld' /\ MarkIsServed'
    BY <1>3
    DEF Shutdown, Inv, ClientsAtHand, GuardHeld, MarkIsServed, At, ClientOf, Over
  <2>3. \A c \in Clients : \/ list'[c] = list[c]
                           \/ list[c] \in {"Connecting", "Streaming"}
                                /\ list'[c] = "Disconnecting"
    BY <1>3 DEF Shutdown, Inv, TypeOK
  <2>4. StateIsServed'
    BY <1>3, <2>3 DEF Shutdown, Inv, StateIsServed, ClientOf, Over, At, Streaming
  <2> QED BY <2>1, <2>2, <2>4 DEF Inv
<1> QED BY <1>1, <1>2, <1>3

LEMMA NextInv == Inv /\ [Next]_vars => Inv'
<1> SUFFICES ASSUME Inv, [Next]_vars PROVE Inv'
  OBVIOUS
<1>1. CASE UNCHANGED vars
  BY <1>1
  DEF vars, Inv, TypeOK, ClientsAtHand, GuardHeld, MarkIsServed, StateIsServed, At, ClientOf,
      Over, Streaming
<1>2. CASE Next
  BY <1>2, HandStep, PipelineInv, ClientInv, RemovalInv DEF Next
<1> QED BY <1>1, <1>2

-----------------------------------------------------------------------------
(* The theorems *)

(* The variables keep their types. *)
THEOREM TypeCorrect == Spec => []TypeOK
<1>1. Inv => TypeOK BY DEF Inv
<1> QED BY InitInv, NextInv, <1>1, PTL DEF Spec

(* A client that is marked for removal has a connection whose end removes  *)
(* it, with any number of connections of it and of requests.               *)
THEOREM MarksAreServed == Spec => []MarkIsServed
<1>1. Inv => MarkIsServed BY DEF Inv
<1> QED BY InitInv, NextInv, <1>1, PTL DEF Spec

(* A state in the client list is always that of a connection that goes on: *)
(* none is left behind.                                                    *)
THEOREM StatesAreServed == Spec => []StateIsServed
<1>1. Inv => StateIsServed BY DEF Inv
<1> QED BY InitInv, NextInv, <1>1, PTL DEF Spec
=============================================================================
