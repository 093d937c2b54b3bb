----------------------------- MODULE ServerLocks -----------------------------
(***************************************************************************)
(* The locks that the threads of the server share while a client streams,  *)
(* from the moment connection_pipeline waits for the disconnection until   *)
(* it has joined the threads of the connection.                            *)
(*                                                                         *)
(* A thread runs a loop.  An iteration is a sequence of steps, in the      *)
(* order of the source: a step waits for one lock, and says which guards   *)
(* the thread has when it comes to the next one.  A guard that is dropped  *)
(* before then is not kept.  Guards on the same lock that are taken one    *)
(* after the other, each dropped at once, are one step.                    *)
(*                                                                         *)
(* The locks are those of parking_lot: a writer first announces itself,    *)
(* which stops new readers, then waits for the readers that are inside.    *)
(***************************************************************************)
EXTENDS Integers, Sequences, FiniteSets

CONSTANTS
  Scenarios   \* what may happen in a connection: a set of subsets of Activities

Activities == {
  "disconnect",   \* the client goes away
  "frames",       \* send_video is called
  "rolling",      \* settings.others.capture.rolling_video_files is on
  "statistics",   \* the client sends statistics
  "frame_rate",   \* the user changes settings.custom.update_server_fps
  "tracking",     \* the client sends tracking data
  "playspace"}    \* the client sends PlayspaceSync

ASSUME ScenariosAssumption == Scenarios \subseteq SUBSET Activities

(* video_send stands for the threads that take one lock at a time. *)
SessionThreads == {"video_send", "statistics", "custom", "control", "tracking"}
Threads == SessionThreads \cup {"encoder", "pipeline"}

(* Guards: one for each Mutex, two for the RwLock *)
VCS == "VIDEO_CHANNEL_SENDER"
SM == "STATISTICS_MANAGER"
BM == "BITRATE_MANAGER"
TM == "tracking_manager"
Reading == "SERVER_DATA_MANAGER.read"
Writing == "SERVER_DATA_MANAGER.write"
Guards == {VCS, SM, BM, TM, Reading, Writing}

VARIABLES
  active,      \* the activities of this connection
  code,        \* code[t]: what thread t has left to do in this iteration
  guards,      \* guards[t]: the guards t has
  streaming,   \* connection_state is Streaming
  sender,      \* VIDEO_CHANNEL_SENDER is Some
  ended        \* the threads that returned

vars == <<active, code, guards, streaming, sender, ended>>

-----------------------------------------------------------------------------
(* What a thread does in an iteration *)

(* Take a guard; the thread then has the guards of `keep`. *)
Take(guard, keep) == [op |-> "take", guard |-> guard, keep |-> keep]

(* An operation on something else *)
Do(op, keep) == [op |-> op, guard |-> op, keep |-> keep]

Write(keep) == <<Take(Writing, {Writing}), Do("wait_for_readers", keep)>>

When(activity, iterations) == IF activity \in active THEN iterations ELSE {}

(* send_video reads SERVER_DATA_MANAGER for rolling_video_files, again     *)
(* while it opens a new file, and for avoid_video_glitching.               *)
SendVideo(rolling) ==
  <<Do("if_sender", {VCS})>>
  \o (IF rolling THEN <<Take(Reading, {VCS, Reading})>> ELSE <<>>)
  \o <<Take(Reading, {VCS}), Take(SM, {VCS, SM}), Take(BM, {})>>

(* Mutant: the guard on the statistics is kept to the end. *)
ReportPresentNested == <<Take(SM, {SM}), Take(Reading, {SM, Reading}), Take(BM, {})>>

ReportPresent == <<Take(SM, {}), Take(Reading, {Reading}), Take(BM, {})>>

(* Mutant: the guard on the bitrate manager is never dropped. *)
GetDynamicEncoderParamsLeak == <<Take(Reading, {Reading}), Take(BM, {BM}), Take(SM, {BM})>>

GetDynamicEncoderParams == <<Take(Reading, {Reading}), Take(BM, {}), Take(SM, {})>>

Encoder ==
  {ReportPresent, GetDynamicEncoderParams}
    \cup When("frames", {SendVideo(FALSE)})
    \cup When("rolling", {SendVideo(TRUE)})

Statistics ==
  When("statistics", {<<Take(SM, {SM}), Take(Reading, {SM, Reading}), Take(BM, {})>>})

(* Without a new frame rate the guard for writing is dropped at once. *)
Custom ==
  {Write({})}
    \cup When("frame_rate", {Write({Writing}) \o <<Take(SM, {Writing}), Take(BM, {})>>})

NetworkStatistics == <<Take(SM, {SM}), Take(BM, {})>>

PlayspaceSync == <<Take(Reading, {Reading}), Take(TM, {})>>

Control == {NetworkStatistics} \cup When("playspace", {PlayspaceSync})

Tracking ==
  When("tracking",
       {<<Take(TM, {TM}), Take(Reading, {}), Take(SM, {})>>})

(* Mutant: the threads are joined before the guard is dropped. *)
DisconnectJoinsLocked ==
  Write({Writing})
  \o <<Do("drop_sender", {Writing}), Do("join", {}), Take(BM, {}), Do("return", {})>>

(* connection_pipeline once it is notified, and then try_connect: the      *)
(* sender is dropped and the state is changed under the guard for writing. *)
Disconnect ==
  Write({Writing})
  \o <<Do("drop_sender", {}), Do("join", {}), Take(BM, {})>>
  \o Write({}) \o <<Do("return", {})>>

Iterations(t) ==
  CASE t = "encoder" -> Encoder
    [] t = "video_send" -> {<<Take(SM, {})>>}
    [] t = "statistics" -> Statistics
    [] t = "custom" -> Custom
    [] t = "control" -> Control
    [] t = "tracking" -> Tracking
    [] t = "pipeline" -> When("disconnect", {Disconnect})

-----------------------------------------------------------------------------
Init ==
  /\ active \in Scenarios
  /\ code = [t \in Threads |-> <<>>]
  /\ guards = [t \in Threads |-> {}]
  /\ streaming = TRUE
  /\ sender = TRUE
  /\ ended = {}

Has(t, guard) == guard \in guards[t]

(* Whether u has something that excludes the guard. *)
Excludes(u, guard) ==
  Has(u, IF guard = Reading THEN Writing ELSE guard)

Free(guard) == \A u \in Threads : ~Excludes(u, guard)

(* Mutant: the guard of the loop condition lives on in the body. *)
KeepsGuard(t) == guards' = [guards EXCEPT ![t] = {Reading}]

DropsGuard(t) == UNCHANGED guards

(* is_streaming, the loop condition of the threads of the connection *)
Loop(t) ==
  /\ code[t] = <<>>
  /\ t \in SessionThreads \ ended
  /\ Free(Reading)
  /\ \/ /\ streaming
        /\ \E iteration \in Iterations(t) : code' = [code EXCEPT ![t] = iteration]
        /\ DropsGuard(t)
        /\ UNCHANGED ended
     \/ /\ ~streaming
        /\ ended' = ended \cup {t}
        /\ UNCHANGED <<code, guards>>
  /\ UNCHANGED <<active, streaming, sender>>

(* A call from the encoder; the notification of connection_pipeline *)
Call(t) ==
  /\ code[t] = <<>>
  /\ t \in {"encoder", "pipeline"} \ ended
  /\ \E iteration \in Iterations(t) : code' = [code EXCEPT ![t] = iteration]
  /\ UNCHANGED <<active, guards, streaming, sender, ended>>

At(t, op) == code[t] # <<>> /\ Head(code[t]).op = op

Continue(t) ==
  /\ code' = [code EXCEPT ![t] = Tail(@)]
  /\ guards' = [guards EXCEPT ![t] = Head(code[t]).keep]

TakeGuard(t) ==
  /\ At(t, "take")
  /\ Free(Head(code[t]).guard)
  /\ Continue(t)
  /\ UNCHANGED <<active, streaming, sender, ended>>

WaitForReaders(t) ==
  /\ At(t, "wait_for_readers")
  /\ \A u \in Threads : ~Has(u, Reading)
  /\ Continue(t)
  /\ UNCHANGED <<active, streaming, sender, ended>>

IfSender(t) ==
  /\ At(t, "if_sender")
  /\ Free(VCS)
  /\ IF sender
     THEN Continue(t)
     ELSE code' = [code EXCEPT ![t] = <<>>] /\ UNCHANGED guards
  /\ UNCHANGED <<active, streaming, sender, ended>>

DropSender(t) ==
  /\ At(t, "drop_sender")
  /\ Free(VCS)
  /\ sender' = FALSE
  /\ streaming' = FALSE
  /\ Continue(t)
  /\ UNCHANGED <<active, ended>>

Join(t) ==
  /\ At(t, "join")
  /\ SessionThreads \subseteq ended
  /\ Continue(t)
  /\ UNCHANGED <<active, streaming, sender, ended>>

Return(t) ==
  /\ At(t, "return")
  /\ ended' = ended \cup {t}
  /\ Continue(t)
  /\ UNCHANGED <<active, streaming, sender>>

Step(t) ==
  \/ TakeGuard(t)
  \/ WaitForReaders(t)
  \/ IfSender(t)
  \/ DropSender(t)
  \/ Join(t)
  \/ Return(t)

Next == \E t \in Threads : Loop(t) \/ Call(t) \/ Step(t)

Spec == Init /\ [][Next]_vars

(* The locks are fair in the long run: a thread that finds its lock free   *)
(* again and again gets it.  The threads of the connection keep looping,   *)
(* as their receive calls have a timeout.  Nobody has to disconnect.       *)
Fairness ==
  \A t \in Threads : SF_vars(Loop(t) \/ Step(t))

FairSpec == Spec /\ Fairness

-----------------------------------------------------------------------------
(* Properties *)

(* A thread has no guard between two iterations; only readers share. *)
TypeOK ==
  /\ active \in Scenarios
  /\ guards \in [Threads -> SUBSET Guards]
  /\ streaming \in BOOLEAN
  /\ sender \in BOOLEAN
  /\ ended \subseteq SessionThreads \cup {"pipeline"}
  /\ \A t \in Threads : code[t] = <<>> => guards[t] = {}
  /\ \A t, u \in Threads : t # u => guards[t] \cap guards[u] \subseteq {Reading}

(* u has what t waits for: at the loop condition, in an iteration, or when *)
(* it joins the threads.                                                   *)
Blocks(u, t) ==
  \/ code[t] = <<>> /\ t \in SessionThreads \ ended /\ Has(u, Writing)
  \/ At(t, "take") /\ Excludes(u, Head(code[t]).guard)
  \/ At(t, "wait_for_readers") /\ Has(u, Reading)
  \/ (At(t, "if_sender") \/ At(t, "drop_sender")) /\ Has(u, VCS)
  \/ At(t, "join") /\ u \in SessionThreads \ ended

Waiting == {t \in Threads : \E u \in Threads : Blocks(u, t)}

(* No threads wait for each other in a circle, so that none of them ever   *)
(* goes on.                                                                *)
NoCircularWait ==
  ~ \E circle \in (SUBSET Waiting) \ {{}} :
      \A t \in circle : \E u \in circle : Blocks(u, t)

(* Once the client is gone, all threads of its connection end and the      *)
(* server can accept the next one.  The comments in connection_pipeline:   *)
(* "Allow threads to shutdown correctly", "Ensure shutdown of threads".    *)
DisconnectCompletes == code["pipeline"] # <<>> ~> "pipeline" \in ended

(* A frame that is handed to send_video is dealt with and the encoder gets *)
(* on, as does report_present, which the application waits for.            *)
FramesGoOn == code["encoder"] # <<>> ~> code["encoder"] = <<>>

(* custom_thread gets through its loop, where it gives the user's new      *)
(* frame rate to the statistics and to the bitrate manager.                *)
FrameRateUpdates == code["custom"] # <<>> ~> code["custom"] = <<>>
=============================================================================
