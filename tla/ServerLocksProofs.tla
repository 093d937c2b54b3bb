-------------------------- MODULE ServerLocksProofs --------------------------
(***************************************************************************)
(* Whatever happens in a connection, two threads never have guards that    *)
(* exclude each other, and a thread has none between two iterations.  If   *)
(* none of the activities that conflict meet, no threads ever wait for     *)
(* each other in a circle.                                                 *)
(*                                                                         *)
(* The argument: the locks have an order, which depends on the activities  *)
(* of the connection, and a thread only waits for a lock above all those   *)
(* it has.  So whoever blocks a thread waits, if at all, for a higher one. *)
(***************************************************************************)
EXTENDS ServerLocks, SequenceTheorems, WellFoundedInduction, TLAPS

(* Activities whose threads take locks in opposite orders.  While a writer *)
(* waits nobody gets a guard for reading, so that a second one taken in    *)
(* the hold of the first, as for rolling files, is such an order, too.     *)
Conflicts ==
  {{"frames", "disconnect"}, {"statistics", "frame_rate"}, {"tracking", "playspace"}, {"rolling"}}

ConflictFree == \A scenario \in Scenarios : \A c \in Conflicts : ~(c \subseteq scenario)

(* The order of the locks *)
Level(guard) ==
  CASE guard = VCS -> IF "frames" \in active THEN 1 ELSE 6
    [] guard = SM -> IF "statistics" \in active THEN 2 ELSE 6
    [] guard = TM -> IF "tracking" \in active THEN 3 ELSE 6
    [] guard = Writing -> 4
    [] guard = Reading -> 5
    [] guard = BM -> 7

(* The level of what a step waits for: a reader waits for the writer, a    *)
(* writer for the one before it and then for the readers.                  *)
WaitLevel(step) ==
  CASE step.op = "take" -> Level(IF step.guard = Reading THEN Writing ELSE step.guard)
    [] step.op = "wait_for_readers" -> Level(Reading)
    [] step.op = "if_sender" -> Level(VCS)
    [] step.op = "drop_sender" -> Level(VCS)
    [] step.op = "join" -> 0
    [] step.op = "return" -> 8

Ops == {"take", "wait_for_readers", "if_sender", "drop_sender", "join", "return"}
Steps == [op : Ops, guard : Guards \cup Ops, keep : SUBSET Guards]

Gained(step) ==
  CASE step.op = "take" -> {step.guard}
    [] step.op = "if_sender" -> {VCS}
    [] OTHER -> {}

(* What is true of each step that thread t comes to with the guards held *)
Fits(t, held, step) ==
  /\ step.keep \subseteq held \cup Gained(step)
  /\ step.op = "take" => step.guard \in Guards
  /\ step.op = "if_sender" => held = {}
  /\ step.op \in {"join", "return"} => t = "pipeline"
  /\ ConflictFree => \A guard \in held : Level(guard) < WaitLevel(step)

(* The guards the i-th step begins with, if the first one does with held *)
HeldAt(held, todo, i) == IF i = 1 THEN held ELSE todo[i - 1].keep

(* All steps fit, and leave the guards kept. *)
Path(t, held, todo, kept) ==
  /\ held \in SUBSET Guards
  /\ todo \in Seq(Steps)
  /\ kept = HeldAt(held, todo, Len(todo) + 1)
  /\ \A i \in 1..Len(todo) : Fits(t, HeldAt(held, todo, i), todo[i])

OnPath == \A t \in Threads : Path(t, guards[t], code[t], {})

LocksInv == TypeOK /\ OnPath /\ DOMAIN code = Threads

-----------------------------------------------------------------------------
(* Paths *)

LEMMA PathConcat ==
  ASSUME NEW t, NEW held, NEW first, NEW between, NEW then, NEW kept,
         Path(t, held, first, between), Path(t, between, then, kept)
  PROVE  Path(t, held, first \o then, kept)
<1> DEFINE n == Len(first)
           m == Len(then)
           todo == first \o then
<1>1. /\ n \in Nat /\ m \in Nat
      /\ todo \in Seq(Steps)
      /\ Len(todo) = n + m
      /\ \A i \in 1..(n + m) : todo[i] = IF i <= n THEN first[i] ELSE then[i - n]
  BY ConcatProperties, LenProperties DEF Path
<1> HIDE DEF todo
<1>2. \A i \in 1..(n + m + 1) :
        HeldAt(held, todo, i) =
          IF i <= n THEN HeldAt(held, first, i) ELSE HeldAt(between, then, i - n)
  <2> SUFFICES ASSUME NEW i \in 1..(n + m + 1)
               PROVE  HeldAt(held, todo, i) =
                        IF i <= n THEN HeldAt(held, first, i) ELSE HeldAt(between, then, i - n)
    OBVIOUS
  <2>1. CASE i <= n
    BY <1>1, <2>1 DEF HeldAt
  <2>2. CASE i = n + 1
    BY <1>1, <2>2 DEF HeldAt, Path
  <2>3. CASE i > n + 1
    <3>1. todo[i - 1] = then[(i - n) - 1]
      BY <1>1, <2>3
    <3> QED
      BY <1>1, <2>3, <3>1 DEF HeldAt
  <2> QED
    BY <1>1, <2>1, <2>2, <2>3
<1>3. kept = HeldAt(held, todo, Len(todo) + 1)
  <2>1. kept = HeldAt(between, then, m + 1)
    BY DEF Path
  <2> HIDE DEF n, m
  <2>2. PICK last \in 1..(n + m + 1) : last = n + m + 1
    BY <1>1
  <2>3. HeldAt(held, todo, last) = HeldAt(between, then, last - n)
    BY <1>1, <1>2, <2>2
  <2>4. Len(todo) + 1 = last /\ last - n = m + 1
    BY <1>1, <2>2
  <2> QED
    BY <2>1, <2>3, <2>4
<1>4. ASSUME NEW i \in 1..Len(todo)
      PROVE  Fits(t, HeldAt(held, todo, i), todo[i])
  <2>1. CASE i <= n
    <3>1. i \in 1..n /\ todo[i] = first[i] /\ HeldAt(held, todo, i) = HeldAt(held, first, i)
      BY <1>1, <1>2, <1>4, <2>1
    <3> QED
      BY <3>1 DEF Path
  <2>2. CASE i > n
    <3>1. /\ i - n \in 1..m
          /\ todo[i] = then[i - n]
          /\ HeldAt(held, todo, i) = HeldAt(between, then, i - n)
      BY <1>1, <1>2, <1>4, <2>2
    <3> QED
      BY <3>1 DEF Path
  <2> QED
    BY <1>1, <1>4, <2>1, <2>2
<1> QED
  BY <1>1, <1>3, <1>4 DEF Path, todo

(* A step taken leaves the rest of a path. *)
LEMMA PathTail ==
  ASSUME NEW t, NEW held, NEW todo, NEW kept, Path(t, held, todo, kept), todo # <<>>
  PROVE  /\ Head(todo) \in Steps
         /\ Fits(t, held, Head(todo))
         /\ Path(t, Head(todo).keep, Tail(todo), kept)
<1> DEFINE n == Len(todo)
           rest == Tail(todo)
<1>1. /\ n \in Nat \ {0}
      /\ Head(todo) \in Steps
      /\ Head(todo) = todo[1]
      /\ rest \in Seq(Steps)
      /\ Len(rest) = n - 1
      /\ \A i \in 1..(n - 1) : rest[i] = todo[i + 1]
  BY HeadTailProperties, EmptySeq DEF Path
<1> HIDE DEF rest, n
<1>2. \A i \in 1..n : HeldAt(Head(todo).keep, rest, i) = HeldAt(held, todo, i + 1)
  BY <1>1 DEF HeldAt
<1>3. Fits(t, held, Head(todo))
  <2>1. 1 \in 1..n /\ HeldAt(held, todo, 1) = held
    BY <1>1 DEF HeldAt
  <2> QED
    BY <1>1, <2>1 DEF Path, n
<1>4. \A i \in 1..Len(rest) : Fits(t, HeldAt(Head(todo).keep, rest, i), rest[i])
  <2> SUFFICES ASSUME NEW i \in 1..Len(rest)
               PROVE  Fits(t, HeldAt(Head(todo).keep, rest, i), rest[i])
    OBVIOUS
  <2>1. i \in 1..n /\ i + 1 \in 1..n /\ rest[i] = todo[i + 1]
    BY <1>1
  <2> QED
    BY <1>2, <2>1 DEF Path, n
<1>5. kept = HeldAt(Head(todo).keep, rest, Len(rest) + 1)
  <2>1. Len(rest) + 1 = n /\ n \in 1..n
    BY <1>1
  <2> QED
    BY <1>2, <2>1 DEF Path, n
<1>6. Head(todo).keep \in SUBSET Guards
  BY <1>1 DEF Steps
<1> QED
  BY <1>1, <1>3, <1>4, <1>5, <1>6 DEF Path, rest

(* Short paths *)
LEMMA PathNone ==
  ASSUME NEW t, NEW held \in SUBSET Guards
  PROVE  Path(t, held, <<>>, held)
  BY EmptySeq DEF Path, HeldAt

LEMMA PathOne ==
  ASSUME NEW t, NEW held \in SUBSET Guards, NEW a \in Steps, Fits(t, held, a)
  PROVE  Path(t, held, <<a>>, a.keep)
  BY DEF Path, HeldAt

LEMMA PathTwo ==
  ASSUME NEW t, NEW held \in SUBSET Guards, NEW a \in Steps, NEW b \in Steps,
         Fits(t, held, a), Fits(t, a.keep, b)
  PROVE  Path(t, held, <<a, b>>, b.keep)
  BY DEF Path, HeldAt

LEMMA PathThree ==
  ASSUME NEW t, NEW held \in SUBSET Guards, NEW a \in Steps, NEW b \in Steps, NEW c \in Steps,
         Fits(t, held, a), Fits(t, a.keep, b), Fits(t, b.keep, c)
  PROVE  Path(t, held, <<a, b, c>>, c.keep)
  BY DEF Path, HeldAt

-----------------------------------------------------------------------------
(* The iterations of the threads follow the order of the locks. *)

LEMMA NoConflict ==
  ASSUME active \in Scenarios, ConflictFree
  PROVE  /\ ~("frames" \in active /\ "disconnect" \in active)
         /\ ~("statistics" \in active /\ "frame_rate" \in active)
         /\ ~("tracking" \in active /\ "playspace" \in active)
         /\ "rolling" \notin active
  BY DEF ConflictFree, Conflicts

LEMMA StepTypes ==
  /\ \A guard \in Guards, keep \in SUBSET Guards : Take(guard, keep) \in Steps
  /\ \A op \in Ops, keep \in SUBSET Guards : Do(op, keep) \in Steps
  BY DEF Take, Do, Steps, Ops

LEMMA GuardNames ==
  /\ Guards = {VCS, SM, BM, TM, Reading, Writing}
  /\ VCS # SM /\ VCS # BM /\ VCS # TM /\ VCS # Reading /\ VCS # Writing
  /\ SM # BM /\ SM # TM /\ SM # Reading /\ SM # Writing
  /\ BM # TM /\ BM # Reading /\ BM # Writing
  /\ TM # Reading /\ TM # Writing /\ Reading # Writing
  BY DEF Guards, VCS, SM, BM, TM, Reading, Writing

LEMMA Levels ==
  /\ Level(VCS) = IF "frames" \in active THEN 1 ELSE 6
  /\ Level(SM) = IF "statistics" \in active THEN 2 ELSE 6
  /\ Level(TM) = IF "tracking" \in active THEN 3 ELSE 6
  /\ Level(Writing) = 4
  /\ Level(Reading) = 5
  /\ Level(BM) = 7
  BY GuardNames DEF Level

(* A lock above those held is taken. *)
LEMMA TakeFits ==
  ASSUME NEW t, NEW held \in SUBSET Guards, NEW guard \in Guards \ {Reading},
         NEW keep \in SUBSET (held \cup {guard}),
         ConflictFree => \A h \in held : Level(h) < Level(guard)
  PROVE  /\ Take(guard, keep) \in Steps
         /\ Take(guard, keep).keep = keep
         /\ Fits(t, held, Take(guard, keep))
<1>1. Take(guard, keep) \in Steps
  BY StepTypes
<1>2. /\ Take(guard, keep).op = "take"
      /\ Take(guard, keep).guard = guard
      /\ Take(guard, keep).keep = keep
  BY DEF Take
<1>3. Gained(Take(guard, keep)) = {guard}
  BY <1>2 DEF Gained
<1>4. WaitLevel(Take(guard, keep)) = Level(guard)
  BY <1>2 DEF WaitLevel
<1> QED
  BY <1>1, <1>2, <1>3, <1>4 DEF Fits

(* A reader waits for the writer. *)
LEMMA ReadFits ==
  ASSUME NEW t, NEW held \in SUBSET Guards, NEW keep \in SUBSET (held \cup {Reading}),
         ConflictFree => \A h \in held : Level(h) < 4
  PROVE  /\ Take(Reading, keep) \in Steps
         /\ Take(Reading, keep).keep = keep
         /\ Fits(t, held, Take(Reading, keep))
<1>1. Take(Reading, keep) \in Steps
  BY StepTypes, GuardNames
<1>2. /\ Take(Reading, keep).op = "take"
      /\ Take(Reading, keep).guard = Reading
      /\ Take(Reading, keep).keep = keep
  BY DEF Take
<1>3. Gained(Take(Reading, keep)) = {Reading}
  BY <1>2 DEF Gained
<1>4. WaitLevel(Take(Reading, keep)) = 4
  BY <1>2, Levels DEF WaitLevel
<1> QED
  BY <1>1, <1>2, <1>3, <1>4, GuardNames DEF Fits

LEMMA WritePath ==
  ASSUME NEW t, NEW keep \in SUBSET {Writing}
  PROVE  Path(t, {}, Write(keep), keep)
<1> USE GuardNames, Levels
<1>1. /\ Take(Writing, {Writing}) \in Steps
      /\ Take(Writing, {Writing}).keep = {Writing}
      /\ Fits(t, {}, Take(Writing, {Writing}))
  BY TakeFits
<1>2. Do("wait_for_readers", keep) \in Steps /\ Do("wait_for_readers", keep).keep = keep
  BY StepTypes DEF Ops, Do
<1>3. Fits(t, {Writing}, Do("wait_for_readers", keep))
  BY DEF Fits, Do, Gained, WaitLevel
<1> QED
  BY <1>1, <1>2, <1>3, PathTwo DEF Write

(* report_present, and get_dynamic_encoder_params *)
LEMMA EncoderPaths ==
  /\ Path("encoder", {}, ReportPresent, {})
  /\ Path("encoder", {}, GetDynamicEncoderParams, {})
<1> USE GuardNames, Levels
<1>1. /\ Take(SM, {}) \in Steps
      /\ Take(SM, {}).keep = {}
      /\ Fits("encoder", {}, Take(SM, {}))
  BY TakeFits
<1>2. /\ Take(Reading, {Reading}) \in Steps
      /\ Take(Reading, {Reading}).keep = {Reading}
      /\ Fits("encoder", {}, Take(Reading, {Reading}))
  BY ReadFits
<1>3. /\ Take(BM, {}) \in Steps
      /\ Take(BM, {}).keep = {}
      /\ Fits("encoder", {Reading}, Take(BM, {}))
  BY TakeFits
<1> QED
  BY <1>1, <1>2, <1>3, PathThree DEF ReportPresent, GetDynamicEncoderParams

LEMMA SendVideoPath ==
  ASSUME active \in Scenarios, NEW rolling \in BOOLEAN,
         IF rolling THEN "rolling" \in active ELSE "frames" \in active
  PROVE  Path("encoder", {}, SendVideo(rolling), {})
<1> USE GuardNames
<1>0. Level(BM) = 7 /\ Level(SM) \in {2, 6} /\ (ConflictFree => Level(VCS) = 1 /\ ~rolling)
  BY Levels, NoConflict
<1> DEFINE check == <<Do("if_sender", {VCS})>>
           file == IF rolling THEN <<Take(Reading, {VCS, Reading})>> ELSE <<>>
           send == <<Take(Reading, {VCS}), Take(SM, {VCS, SM}), Take(BM, {})>>
           held == IF rolling THEN {VCS, Reading} ELSE {VCS}
<1>1. Path("encoder", {}, check, {VCS})
  <2>1. Do("if_sender", {VCS}) \in Steps /\ Do("if_sender", {VCS}).keep = {VCS}
    BY StepTypes DEF Ops, Do
  <2>2. Fits("encoder", {}, Do("if_sender", {VCS}))
    BY DEF Fits, Do, Gained
  <2> QED
    BY <2>1, <2>2, PathOne
<1>2. Path("encoder", {VCS}, file, held)
  <2>1. CASE rolling
    <3>1. /\ Take(Reading, {VCS, Reading}) \in Steps
          /\ Take(Reading, {VCS, Reading}).keep = {VCS, Reading}
          /\ Fits("encoder", {VCS}, Take(Reading, {VCS, Reading}))
      <4>1. {VCS} \in SUBSET Guards /\ {VCS, Reading} \in SUBSET ({VCS} \cup {Reading})
        OBVIOUS
      <4>2. ConflictFree => \A h \in {VCS} : Level(h) < 4
        BY <1>0
      <4> QED
        BY <4>1, <4>2, ReadFits
    <3> QED
      BY <2>1, <3>1, PathOne
  <2>2. CASE ~rolling
    BY <2>2, PathNone
  <2> QED
    BY <2>1, <2>2
<1>3. Path("encoder", held, send, {})
  <2>1. /\ Take(Reading, {VCS}) \in Steps
        /\ Take(Reading, {VCS}).keep = {VCS}
        /\ Fits("encoder", held, Take(Reading, {VCS}))
    <3>1. held \in SUBSET Guards /\ {VCS} \in SUBSET (held \cup {Reading})
      OBVIOUS
    <3>2. ConflictFree => \A h \in held : Level(h) < 4
      BY <1>0
    <3> HIDE DEF held
    <3> QED
      BY <3>1, <3>2, ReadFits
  <2>2. /\ Take(SM, {VCS, SM}) \in Steps
        /\ Take(SM, {VCS, SM}).keep = {VCS, SM}
        /\ Fits("encoder", {VCS}, Take(SM, {VCS, SM}))
    <3>1. {VCS} \in SUBSET Guards /\ {VCS, SM} \in SUBSET ({VCS} \cup {SM})
      OBVIOUS
    <3>2. ConflictFree => \A h \in {VCS} : Level(h) < Level(SM)
      BY <1>0
    <3> QED
      BY <3>1, <3>2, TakeFits
  <2>3. /\ Take(BM, {}) \in Steps
        /\ Take(BM, {}).keep = {}
        /\ Fits("encoder", {VCS, SM}, Take(BM, {}))
    <3>1. {VCS, SM} \in SUBSET Guards /\ \A h \in {VCS, SM} : Level(h) < Level(BM)
      BY Levels
    <3> QED
      BY <3>1, TakeFits
  <2>4. held \in SUBSET Guards
    OBVIOUS
  <2> HIDE DEF held
  <2>5. /\ Fits("encoder", Take(Reading, {VCS}).keep, Take(SM, {VCS, SM}))
        /\ Fits("encoder", Take(SM, {VCS, SM}).keep, Take(BM, {}))
    BY <2>1, <2>2, <2>3
  <2>6. Path("encoder", held, send, Take(BM, {}).keep)
    BY <2>1, <2>2, <2>3, <2>4, <2>5, PathThree
  <2> QED
    BY <2>3, <2>6
<1> HIDE DEF check, file, send, held
<1>4. Path("encoder", {}, check \o file, held)
  BY <1>1, <1>2, PathConcat
<1>5. Path("encoder", {}, (check \o file) \o send, {})
  BY <1>3, <1>4, PathConcat
<1> QED
  BY <1>5 DEF SendVideo, check, file, send

LEMMA StatisticsPath ==
  ASSUME active \in Scenarios, "statistics" \in active
  PROVE  Path("statistics", {}, <<Take(SM, {SM}), Take(Reading, {SM, Reading}), Take(BM, {})>>, {})
<1> USE GuardNames
<1>1. /\ Take(SM, {SM}) \in Steps
      /\ Take(SM, {SM}).keep = {SM}
      /\ Fits("statistics", {}, Take(SM, {SM}))
  BY TakeFits
<1>2. /\ Take(Reading, {SM, Reading}) \in Steps
      /\ Take(Reading, {SM, Reading}).keep = {SM, Reading}
      /\ Fits("statistics", {SM}, Take(Reading, {SM, Reading}))
  <2>1. {SM} \in SUBSET Guards /\ {SM, Reading} \in SUBSET ({SM} \cup {Reading})
    OBVIOUS
  <2>2. \A h \in {SM} : Level(h) < 4
    BY Levels
  <2> QED
    BY <2>1, <2>2, ReadFits
<1>3. /\ Take(BM, {}) \in Steps
      /\ Take(BM, {}).keep = {}
      /\ Fits("statistics", {SM, Reading}, Take(BM, {}))
  <2>1. {SM, Reading} \in SUBSET Guards /\ \A h \in {SM, Reading} : Level(h) < Level(BM)
    BY Levels
  <2> QED
    BY <2>1, TakeFits
<1> QED
  BY <1>1, <1>2, <1>3, PathThree

LEMMA FrameRatePath ==
  ASSUME active \in Scenarios, "frame_rate" \in active
  PROVE  Path("custom", {}, Write({Writing}) \o <<Take(SM, {Writing}), Take(BM, {})>>, {})
<1> USE GuardNames
<1>1. Path("custom", {}, Write({Writing}), {Writing})
  BY WritePath
<1>2. {Writing} \in SUBSET Guards /\ {Writing} \in SUBSET ({Writing} \cup {SM})
  OBVIOUS
<1>3. /\ Take(SM, {Writing}) \in Steps
      /\ Take(SM, {Writing}).keep = {Writing}
      /\ Fits("custom", {Writing}, Take(SM, {Writing}))
  <2>1. ConflictFree => \A h \in {Writing} : Level(h) < Level(SM)
    BY Levels, NoConflict
  <2> QED
    BY <1>2, <2>1, TakeFits
<1>4. /\ Take(BM, {}) \in Steps
      /\ Take(BM, {}).keep = {}
      /\ Fits("custom", {Writing}, Take(BM, {}))
  <2>1. \A h \in {Writing} : Level(h) < Level(BM)
    BY Levels
  <2> QED
    BY <1>2, <2>1, TakeFits
<1>5. Path("custom", {Writing}, <<Take(SM, {Writing}), Take(BM, {})>>, {})
  BY <1>2, <1>3, <1>4, PathTwo
<1> QED
  BY <1>1, <1>5, PathConcat

LEMMA NetworkStatisticsPath == Path("control", {}, NetworkStatistics, {})
<1> USE GuardNames
<1>1. /\ Take(SM, {SM}) \in Steps
      /\ Take(SM, {SM}).keep = {SM}
      /\ Fits("control", {}, Take(SM, {SM}))
  BY TakeFits
<1>2. /\ Take(BM, {}) \in Steps
      /\ Take(BM, {}).keep = {}
      /\ Fits("control", {SM}, Take(BM, {}))
  <2>1. {SM} \in SUBSET Guards /\ \A h \in {SM} : Level(h) < Level(BM)
    BY Levels
  <2> QED
    BY <2>1, TakeFits
<1> QED
  BY <1>1, <1>2, PathTwo DEF NetworkStatistics

LEMMA PlayspaceSyncPath ==
  ASSUME active \in Scenarios, "playspace" \in active
  PROVE  Path("control", {}, PlayspaceSync, {})
<1> USE GuardNames
<1>1. /\ Take(Reading, {Reading}) \in Steps
      /\ Take(Reading, {Reading}).keep = {Reading}
      /\ Fits("control", {}, Take(Reading, {Reading}))
  BY ReadFits
<1>2. /\ Take(TM, {}) \in Steps
      /\ Take(TM, {}).keep = {}
      /\ Fits("control", {Reading}, Take(TM, {}))
  <2>1. {Reading} \in SUBSET Guards
    OBVIOUS
  <2>2. ConflictFree => \A h \in {Reading} : Level(h) < Level(TM)
    BY Levels, NoConflict
  <2> QED
    BY <2>1, <2>2, TakeFits
<1> QED
  BY <1>1, <1>2, PathTwo DEF PlayspaceSync

LEMMA TrackingPath ==
  ASSUME active \in Scenarios, "tracking" \in active
  PROVE  Path("tracking", {}, <<Take(TM, {TM}), Take(Reading, {}), Take(SM, {})>>, {})
<1> USE GuardNames
<1>1. /\ Take(TM, {TM}) \in Steps
      /\ Take(TM, {TM}).keep = {TM}
      /\ Fits("tracking", {}, Take(TM, {TM}))
  BY TakeFits
<1>2. /\ Take(Reading, {}) \in Steps
      /\ Take(Reading, {}).keep = {}
      /\ Fits("tracking", {TM}, Take(Reading, {}))
  <2>1. {TM} \in SUBSET Guards /\ \A h \in {TM} : Level(h) < 4
    BY Levels
  <2> QED
    BY <2>1, ReadFits
<1>3. /\ Take(SM, {}) \in Steps
      /\ Take(SM, {}).keep = {}
      /\ Fits("tracking", {}, Take(SM, {}))
  BY TakeFits
<1>4. /\ Fits("tracking", Take(TM, {TM}).keep, Take(Reading, {}))
      /\ Fits("tracking", Take(Reading, {}).keep, Take(SM, {}))
  BY <1>1, <1>2, <1>3
<1>5. Path("tracking", {}, <<Take(TM, {TM}), Take(Reading, {}), Take(SM, {})>>, Take(SM, {}).keep)
  BY <1>1, <1>2, <1>3, <1>4, PathThree
<1> QED
  BY <1>3, <1>5

LEMMA DisconnectPath ==
  ASSUME active \in Scenarios, "disconnect" \in active
  PROVE  Path("pipeline", {}, Disconnect, {})
<1> USE GuardNames
<1> DEFINE lock == Write({Writing})
           join == <<Do("drop_sender", {}), Do("join", {}), Take(BM, {})>>
           state == Write({})
           leave == <<Do("return", {})>>
<1>1. Path("pipeline", {}, lock, {Writing})
  BY WritePath
<1>2. Path("pipeline", {Writing}, join, {})
  <2>1. {Writing} \in SUBSET Guards
    OBVIOUS
  <2>2. /\ Do("drop_sender", {}) \in Steps
        /\ Do("drop_sender", {}).keep = {}
        /\ Do("join", {}) \in Steps
        /\ Do("join", {}).keep = {}
    BY StepTypes DEF Ops, Do
  <2>3. Fits("pipeline", {Writing}, Do("drop_sender", {}))
    <3>1. ConflictFree => \A h \in {Writing} : Level(h) < Level(VCS)
      BY Levels, NoConflict
    <3> QED
      BY <3>1 DEF Fits, Do, Gained, WaitLevel
  <2>4. Fits("pipeline", {}, Do("join", {}))
    BY DEF Fits, Do
  <2>5. /\ Take(BM, {}) \in Steps
        /\ Take(BM, {}).keep = {}
        /\ Fits("pipeline", {}, Take(BM, {}))
    BY TakeFits
  <2> QED
    BY <2>1, <2>2, <2>3, <2>4, <2>5, PathThree
<1>3. Path("pipeline", {}, state, {})
  BY WritePath
<1>4. Path("pipeline", {}, leave, {})
  <2>1. Do("return", {}) \in Steps /\ Do("return", {}).keep = {}
    BY StepTypes DEF Ops, Do
  <2>2. Fits("pipeline", {}, Do("return", {}))
    BY DEF Fits, Do
  <2> QED
    BY <2>1, <2>2, PathOne
<1>5. Disconnect = ((lock \o join) \o state) \o leave
  BY DEF Disconnect
<1> HIDE DEF lock, join, state, leave
<1>6. Path("pipeline", {}, lock \o join, {})
  BY <1>1, <1>2, PathConcat
<1>7. Path("pipeline", {}, (lock \o join) \o state, {})
  BY <1>3, <1>6, PathConcat
<1>8. Path("pipeline", {}, ((lock \o join) \o state) \o leave, {})
  BY <1>4, <1>7, PathConcat
<1> QED
  BY <1>5, <1>8

LEMMA IterationPath ==
  ASSUME active \in Scenarios, NEW t \in Threads, NEW todo \in Iterations(t)
  PROVE  Path(t, {}, todo, {})
<1>1. CASE t = "encoder"
  <2>1. \/ todo \in {ReportPresent, GetDynamicEncoderParams}
        \/ "frames" \in active /\ todo = SendVideo(FALSE)
        \/ "rolling" \in active /\ todo = SendVideo(TRUE)
    BY <1>1 DEF Iterations, Encoder, When
  <2>2. /\ "frames" \in active => Path("encoder", {}, SendVideo(FALSE), {})
        /\ "rolling" \in active => Path("encoder", {}, SendVideo(TRUE), {})
    BY SendVideoPath
  <2> QED
    BY <1>1, <2>1, <2>2, EncoderPaths
<1>2. CASE t = "video_send"
  <2>1. todo = <<Take(SM, {})>>
    BY <1>2 DEF Iterations
  <2>2. /\ Take(SM, {}) \in Steps
        /\ Take(SM, {}).keep = {}
        /\ Fits("video_send", {}, Take(SM, {}))
    BY TakeFits, GuardNames
  <2> QED
    BY <1>2, <2>1, <2>2, PathOne
<1>3. CASE t = "statistics"
  BY <1>3, StatisticsPath DEF Iterations, Statistics, When
<1>4. CASE t = "custom"
  <2>1. \/ todo = Write({})
        \/ /\ "frame_rate" \in active
           /\ todo = Write({Writing}) \o <<Take(SM, {Writing}), Take(BM, {})>>
    BY <1>4 DEF Iterations, Custom, When
  <2> QED
    BY <1>4, <2>1, WritePath, FrameRatePath
<1>5. CASE t = "control"
  <2>1. todo = NetworkStatistics \/ (todo = PlayspaceSync /\ "playspace" \in active)
    BY <1>5 DEF Iterations, Control, When
  <2> QED
    BY <1>5, <2>1, NetworkStatisticsPath, PlayspaceSyncPath
<1>6. CASE t = "tracking"
  BY <1>6, TrackingPath DEF Iterations, Tracking, When
<1>7. CASE t = "pipeline"
  BY <1>7, DisconnectPath DEF Iterations, When
<1> QED
  BY <1>1, <1>2, <1>3, <1>4, <1>5, <1>6, <1>7 DEF Threads, SessionThreads

-----------------------------------------------------------------------------
(* Every thread stays on its path, whatever activities meet. *)

LEMMA InitLocks == Init => LocksInv
<1> SUFFICES ASSUME Init PROVE LocksInv
  OBVIOUS
<1>1. TypeOK
  BY DEF Init, TypeOK
<1>2. OnPath
  BY PathNone DEF Init, OnPath
<1> QED
  BY <1>1, <1>2 DEF LocksInv, Init

LEMMA PathKept ==
  ASSUME active' = active, NEW t \in Threads, NEW held, NEW todo, Path(t, held, todo, {}),
         guards'[t] = held, code'[t] = todo
  PROVE  Path(t, guards[t], code[t], {})'
  BY DEF Path, Fits, HeldAt, WaitLevel, Level, Gained

(* The step of a thread on its path *)
LEMMA ThreadStep ==
  ASSUME LocksInv, NEW t \in Threads, NEW todo, NEW held,
         UNCHANGED <<active>>,
         code' = [code EXCEPT ![t] = todo],
         guards' = [guards EXCEPT ![t] = held],
         Path(t, held, todo, {}),
         \A u \in Threads \ {t} : held \cap guards[u] \subseteq {Reading},
         streaming' \in BOOLEAN, sender' \in BOOLEAN,
         ended' \subseteq SessionThreads \cup {"pipeline"}
  PROVE  LocksInv'
<1> USE DEF LocksInv, TypeOK
<1>1. /\ guards'[t] = held /\ code'[t] = todo
      /\ \A u \in Threads \ {t} : guards'[u] = guards[u] /\ code'[u] = code[u]
  OBVIOUS
<1>2. held \in SUBSET Guards /\ (todo = <<>> => held = {})
  BY EmptySeq DEF Path, HeldAt
<1>3. OnPath'
  BY <1>1, PathKept DEF OnPath
<1>4. guards' \in [Threads -> SUBSET Guards] /\ DOMAIN code' = Threads
  BY <1>2
<1>5. \A u, v \in Threads : u # v => guards'[u] \cap guards'[v] \subseteq {Reading}
  BY <1>1
<1>6. \A u \in Threads : code'[u] = <<>> => guards'[u] = {}
  BY <1>1, <1>2
<1> QED
  BY <1>3, <1>4, <1>5, <1>6

(* A step of an iteration *)
LEMMA ContinueStep ==
  ASSUME LocksInv, NEW t \in Threads, code[t] # <<>>, Continue(t), UNCHANGED active,
         \A u \in Threads \ {t} : Gained(Head(code[t])) \cap guards[u] \subseteq {Reading},
         streaming' \in BOOLEAN, sender' \in BOOLEAN,
         ended' \subseteq SessionThreads \cup {"pipeline"}
  PROVE  LocksInv'
<1>1. Path(t, guards[t], code[t], {})
  BY DEF LocksInv, OnPath
<1>2. /\ Path(t, Head(code[t]).keep, Tail(code[t]), {})
      /\ Head(code[t]).keep \subseteq guards[t] \cup Gained(Head(code[t]))
  BY <1>1, PathTail DEF Fits
<1>3. \A u \in Threads \ {t} : Head(code[t]).keep \cap guards[u] \subseteq {Reading}
  BY <1>2 DEF LocksInv, TypeOK
<1> QED
  BY <1>2, <1>3, ThreadStep DEF Continue

LEMMA NextLocks == LocksInv /\ [Next]_vars => LocksInv'
<1> SUFFICES ASSUME LocksInv, [Next]_vars PROVE LocksInv'
  OBVIOUS
<1>1. CASE UNCHANGED vars
  <2>1. OnPath'
    BY <1>1, PathKept DEF vars, LocksInv, OnPath
  <2> QED
    BY <1>1, <2>1 DEF vars, LocksInv, TypeOK
<1>2. ASSUME NEW t \in Threads, code[t] = <<>>, NEW todo \in Iterations(t),
             code' = [code EXCEPT ![t] = todo],
             UNCHANGED <<active, guards, streaming, sender, ended>>
      PROVE  LocksInv'
  <2>1. Path(t, {}, todo, {})
    BY IterationPath DEF LocksInv, TypeOK
  <2>2. guards' = [guards EXCEPT ![t] = {}]
    BY <1>2 DEF LocksInv, TypeOK
  <2> QED
    BY <1>2, <2>1, <2>2, ThreadStep DEF LocksInv, TypeOK
<1>3. ASSUME NEW t \in Threads, Loop(t) PROVE LocksInv'
  <2>1. CASE streaming
    BY <1>2, <1>3, <2>1 DEF Loop, DropsGuard
  <2>2. CASE ~streaming
    <3>1. UNCHANGED <<active, code, guards, streaming, sender>> /\ ended' = ended \cup {t}
      BY <1>3, <2>2 DEF Loop
    <3>2. OnPath'
      BY <3>1, PathKept DEF LocksInv, OnPath
    <3> QED
      BY <1>3, <3>1, <3>2 DEF Loop, LocksInv, TypeOK
  <2> QED
    BY <2>1, <2>2
<1>4. ASSUME NEW t \in Threads, Call(t) PROVE LocksInv'
  BY <1>2, <1>4 DEF Call
<1>5. ASSUME NEW t \in Threads, TakeGuard(t) PROVE LocksInv'
  <2>1. Gained(Head(code[t])) = {Head(code[t]).guard}
    BY <1>5 DEF TakeGuard, At, Gained
  <2>2. \A u \in Threads \ {t} : Gained(Head(code[t])) \cap guards[u] \subseteq {Reading}
    BY <1>5, <2>1 DEF TakeGuard, Free, Excludes, Has
  <2> QED
    BY <1>5, <2>2, ContinueStep DEF TakeGuard, At, LocksInv, TypeOK
<1>6. ASSUME NEW t \in Threads, WaitForReaders(t) PROVE LocksInv'
  BY <1>6, ContinueStep DEF WaitForReaders, At, Gained, LocksInv, TypeOK
<1>7. ASSUME NEW t \in Threads, IfSender(t) PROVE LocksInv'
  <2>1. CASE sender
    <3>1. \A u \in Threads \ {t} : Gained(Head(code[t])) \cap guards[u] \subseteq {Reading}
      BY <1>7, GuardNames DEF IfSender, At, Gained, Free, Excludes, Has
    <3> QED
      BY <1>7, <2>1, <3>1, ContinueStep DEF IfSender, At, LocksInv, TypeOK
  <2>2. CASE ~sender
    <3>1. Path(t, guards[t], code[t], {}) /\ code[t] # <<>>
      BY <1>7 DEF IfSender, At, LocksInv, OnPath
    <3>2. guards[t] = {}
      BY <1>7, <3>1, PathTail DEF IfSender, At, Fits
    <3>3. guards' = [guards EXCEPT ![t] = {}]
      BY <1>7, <2>2, <3>2 DEF IfSender, LocksInv, TypeOK
    <3>4. code' = [code EXCEPT ![t] = <<>>] /\ UNCHANGED <<active, streaming, sender, ended>>
      BY <1>7, <2>2 DEF IfSender
    <3> QED
      BY <3>3, <3>4, PathNone, ThreadStep DEF LocksInv, TypeOK
  <2> QED
    BY <2>1, <2>2
<1>8. ASSUME NEW t \in Threads, DropSender(t) PROVE LocksInv'
  BY <1>8, ContinueStep DEF DropSender, At, Gained, LocksInv, TypeOK
<1>9. ASSUME NEW t \in Threads, Join(t) PROVE LocksInv'
  BY <1>9, ContinueStep DEF Join, At, Gained, LocksInv, TypeOK
<1>10. ASSUME NEW t \in Threads, Return(t) PROVE LocksInv'
  <2>1. Path(t, guards[t], code[t], {}) /\ code[t] # <<>>
    BY <1>10 DEF Return, At, LocksInv, OnPath
  <2>2. t = "pipeline"
    BY <1>10, <2>1, PathTail DEF Return, At, Fits
  <2> QED
    BY <1>10, <2>2, ContinueStep DEF Return, At, Gained, LocksInv, TypeOK
<1> QED
  BY <1>1, <1>3, <1>4, <1>5, <1>6, <1>7, <1>8, <1>9, <1>10 DEF Next, Step

(* The types, and that every thread is on its path *)
THEOREM LocksInvariant == Spec => []LocksInv
  BY InitLocks, NextLocks, PTL DEF Spec

(* Whatever activities meet, guards that exclude each other are never had  *)
(* by two threads, and none is left when an iteration ends.                *)
THEOREM GuardsExclude == Spec => []TypeOK
<1>1. LocksInv => TypeOK
  BY DEF LocksInv
<1> QED
  BY <1>1, LocksInvariant, PTL

-----------------------------------------------------------------------------
(* What a thread waits for, on a scale: a thread at its loop condition     *)
(* waits for the writer.                                                   *)
Waits(t) == IF code[t] = <<>> THEN 4 ELSE WaitLevel(Head(code[t]))

(* The least number principle *)
LEMMA SmallestOfSet ==
  ASSUME NEW S, S \subseteq Nat, S # {}
  PROVE  \E x \in S : \A y \in S : x <= y
<1>1. PICK R : R = OpToRel(<, Nat)
  OBVIOUS
<1>2. IsWellFoundedOn(R, Nat)
  BY <1>1, NatLessThanWellFounded
<1>3. PICK x \in S : \A y \in S : ~(<<y, x>> \in R)
  BY <1>2, WFMin
<1>4. ASSUME NEW y \in S PROVE x <= y
  <2>1. <<y, x>> \in R <=> y < x
    BY <1>1 DEF OpToRel
  <2> QED
    BY <1>3, <2>1
<1> QED
  BY <1>4

LEMMA WaitLevels ==
  ASSUME NEW t \in Threads, NEW todo \in Seq(Steps), todo # <<>>, NEW held,
         Fits(t, held, Head(todo))
  PROVE  /\ WaitLevel(Head(todo)) \in 0..8
         /\ t # "pipeline" => WaitLevel(Head(todo)) # 0
<1>1. Head(todo).op \in Ops
  <2>1. Head(todo) \in Steps
    BY HeadTailProperties
  <2> QED
    BY <2>1 DEF Steps
<1>2. \A guard \in Guards : Level(guard) \in 1..7
  BY Levels, GuardNames
<1>3. VCS \in Guards /\ Reading \in Guards /\ Writing \in Guards
  BY GuardNames
<1>4. CASE Head(todo).op = "take"
  BY <1>2, <1>3, <1>4 DEF WaitLevel, Fits
<1>5. CASE Head(todo).op # "take"
  BY <1>1, <1>2, <1>3, <1>5 DEF WaitLevel, Fits, Ops
<1> QED
  BY <1>4, <1>5

(* Whoever blocks a thread waits for something above. *)
LEMMA BlockerIsAbove ==
  ASSUME ConflictFree, LocksInv, NEW t \in Threads, NEW u \in Threads, Blocks(u, t)
  PROVE  Waits(t) \in 0..8 /\ Waits(u) \in 0..8 /\ Waits(t) < Waits(u)
<1>1. \A v \in Threads : Path(v, guards[v], code[v], {})
  BY DEF LocksInv, OnPath
<1>2. \A v \in Threads :
        /\ Waits(v) \in 0..8
        /\ v # "pipeline" => Waits(v) # 0
  <2> SUFFICES ASSUME NEW v \in Threads
               PROVE  Waits(v) \in 0..8 /\ (v # "pipeline" => Waits(v) # 0)
    OBVIOUS
  <2>1. CASE code[v] = <<>>
    BY <2>1 DEF Waits
  <2>2. CASE code[v] # <<>>
    <3>1. Fits(v, guards[v], Head(code[v])) /\ code[v] \in Seq(Steps)
      BY <1>1, <2>2, PathTail DEF Path
    <3> QED
      BY <2>2, <3>1, WaitLevels DEF Waits
  <2> QED
    BY <2>1, <2>2
<1>3. ASSUME NEW guard \in guards[u]
      PROVE  Level(guard) < Waits(u)
  <2>1. code[u] # <<>>
    BY DEF LocksInv, TypeOK
  <2>2. Fits(u, guards[u], Head(code[u]))
    BY <1>1, <2>1, PathTail
  <2> QED
    BY <2>1, <2>2 DEF Waits, Fits
<1>4. CASE code[t] = <<>> /\ Has(u, Writing)
  BY <1>2, <1>3, <1>4, Levels DEF Has, Waits
<1>5. CASE At(t, "take") /\ Excludes(u, Head(code[t]).guard)
  <2> DEFINE guard == IF Head(code[t]).guard = Reading THEN Writing ELSE Head(code[t]).guard
  <2>1. guard \in guards[u]
    BY <1>5 DEF Excludes, Has
  <2>2. Waits(t) = Level(guard)
    BY <1>5 DEF At, Waits, WaitLevel
  <2> QED
    BY <1>2, <1>3, <2>1, <2>2
<1>6. CASE At(t, "wait_for_readers") /\ Has(u, Reading)
  <2>1. Waits(t) = Level(Reading)
    BY <1>6 DEF At, Waits, WaitLevel
  <2> QED
    BY <1>2, <1>3, <1>6, <2>1 DEF Has
<1>7. CASE (At(t, "if_sender") \/ At(t, "drop_sender")) /\ Has(u, VCS)
  <2>1. Waits(t) = Level(VCS)
    BY <1>7 DEF At, Waits, WaitLevel
  <2> QED
    BY <1>2, <1>3, <1>7, <2>1 DEF Has
<1>8. CASE At(t, "join") /\ u \in SessionThreads \ ended
  <2>1. Waits(t) = 0
    BY <1>8 DEF At, Waits, WaitLevel
  <2>2. u # "pipeline"
    BY <1>8 DEF SessionThreads
  <2> QED
    BY <1>2, <2>1, <2>2
<1> QED
  BY <1>4, <1>5, <1>6, <1>7, <1>8 DEF Blocks

(* As long as the activities that conflict do not meet, no threads ever    *)
(* wait for each other in a circle.                                        *)
THEOREM NoDeadlock ==
  ASSUME ConflictFree
  PROVE  Spec => []NoCircularWait
<1>1. LocksInv => NoCircularWait
  <2> SUFFICES ASSUME LocksInv,
                      NEW circle \in SUBSET Waiting, circle # {},
                      \A t \in circle : \E u \in circle : Blocks(u, t)
               PROVE  FALSE
    BY DEF NoCircularWait
  <2>1. circle \subseteq Threads
    BY DEF Waiting
  <2>2. \A t \in circle : \E u \in circle :
          Waits(t) \in 0..8 /\ Waits(u) \in 0..8 /\ Waits(t) < Waits(u)
    BY <2>1, BlockerIsAbove
  <2> DEFINE highest == {8 - Waits(t) : t \in circle}
  <2>3. highest \subseteq Nat /\ highest # {}
    BY <2>2
  <2>4. PICK least \in highest : \A other \in highest : least <= other
    <3> HIDE DEF highest
    <3> QED
      BY <2>3, SmallestOfSet
  <2>5. PICK t \in circle : least = 8 - Waits(t)
    OBVIOUS
  <2>6. PICK u \in circle : Waits(t) \in 0..8 /\ Waits(u) \in 0..8 /\ Waits(t) < Waits(u)
    BY <2>2
  <2>7. least <= 8 - Waits(u)
    BY <2>4
  <2> QED
    BY <2>5, <2>6, <2>7
<1> QED
  BY <1>1, LocksInvariant, PTL
=============================================================================
