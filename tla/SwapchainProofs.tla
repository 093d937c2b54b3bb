--------------------------- MODULE SwapchainProofs ---------------------------
(***************************************************************************)
(* The images and the waits of the swapchains of the Vulkan layer, for any *)
(* number of swapchains, images and presents, and whichever fences fail.   *)
(***************************************************************************)
EXTENDS Swapchain, FiniteSetTheorems, WellFoundedInduction, TLAPS

(* Ancestor and descendant of a swapchain that lives live, and point back. *)
Links ==
  \A c, d \in Chains :
    /\ life[d] = "live" /\ ancestor[d] = c =>
         descendant[c] = d /\ c < d /\ life[c] = "live"
    /\ life[c] = "live" /\ descendant[c] = d => ancestor[d] = c /\ life[d] = "live"

(* Swapchains are created in the order of their numbers. *)
InOrder == \A c, d \in Chains : c < d /\ life[d] # "none" => life[c] # "none"

(* What a swapchain that was never created looks like *)
Untouched ==
  \A c \in Chains :
    life[c] = "none" => /\ flip[c].pc = "off"
                        /\ ring[c] = <<>>
                        /\ inFlight[c] = NoImage
                        /\ descendant[c] = NoChain

(* Where the flip threads are *)
FlipAt ==
  \A c \in Chains :
    /\ flip[c].pc \in {"fence", "ancestor"} => flip[c].image \in Images
    /\ life[c] # "live" => flip[c].pc \in {"off", "done"}
    /\ flip[c].pc = "ancestor" => /\ firstPresent[c]
                                  /\ flip[c].of = ancestor[c]
                                  /\ ancestor[c] # NoChain
                                  /\ image[c][flip[c].image] = "PENDING"
    /\ startPresent[c] > 0 => ~firstPresent[c]

(* A swapchain that is torn down past its waits has no descendant that has *)
(* yet to flip once over it.                                               *)
NoFirstFlip(c) ==
  /\ flip[c].pc # "ancestor"
  /\ firstPresent[c] => \A i \in Images : image[c][i] # "PENDING"

(* What the application is in the middle of *)
AppAt ==
  /\ app.pc # "idle" => app.chain \in Chains /\ life[app.chain] = "live"
  /\ app.pc = "acquire" => Newest(app.chain)
  /\ app.pc = "await_start" => descendant[app.chain] # NoChain
  /\ app.pc \in {"drain", "stop", "join"} /\ descendant[app.chain] # NoChain
       => NoFirstFlip(descendant[app.chain])

(* An image that waits or is flipped is PENDING, or is FREE and then a     *)
(* newer swapchain was made; the one on screen is PENDING.                 *)
Held(c, i) ==
  /\ InRing(c, i) \/ InHand(c, i) =>
       \/ image[c][i] = "PENDING"
       \/ image[c][i] = "FREE" /\ \E d \in Chains : d > c /\ life[d] # "none"
  /\ OnScreen(c, i) => image[c][i] = "PENDING"
  /\ ~(InRing(c, i) /\ InHand(c, i))
  /\ ~(InRing(c, i) /\ OnScreen(c, i))
  /\ ~(InHand(c, i) /\ OnScreen(c, i))
  /\ image[c][i] = "PENDING" /\ valid[c] => InRing(c, i) \/ InHand(c, i) \/ OnScreen(c, i)

RingOnce(c) == \A j, k \in 1..Len(ring[c]) : ring[c][j] = ring[c][k] => j = k

Owned == \A c \in Chains : life[c] = "live" => RingOnce(c) /\ \A i \in Images : Held(c, i)

SwapInv == SwapTypeOK /\ Links /\ InOrder /\ Untouched /\ FlipAt /\ AppAt /\ Owned

-----------------------------------------------------------------------------
(* Types *)

FlipRecords == [pc : {"off", "wait", "fence", "ancestor", "done"},
                image : Images \cup {NoImage}, left : Int, of : Chains \cup {NoChain}]

LEMMA ChainFacts == /\ \A c \in Chains : c \in Nat /\ c > 0
                    /\ NoChain \notin Chains
                    /\ NoImage \notin Images
  BY SwapchainAssumption DEF Chains, Images, NoChain, NoImage

LEMMA CountNat == ASSUME NEW c \in Chains, NEW s PROVE Count(c, s) \in Nat
<1>1. IsFiniteSet(Images) BY FS_Interval, SwapchainAssumption DEF Images
<1>2. IsFiniteSet({i \in Images : image[c][i] = s}) BY <1>1, FS_Subset
<1> QED BY <1>2, FS_CardinalityType DEF Count

LEMMA PendingInt == ASSUME NEW c \in Chains PROVE PendingBuffers(c) \in Int
  BY CountNat, SwapchainAssumption DEF PendingBuffers

LEMMA AgainType ==
  ASSUME SwapTypeOK, NEW c \in Chains
  PROVE /\ Again(c) \in FlipRecords
        /\ Again(c).pc = IF running[c] THEN "wait" ELSE "done"
<1> DEFINE r == flip[c]
<1>1. r \in FlipRecords BY DEF SwapTypeOK, FlipRecords
<1>2. Again(c) = [r EXCEPT !.pc = IF running[c] THEN "wait" ELSE "done", !.of = NoChain]
  BY DEF Again
<1>3. running[c] \in BOOLEAN BY DEF SwapTypeOK
<1> HIDE DEF r
<1> QED BY <1>1, <1>2, <1>3 DEF FlipRecords

LEMMA FirstFreeType ==
  ASSUME NEW c \in Chains, FirstFree(c) # NoImage, SwapTypeOK
  PROVE FirstFree(c) \in Images /\ image[c][FirstFree(c)] = "FREE"
<1> DEFINE hits == {j \in 1..NumImages : image[c][ScanOrder(c)[j]] = "FREE"}
           Least(j) == \A k \in hits : j <= k
<1>1. hits # {} BY DEF FirstFree
<1>2. \E j \in hits : Least(j)
  <2> DEFINE less == OpToRel(<, Nat)
  <2>1. IsWellFoundedOn(less, Nat) BY NatLessThanWellFounded
  <2>2. hits \subseteq Nat BY SwapchainAssumption
  <2>3. \A j, k \in Nat : j < k => <<j, k>> \in less BY DEF OpToRel
  <2> HIDE DEF less, hits
  <2>4. \E j \in hits : \A k \in hits : ~(<<k, j>> \in less) BY <1>1, <2>1, <2>2, WFMin
  <2>5. \A j, k \in hits : ~(k < j) => j <= k BY <2>2
  <2> QED BY <2>2, <2>3, <2>4, <2>5
<1>3. DEFINE least == CHOOSE j \in hits : Least(j)
<1>4. least \in hits BY <1>2
<1>5. \A j \in 1..NumImages : ScanOrder(c)[j] \in Images
  BY SwapchainAssumption DEF ScanOrder, SwapTypeOK, Images
<1>6. FirstFree(c) = ScanOrder(c)[least] BY <1>1 DEF FirstFree
<1> QED BY <1>4, <1>5, <1>6

LEMMA PresentType ==
  ASSUME SwapTypeOK, NEW c \in Chains, flip[c].image \in Images, PresentImage(c)
  PROVE  /\ inFlight' \in [Chains -> Images \cup {NoImage}]
         /\ image' \in [Chains -> [Images -> {"INVALID", "FREE", "ACQUIRED", "PENDING"}]]
         /\ free' \in [Chains -> Nat]
<1>1. inFlight' \in [Chains -> Images \cup {NoImage}] BY DEF PresentImage, SwapTypeOK
<1>2. CASE inFlight[c] = NoImage BY <1>1, <1>2 DEF PresentImage, SwapTypeOK
<1>3. CASE inFlight[c] # NoImage
  <2> DEFINE old == inFlight[c]
             s == IF descendant[c] = NoChain THEN "FREE" ELSE "INVALID"
  <2>1. old \in Images BY <1>3 DEF SwapTypeOK
  <2>2. image' = [image EXCEPT ![c][old] = s] /\ free' = [free EXCEPT ![c] = @ + 1]
    BY <1>3 DEF PresentImage
  <2>3. s \in {"INVALID", "FREE", "ACQUIRED", "PENDING"} OBVIOUS
  <2> HIDE DEF s, old
  <2> QED BY <1>1, <2>1, <2>2, <2>3 DEF SwapTypeOK
<1> QED BY <1>2, <1>3

LEMMA FlipTypes ==
  ASSUME SwapTypeOK, FlipAt, NEW c \in Chains, TakePending(c) \/ FlipStep(c)
  PROVE  SwapTypeOK'
<1> USE DEF chainVars, screenVars, appVars
<1> DEFINE r == flip[c]
<1>1. flip \in [Chains -> FlipRecords] /\ r \in FlipRecords
  BY DEF SwapTypeOK, FlipRecords
<1>2. ASSUME NEW s \in FlipRecords, flip' = [flip EXCEPT ![c] = s]
      PROVE  flip' \in [Chains -> FlipRecords]
  BY <1>1, <1>2
<1>3. Again(c) \in FlipRecords BY AgainType
<1>4. CASE TakePending(c)
  <2>1. Head(ring[c]) \in Images /\ Tail(ring[c]) \in Seq(Images)
    BY <1>4 DEF TakePending, SwapTypeOK
  <2> DEFINE s == [r EXCEPT !.pc = "fence", !.image = Head(ring[c])]
  <2>2. flip' = [flip EXCEPT ![c] = s] BY <1>4 DEF TakePending
  <2>3. s \in FlipRecords
    <3> HIDE DEF r
    <3> QED BY <1>1, <2>1 DEF FlipRecords
  <2>4. flip' \in [Chains -> FlipRecords] BY <1>2, <2>2, <2>3
  <2>5. ring' \in [Chains -> Seq(Images)] BY <1>4, <2>1 DEF TakePending, SwapTypeOK
  <2> QED BY <1>4, <2>4, <2>5 DEF TakePending, SwapTypeOK, FlipRecords
<1>5. CASE FenceFails(c)
  <2>1. flip' \in [Chains -> FlipRecords] BY <1>2, <1>3, <1>5 DEF FenceFails
  <2> QED BY <1>5, <2>1 DEF FenceFails, SwapTypeOK, FlipRecords
<1>6. CASE ReleaseRetired(c)
  <2>1. flip' \in [Chains -> FlipRecords] BY <1>2, <1>3, <1>6 DEF ReleaseRetired
  <2>2. flip[c].image \in Images BY <1>6 DEF ReleaseRetired, FlipAt
  <2> QED BY <1>6, <2>1, <2>2 DEF ReleaseRetired, SwapTypeOK, FlipRecords
<1>7. CASE AwaitAncestor(c)
  <2>1. ancestor[c] \in Chains BY <1>7 DEF AwaitAncestor, SwapTypeOK
  <2> DEFINE n == PendingBuffers(ancestor[c])
             s == [r EXCEPT !.pc = "ancestor", !.of = ancestor[c], !.left = n]
  <2>2. n \in Int BY <2>1, PendingInt
  <2>3. flip' = [flip EXCEPT ![c] = s] BY <1>7 DEF AwaitAncestor
  <2>4. s \in FlipRecords
    <3> HIDE DEF r, n
    <3> QED BY <1>1, <2>1, <2>2 DEF FlipRecords
  <2>5. flip' \in [Chains -> FlipRecords] BY <1>2, <2>3, <2>4
  <2> QED BY <1>7, <2>5 DEF AwaitAncestor, SwapTypeOK, FlipRecords
<1>8. CASE DrainAncestor(c)
  <2>1. flip[c].of \in Chains
    BY <1>8 DEF DrainAncestor, FlipAt, SwapTypeOK
  <2> DEFINE s == [r EXCEPT !.left = @ - 1]
  <2>2. flip' = [flip EXCEPT ![c] = s] BY <1>8 DEF DrainAncestor
  <2>3. s \in FlipRecords
    <3> HIDE DEF r
    <3> QED BY <1>1 DEF FlipRecords
  <2>4. flip' \in [Chains -> FlipRecords] BY <1>2, <2>2, <2>3
  <2>5. free' \in [Chains -> Nat] BY <1>8, <2>1 DEF DrainAncestor, SwapTypeOK
  <2> QED BY <1>8, <2>4, <2>5 DEF DrainAncestor, SwapTypeOK, FlipRecords
<1>9. CASE FirstFlip(c)
  <2>1. flip' \in [Chains -> FlipRecords] BY <1>2, <1>3, <1>9 DEF FirstFlip
  <2>2. flip[c].image \in Images BY <1>9 DEF FirstFlip, ToPresent, FlipAt
  <2>3. PresentImage(c) BY <1>9 DEF FirstFlip
  <2> QED BY <1>9, <2>1, <2>2, <2>3, PresentType DEF FirstFlip, SwapTypeOK, FlipRecords
<1>10. CASE LaterFlip(c)
  <2>1. flip' \in [Chains -> FlipRecords] BY <1>2, <1>3, <1>10 DEF LaterFlip
  <2>2. flip[c].image \in Images BY <1>10 DEF LaterFlip, ToPresent, FlipAt
  <2>3. PresentImage(c) BY <1>10 DEF LaterFlip
  <2> QED BY <1>10, <2>1, <2>2, <2>3, PresentType DEF LaterFlip, SwapTypeOK, FlipRecords
<1>11. CASE FlipEnds(c)
  <2>1. flip' \in [Chains -> FlipRecords] BY <1>2, <1>3, <1>11 DEF FlipEnds
  <2> QED BY <1>11, <2>1 DEF FlipEnds, SwapTypeOK, FlipRecords
<1> QED BY <1>4, <1>5, <1>6, <1>7, <1>8, <1>9, <1>10, <1>11 DEF FlipStep

LEMMA CallTypes ==
  ASSUME SwapTypeOK, NEW c \in Chains,
         \/ Create(c) \/ StartAcquire(c) \/ BeginTeardown(c)
         \/ \E i \in Images : QueuePresent(c, i)
  PROVE  SwapTypeOK'
<1> USE DEF chainVars, screenVars, appVars
<1>1. CASE Create(c)
  <2> DEFINE old == IF c > 1 /\ life[c - 1] = "live" THEN c - 1 ELSE NoChain
  <2>1. old \in Chains \cup {NoChain} BY SwapchainAssumption DEF Chains
  <2>2. flip' \in [Chains -> FlipRecords]
    <3> DEFINE r == flip[c]
               s == [r EXCEPT !.pc = "wait"]
    <3>1. r \in FlipRecords BY DEF SwapTypeOK, FlipRecords
    <3>2. flip' = [flip EXCEPT ![c] = s] BY <1>1 DEF Create
    <3>3. s \in FlipRecords
      <4> HIDE DEF r
      <4> QED BY <3>1 DEF FlipRecords
    <3> QED BY <3>2, <3>3 DEF SwapTypeOK, FlipRecords
  <2>3. image' \in [Chains -> [Images -> {"INVALID", "FREE", "ACQUIRED", "PENDING"}]]
    BY <1>1 DEF Create, SwapTypeOK
  <2>4. /\ ancestor' = [ancestor EXCEPT ![c] = old]
        /\ descendant' = [d \in Chains |-> IF d = old THEN c ELSE descendant[d]]
    BY <1>1 DEF Create
  <2>5. free' \in [Chains -> Nat] BY <1>1, SwapchainAssumption DEF Create, SwapTypeOK
  <2>6. life' \in [Chains -> {"none", "live", "gone"}] BY <1>1 DEF Create, SwapTypeOK
  <2> HIDE DEF old
  <2>7. /\ ancestor' \in [Chains -> Chains \cup {NoChain}]
        /\ descendant' \in [Chains -> Chains \cup {NoChain}]
    BY <2>1, <2>4 DEF SwapTypeOK
  <2>8. UNCHANGED <<ring, valid, running, screenVars, appVars>> BY <1>1 DEF Create
  <2> QED BY <2>2, <2>3, <2>5, <2>6, <2>7, <2>8 DEF SwapTypeOK, FlipRecords
<1>2. CASE StartAcquire(c) BY <1>2 DEF StartAcquire, SwapTypeOK
<1>3. CASE BeginTeardown(c)
  <2>1. PendingBuffers(c) \in Int BY PendingInt
  <2> QED BY <1>3, <2>1 DEF BeginTeardown, SwapTypeOK
<1>4. ASSUME NEW i \in Images, QueuePresent(c, i) PROVE SwapTypeOK'
  <2>1. Append(ring[c], i) \in Seq(Images) BY DEF SwapTypeOK
  <2>2. presents' \in 0..MaxPresents BY <1>4, SwapchainAssumption DEF QueuePresent, SwapTypeOK
  <2> QED BY <1>4, <2>1, <2>2 DEF QueuePresent, SwapTypeOK
<1> QED BY <1>1, <1>2, <1>3, <1>4

LEMMA AppTypes == ASSUME SwapTypeOK, AppAt, AppStep PROVE SwapTypeOK'
<1> USE DEF chainVars, screenVars, appVars
<1>1. app.chain \in Chains
  BY DEF AppStep, AppAt, Acquire, AwaitStart, DrainOne, StopFlipping, Join
<1>2. CASE Acquire
  <2> DEFINE c == app.chain
             i == FirstFree(c)
  <2>1. free' \in [Chains -> Nat] BY <1>1, <1>2 DEF Acquire, SwapTypeOK
  <2>2. i # NoImage => i \in Images BY <1>1, FirstFreeType
  <2> HIDE DEF i
  <2>3. /\ image' \in [Chains -> [Images -> {"INVALID", "FREE", "ACQUIRED", "PENDING"}]]
        /\ lastAcquired' \in [Chains -> Images]
    <3>1. CASE i # NoImage /\ valid[c]
      <4>1. /\ image' = [image EXCEPT ![c][i] = "ACQUIRED"]
            /\ lastAcquired' = [lastAcquired EXCEPT ![c] = i]
        BY <1>2, <3>1 DEF Acquire, i
      <4> QED BY <1>1, <2>2, <3>1, <4>1 DEF SwapTypeOK
    <3>2. CASE ~(i # NoImage /\ valid[c])
      BY <1>2, <3>2 DEF Acquire, SwapTypeOK, i
    <3> QED BY <3>1, <3>2
  <2>4. app' = Idle /\ UNCHANGED <<presents, ring, valid, flip, chainVars, screenVars>>
    BY <1>2 DEF Acquire
  <2> QED BY <2>1, <2>3, <2>4 DEF SwapTypeOK, Idle
<1>3. CASE AwaitStart
  <2>1. descendant[app.chain] \in Chains BY <1>1, <1>3 DEF AwaitStart, AppAt, SwapTypeOK
  <2>2. startPresent' \in [Chains -> Nat] BY <1>3, <2>1 DEF AwaitStart, SwapTypeOK
  <2> QED BY <1>3, <2>2 DEF AwaitStart, SwapTypeOK
<1>4. CASE DrainOne
  <2> DEFINE n == app.left - 1
  <2>1. app' \in [pc : {"idle", "acquire", "await_start", "drain", "stop", "join"},
                  chain : Chains \cup {NoChain}, left : Int]
    <3>1. app' = [app EXCEPT !.left = n] BY <1>4 DEF DrainOne
    <3>2. n \in Int BY DEF SwapTypeOK
    <3> HIDE DEF n
    <3> QED BY <3>1, <3>2 DEF SwapTypeOK
  <2>2. free' \in [Chains -> Nat] BY <1>1, <1>4 DEF DrainOne, SwapTypeOK
  <2> QED BY <1>4, <2>1, <2>2 DEF DrainOne, SwapTypeOK
<1>5. CASE StopFlipping BY <1>1, <1>5 DEF StopFlipping, SwapTypeOK
<1>6. CASE Join BY <1>1, <1>6 DEF Join, SwapTypeOK, Idle
<1> QED BY <1>2, <1>3, <1>4, <1>5, <1>6 DEF AppStep

-----------------------------------------------------------------------------
(* Who lives, and the links between them *)

LEMMA CreateLinks ==
  ASSUME SwapTypeOK, Links, InOrder, Untouched, NEW c \in Chains, Create(c)
  PROVE  Links' /\ InOrder'
<1> DEFINE old == IF c > 1 /\ life[c - 1] = "live" THEN c - 1 ELSE NoChain
<1>1. /\ life[c] = "none" /\ life' = [life EXCEPT ![c] = "live"]
      /\ ancestor' = [ancestor EXCEPT ![c] = old]
      /\ descendant' = [d \in Chains |-> IF d = old THEN c ELSE descendant[d]]
      /\ \A d \in Chains : d < c => life[d] # "none"
  BY DEF Create
<1>2. old # NoChain => old \in Chains /\ old < c /\ life[old] = "live"
  <2>1. c \in Int /\ c >= 1 /\ c <= NumChains /\ NumChains \in Int
    BY SwapchainAssumption DEF Chains
  <2>2. c > 1 => c - 1 \in Chains /\ c - 1 < c BY <2>1 DEF Chains
  <2> QED BY <2>2
<1>3. \A d \in Chains : d > c => life[d] = "none" BY <1>1, ChainFacts DEF InOrder
<1>4. \A a \in Chains : a = old => \A d \in Chains : d # c => ~(life[d] = "live" /\ ancestor[d] = a)
  <2> SUFFICES ASSUME NEW a \in Chains, a = old, NEW d \in Chains, d # c,
                      life[d] = "live", ancestor[d] = a
               PROVE  FALSE
    OBVIOUS
  <2>1. a < d BY DEF Links
  <2>2. a = c - 1 BY <1>2, ChainFacts
  <2>3. d > c BY <2>1, <2>2, ChainFacts DEF Chains
  <2> QED BY <1>3, <2>3
<1> HIDE DEF old
<1>5. /\ \A d \in Chains : descendant[d] = c => life[d] # "live"
      /\ descendant[c] = NoChain
  BY <1>1 DEF Links, Untouched
<1>6. life'[c] = "live" /\ ancestor'[c] = old /\ \A d \in Chains : d # c =>
        life'[d] = life[d] /\ ancestor'[d] = ancestor[d]
  BY <1>1 DEF SwapTypeOK
<1>7. \A d \in Chains : descendant'[d] = IF d = old THEN c ELSE descendant[d]
  BY <1>1
<1>8. \A d \in Chains : ancestor[d] = c => life[d] # "live" BY <1>1 DEF Links
<1>9. Links'
  <2> SUFFICES ASSUME NEW a \in Chains, NEW d \in Chains
               PROVE  /\ life'[d] = "live" /\ ancestor'[d] = a =>
                           descendant'[a] = d /\ a < d /\ life'[a] = "live"
                      /\ life'[a] = "live" /\ descendant'[a] = d =>
                           ancestor'[d] = a /\ life'[d] = "live"
    BY DEF Links
  <2>1. CASE d = c
    <3>1. a # old /\ life'[a] = "live" => descendant'[a] # c
      BY <1>1, <1>5, <1>6, <1>7, ChainFacts
    <3>2. a = old => descendant'[a] = c /\ a < c /\ life'[a] = "live"
      BY <1>2, <1>6, <1>7, ChainFacts
    <3> QED BY <1>6, <2>1, <3>1, <3>2
  <2>2. CASE d # c /\ a = c
    BY <1>2, <1>5, <1>6, <1>7, <1>8, <2>2, ChainFacts
  <2>3. CASE d # c /\ a # c
    <3>1. a = old => life[a] = "live" BY <1>2, ChainFacts
    <3> QED BY <1>4, <1>6, <1>7, <2>3, <3>1 DEF Links
  <2> QED BY <2>1, <2>2, <2>3
<1>10. InOrder' BY <1>1, <1>6, ChainFacts DEF InOrder
<1> QED BY <1>9, <1>10

LEMMA JoinLinks ==
  ASSUME SwapTypeOK, Links, InOrder, AppAt, Join PROVE Links' /\ InOrder'
<1> DEFINE c == app.chain
<1>1. c \in Chains /\ life[c] = "live" BY DEF Join, AppAt
<1>2. /\ life' = [life EXCEPT ![c] = "gone"]
      /\ ancestor' = [d \in Chains |-> IF ancestor[d] = c THEN NoChain ELSE ancestor[d]]
      /\ descendant' = [d \in Chains |-> IF descendant[d] = c THEN NoChain ELSE descendant[d]]
  BY DEF Join
<1> HIDE DEF c
<1>3. Links' BY <1>1, <1>2, ChainFacts DEF Links, SwapTypeOK
<1>4. InOrder' BY <1>1, <1>2 DEF InOrder, SwapTypeOK
<1> QED BY <1>3, <1>4

LEMMA OthersKeepLinks ==
  ASSUME SwapNext, ~Join, \A c \in Chains : ~Create(c)
  PROVE  UNCHANGED <<life, ancestor, descendant>>
<1> USE DEF chainVars, screenVars, appVars
<1>1. CASE AppStep BY <1>1 DEF AppStep, Acquire, AwaitStart, DrainOne, StopFlipping
<1>2. CASE AppCall BY <1>2 DEF AppCall, StartAcquire, QueuePresent
<1>3. ASSUME NEW c \in Chains, TakePending(c) \/ FlipStep(c) \/ BeginTeardown(c)
      PROVE  UNCHANGED <<life, ancestor, descendant>>
  BY <1>3 DEF TakePending, BeginTeardown, FlipStep, FenceFails, ReleaseRetired, AwaitAncestor,
     DrainAncestor, FirstFlip, LaterFlip, FlipEnds
<1> QED BY <1>1, <1>2, <1>3 DEF SwapNext

-----------------------------------------------------------------------------
(* A flip thread touches its own swapchain *)

LEMMA FlipLocal ==
  ASSUME SwapTypeOK, NEW c \in Chains, TakePending(c) \/ FlipStep(c)
  PROVE  /\ UNCHANGED <<life, ancestor, descendant, running, app>>
         /\ \A d \in Chains : d # c =>
              /\ flip'[d] = flip[d] /\ ring'[d] = ring[d] /\ image'[d] = image[d]
              /\ inFlight'[d] = inFlight[d] /\ valid'[d] = valid[d]
              /\ firstPresent'[d] = firstPresent[d] /\ startPresent'[d] = startPresent[d]
<1> USE DEF chainVars, screenVars, appVars, SwapTypeOK
<1>1. CASE TakePending(c) BY <1>1 DEF TakePending
<1>2. CASE FenceFails(c) BY <1>2 DEF FenceFails
<1>3. CASE ReleaseRetired(c) BY <1>3 DEF ReleaseRetired
<1>4. CASE AwaitAncestor(c) BY <1>4 DEF AwaitAncestor
<1>5. CASE DrainAncestor(c) BY <1>5 DEF DrainAncestor
<1>6. CASE FirstFlip(c) BY <1>6 DEF FirstFlip, PresentImage
<1>7. CASE LaterFlip(c) BY <1>7 DEF LaterFlip, PresentImage
<1>8. CASE FlipEnds(c) BY <1>8 DEF FlipEnds
<1> QED BY <1>1, <1>2, <1>3, <1>4, <1>5, <1>6, <1>7, <1>8 DEF FlipStep

LEMMA RingTaken ==
  ASSUME SwapTypeOK, NEW c \in Chains, ring[c] # <<>>, RingOnce(c),
         ring' = [ring EXCEPT ![c] = Tail(@)]
  PROVE  /\ RingOnce(c)'
         /\ Head(ring[c]) \in Images /\ InRing(c, Head(ring[c]))
         /\ \A i \in Images : InRing(c, i)' <=> InRing(c, i) /\ i # Head(ring[c])
<1> DEFINE r == ring[c]
           s == Tail(r)
<1>1. r \in Seq(Images) /\ r # <<>> BY DEF SwapTypeOK
<1>2. ring'[c] = s BY DEF SwapTypeOK
<1>3. /\ s \in Seq(Images) /\ Len(s) = Len(r) - 1 /\ Len(r) \in Nat /\ Len(r) > 0
      /\ \A k \in 1..Len(s) : s[k] = r[k + 1]
      /\ Head(r) = r[1] /\ r[1] \in Images
  BY <1>1
<1>4. \A j, k \in 1..Len(r) : r[j] = r[k] => j = k BY DEF RingOnce
<1> HIDE DEF r, s
<1>5. \A j, k \in 1..Len(s) : s[j] = s[k] => j = k
  <2> TAKE j, k \in 1..Len(s)
  <2>1. j + 1 \in 1..Len(r) /\ k + 1 \in 1..Len(r) BY <1>3
  <2> QED BY <1>3, <1>4, <2>1
<1>6. ASSUME NEW i \in Images
      PROVE  (\E k \in 1..Len(s) : s[k] = i) <=> (\E k \in 1..Len(r) : r[k] = i) /\ i # r[1]
  <2>1. ASSUME NEW k \in 1..Len(s), s[k] = i
        PROVE  (\E j \in 1..Len(r) : r[j] = i) /\ i # r[1]
    <3>1. k + 1 \in 1..Len(r) /\ 1 \in 1..Len(r) /\ k + 1 # 1 BY <1>3
    <3>2. r[k + 1] = i BY <1>3, <2>1
    <3> QED BY <1>4, <3>1, <3>2
  <2>2. ASSUME NEW k \in 1..Len(r), r[k] = i, i # r[1]
        PROVE  \E j \in 1..Len(s) : s[j] = i
    <3>1. k # 1 BY <2>2
    <3>2. k - 1 \in 1..Len(s) BY <1>3, <3>1
    <3>3. s[k - 1] = r[k] BY <1>3, <3>2
    <3> QED BY <2>2, <3>2, <3>3
  <2> QED BY <2>1, <2>2
<1>7. RingOnce(c)' BY <1>2, <1>5 DEF RingOnce
<1>8. InRing(c, r[1])
  <2>1. 1 \in 1..Len(r) BY <1>3
  <2> QED BY <2>1 DEF InRing, r
<1>9. \A i \in Images : InRing(c, i)' <=> InRing(c, i) /\ i # r[1]
  BY <1>2, <1>6 DEF InRing, r
<1> QED BY <1>3, <1>7, <1>8, <1>9 DEF r

LEMMA RingAdded ==
  ASSUME SwapTypeOK, NEW c \in Chains, NEW i \in Images, RingOnce(c), ~InRing(c, i),
         ring' = [ring EXCEPT ![c] = Append(@, i)]
  PROVE  /\ RingOnce(c)'
         /\ \A h \in Images : InRing(c, h)' <=> InRing(c, h) \/ h = i
<1> DEFINE r == ring[c]
           s == Append(r, i)
<1>1. r \in Seq(Images) BY DEF SwapTypeOK
<1>2. ring'[c] = s BY DEF SwapTypeOK
<1>3. /\ Len(s) = Len(r) + 1 /\ Len(r) \in Nat
      /\ \A k \in 1..Len(r) : s[k] = r[k]
      /\ s[Len(r) + 1] = i
  BY <1>1
<1>4. /\ \A j, k \in 1..Len(r) : r[j] = r[k] => j = k
      /\ \A k \in 1..Len(r) : r[k] # i
  BY DEF RingOnce, InRing
<1> HIDE DEF r, s
<1>5. \A k \in 1..Len(s) : k \in 1..Len(r) \/ k = Len(r) + 1 BY <1>3
<1>6. \A j, k \in 1..Len(s) : s[j] = s[k] => j = k BY <1>3, <1>4, <1>5
<1>7. \A h \in Images : (\E k \in 1..Len(s) : s[k] = h) <=> (\E k \in 1..Len(r) : r[k] = h) \/ h = i
  <2> TAKE h \in Images
  <2>1. 1..Len(r) \subseteq 1..Len(s) /\ Len(r) + 1 \in 1..Len(s) BY <1>3
  <2> QED BY <1>3, <1>5, <2>1
<1>8. RingOnce(c)' BY <1>2, <1>6 DEF RingOnce
<1>9. \A h \in Images : InRing(c, h)' <=> InRing(c, h) \/ h = i BY <1>2, <1>7 DEF InRing, r
<1> QED BY <1>8, <1>9

-----------------------------------------------------------------------------
(* An image is owned once *)

(* What a swapchain shows of itself, and that it still has what made it old *)
LEMMA HeldUntouched ==
  ASSUME NEW d \in Chains,
         ring'[d] = ring[d], flip'[d] = flip[d], inFlight'[d] = inFlight[d],
         image'[d] = image[d], valid'[d] = valid[d],
         \A e \in Chains : life[e] # "none" => life'[e] # "none",
         RingOnce(d), \A i \in Images : Held(d, i)
  PROVE  RingOnce(d)' /\ \A i \in Images : Held(d, i)'
  BY DEF RingOnce, Held, InRing, InHand, OnScreen

LEMMA PresentHeld ==
  ASSUME SwapTypeOK, FlipAt, NEW c \in Chains, NEW h \in Images,
         RingOnce(c), \A i \in Images : Held(c, i),
         InHand(c, h), image[c][h] = "PENDING", PresentImage(c),
         flip'[c].pc \in {"wait", "done"}, UNCHANGED <<ring, life, valid>>
  PROVE  RingOnce(c)' /\ \A i \in Images : Held(c, i)'
<1>1. RingOnce(c)' BY DEF RingOnce
<1>2. \A i \in Images : /\ InRing(c, i)' <=> InRing(c, i)
                        /\ ~InHand(c, i)'
                        /\ InHand(c, i) <=> i = h
                        /\ OnScreen(c, i)' <=> i = h
  BY DEF InRing, InHand, OnScreen, PresentImage, SwapTypeOK
<1>3. ~OnScreen(c, h) /\ ~InRing(c, h) BY DEF Held
<1>4. \A i \in Images : /\ ~OnScreen(c, i) => image'[c][i] = image[c][i]
                        /\ OnScreen(c, i) => image'[c][i] \in {"FREE", "INVALID"}
  <2>1. CASE inFlight[c] = NoImage BY <2>1, ChainFacts DEF PresentImage, OnScreen
  <2>2. CASE inFlight[c] # NoImage
    <3> DEFINE old == inFlight[c]
               s == IF descendant[c] = NoChain THEN "FREE" ELSE "INVALID"
    <3>1. old \in Images BY <2>2 DEF SwapTypeOK
    <3>2. image' = [image EXCEPT ![c][old] = s] BY <2>2 DEF PresentImage
    <3>3. s \in {"FREE", "INVALID"} OBVIOUS
    <3>4. \A i \in Images : OnScreen(c, i) <=> i = old BY DEF OnScreen
    <3> HIDE DEF old, s
    <3> QED BY <3>1, <3>2, <3>3, <3>4 DEF SwapTypeOK
  <2> QED BY <2>1, <2>2
<1>5. ASSUME NEW i \in Images PROVE Held(c, i)'
  <2>1. Held(c, i) OBVIOUS
  <2>2. CASE i = h BY <1>2, <1>3, <1>4, <2>2 DEF Held
  <2>3. CASE i # h BY <1>2, <1>4, <2>1, <2>3 DEF Held
  <2> QED BY <2>2, <2>3
<1> QED BY <1>1, <1>5

LEMMA FlipHeld ==
  ASSUME SwapTypeOK, FlipAt, NEW c \in Chains, TakePending(c) \/ FlipStep(c),
         RingOnce(c), \A i \in Images : Held(c, i)
  PROVE  RingOnce(c)' /\ \A i \in Images : Held(c, i)'
<1> USE DEF chainVars, screenVars, appVars
<1>0. \A s : flip' = [flip EXCEPT ![c] = s] => flip'[c] = s BY DEF SwapTypeOK
<1>1. flip' = [flip EXCEPT ![c] = Again(c)] => flip'[c].pc \in {"wait", "done"}
  BY <1>0, AgainType
<1>2. UNCHANGED life BY FlipLocal
<1>3. ASSUME UNCHANGED <<ring, image, inFlight>>, ~valid'[c] \/ flip[c].pc = "wait",
             flip' = [flip EXCEPT ![c] = Again(c)], valid'[c] => valid[c]
      PROVE  RingOnce(c)' /\ \A i \in Images : Held(c, i)'
  <2>1. \A i \in Images : /\ InRing(c, i)' <=> InRing(c, i)
                          /\ OnScreen(c, i)' <=> OnScreen(c, i)
                          /\ ~InHand(c, i)'
                          /\ flip[c].pc = "wait" => ~InHand(c, i)
    BY <1>1, <1>3 DEF InRing, OnScreen, InHand
  <2> QED BY <1>2, <1>3, <2>1 DEF RingOnce, Held
<1>4. CASE TakePending(c)
  <2> DEFINE h == Head(ring[c])
  <2>1. ring' = [ring EXCEPT ![c] = Tail(@)] /\ ring[c] # <<>> BY <1>4 DEF TakePending
  <2>2. /\ RingOnce(c)' /\ h \in Images /\ InRing(c, h)
        /\ \A i \in Images : InRing(c, i)' <=> InRing(c, i) /\ i # h
    BY <2>1, RingTaken
  <2>3. flip'[c].pc = "fence" /\ flip'[c].image = h BY <1>4 DEF TakePending, SwapTypeOK
  <2> HIDE DEF h
  <2>4. \A i \in Images : /\ ~InHand(c, i)
                          /\ InHand(c, i)' <=> i = h
                          /\ OnScreen(c, i)' <=> OnScreen(c, i)
    BY <1>4, <2>3 DEF TakePending, InHand, OnScreen
  <2>5. image' = image /\ valid' = valid BY <1>4 DEF TakePending
  <2> QED BY <1>2, <2>2, <2>4, <2>5 DEF Held
<1>5. CASE FenceFails(c)
  <2>1. ~valid'[c] BY <1>5 DEF FenceFails, SwapTypeOK
  <2> QED BY <1>3, <1>5, <2>1 DEF FenceFails
<1>6. CASE ReleaseRetired(c)
  <2> DEFINE h == flip[c].image
  <2>1. /\ h \in Images /\ image[c][h] = "FREE" /\ InHand(c, h)
    BY <1>6 DEF ReleaseRetired, FlipAt, InHand
  <2>2. \A i \in Images : /\ InRing(c, i)' <=> InRing(c, i)
                          /\ OnScreen(c, i)' <=> OnScreen(c, i)
                          /\ ~InHand(c, i)'
                          /\ InHand(c, i) <=> i = h
    BY <1>1, <1>6 DEF ReleaseRetired, InRing, OnScreen, InHand
  <2>3. image' = [image EXCEPT ![c][h] = "INVALID"] /\ valid' = valid
    BY <1>6 DEF ReleaseRetired
  <2> HIDE DEF h
  <2>4. \A i \in Images : i # h => image'[c][i] = image[c][i] BY <2>3 DEF SwapTypeOK
  <2>5. ASSUME NEW i \in Images PROVE Held(c, i)'
    <3>1. Held(c, i) OBVIOUS
    <3>2. image'[c][h] = "INVALID" BY <2>1, <2>3 DEF SwapTypeOK
    <3>3. CASE i = h BY <2>1, <2>2, <3>1, <3>2, <3>3 DEF Held
    <3>4. CASE i # h BY <1>2, <2>2, <2>3, <2>4, <3>1, <3>4 DEF Held
    <3> QED BY <3>3, <3>4
  <2>6. RingOnce(c)' BY <1>6 DEF RingOnce, ReleaseRetired
  <2> QED BY <2>5, <2>6
<1>7. CASE AwaitAncestor(c) \/ DrainAncestor(c)
  <2>1. /\ flip[c].pc \in {"fence", "ancestor"} /\ flip'[c].pc = "ancestor"
        /\ flip'[c].image = flip[c].image
    BY <1>7 DEF AwaitAncestor, DrainAncestor, ToPresent, SwapTypeOK
  <2>2. UNCHANGED <<ring, image, inFlight, valid>> BY <1>7 DEF AwaitAncestor, DrainAncestor
  <2>3. \A i \in Images : /\ InRing(c, i)' <=> InRing(c, i)
                          /\ OnScreen(c, i)' <=> OnScreen(c, i)
                          /\ InHand(c, i)' <=> InHand(c, i)
    BY <2>1, <2>2 DEF InRing, OnScreen, InHand
  <2> QED BY <1>2, <2>2, <2>3 DEF RingOnce, Held
<1>8. CASE FirstFlip(c) \/ LaterFlip(c)
  <2> DEFINE h == flip[c].image
  <2>1. h \in Images /\ InHand(c, h)
    BY <1>8 DEF FirstFlip, LaterFlip, ToPresent, FlipAt, InHand
  <2>2. image[c][h] = "PENDING" BY <1>8, <2>1 DEF FirstFlip, LaterFlip, ToPresent, FlipAt, Held
  <2>3. /\ PresentImage(c) /\ UNCHANGED <<ring, valid>>
        /\ flip' = [flip EXCEPT ![c] = Again(c)]
    BY <1>8 DEF FirstFlip, LaterFlip
  <2> QED BY <1>1, <1>2, <2>1, <2>2, <2>3, PresentHeld
<1>9. CASE FlipEnds(c) BY <1>3, <1>9 DEF FlipEnds
<1> QED BY <1>4, <1>5, <1>6, <1>7, <1>8, <1>9 DEF FlipStep

LEMMA CreateHeld ==
  ASSUME SwapInv, NEW c \in Chains, Create(c) PROVE Owned'
<1> USE DEF chainVars, screenVars, appVars, SwapInv
<1> DEFINE old == IF c > 1 /\ life[c - 1] = "live" THEN c - 1 ELSE NoChain
<1>1. /\ life[c] = "none" /\ life' = [life EXCEPT ![c] = "live"]
      /\ \A d \in Chains : d < c => life[d] # "none"
      /\ UNCHANGED <<ring, valid, inFlight>>
      /\ flip' = [flip EXCEPT ![c].pc = "wait"]
  BY DEF Create
<1>2. image' = [d \in Chains |->
                  [i \in Images |-> IF d = c THEN "FREE"
                                    ELSE IF d = old /\ image[d][i] = "FREE" THEN "INVALID"
                                    ELSE image[d][i]]]
  BY DEF Create
<1>3. /\ life'[c] = "live"
      /\ \A d \in Chains : d # c => life'[d] = life[d] /\ flip'[d] = flip[d]
      /\ flip'[c].pc = "wait"
  BY <1>1 DEF SwapTypeOK
<1>4. \A d \in Chains : d = old => \A e \in Chains : e > d => life[e] = "none"
  <2> SUFFICES ASSUME NEW d \in Chains, d = old, NEW e \in Chains, e > d, life[e] # "none"
               PROVE  FALSE
    OBVIOUS
  <2>1. d = c - 1 BY ChainFacts
  <2>2. e = c \/ e > c BY <2>1, ChainFacts DEF Chains
  <2> QED BY <1>1, <2>2 DEF InOrder
<1> HIDE DEF old
<1> SUFFICES ASSUME NEW d \in Chains, life'[d] = "live"
             PROVE  RingOnce(d)' /\ \A i \in Images : Held(d, i)'
  BY DEF Owned
<1>5. CASE d = c
  <2>1. ring'[c] = <<>> /\ inFlight'[c] = NoImage BY <1>1 DEF Untouched
  <2>2. RingOnce(d)' BY <1>5, <2>1 DEF RingOnce
  <2>3. \A i \in Images : ~InRing(c, i)' /\ ~InHand(c, i)' /\ ~OnScreen(c, i)'
    BY <1>3, <2>1, ChainFacts DEF InRing, InHand, OnScreen
  <2>4. \A i \in Images : image'[c][i] = "FREE" BY <1>2
  <2> QED BY <1>5, <2>2, <2>3, <2>4 DEF Held
<1>6. CASE d # c
  <2>1. RingOnce(d) /\ \A i \in Images : Held(d, i) BY <1>3, <1>6 DEF Owned
  <2>2. \A i \in Images :
          /\ InRing(d, i)' <=> InRing(d, i)
          /\ InHand(d, i)' <=> InHand(d, i)
          /\ OnScreen(d, i)' <=> OnScreen(d, i)
    BY <1>1, <1>3, <1>6 DEF InRing, InHand, OnScreen
  <2>3. ASSUME NEW i \in Images PROVE Held(d, i)'
    <3>1. Held(d, i) BY <2>1
    <3>2. \A e \in Chains : life[e] # "none" => life'[e] # "none" BY <1>1, <1>3
    <3>3. CASE d # old
      <4>1. image'[d][i] = image[d][i] BY <1>2, <1>6, <3>3
      <4> QED BY <1>1, <2>2, <3>1, <3>2, <4>1 DEF Held
    <3>4. CASE d = old
      <4>1. image'[d][i] = IF image[d][i] = "FREE" THEN "INVALID" ELSE image[d][i]
        BY <1>2, <1>6, <3>4
      <4>2. InRing(d, i) \/ InHand(d, i) => image[d][i] = "PENDING"
        BY <1>4, <3>1, <3>4 DEF Held
      <4> QED BY <1>1, <2>2, <3>1, <4>1, <4>2 DEF Held
    <3> QED BY <3>3, <3>4
  <2>4. RingOnce(d)' BY <1>1, <2>1 DEF RingOnce
  <2> QED BY <2>3, <2>4
<1> QED BY <1>5, <1>6

LEMMA PresentQueued ==
  ASSUME SwapInv, NEW c \in Chains, NEW i \in Images, QueuePresent(c, i) PROVE Owned'
<1> USE DEF chainVars, screenVars, appVars, SwapInv
<1> DEFINE s == IF DescendantPresents(c) THEN "FREE" ELSE "PENDING"
<1>1. /\ life[c] = "live" /\ image[c][i] = "ACQUIRED"
      /\ image' = [image EXCEPT ![c][i] = s]
      /\ ring' = [ring EXCEPT ![c] = Append(@, i)]
      /\ UNCHANGED <<life, valid, flip, inFlight>>
  BY DEF QueuePresent
<1>2. RingOnce(c) /\ \A h \in Images : Held(c, h) BY <1>1 DEF Owned
<1>3. ~InRing(c, i) /\ ~InHand(c, i) /\ ~OnScreen(c, i) BY <1>1, <1>2 DEF Held
<1>4. RingOnce(c)' /\ \A h \in Images : InRing(c, h)' <=> InRing(c, h) \/ h = i
  BY <1>1, <1>2, <1>3, RingAdded
<1>5. s \in {"FREE", "PENDING"} /\ (s = "FREE" => \E d \in Chains : d > c /\ life[d] # "none")
  <2> SUFFICES ASSUME DescendantPresents(c)
               PROVE  \E d \in Chains : d > c /\ life[d] # "none"
    OBVIOUS
  <2> DEFINE d == descendant[c]
  <2>1. d \in Chains BY DEF DescendantPresents, SwapTypeOK
  <2>2. ancestor[d] = c /\ life[d] = "live" BY <1>1, <2>1 DEF Links
  <2>3. c < d BY <2>1, <2>2 DEF Links
  <2> HIDE DEF d
  <2> QED BY <2>1, <2>2, <2>3, ChainFacts
<1> HIDE DEF s
<1>6. \A d \in Chains : d # c => ring'[d] = ring[d] /\ image'[d] = image[d]
  BY <1>1 DEF SwapTypeOK
<1>7. /\ image'[c][i] = s
      /\ \A h \in Images : h # i => image'[c][h] = image[c][h]
  BY <1>1 DEF SwapTypeOK
<1>8. \A h \in Images : /\ InHand(c, h)' <=> InHand(c, h)
                        /\ OnScreen(c, h)' <=> OnScreen(c, h)
  BY <1>1 DEF InHand, OnScreen
<1>9. ASSUME NEW h \in Images PROVE Held(c, h)'
  <2>1. Held(c, h) BY <1>2
  <2>2. CASE h = i BY <1>1, <1>3, <1>4, <1>5, <1>7, <1>8, <2>2 DEF Held
  <2>3. CASE h # i BY <1>1, <1>4, <1>7, <1>8, <2>1, <2>3 DEF Held
  <2> QED BY <2>2, <2>3
<1>10. ASSUME NEW d \in Chains, d # c, life'[d] = "live"
       PROVE  RingOnce(d)' /\ \A h \in Images : Held(d, h)'
  <2>1. RingOnce(d) /\ \A h \in Images : Held(d, h) BY <1>1, <1>10 DEF Owned
  <2> QED BY <1>1, <1>6, <1>10, <2>1, HeldUntouched
<1> QED BY <1>4, <1>9, <1>10 DEF Owned

LEMMA AppHeld ==
  ASSUME SwapInv, AppStep PROVE Owned'
<1> USE DEF chainVars, screenVars, appVars, SwapInv
<1>1. PICK c \in Chains : c = app.chain /\ life[c] = "live"
  BY DEF AppStep, AppAt, Acquire, AwaitStart, DrainOne, StopFlipping, Join
<1>2. RingOnce(c) /\ \A i \in Images : Held(c, i) BY <1>1 DEF Owned
<1>3. CASE Acquire
  <2>1. UNCHANGED <<life, ring, valid, flip, inFlight>> BY <1>3 DEF Acquire
  <2>2. CASE image' = image
    BY <2>1, <2>2 DEF Owned, RingOnce, Held, InRing, InHand, OnScreen
  <2>3. CASE image' # image
    <3>1. PICK i \in {FirstFree(c)} : i # NoImage /\ image' = [image EXCEPT ![c][i] = "ACQUIRED"] BY <1>1, <1>3, <2>3 DEF Acquire
    <3>2. i \in Images /\ image[c][i] = "FREE" BY <1>1, <3>1, FirstFreeType
    <3>3. \A d \in Chains : d > c => life[d] = "none" BY <1>1, <1>3 DEF Acquire, AppAt, Newest
    <3>4. ~InRing(c, i) /\ ~InHand(c, i) /\ ~OnScreen(c, i) BY <1>2, <3>2, <3>3 DEF Held
    <3>5. /\ image'[c][i] = "ACQUIRED"
          /\ \A h \in Images : h # i => image'[c][h] = image[c][h]
          /\ \A d \in Chains : d # c => image'[d] = image[d]
      BY <1>1, <3>1, <3>2 DEF SwapTypeOK
    <3>6. \A h \in Images :
            /\ InRing(c, h)' <=> InRing(c, h)
            /\ InHand(c, h)' <=> InHand(c, h)
            /\ OnScreen(c, h)' <=> OnScreen(c, h)
      BY <2>1 DEF InRing, InHand, OnScreen
    <3>7. ASSUME NEW h \in Images PROVE Held(c, h)'
      <4>1. Held(c, h) BY <1>2
      <4>2. CASE h = i BY <3>4, <3>5, <3>6, <4>2 DEF Held
      <4>3. CASE h # i BY <2>1, <3>5, <3>6, <4>1, <4>3 DEF Held
      <4> QED BY <4>2, <4>3
    <3>8. RingOnce(c)' BY <1>2, <2>1 DEF RingOnce
    <3>9. ASSUME NEW d \in Chains, d # c, life'[d] = "live"
          PROVE  RingOnce(d)' /\ \A h \in Images : Held(d, h)'
      <4>1. RingOnce(d) /\ \A h \in Images : Held(d, h) BY <2>1, <3>9 DEF Owned
      <4> QED BY <2>1, <3>5, <3>9, <4>1, HeldUntouched
    <3> QED BY <3>7, <3>8, <3>9 DEF Owned
  <2> QED BY <2>2, <2>3
<1>4. CASE AwaitStart \/ DrainOne \/ StopFlipping
  <2>1. UNCHANGED <<life, ring, valid, flip, inFlight, image>>
    BY <1>4 DEF AwaitStart, DrainOne, StopFlipping
  <2> QED BY <2>1 DEF Owned, RingOnce, Held, InRing, InHand, OnScreen
<1>5. CASE Join
  <2>1. /\ life' = [life EXCEPT ![c] = "gone"]
        /\ image' = [image EXCEPT ![c] = [i \in Images |-> "INVALID"]]
        /\ UNCHANGED <<ring, valid, flip, inFlight>>
    BY <1>1, <1>5 DEF Join
  <2>2. /\ life'[c] = "gone"
        /\ \A d \in Chains : d # c => life'[d] = life[d] /\ image'[d] = image[d]
    BY <1>1, <2>1 DEF SwapTypeOK
  <2>3. ASSUME NEW d \in Chains, life'[d] = "live"
        PROVE  RingOnce(d)' /\ \A h \in Images : Held(d, h)'
    <3>1. d # c BY <2>2, <2>3
    <3>2. RingOnce(d) /\ \A h \in Images : Held(d, h) BY <2>2, <2>3, <3>1 DEF Owned
    <3>3. \A e \in Chains : life[e] # "none" => life'[e] # "none" BY <2>2
    <3> QED BY <2>1, <2>2, <3>1, <3>2, <3>3, HeldUntouched
  <2> QED BY <2>3 DEF Owned
<1> QED BY <1>3, <1>4, <1>5 DEF AppStep

LEMMA OwnedNext == ASSUME SwapInv, SwapNext PROVE Owned'
<1>1. ASSUME NEW c \in Chains, TakePending(c) \/ FlipStep(c) PROVE Owned'
  <2>1. UNCHANGED life BY <1>1, FlipLocal DEF SwapInv
  <2>2. ASSUME NEW d \in Chains, life'[d] = "live"
        PROVE  RingOnce(d)' /\ \A i \in Images : Held(d, i)'
    <3>1. RingOnce(d) /\ \A i \in Images : Held(d, i) BY <2>1, <2>2 DEF Owned, SwapInv
    <3>2. CASE d = c BY <1>1, <3>1, <3>2, FlipHeld DEF SwapInv
    <3>3. CASE d # c BY <1>1, <2>1, <3>1, <3>3, FlipLocal, HeldUntouched DEF SwapInv
    <3> QED BY <3>2, <3>3
  <2> QED BY <2>2 DEF Owned
<1>2. ASSUME NEW c \in Chains, StartAcquire(c) \/ BeginTeardown(c) PROVE Owned'
  <2>1. UNCHANGED <<life, ring, valid, flip, inFlight, image>>
    BY <1>2 DEF StartAcquire, BeginTeardown, chainVars, screenVars
  <2> QED BY <2>1 DEF SwapInv, Owned, RingOnce, Held, InRing, InHand, OnScreen
<1> QED BY <1>1, <1>2, CreateHeld, PresentQueued, AppHeld DEF SwapNext, AppCall

-----------------------------------------------------------------------------
(* Where the threads are *)

LEMMA FlipMoves ==
  ASSUME SwapInv, NEW c \in Chains, TakePending(c) \/ FlipStep(c)
  PROVE  /\ life[c] = "live"
         /\ flip'[c].pc \in {"wait", "fence", "ancestor", "done"}
         /\ flip'[c].pc \in {"fence", "ancestor"} => flip'[c].image \in Images
         /\ flip'[c].pc = "ancestor" =>
              /\ firstPresent'[c] /\ flip'[c].of = ancestor[c] /\ ancestor[c] # NoChain
              /\ image[c][flip'[c].image] = "PENDING"
              /\ image'[c][flip'[c].image] = "PENDING"
         /\ firstPresent'[c] => firstPresent[c]
         /\ startPresent'[c] > 0 => ~firstPresent'[c]
         /\ \A i \in Images : image'[c][i] = "PENDING" => image[c][i] = "PENDING"
<1> USE DEF chainVars, screenVars, appVars
<1>0. SwapTypeOK /\ FlipAt BY DEF SwapInv
<1>1. \A s : flip' = [flip EXCEPT ![c] = s] => flip'[c] = s BY <1>0 DEF SwapTypeOK
<1>2. flip' = [flip EXCEPT ![c] = Again(c)] => flip'[c].pc \in {"wait", "done"}
  BY <1>0, <1>1, AgainType
<1>3. life[c] = "live"
  BY <1>0 DEF TakePending, FlipStep, FlipAt, FenceFails, ReleaseRetired, AwaitAncestor,
     DrainAncestor, FirstFlip, LaterFlip, FlipEnds, ToPresent
<1>4. CASE TakePending(c)
  <2>1. ring[c] # <<>> /\ ring[c] \in Seq(Images) BY <1>0, <1>4 DEF TakePending, SwapTypeOK
  <2>2. Head(ring[c]) \in Images BY <2>1
  <2>3. flip'[c].pc = "fence" /\ flip'[c].image = Head(ring[c])
    BY <1>0, <1>4 DEF TakePending, SwapTypeOK
  <2> QED BY <1>0, <1>3, <1>4, <2>2, <2>3 DEF TakePending, FlipAt
<1>5. CASE FenceFails(c) BY <1>0, <1>2, <1>3, <1>5 DEF FenceFails, FlipAt
<1>6. CASE ReleaseRetired(c)
  <2> DEFINE h == flip[c].image
  <2>1. h \in Images BY <1>0, <1>6 DEF ReleaseRetired, FlipAt
  <2>2. image' = [image EXCEPT ![c][h] = "INVALID"] BY <1>6 DEF ReleaseRetired
  <2> HIDE DEF h
  <2>3. \A i \in Images : image'[c][i] = "PENDING" => image[c][i] = "PENDING"
    BY <1>0, <2>1, <2>2 DEF SwapTypeOK
  <2> QED BY <1>0, <1>2, <1>3, <1>6, <2>3 DEF ReleaseRetired, FlipAt
<1>7. CASE AwaitAncestor(c)
  <2>1. flip[c].image \in Images /\ InHand(c, flip[c].image) /\ Held(c, flip[c].image)
    BY <1>0, <1>3, <1>7 DEF AwaitAncestor, ToPresent, FlipAt, InHand, SwapInv, Owned
  <2>2. image[c][flip[c].image] = "PENDING"
    BY <1>7, <2>1 DEF AwaitAncestor, ToPresent, Held
  <2>3. /\ flip'[c].pc = "ancestor" /\ flip'[c].image = flip[c].image
        /\ flip'[c].of = ancestor[c]
    BY <1>0, <1>7 DEF AwaitAncestor, SwapTypeOK
  <2> QED BY <1>0, <1>3, <1>7, <2>1, <2>2, <2>3 DEF AwaitAncestor, FlipAt
<1>8. CASE DrainAncestor(c)
  <2>1. /\ flip'[c].pc = "ancestor" /\ flip'[c].image = flip[c].image
        /\ flip'[c].of = flip[c].of
    BY <1>0, <1>8 DEF DrainAncestor, SwapTypeOK
  <2> QED BY <1>0, <1>3, <1>8, <2>1 DEF DrainAncestor, FlipAt
<1>9. CASE FirstFlip(c) \/ LaterFlip(c)
  <2>1. flip'[c].pc \in {"wait", "done"} BY <1>2, <1>9 DEF FirstFlip, LaterFlip
  <2>2. PresentImage(c) BY <1>9 DEF FirstFlip, LaterFlip
  <2>3. \A i \in Images : image'[c][i] = "PENDING" => image[c][i] = "PENDING"
    <3>1. CASE inFlight[c] = NoImage BY <2>2, <3>1 DEF PresentImage
    <3>2. CASE inFlight[c] # NoImage
      <4> DEFINE old == inFlight[c]
                 s == IF descendant[c] = NoChain THEN "FREE" ELSE "INVALID"
      <4>1. old \in Images BY <1>0, <3>2 DEF SwapTypeOK
      <4>2. image' = [image EXCEPT ![c][old] = s] BY <2>2, <3>2 DEF PresentImage
      <4>3. s # "PENDING" OBVIOUS
      <4> HIDE DEF old, s
      <4> QED BY <1>0, <4>1, <4>2, <4>3 DEF SwapTypeOK
    <3> QED BY <3>1, <3>2
  <2>4. firstPresent'[c] = FALSE
    BY <1>0, <1>9 DEF FirstFlip, LaterFlip, SwapTypeOK
  <2> QED BY <1>3, <2>1, <2>3, <2>4
<1>10. CASE FlipEnds(c) BY <1>0, <1>2, <1>3, <1>10 DEF FlipEnds, FlipAt
<1> QED BY <1>4, <1>5, <1>6, <1>7, <1>8, <1>9, <1>10 DEF FlipStep

LEMMA FlipThreads ==
  ASSUME SwapInv, NEW c \in Chains, TakePending(c) \/ FlipStep(c)
  PROVE  Untouched' /\ FlipAt' /\ AppAt'
<1> USE FlipMoves, FlipLocal DEF SwapInv
<1>1. Untouched' BY DEF Untouched
<1>2. FlipAt'
  <2> SUFFICES ASSUME NEW d \in Chains
               PROVE  /\ flip'[d].pc \in {"fence", "ancestor"} => flip'[d].image \in Images
                      /\ life'[d] # "live" => flip'[d].pc \in {"off", "done"}
                      /\ flip'[d].pc = "ancestor" => /\ firstPresent'[d]
                                                     /\ flip'[d].of = ancestor'[d]
                                                     /\ ancestor'[d] # NoChain
                                                     /\ image'[d][flip'[d].image] = "PENDING"
                      /\ startPresent'[d] > 0 => ~firstPresent'[d]
    BY DEF FlipAt
  <2>1. CASE d = c BY <2>1
  <2>2. CASE d # c BY <2>2 DEF FlipAt
  <2> QED BY <2>1, <2>2
<1>3. AppAt'
  <2>1. \A d : Newest(d)' <=> Newest(d) BY DEF Newest
  <2>2. ASSUME NEW d \in Chains, NoFirstFlip(d) PROVE NoFirstFlip(d)'
    <3>1. CASE d = c BY <2>2, <3>1 DEF NoFirstFlip
    <3>2. CASE d # c BY <2>2, <3>2 DEF NoFirstFlip
    <3> QED BY <3>1, <3>2
  <2>3. app.pc # "idle" => app.chain \in Chains BY DEF AppAt
  <2>4. app' = app /\ descendant' = descendant /\ life' = life OBVIOUS
  <2>5. app.pc # "idle" => descendant[app.chain] \in Chains \cup {NoChain}
    BY <2>3 DEF SwapTypeOK
  <2>6. app.pc \in {"drain", "stop", "join"} /\ descendant[app.chain] # NoChain
          => NoFirstFlip(descendant[app.chain])
    BY DEF AppAt
  <2>7. app'.pc \in {"drain", "stop", "join"} /\ descendant'[app'.chain] # NoChain
          => NoFirstFlip(descendant[app.chain])'
    <3> SUFFICES ASSUME NEW d, d = descendant[app.chain],
                        app.pc \in {"drain", "stop", "join"}, d # NoChain
                 PROVE  NoFirstFlip(d)'
      BY <2>4
    <3> QED BY <2>2, <2>5, <2>6
  <2> QED BY <2>1, <2>3, <2>4, <2>7 DEF AppAt
<1> QED BY <1>1, <1>2, <1>3

LEMMA CreateThreads ==
  ASSUME SwapInv, NEW c \in Chains, Create(c) PROVE Untouched' /\ FlipAt' /\ AppAt'
<1> USE DEF chainVars, screenVars, appVars
<1> DEFINE old == IF c > 1 /\ life[c - 1] = "live" THEN c - 1 ELSE NoChain
<1>0. SwapTypeOK /\ Untouched /\ FlipAt /\ AppAt BY DEF SwapInv
<1>1. /\ app.pc = "idle" /\ app' = app
      /\ life[c] = "none" /\ life' = [life EXCEPT ![c] = "live"]
      /\ UNCHANGED <<ring, inFlight, firstPresent, startPresent>>
      /\ flip' = [flip EXCEPT ![c].pc = "wait"]
      /\ ancestor' = [ancestor EXCEPT ![c] = old]
      /\ descendant' = [d \in Chains |-> IF d = old THEN c ELSE descendant[d]]
  BY DEF Create
<1>2. \A d \in Chains, i \in Images : image[d][i] = "PENDING" /\ d # c => image'[d][i] = "PENDING"
  BY DEF Create
<1>3. \A d \in Chains : d = old => life[d] = "live" BY ChainFacts
<1> HIDE DEF old
<1>4. /\ life'[c] = "live" /\ flip'[c].pc = "wait"
      /\ \A d \in Chains : d # c => life'[d] = life[d] /\ flip'[d] = flip[d] /\ ancestor'[d] = ancestor[d]
  BY <1>0, <1>1 DEF SwapTypeOK
<1>5. Untouched' BY <1>0, <1>1, <1>3, <1>4 DEF Untouched
<1>6. FlipAt' BY <1>0, <1>1, <1>2, <1>4 DEF FlipAt
<1>7. AppAt' BY <1>1 DEF AppAt
<1> QED BY <1>5, <1>6, <1>7

LEMMA CallThreads ==
  ASSUME SwapInv, NEW c \in Chains,
         \/ StartAcquire(c) \/ BeginTeardown(c)
         \/ \E i \in Images : QueuePresent(c, i)
  PROVE  Untouched' /\ FlipAt' /\ AppAt'
<1> USE DEF chainVars, screenVars, appVars
<1>0. SwapTypeOK /\ Untouched /\ FlipAt /\ AppAt /\ Links BY DEF SwapInv
<1>1. CASE StartAcquire(c)
  <2>1. /\ UNCHANGED <<life, flip, ring, inFlight, image, ancestor, descendant, firstPresent,
                       startPresent>>
        /\ app'.pc = "acquire" /\ app'.chain = c /\ Newest(c)
    BY <1>1 DEF StartAcquire
  <2>2. Untouched' /\ FlipAt' BY <1>0, <2>1 DEF Untouched, FlipAt
  <2>3. AppAt' BY <1>0, <2>1 DEF AppAt, Newest
  <2> QED BY <2>2, <2>3
<1>2. CASE BeginTeardown(c)
  <2>1. /\ UNCHANGED <<life, flip, ring, inFlight, image, ancestor, descendant, firstPresent,
                       startPresent>>
        /\ life[c] = "live" /\ app'.chain = c
        /\ app'.pc = IF DescendantPresents(c) THEN "await_start"
                     ELSE IF valid[c] THEN "drain" ELSE "stop"
    BY <1>2 DEF BeginTeardown
  <2>2. Untouched' /\ FlipAt' BY <1>0, <2>1 DEF Untouched, FlipAt
  <2>3. CASE DescendantPresents(c) BY <2>1, <2>2, <2>3 DEF AppAt, DescendantPresents
  <2>4. CASE ~DescendantPresents(c)
    <3>1. descendant[c] # NoChain => NoFirstFlip(descendant[c])
      <4> SUFFICES ASSUME NEW d \in Chains, d = descendant[c] PROVE NoFirstFlip(d)
        BY <1>0 DEF SwapTypeOK
      <4>1. \A i \in Images : image[d][i] # "PENDING"
        BY <2>4, ChainFacts DEF DescendantPresents
      <4> QED BY <1>0, <4>1 DEF FlipAt, NoFirstFlip
    <3>2. (descendant[app.chain] # NoChain => NoFirstFlip(descendant[app.chain]))'
      BY <2>1, <3>1 DEF NoFirstFlip
    <3>3. app'.pc \in {"drain", "stop"} BY <2>1, <2>4
    <3> QED BY <2>1, <2>2, <3>2, <3>3 DEF AppAt
  <2> QED BY <2>2, <2>3, <2>4 DEF AppAt
<1>3. ASSUME NEW i \in Images, QueuePresent(c, i) PROVE Untouched' /\ FlipAt' /\ AppAt'
  <2> DEFINE s == IF DescendantPresents(c) THEN "FREE" ELSE "PENDING"
  <2>1. /\ UNCHANGED <<life, flip, inFlight, ancestor, descendant, firstPresent,
                       startPresent, app>>
        /\ app.pc = "idle" /\ life[c] = "live" /\ image[c][i] = "ACQUIRED"
        /\ image' = [image EXCEPT ![c][i] = s]
        /\ \A d \in Chains : d # c => ring'[d] = ring[d]
    BY <1>0, <1>3 DEF QueuePresent, SwapTypeOK
  <2> HIDE DEF s
  <2>2. \A d \in Chains, h \in Images : image[d][h] = "PENDING" => image'[d][h] = "PENDING"
    BY <1>0, <2>1 DEF SwapTypeOK
  <2>3. Untouched' BY <1>0, <2>1 DEF Untouched
  <2>4. FlipAt' BY <1>0, <2>1, <2>2 DEF FlipAt
  <2> QED BY <2>1, <2>3, <2>4 DEF AppAt
<1> QED BY <1>1, <1>2, <1>3

LEMMA AppThreads == ASSUME SwapInv, AppStep PROVE Untouched' /\ FlipAt' /\ AppAt'
<1> USE DEF chainVars, screenVars, appVars
<1>0. SwapTypeOK /\ Untouched /\ FlipAt /\ AppAt /\ Links BY DEF SwapInv
<1>1. PICK c \in Chains : c = app.chain /\ life[c] = "live"
  BY <1>0 DEF AppStep, AppAt, Acquire, AwaitStart, DrainOne, StopFlipping, Join
<1>2. CASE Acquire
  <2>1. /\ UNCHANGED <<life, flip, ring, inFlight, ancestor, descendant, firstPresent,
                       startPresent>>
        /\ app'.pc = "idle"
    BY <1>2 DEF Acquire, Idle
  <2>2. \A d \in Chains, h \in Images : image[d][h] = "PENDING" => image'[d][h] = "PENDING"
    <3>1. CASE image' = image BY <3>1
    <3>2. CASE image' # image
      <4>1. PICK i \in {FirstFree(c)} : i # NoImage /\ image' = [image EXCEPT ![c][i] = "ACQUIRED"]
        BY <1>1, <1>2, <3>2 DEF Acquire
      <4>2. i \in Images /\ image[c][i] = "FREE" BY <1>0, <4>1, FirstFreeType
      <4> QED BY <1>0, <4>1, <4>2 DEF SwapTypeOK
    <3> QED BY <3>1, <3>2
  <2>3. Untouched' BY <1>0, <2>1 DEF Untouched
  <2>4. FlipAt' BY <1>0, <2>1, <2>2 DEF FlipAt
  <2> QED BY <2>1, <2>3, <2>4 DEF AppAt
<1>3. CASE AwaitStart
  <2>1. PICK d \in Chains : /\ d = descendant[c] /\ startPresent[d] > 0
                            /\ startPresent' = [startPresent EXCEPT ![d] = @ - 1]
    BY <1>0, <1>1, <1>3 DEF AwaitStart, AppAt, SwapTypeOK
  <2>2. /\ UNCHANGED <<life, flip, ring, inFlight, image, ancestor, descendant, firstPresent>>
        /\ app'.pc = "stop" /\ app'.chain = c
    BY <1>0, <1>1, <1>3 DEF AwaitStart, SwapTypeOK
  <2>3. \A e \in Chains : startPresent'[e] > 0 => startPresent[e] > 0
    BY <1>0, <2>1 DEF SwapTypeOK
  <2>4. ~firstPresent[d] /\ flip[d].pc # "ancestor" BY <1>0, <2>1 DEF FlipAt
  <2>5. NoFirstFlip(d)' BY <2>2, <2>4 DEF NoFirstFlip
  <2>6. Untouched' BY <1>0, <2>2 DEF Untouched
  <2>7. FlipAt' BY <1>0, <2>2, <2>3 DEF FlipAt
  <2>8. NoFirstFlip(descendant[app.chain])' BY <1>1, <2>1, <2>2, <2>5 DEF NoFirstFlip
  <2>9. AppAt' BY <1>1, <2>2, <2>8 DEF AppAt
  <2> QED BY <2>6, <2>7, <2>9
<1>4. CASE DrainOne \/ StopFlipping
  <2>1. /\ UNCHANGED <<life, flip, ring, inFlight, image, ancestor, descendant, firstPresent,
                       startPresent>>
        /\ app.pc \in {"drain", "stop"} /\ app'.pc \in {"drain", "join"} /\ app'.chain = c
    BY <1>0, <1>1, <1>4 DEF DrainOne, StopFlipping, SwapTypeOK
  <2>2. Untouched' /\ FlipAt' BY <1>0, <2>1 DEF Untouched, FlipAt
  <2>3. descendant[c] # NoChain => NoFirstFlip(descendant[c]) BY <1>0, <1>1, <2>1 DEF AppAt
  <2>4. (descendant[app.chain] # NoChain => NoFirstFlip(descendant[app.chain]))'
    BY <1>1, <2>1, <2>3 DEF NoFirstFlip
  <2>5. AppAt' BY <1>1, <2>1, <2>4 DEF AppAt
  <2> QED BY <2>2, <2>5
<1>5. CASE Join
  <2>1. /\ app.pc = "join" /\ app'.pc = "idle" /\ flip[c].pc = "done"
        /\ life' = [life EXCEPT ![c] = "gone"]
        /\ image' = [image EXCEPT ![c] = [i \in Images |-> "INVALID"]]
        /\ ancestor' = [d \in Chains |-> IF ancestor[d] = c THEN NoChain ELSE ancestor[d]]
        /\ descendant' = [d \in Chains |-> IF descendant[d] = c THEN NoChain ELSE descendant[d]]
        /\ UNCHANGED <<flip, ring, inFlight, firstPresent, startPresent>>
    BY <1>1, <1>5 DEF Join, Idle
  <2>2. /\ life'[c] = "gone"
        /\ \A d \in Chains : d # c => life'[d] = life[d] /\ image'[d] = image[d]
    BY <1>0, <2>1 DEF SwapTypeOK
  <2>3. ASSUME NEW d \in Chains, flip[d].pc = "ancestor" PROVE ancestor[d] # c
    <3> SUFFICES ASSUME ancestor[d] = c PROVE FALSE
      OBVIOUS
    <3>1. life[d] = "live" BY <1>0, <2>3 DEF FlipAt
    <3>2. descendant[c] = d BY <1>0, <3>1 DEF Links
    <3>3. NoFirstFlip(d) BY <1>0, <1>1, <2>1, <3>2, ChainFacts DEF AppAt
    <3> QED BY <2>3, <3>3 DEF NoFirstFlip
  <2>4. Untouched' BY <1>0, <2>1, <2>2 DEF Untouched
  <2>5. FlipAt' BY <1>0, <2>1, <2>2, <2>3, ChainFacts DEF FlipAt
  <2> QED BY <2>1, <2>4, <2>5 DEF AppAt
<1> QED BY <1>2, <1>3, <1>4, <1>5 DEF AppStep

-----------------------------------------------------------------------------
(* The invariant *)

LEMMA SwapInitInv == SwapInit => SwapInv
<1> SUFFICES ASSUME SwapInit PROVE SwapInv
  OBVIOUS
<1>1. SwapTypeOK
  <2>1. flip \in [Chains -> FlipRecords] BY DEF SwapInit, FlipRecords
  <2>2. lastAcquired \in [Chains -> Images] BY SwapchainAssumption DEF SwapInit, Images
  <2> QED BY <2>1, <2>2, SwapchainAssumption DEF SwapInit, SwapTypeOK, FlipRecords
<1>2. Links /\ InOrder /\ Untouched /\ FlipAt /\ AppAt /\ Owned
  BY ChainFacts DEF SwapInit, Links, InOrder, Untouched, FlipAt, AppAt, Owned
<1> QED BY <1>1, <1>2 DEF SwapInv

LEMMA SwapNextInv == SwapInv /\ [SwapNext]_swapVars => SwapInv'
<1> SUFFICES ASSUME SwapInv, [SwapNext]_swapVars PROVE SwapInv'
  OBVIOUS
<1>1. CASE UNCHANGED swapVars
  BY <1>1 DEF swapVars, chainVars, screenVars, appVars, SwapInv, SwapTypeOK, Links, InOrder,
     Untouched, FlipAt, AppAt, Newest, NoFirstFlip, Owned, RingOnce, Held, InRing, InHand, OnScreen
<1>2. CASE SwapNext
  <2>1. SwapTypeOK' BY <1>2, FlipTypes, CallTypes, AppTypes DEF SwapNext, AppCall, SwapInv
  <2>2. Links' /\ InOrder'
    <3>1. CASE Join BY <3>1, JoinLinks DEF SwapInv
    <3>2. ASSUME NEW c \in Chains, Create(c) PROVE Links' /\ InOrder'
      BY <3>2, CreateLinks DEF SwapInv
    <3>3. CASE ~Join /\ \A c \in Chains : ~Create(c)
      BY <1>2, <3>3, OthersKeepLinks DEF SwapInv, Links, InOrder
    <3> QED BY <3>1, <3>2, <3>3
  <2>3. Untouched' /\ FlipAt' /\ AppAt'
    BY <1>2, FlipThreads, CreateThreads, CallThreads, AppThreads DEF SwapNext, AppCall
  <2>4. Owned' BY <1>2, OwnedNext
  <2> QED BY <2>1, <2>2, <2>3, <2>4 DEF SwapInv
<1> QED BY <1>1, <1>2

LEMMA SwapSafe == SwapInv => SwapTypeOK /\ ImageOwnedOnce /\ WaitsOnTheLiving
<1> SUFFICES ASSUME SwapInv PROVE ImageOwnedOnce /\ WaitsOnTheLiving
  BY DEF SwapInv
<1>1. ImageOwnedOnce
  BY DEF SwapInv, Owned, RingOnce, Held, ImageOwnedOnce
<1>2. ASSUME NEW c \in Chains, flip[c].pc = "ancestor" PROVE life[flip[c].of] = "live"
  <2>1. flip[c].of = ancestor[c] /\ ancestor[c] \in Chains /\ life[c] = "live"
    BY <1>2 DEF SwapInv, FlipAt, SwapTypeOK
  <2> QED BY <2>1 DEF SwapInv, Links
<1>3. app.pc = "await_start" => /\ descendant[app.chain] # NoChain
                               /\ life[descendant[app.chain]] = "live"
  BY DEF SwapInv, AppAt, Links, SwapTypeOK
<1> QED BY <1>1, <1>2, <1>3 DEF WaitsOnTheLiving

(* Of the threads that might wait for the free buffers of a swapchain, the *)
(* application excludes the flip thread of the descendant.                 *)
LEMMA OneWaiter == SwapInv => SoleWaiter
<1> SUFFICES ASSUME SwapInv, NEW c \in Chains PROVE Cardinality(Waiters(c)) <= 1
  BY DEF SoleWaiter
<1>1. ASSUME NEW d \in Chains, flip[d].pc = "ancestor", flip[d].of = c
      PROVE  descendant[c] = d /\ d > c /\ life[d] = "live" /\ life[c] = "live"
  BY <1>1, ChainFacts DEF SwapInv, FlipAt, Links
<1>2. ASSUME NEW d \in Chains, flip[d].pc = "ancestor", flip[d].of = c
      PROVE  ~(app.chain = c /\ app.pc \in {"acquire", "drain"})
  <2>1. CASE app.pc = "acquire" /\ app.chain = c
    BY <1>1, <1>2, <2>1 DEF SwapInv, AppAt, Newest
  <2>2. CASE app.pc = "drain" /\ app.chain = c
    <3>1. NoFirstFlip(d) BY <1>1, <1>2, <2>2, ChainFacts DEF SwapInv, AppAt
    <3> QED BY <1>2, <3>1 DEF NoFirstFlip
  <2> QED BY <2>1, <2>2
<1>3. \E w \in Chains \cup {NoChain} : Waiters(c) \subseteq {w}
  <2>1. CASE \E d \in Chains : flip[d].pc = "ancestor" /\ flip[d].of = c
    <3>1. PICK d \in Chains : flip[d].pc = "ancestor" /\ flip[d].of = c BY <2>1
    <3>2. Waiters(c) \subseteq {d} BY <1>1, <1>2, <3>1 DEF Waiters
    <3> QED BY <3>2
  <2>2. CASE ~\E d \in Chains : flip[d].pc = "ancestor" /\ flip[d].of = c
    BY <2>2 DEF Waiters
  <2> QED BY <2>1, <2>2
<1>4. PICK w \in Chains \cup {NoChain} : Waiters(c) \subseteq {w} BY <1>3
<1>5. IsFiniteSet({w}) /\ Cardinality({w}) = 1 BY FS_Singleton
<1>6. Cardinality(Waiters(c)) <= Cardinality({w}) BY <1>4, <1>5, FS_Subset
<1> QED BY <1>5, <1>6

-----------------------------------------------------------------------------
(* The free buffers *)

TornDown(c) == app.chain = c /\ app.pc \in {"drain", "stop", "join"}

FreeImages(c) == {i \in Images : image[c][i] = "FREE"}

LEMMA FreeFinite ==
  \A c \in Chains : /\ IsFiniteSet(FreeImages(c)) /\ Count(c, "FREE") = Cardinality(FreeImages(c))
                    /\ Count(c, "FREE") \in Nat
<1> TAKE c \in Chains
<1>1. IsFiniteSet(Images) BY FS_Interval, SwapchainAssumption DEF Images
<1>2. IsFiniteSet(FreeImages(c)) BY <1>1, FS_Subset DEF FreeImages
<1> QED BY <1>2, FS_CardinalityType DEF Count, FreeImages

(* One image less is FREE at most, or one more. *)
LEMMA FreeCount ==
  ASSUME NEW c \in Chains
  PROVE  /\ FreeImages(c) \subseteq FreeImages(c)' => Count(c, "FREE") <= Count(c, "FREE")'
         /\ \A i \in FreeImages(c) :
              FreeImages(c)' = FreeImages(c) \ {i} => Count(c, "FREE")' = Count(c, "FREE") - 1
         /\ \A i \in Images \ FreeImages(c) :
              FreeImages(c)' = FreeImages(c) \cup {i} => Count(c, "FREE")' = Count(c, "FREE") + 1
<1> DEFINE S == FreeImages(c)
           T == FreeImages(c)'
<1>1. /\ IsFiniteSet(S) /\ Count(c, "FREE") = Cardinality(S)
  BY FreeFinite
<1>2. IsFiniteSet(T) /\ Count(c, "FREE")' = Cardinality(T)
  <2>1. IsFiniteSet(Images) BY FS_Interval, SwapchainAssumption DEF Images
  <2>2. IsFiniteSet(T) BY <2>1, FS_Subset DEF FreeImages
  <2> QED BY <2>2 DEF Count, FreeImages
<1>3. S \subseteq T => Cardinality(S) <= Cardinality(T) BY <1>2, FS_Subset
<1>4. \A i \in S : T = S \ {i} => Cardinality(T) = Cardinality(S) - 1
  BY <1>1, FS_RemoveElement
<1>5. \A i \in Images \ S : T = S \cup {i} => Cardinality(T) = Cardinality(S) + 1
  BY <1>1, FS_AddElement
<1> QED BY <1>1, <1>2, <1>3, <1>4, <1>5

(* What must be shown of a step for each swapchain *)
Counted(c) == Newest(c) /\ valid[c] /\ ~TornDown(c) => free[c] <= Count(c, "FREE")

LEMMA CountedKept ==
  ASSUME SwapTypeOK, SwapTypeOK', NEW c \in Chains, Newest(c) /\ valid[c] /\ ~TornDown(c),
         Counted(c), free'[c] <= free[c], FreeImages(c) \subseteq FreeImages(c)'
  PROVE  Counted(c)'
<1>1. free[c] \in Nat /\ free'[c] \in Nat BY DEF SwapTypeOK
<1>2. Count(c, "FREE") \in Nat BY FreeFinite
<1>3. Count(c, "FREE")' \in Nat
  <2>1. IsFiniteSet(Images) BY FS_Interval, SwapchainAssumption DEF Images
  <2>2. IsFiniteSet({i \in Images : image'[c][i] = "FREE"}) BY <2>1, FS_Subset
  <2> QED BY <2>2, FS_CardinalityType DEF Count
<1>4. free[c] <= Count(c, "FREE") BY DEF Counted
<1>5. Count(c, "FREE") <= Count(c, "FREE")' BY FreeCount
<1> QED BY <1>1, <1>2, <1>3, <1>4, <1>5 DEF Counted

(* A step that posts no free buffer of c *)
LEMMA FreeLess ==
  ASSUME SwapTypeOK, NEW c \in Chains, NEW d, d # c,
         \/ UNCHANGED free
         \/ free' = [free EXCEPT ![d] = @ + 1]
         \/ \E e : free' = [free EXCEPT ![e] = @ - 1]
  PROVE  free'[c] <= free[c]
<1>1. free[c] \in Nat /\ c \in DOMAIN free BY DEF SwapTypeOK
<1>2. CASE UNCHANGED free \/ free' = [free EXCEPT ![d] = @ + 1] BY <1>1, <1>2
<1>3. ASSUME NEW e, free' = [free EXCEPT ![e] = @ - 1] PROVE free'[c] <= free[c]
  <2>1. CASE e = c BY <1>1, <1>3, <2>1
  <2>2. CASE e # c BY <1>1, <1>3, <2>2
  <2> QED BY <2>1, <2>2
<1> QED BY <1>2, <1>3

LEMMA FlipCounted ==
  ASSUME SwapInv, SwapTypeOK', NEW c \in Chains, Counted(c), Newest(c), valid'[c], ~TornDown(c),
         NEW d \in Chains, TakePending(d) \/ FlipStep(d)
  PROVE  Counted(c)'
<1> USE DEF chainVars, screenVars, appVars
<1>0. SwapTypeOK BY DEF SwapInv
<1>1. valid[c]
  BY <1>0 DEF TakePending, FlipStep, FenceFails, ReleaseRetired, AwaitAncestor, DrainAncestor,
     FirstFlip, LaterFlip, FlipEnds, SwapTypeOK
<1>2. descendant[c] = NoChain
  BY ChainFacts DEF SwapInv, Links, SwapTypeOK, Newest
<1>3. CASE image'[c] = image[c] /\ free'[c] <= free[c]
  BY <1>0, <1>1, <1>3, CountedKept DEF FreeImages
<1>4. CASE d # c
  <2>1. image'[c] = image[c] BY <1>0, <1>4, FlipLocal
  <2>2. \/ UNCHANGED free
        \/ free' = [free EXCEPT ![d] = @ + 1]
        \/ \E e : free' = [free EXCEPT ![e] = @ - 1]
    BY DEF TakePending, FlipStep, FenceFails, ReleaseRetired, AwaitAncestor, DrainAncestor,
       FirstFlip, LaterFlip, FlipEnds, PresentImage
  <2>3. free'[c] <= free[c] BY <1>0, <1>4, <2>2, FreeLess
  <2> QED BY <1>3, <2>1, <2>3
<1>5. CASE FenceFails(c) BY <1>0, <1>5 DEF FenceFails, SwapTypeOK
<1>6. CASE ReleaseRetired(c)
  <2> DEFINE i == flip[c].image
  <2>1. i \in Images /\ InHand(c, i) /\ image[c][i] = "FREE"
    BY <1>6 DEF ReleaseRetired, SwapInv, FlipAt, InHand
  <2>2. life[c] = "live" BY DEF Newest
  <2>3. \E e \in Chains : e > c /\ life[e] # "none"
    BY <2>1, <2>2 DEF SwapInv, Owned, Held
  <2> QED BY <2>3 DEF Newest
<1>7. CASE PresentImage(c) /\ flip[c].pc \in {"fence", "ancestor"}
  <2> DEFINE old == inFlight[c]
  <2>1. CASE old = NoImage BY <1>0, <1>3, <1>7, <2>1 DEF PresentImage, SwapTypeOK
  <2>2. CASE old # NoImage
    <3>1. old \in Images BY <1>0, <2>2 DEF SwapTypeOK
    <3>2. image[c][old] = "PENDING"
      BY <3>1 DEF SwapInv, Owned, Held, OnScreen, Newest
    <3>3. /\ image' = [image EXCEPT ![c][old] = "FREE"]
          /\ free' = [free EXCEPT ![c] = @ + 1]
      BY <1>2, <1>7, <2>2 DEF PresentImage
    <3>4. FreeImages(c)' = FreeImages(c) \cup {old}
      BY <1>0, <3>1, <3>3 DEF FreeImages, SwapTypeOK
    <3>5. old \in Images \ FreeImages(c) BY <3>1, <3>2 DEF FreeImages
    <3>6. Count(c, "FREE")' = Count(c, "FREE") + 1 BY <3>4, <3>5, FreeCount
    <3>7. free'[c] = free[c] + 1 /\ free[c] \in Nat BY <1>0, <3>3 DEF SwapTypeOK
    <3>8. free[c] <= Count(c, "FREE") BY <1>1 DEF Counted
    <3>9. Count(c, "FREE") \in Nat BY FreeFinite
    <3> QED BY <3>6, <3>7, <3>8, <3>9 DEF Counted
  <2> QED BY <2>1, <2>2
<1>8. CASE d = c /\ (TakePending(c) \/ AwaitAncestor(c) \/ DrainAncestor(c) \/ FlipEnds(c))
  <2>1. image' = image BY <1>8 DEF TakePending, AwaitAncestor, DrainAncestor, FlipEnds
  <2>2. UNCHANGED free \/ \E e : free' = [free EXCEPT ![e] = @ - 1]
    BY <1>8 DEF TakePending, AwaitAncestor, DrainAncestor, FlipEnds
  <2>3. free'[c] <= free[c] BY <1>0, <2>2, FreeLess, ChainFacts
  <2> QED BY <1>3, <2>1, <2>3
<1> QED
  BY <1>4, <1>5, <1>6, <1>7, <1>8 DEF FlipStep, FirstFlip, LaterFlip, ToPresent

LEMMA CreateCounted ==
  ASSUME SwapInv, NEW d \in Chains, Create(d), NEW c \in Chains, Newest(c)'
  PROVE  Counted(c)'
<1>1. /\ life[d] = "none" /\ life' = [life EXCEPT ![d] = "live"]
      /\ free' = [free EXCEPT ![d] = NumImages]
      /\ \A i \in Images : image'[d][i] = "FREE"
  BY DEF Create
<1>2. c = d
  <2>1. life'[c] = "live" /\ \A e \in Chains : e > c => life'[e] = "none" BY DEF Newest
  <2>2. life'[d] = "live" BY <1>1 DEF SwapInv, SwapTypeOK
  <2>3. ~(d > c) BY <2>1, <2>2
  <2>4. ASSUME d < c PROVE FALSE
    <3>1. life[c] = "live" BY <1>1, <2>1, <2>4, ChainFacts DEF SwapInv, SwapTypeOK
    <3> QED BY <1>1, <2>4, <3>1 DEF SwapInv, InOrder
  <2> QED BY <2>3, <2>4, ChainFacts
<1>3. {i \in Images : image'[c][i] = "FREE"} = Images BY <1>1, <1>2
<1>4. Count(c, "FREE")' = Cardinality(Images) BY <1>3 DEF Count
<1>5. Cardinality(Images) = NumImages
  <2>1. NumImages - 1 \in Int /\ ~(0 > NumImages - 1) /\ NumImages - 1 - 0 + 1 = NumImages
    BY SwapchainAssumption
  <2> QED BY <2>1, FS_Interval DEF Images
<1>6. free'[c] = NumImages BY <1>1, <1>2 DEF SwapInv, SwapTypeOK
<1> QED BY <1>4, <1>5, <1>6, SwapchainAssumption DEF Counted

LEMMA AcquireCounted ==
  ASSUME SwapInv, SwapTypeOK', Acquire, NEW c \in Chains, Newest(c), valid[c], Counted(c)
  PROVE  Counted(c)'
<1> DEFINE i == FirstFree(c)
<1>0. SwapTypeOK BY DEF SwapInv
<1>1. app.pc = "acquire" /\ free' = [free EXCEPT ![app.chain] = @ - 1] BY DEF Acquire
<1>2. ~TornDown(c) BY <1>1 DEF TornDown
<1>3. CASE app.chain # c
  <2>1. image'[c] = image[c] /\ free'[c] = free[c]
    BY <1>0, <1>1, <1>3 DEF Acquire, SwapTypeOK
  <2>2. free[c] \in Nat BY <1>0 DEF SwapTypeOK
  <2> QED BY <1>0, <1>2, <2>1, <2>2, CountedKept DEF FreeImages
<1>4. CASE app.chain = c
  <2>1. free'[c] = free[c] - 1 /\ free[c] \in Nat BY <1>0, <1>1, <1>4 DEF SwapTypeOK
  <2>2. CASE i = NoImage
    <3>1. image' = image BY <1>4, <2>2 DEF Acquire
    <3> QED BY <1>0, <1>2, <2>1, <3>1, CountedKept DEF FreeImages
  <2>3. CASE i # NoImage
    <3>1. i \in Images /\ image[c][i] = "FREE" BY <1>0, <2>3, FirstFreeType
    <3>2. image' = [image EXCEPT ![c][i] = "ACQUIRED"] BY <1>4, <2>3 DEF Acquire
    <3> HIDE DEF i
    <3>3. i \in FreeImages(c) /\ FreeImages(c)' = FreeImages(c) \ {i}
      BY <1>0, <3>1, <3>2 DEF FreeImages, SwapTypeOK
    <3>4. Count(c, "FREE")' = Count(c, "FREE") - 1 BY <3>3, FreeCount
    <3>5. free[c] <= Count(c, "FREE") BY <1>2 DEF Counted
    <3>6. Count(c, "FREE") \in Nat BY FreeFinite
    <3> QED BY <2>1, <3>4, <3>5, <3>6 DEF Counted
  <2> QED BY <2>2, <2>3
<1> QED BY <1>3, <1>4

LEMMA OthersCounted ==
  ASSUME SwapInv, SwapTypeOK', SwapNext, ~Acquire, \A d \in Chains : ~Create(d),
         \A d \in Chains : ~TakePending(d) /\ ~FlipStep(d),
         NEW c \in Chains, Counted(c), Newest(c)', valid'[c], ~TornDown(c)'
  PROVE  Counted(c)'
<1> USE DEF chainVars, screenVars, appVars
<1>0. SwapTypeOK BY DEF SwapInv
<1>1. CASE Join
  <2>1. life' = [life EXCEPT ![app.chain] = "gone"] /\ UNCHANGED <<free, valid>>
    BY <1>1 DEF Join
  <2>2. app.chain # c BY <1>0, <2>1 DEF Newest, SwapTypeOK
  <2>3. image'[c] = image[c] BY <1>0, <1>1, <2>2 DEF Join, SwapTypeOK
  <2>4. \A d \in Chains : life'[d] = "none" => life[d] = "none" BY <1>0, <2>1 DEF SwapTypeOK
  <2>5. Newest(c)
    <3>1. life[c] = "live" BY <1>0, <2>1, <2>2 DEF Newest, SwapTypeOK
    <3> QED BY <2>4, <3>1 DEF Newest
  <2>6. ~TornDown(c) BY <2>2 DEF TornDown
  <2>7. free'[c] <= free[c] BY <1>0, <2>1 DEF SwapTypeOK
  <2> QED BY <1>0, <2>1, <2>3, <2>5, <2>6, <2>7, CountedKept DEF FreeImages
<1>2. CASE ~Join
  <2>1. UNCHANGED <<life, valid>>
    BY <1>2 DEF SwapNext, AppStep, AppCall, AwaitStart, DrainOne, StopFlipping, StartAcquire,
       QueuePresent, BeginTeardown
  <2>2. Newest(c) BY <2>1 DEF Newest
  <2>3. ~TornDown(c)
    BY <1>2 DEF SwapNext, AppStep, AppCall, AwaitStart, DrainOne, StopFlipping, StartAcquire,
       QueuePresent, BeginTeardown, TornDown, SwapTypeOK, SwapInv
  <2>4. UNCHANGED free \/ \E e : free' = [free EXCEPT ![e] = @ - 1]
    BY <1>2 DEF SwapNext, AppStep, AppCall, AwaitStart, DrainOne, StopFlipping, StartAcquire,
       QueuePresent, BeginTeardown
  <2>5. FreeImages(c) \subseteq FreeImages(c)'
    <3>1. CASE UNCHANGED image BY <3>1 DEF FreeImages
    <3>2. ASSUME NEW d \in Chains, NEW i \in Images, QueuePresent(d, i)
          PROVE  FreeImages(c) \subseteq FreeImages(c)'
      <4>1. image[d][i] = "ACQUIRED" /\ \E s : image' = [image EXCEPT ![d][i] = s]
        BY <3>2 DEF QueuePresent
      <4> QED BY <1>0, <4>1 DEF FreeImages, SwapTypeOK
    <3> QED
      BY <1>2, <3>1, <3>2 DEF SwapNext, AppStep, AppCall, AwaitStart, DrainOne, StopFlipping,
         StartAcquire, BeginTeardown
  <2>6. free'[c] <= free[c] BY <1>0, <2>4, FreeLess, ChainFacts
  <2> QED BY <1>0, <2>1, <2>2, <2>3, <2>5, <2>6, CountedKept
<1> QED BY <1>1, <1>2

LEMMA FreeInit == SwapInit => AcquireFindsImage
  BY DEF SwapInit, AcquireFindsImage, Newest

LEMMA FreeNext ==
  ASSUME SwapInv, SwapInv', AcquireFindsImage, [SwapNext]_swapVars
  PROVE  AcquireFindsImage'
<1>1. SwapTypeOK /\ SwapTypeOK' BY DEF SwapInv
<1>2. \A c \in Chains : Counted(c) BY DEF AcquireFindsImage, Counted, TornDown
<1>3. SUFFICES ASSUME NEW c \in Chains, Newest(c)', valid'[c], ~TornDown(c)' PROVE Counted(c)'
  BY DEF AcquireFindsImage, Counted, TornDown
<1>4. CASE UNCHANGED swapVars
  BY <1>2, <1>4 DEF swapVars, chainVars, screenVars, appVars, Counted, Newest, TornDown, Count
<1>5. ASSUME NEW d \in Chains, TakePending(d) \/ FlipStep(d) PROVE Counted(c)'
  <2>1. UNCHANGED <<life, app>> BY <1>1, <1>5, FlipLocal
  <2>2. Newest(c) /\ ~TornDown(c) BY <1>3, <2>1 DEF Newest, TornDown
  <2> QED BY <1>1, <1>2, <1>3, <1>5, <2>2, FlipCounted
<1>6. ASSUME NEW d \in Chains, Create(d) PROVE Counted(c)'
  BY <1>3, <1>6, CreateCounted
<1>7. CASE Acquire
  <2>1. UNCHANGED <<life, valid>> BY <1>7 DEF Acquire, chainVars
  <2> QED BY <1>1, <1>2, <1>3, <1>7, <2>1, AcquireCounted DEF Newest
<1>8. CASE SwapNext /\ ~Acquire /\ (\A d \in Chains : ~Create(d))
           /\ \A d \in Chains : ~TakePending(d) /\ ~FlipStep(d)
  BY <1>1, <1>2, <1>3, <1>8, OthersCounted
<1> QED BY <1>4, <1>5, <1>6, <1>7, <1>8

-----------------------------------------------------------------------------
(* The first flip of a swapchain that replaces another one *)

PendingImages(c) == {i \in Images : image[c][i] = "PENDING"}
AcquiredImages(c) == {i \in Images : image[c][i] = "ACQUIRED"}

(* The images of the ring and the one in the hand of the flip thread *)
Queued(c, i) == InRing(c, i) \/ InHand(c, i)

(* The images that the semaphore of the free buffers does not count *)
Used(c) == {i \in Images : image[c][i] \in {"ACQUIRED", "PENDING"} \/ Queued(c, i)}

(* A free buffer was posted for an image that is out of use. *)
Posted(c) ==
  life[c] = "live" /\ valid[c] => free[c] + Cardinality(Used(c)) <= NumImages

(* An image that is queued to be retired has none behind it that is to be  *)
(* flipped: the descendant presents.                                       *)
Retiring(c) ==
  life[c] = "live" /\ descendant[c] # NoChain =>
    /\ \A k, l \in 1..Len(ring[c]) :
         k < l /\ image[c][ring[c][k]] = "FREE" => image[c][ring[c][l]] = "FREE"
    /\ \A h \in Images : InHand(c, h) /\ image[c][h] = "FREE" =>
         \A l \in 1..Len(ring[c]) : image[c][ring[c][l]] = "FREE"
    /\ \A i \in Images : Queued(c, i) /\ image[c][i] = "FREE" => DescendantPresents(c)

(* A swapchain that flipped once has an image on screen. *)
Shown(c) == ~firstPresent[c] => inFlight[c] # NoImage

PendingQueued(c) == \E i \in PendingImages(c) : Queued(c, i)

(* While an image of the ancestor is to be flipped, the first flip waits   *)
(* for more free buffers than the ancestor can have without it.            *)
Awaiting(c) ==
  flip[c].pc = "ancestor" /\ valid[ancestor[c]] /\ PendingQueued(ancestor[c]) =>
    free[ancestor[c]] + Cardinality(PendingImages(ancestor[c])) <= flip[c].left + 1

FirstFlipInv == \A c \in Chains : Posted(c) /\ Retiring(c) /\ Shown(c) /\ Awaiting(c)

LEMMA ImageSets ==
  ASSUME NEW S \in SUBSET Images, NEW T \in SUBSET Images
  PROVE  /\ IsFiniteSet(S) /\ Cardinality(S) \in Nat
         /\ S \subseteq T => Cardinality(S) <= Cardinality(T)
         /\ \A i \in S : T = S \ {i} => Cardinality(T) = Cardinality(S) - 1
         /\ \A i \in T : i \notin S /\ T = S \cup {i} => Cardinality(T) = Cardinality(S) + 1
         /\ S \cap T = {} => Cardinality(S \cup T) = Cardinality(S) + Cardinality(T)
<1>1. IsFiniteSet(Images) BY FS_Interval, SwapchainAssumption DEF Images
<1>2. IsFiniteSet(S) /\ IsFiniteSet(T) BY <1>1, FS_Subset
<1>3. Cardinality(S) \in Nat BY <1>2, FS_CardinalityType
<1>4. S \subseteq T => Cardinality(S) <= Cardinality(T) BY <1>2, FS_Subset
<1>5. \A i \in S : T = S \ {i} => Cardinality(T) = Cardinality(S) - 1
  BY <1>2, FS_RemoveElement
<1>6. \A i \in T : i \notin S /\ T = S \cup {i} => Cardinality(T) = Cardinality(S) + 1
  BY <1>2, FS_AddElement
<1>7. ASSUME S \cap T = {} PROVE Cardinality(S \cup T) = Cardinality(S) + Cardinality(T)
  <2>1. Cardinality(S \cup T) = Cardinality(S) + Cardinality(T) - Cardinality({})
    BY <1>2, <1>7, FS_Union
  <2>2. Cardinality({}) = 0 BY FS_EmptySet
  <2>3. Cardinality(T) \in Nat BY <1>2, FS_CardinalityType
  <2> QED BY <1>3, <2>1, <2>2, <2>3
<1> QED BY <1>2, <1>3, <1>4, <1>5, <1>6, <1>7

(* A step that posts nothing for c and does not move its images; the FREE  *)
(* ones may be destroyed.                                                  *)
Quiet(c) ==
  /\ life[c] = "live"
  /\ ring'[c] = ring[c] /\ valid'[c] = valid[c] /\ free'[c] <= free[c]
  /\ \A i \in Images :
       /\ InHand(c, i)' <=> InHand(c, i)
       /\ \/ image'[c][i] = image[c][i]
          \/ image[c][i] = "FREE" /\ image'[c][i] = "INVALID" /\ ~Queued(c, i)

(* A step that puts the image in the hand of the flip thread on screen *)
Shows(c) ==
  /\ life[c] = "live"
  /\ ring'[c] = ring[c] /\ valid'[c] = valid[c]
  /\ \A i \in Images : ~InHand(c, i)'
  /\ \E h \in Images : InHand(c, h) /\ image[c][h] = "PENDING" /\ image'[c][h] = "PENDING"
  /\ \/ /\ free'[c] = free[c] /\ image'[c] = image[c]
        /\ inFlight[c] = NoImage
     \/ \E old \in Images :
          /\ free'[c] = free[c] + 1
          /\ OnScreen(c, old) /\ image[c][old] = "PENDING" /\ ~Queued(c, old)
          /\ image'[c][old] \in {"FREE", "INVALID"}
          /\ \A i \in Images : i # old => image'[c][i] = image[c][i]

LEMMA FlipAgain ==
  ASSUME SwapTypeOK, NEW c \in Chains, flip' = [flip EXCEPT ![c] = Again(c)]
  PROVE  flip'[c].pc \in {"wait", "done"}
<1>1. flip'[c] = Again(c) BY DEF SwapTypeOK
<1> QED BY <1>1, AgainType

LEMMA FlipSteps ==
  ASSUME SwapInv, NEW c \in Chains, NEW d \in Chains, TakePending(d) \/ FlipStep(d),
         life[c] = "live"
  PROVE  Quiet(c) \/ TakePending(c) \/ FenceFails(c) \/ ReleaseRetired(c) \/ Shows(c)
<1> USE DEF chainVars, screenVars, appVars
<1>0. SwapTypeOK /\ FlipAt BY DEF SwapInv
<1>1. RingOnce(c) /\ \A i \in Images : Held(c, i) BY DEF SwapInv, Owned
<1>2. CASE d # c
  <2>1. /\ image'[c] = image[c] /\ ring'[c] = ring[c] /\ flip'[c] = flip[c]
        /\ valid'[c] = valid[c]
    BY <1>0, <1>2, FlipLocal
  <2>2. \/ UNCHANGED free
        \/ free' = [free EXCEPT ![d] = @ + 1]
        \/ \E e : free' = [free EXCEPT ![e] = @ - 1]
    BY DEF TakePending, FlipStep, FenceFails, ReleaseRetired, AwaitAncestor, DrainAncestor,
       FirstFlip, LaterFlip, FlipEnds, PresentImage
  <2>3. free'[c] <= free[c] BY <1>0, <1>2, <2>2, FreeLess
  <2> QED BY <2>1, <2>3 DEF Quiet, InHand
<1>3. ASSUME AwaitAncestor(c) \/ DrainAncestor(c) \/ FlipEnds(c) PROVE Quiet(c)
  <2>1. UNCHANGED <<image, ring, valid>> BY <1>3 DEF AwaitAncestor, DrainAncestor, FlipEnds
  <2>2. UNCHANGED free \/ \E e : free' = [free EXCEPT ![e] = @ - 1]
    BY <1>3 DEF AwaitAncestor, DrainAncestor, FlipEnds
  <2>3. free'[c] <= free[c] BY <1>0, <2>2, FreeLess, ChainFacts
  <2>4. CASE AwaitAncestor(c) \/ DrainAncestor(c)
    <3>1. /\ flip[c].pc \in {"fence", "ancestor"} /\ flip'[c].pc = "ancestor"
          /\ flip'[c].image = flip[c].image
      BY <1>0, <2>4 DEF AwaitAncestor, DrainAncestor, ToPresent, SwapTypeOK
    <3> QED BY <2>1, <2>3, <3>1 DEF Quiet, InHand
  <2>5. CASE FlipEnds(c)
    <3>1. flip[c].pc = "wait" /\ flip'[c].pc \in {"wait", "done"}
      BY <1>0, <2>5, FlipAgain DEF FlipEnds
    <3> QED BY <2>1, <2>3, <3>1 DEF Quiet, InHand
  <2> QED BY <1>3, <2>4, <2>5
<1>4. ASSUME FirstFlip(c) \/ LaterFlip(c) PROVE Shows(c)
  <2> DEFINE h == flip[c].image
  <2>1. h \in Images /\ InHand(c, h)
    BY <1>0, <1>4 DEF FirstFlip, LaterFlip, ToPresent, FlipAt, InHand
  <2>2. image[c][h] = "PENDING"
    BY <1>0, <1>1, <1>4, <2>1 DEF FirstFlip, LaterFlip, ToPresent, FlipAt, Held
  <2>3. PresentImage(c) /\ UNCHANGED <<ring, valid>> /\ flip' = [flip EXCEPT ![c] = Again(c)]
    BY <1>4 DEF FirstFlip, LaterFlip
  <2>4. flip'[c].pc \in {"wait", "done"} BY <1>0, <2>3, FlipAgain
  <2>5. \A i \in Images : ~InHand(c, i)' BY <2>4 DEF InHand
  <2> HIDE DEF h
  <2>6. CASE inFlight[c] = NoImage
    <3>1. UNCHANGED <<image, free>> BY <2>3, <2>6 DEF PresentImage
    <3> QED BY <2>1, <2>2, <2>3, <2>5, <2>6, <3>1 DEF Shows
  <2>7. CASE inFlight[c] # NoImage
    <3> DEFINE old == inFlight[c]
               s == IF descendant[c] = NoChain THEN "FREE" ELSE "INVALID"
    <3>1. old \in Images BY <1>0, <2>7 DEF SwapTypeOK
    <3>2. image' = [image EXCEPT ![c][old] = s] /\ free' = [free EXCEPT ![c] = @ + 1]
      BY <2>3, <2>7 DEF PresentImage
    <3>3. s \in {"FREE", "INVALID"} OBVIOUS
    <3>4. OnScreen(c, old) BY DEF OnScreen
    <3> HIDE DEF old, s
    <3>5. image[c][old] = "PENDING" /\ ~Queued(c, old) /\ old # h
      BY <1>1, <2>1, <3>1, <3>4 DEF Held, Queued
    <3>6. /\ image'[c][old] \in {"FREE", "INVALID"} /\ free'[c] = free[c] + 1
          /\ \A i \in Images : i # old => image'[c][i] = image[c][i]
      BY <1>0, <3>1, <3>2, <3>3 DEF SwapTypeOK
    <3>7. image'[c][h] = "PENDING" BY <2>1, <2>2, <3>5, <3>6
    <3> QED BY <2>1, <2>2, <2>3, <2>5, <3>1, <3>4, <3>5, <3>6, <3>7 DEF Shows
  <2> QED BY <2>6, <2>7
<1> QED BY <1>2, <1>3, <1>4 DEF FlipStep

(* A step that acquires an image of c *)
Draws(c) ==
  /\ Newest(c)
  /\ ring'[c] = ring[c] /\ valid'[c] = valid[c] /\ free'[c] = free[c] - 1
  /\ \E i \in Images :
       /\ image[c][i] = "FREE" /\ ~Queued(c, i) /\ image'[c][i] = "ACQUIRED"
       /\ \A h \in Images : h # i => image'[c][h] = image[c][h]
  /\ \A i \in Images : InHand(c, i)' <=> InHand(c, i)

LEMMA CreateSteps ==
  ASSUME SwapInv, NEW c \in Chains, NEW d \in Chains, Create(d), d # c, life'[c] = "live"
  PROVE  Quiet(c)
<1> USE DEF chainVars, screenVars, appVars
<1> DEFINE old == IF d > 1 /\ life[d - 1] = "live" THEN d - 1 ELSE NoChain
<1>0. SwapTypeOK BY DEF SwapInv
<1>1. /\ life[d] = "none" /\ life' = [life EXCEPT ![d] = "live"]
      /\ \A e \in Chains : e < d => life[e] # "none"
      /\ UNCHANGED <<ring, valid>> /\ free' = [free EXCEPT ![d] = NumImages]
      /\ flip' = [flip EXCEPT ![d].pc = "wait"]
  BY DEF Create
<1>2. image' = [e \in Chains |->
                  [i \in Images |-> IF e = d THEN "FREE"
                                    ELSE IF e = old /\ image[e][i] = "FREE" THEN "INVALID"
                                    ELSE image[e][i]]]
  BY DEF Create
<1>3. life[c] = "live" BY <1>0, <1>1 DEF SwapTypeOK
<1>4. \A i \in Images : Held(c, i) BY <1>3 DEF SwapInv, Owned
<1>5. c = old => \A e \in Chains : e > c => life[e] = "none"
  <2> SUFFICES ASSUME c = old, NEW e \in Chains, e > c, life[e] # "none" PROVE FALSE
    OBVIOUS
  <2>1. c = d - 1 BY ChainFacts
  <2>2. e = d \/ e > d BY <2>1, ChainFacts DEF Chains
  <2> QED BY <1>1, <2>2 DEF SwapInv, InOrder
<1> HIDE DEF old
<1>6. flip'[c] = flip[c] /\ free'[c] = free[c] /\ free[c] \in Nat
  BY <1>0, <1>1 DEF SwapTypeOK
<1>7. ASSUME NEW i \in Images
      PROVE  \/ image'[c][i] = image[c][i]
             \/ image[c][i] = "FREE" /\ image'[c][i] = "INVALID" /\ ~Queued(c, i)
  <2>1. image'[c][i] = IF c = old /\ image[c][i] = "FREE" THEN "INVALID" ELSE image[c][i]
    BY <1>2
  <2>2. c = old /\ image[c][i] = "FREE" => ~Queued(c, i) BY <1>4, <1>5 DEF Held, Queued
  <2> QED BY <2>1, <2>2
<1> QED BY <1>1, <1>3, <1>6, <1>7 DEF Quiet, InHand

LEMMA AppSteps ==
  ASSUME SwapInv, NEW c \in Chains, life'[c] = "live",
         AppStep \/ AppCall \/ \E d \in Chains : BeginTeardown(d)
  PROVE  Quiet(c) \/ Draws(c) \/ Create(c) \/ \E i \in Images : QueuePresent(c, i)
<1> USE DEF chainVars, screenVars, appVars
<1>0. SwapTypeOK /\ AppAt BY DEF SwapInv
<1>1. CASE Acquire
  <2>1. /\ UNCHANGED <<life, ring, valid, flip>> /\ app.pc = "acquire"
        /\ free' = [free EXCEPT ![app.chain] = @ - 1]
    BY <1>1 DEF Acquire
  <2>2. free'[c] <= free[c] BY <1>0, <2>1, FreeLess, ChainFacts
  <2>3. CASE app.chain # c \/ image' = image
    <3>1. image'[c] = image[c]
      BY <1>0, <1>1, <2>3 DEF Acquire, SwapTypeOK
    <3> QED BY <2>1, <2>2, <3>1 DEF Quiet, InHand
  <2>4. CASE app.chain = c /\ image' # image
    <3> DEFINE i == FirstFree(c)
    <3>1. i # NoImage /\ image' = [image EXCEPT ![c][i] = "ACQUIRED"]
      BY <1>1, <2>4 DEF Acquire
    <3>2. i \in Images /\ image[c][i] = "FREE" BY <1>0, <3>1, FirstFreeType
    <3> HIDE DEF i
    <3>3. Newest(c) BY <1>0, <2>1, <2>4 DEF AppAt
    <3>4. Held(c, i) BY <3>2, <3>3 DEF SwapInv, Owned, Newest
    <3>5. ~Queued(c, i) BY <3>2, <3>3, <3>4 DEF Held, Queued, Newest
    <3>6. /\ image'[c][i] = "ACQUIRED"
          /\ \A h \in Images : h # i => image'[c][h] = image[c][h]
      BY <1>0, <3>1, <3>2 DEF SwapTypeOK
    <3>7. free'[c] = free[c] - 1 BY <1>0, <2>1, <2>4 DEF SwapTypeOK
    <3> QED BY <2>1, <3>2, <3>3, <3>5, <3>6, <3>7 DEF Draws, InHand
  <2> QED BY <2>3, <2>4
<1>2. ASSUME NEW d \in Chains,
             AwaitStart \/ DrainOne \/ StopFlipping \/ StartAcquire(d) \/ BeginTeardown(d)
      PROVE  Quiet(c)
  <2>1. UNCHANGED <<life, ring, valid, flip, image>>
    BY <1>2 DEF AwaitStart, DrainOne, StopFlipping, StartAcquire, BeginTeardown
  <2>2. UNCHANGED free \/ \E e : free' = [free EXCEPT ![e] = @ - 1]
    BY <1>2 DEF AwaitStart, DrainOne, StopFlipping, StartAcquire, BeginTeardown
  <2>3. free'[c] <= free[c] BY <1>0, <2>2, FreeLess, ChainFacts
  <2> QED BY <2>1, <2>3 DEF Quiet, InHand
<1>3. CASE Join
  <2>1. /\ life' = [life EXCEPT ![app.chain] = "gone"]
        /\ image' = [image EXCEPT ![app.chain] = [i \in Images |-> "INVALID"]]
        /\ UNCHANGED <<ring, valid, flip, free>>
    BY <1>3 DEF Join
  <2>2. app.chain # c /\ life[c] = "live" BY <1>0, <2>1 DEF SwapTypeOK
  <2>3. image'[c] = image[c] /\ free[c] \in Nat BY <1>0, <2>1, <2>2 DEF SwapTypeOK
  <2> QED BY <2>1, <2>2, <2>3 DEF Quiet, InHand
<1>4. ASSUME NEW d \in Chains, Create(d) PROVE Quiet(c) \/ Create(c)
  BY <1>4, CreateSteps
<1>5. ASSUME NEW d \in Chains, NEW i \in Images, QueuePresent(d, i), d # c PROVE Quiet(c)
  <2>1. /\ UNCHANGED <<life, valid, flip, free>>
        /\ \E s : image' = [image EXCEPT ![d][i] = s]
        /\ ring' = [ring EXCEPT ![d] = Append(@, i)]
    BY <1>5 DEF QueuePresent
  <2>2. image'[c] = image[c] /\ ring'[c] = ring[c] /\ free[c] \in Nat
    BY <1>0, <1>5, <2>1 DEF SwapTypeOK
  <2> QED BY <2>1, <2>2 DEF Quiet, InHand
<1> QED BY <1>1, <1>2, <1>3, <1>4, <1>5 DEF AppStep, AppCall

(* Every step does one of these things to a swapchain that lives. *)
LEMMA ChainSteps ==
  ASSUME SwapInv, SwapNext, NEW c \in Chains, life'[c] = "live"
  PROVE  \/ Quiet(c) \/ Draws(c) \/ Create(c) \/ TakePending(c) \/ FenceFails(c)
         \/ ReleaseRetired(c) \/ Shows(c) \/ \E i \in Images : QueuePresent(c, i)
<1>1. ASSUME NEW d \in Chains, TakePending(d) \/ FlipStep(d)
      PROVE  \/ Quiet(c) \/ TakePending(c) \/ FenceFails(c) \/ ReleaseRetired(c) \/ Shows(c)
  <2>1. UNCHANGED life BY <1>1, FlipLocal DEF SwapInv
  <2> QED BY <1>1, <2>1, FlipSteps
<1>2. CASE AppStep \/ AppCall \/ \E d \in Chains : BeginTeardown(d)
  BY <1>2, AppSteps
<1> QED BY <1>1, <1>2 DEF SwapNext

LEMMA QueuesOne ==
  ASSUME SwapInv, NEW c \in Chains, NEW i \in Images, QueuePresent(c, i)
  PROVE  /\ life[c] = "live" /\ image[c][i] = "ACQUIRED" /\ ~Queued(c, i)
         /\ image'[c][i] = IF DescendantPresents(c) THEN "FREE" ELSE "PENDING"
         /\ \A h \in Images : h # i => image'[c][h] = image[c][h]
         /\ ring'[c] = Append(ring[c], i) /\ valid'[c] = valid[c] /\ free'[c] = free[c]
         /\ \A h \in Images : /\ InRing(c, h)' <=> InRing(c, h) \/ h = i
                              /\ InHand(c, h)' <=> InHand(c, h)
<1> USE DEF chainVars, screenVars, appVars
<1> DEFINE s == IF DescendantPresents(c) THEN "FREE" ELSE "PENDING"
<1>0. SwapTypeOK BY DEF SwapInv
<1>1. /\ life[c] = "live" /\ image[c][i] = "ACQUIRED"
      /\ image' = [image EXCEPT ![c][i] = s]
      /\ ring' = [ring EXCEPT ![c] = Append(@, i)]
      /\ UNCHANGED <<valid, flip, free>>
  BY DEF QueuePresent
<1> HIDE DEF s
<1>2. RingOnce(c) /\ Held(c, i) BY <1>1 DEF SwapInv, Owned
<1>3. ~InRing(c, i) /\ ~InHand(c, i) BY <1>1, <1>2 DEF Held
<1>4. \A h \in Images : InRing(c, h)' <=> InRing(c, h) \/ h = i
  BY <1>0, <1>1, <1>2, <1>3, RingAdded
<1>5. /\ image'[c][i] = s /\ ring'[c] = Append(ring[c], i)
      /\ \A h \in Images : h # i => image'[c][h] = image[c][h]
  BY <1>0, <1>1 DEF SwapTypeOK
<1> QED BY <1>1, <1>3, <1>4, <1>5 DEF Queued, InHand, s

LEMMA TakesOne ==
  ASSUME SwapInv, NEW c \in Chains, TakePending(c)
  PROVE  \E h \in Images :
           /\ life[c] = "live" /\ ring[c] # <<>> /\ h = Head(ring[c])
           /\ ring'[c] = Tail(ring[c])
           /\ image'[c] = image[c] /\ valid'[c] = valid[c] /\ free'[c] = free[c]
           /\ \A i \in Images : /\ Queued(c, i)' <=> Queued(c, i)
                                /\ InHand(c, i)' <=> i = h
<1> USE DEF chainVars, screenVars, appVars
<1>0. SwapTypeOK BY DEF SwapInv
<1> DEFINE h == Head(ring[c])
<1>1. /\ flip[c].pc = "wait" /\ ring[c] # <<>> /\ ring' = [ring EXCEPT ![c] = Tail(@)]
      /\ UNCHANGED <<image, valid, free>>
      /\ flip' = [flip EXCEPT ![c].pc = "fence", ![c].image = h]
  BY DEF TakePending
<1>2. life[c] = "live" BY <1>1 DEF SwapInv, FlipAt
<1>3. RingOnce(c) BY <1>2 DEF SwapInv, Owned
<1>4. /\ h \in Images /\ InRing(c, h)
      /\ \A i \in Images : InRing(c, i)' <=> InRing(c, i) /\ i # h
  BY <1>0, <1>1, <1>3, RingTaken
<1>5. flip'[c].pc = "fence" /\ flip'[c].image = h BY <1>0, <1>1 DEF SwapTypeOK
<1>6. \A i \in Images : ~InHand(c, i) /\ (InHand(c, i)' <=> i = h)
  BY <1>1, <1>5 DEF InHand
<1>7. ring'[c] = Tail(ring[c]) BY <1>0, <1>1 DEF SwapTypeOK
<1>8. UNCHANGED <<image, valid, free>> /\ ring[c] # <<>> BY <1>1
<1>9. \A i \in Images : Queued(c, i)' <=> Queued(c, i) BY <1>4, <1>6 DEF Queued
<1>10. h \in Images /\ h = Head(ring[c]) BY <1>4
<1> HIDE DEF h
<1> QED BY <1>2, <1>6, <1>7, <1>8, <1>9, <1>10

LEMMA RetiresOne ==
  ASSUME SwapInv, NEW c \in Chains, ReleaseRetired(c)
  PROVE  \E h \in Images :
           /\ life[c] = "live" /\ InHand(c, h) /\ image[c][h] = "FREE" /\ ~InRing(c, h)
           /\ image'[c][h] = "INVALID"
           /\ \A i \in Images : i # h => image'[c][i] = image[c][i]
           /\ ring'[c] = ring[c] /\ valid'[c] = valid[c] /\ free'[c] = free[c] + 1
           /\ \A i \in Images : ~InHand(c, i)'
<1> USE DEF chainVars, screenVars, appVars
<1>0. SwapTypeOK /\ FlipAt BY DEF SwapInv
<1> DEFINE h == flip[c].image
<1>1. /\ flip[c].pc = "fence" /\ image[c][h] = "FREE" /\ UNCHANGED <<ring, valid>>
      /\ image' = [image EXCEPT ![c][h] = "INVALID"]
      /\ free' = [free EXCEPT ![c] = @ + 1]
      /\ flip' = [flip EXCEPT ![c] = Again(c)]
  BY DEF ReleaseRetired
<1>2. h \in Images /\ InHand(c, h) /\ life[c] = "live" BY <1>0, <1>1 DEF FlipAt, InHand
<1>3. flip'[c].pc \in {"wait", "done"} BY <1>0, <1>1, FlipAgain
<1>4. \A i \in Images : ~InHand(c, i)' BY <1>3 DEF InHand
<1> HIDE DEF h
<1>5. ~InRing(c, h) BY <1>2 DEF SwapInv, Owned, Held
<1>6. /\ image'[c][h] = "INVALID" /\ free'[c] = free[c] + 1
      /\ \A i \in Images : i # h => image'[c][i] = image[c][i]
  BY <1>0, <1>1, <1>2 DEF SwapTypeOK
<1> QED BY <1>1, <1>2, <1>4, <1>5, <1>6

LEMMA UsedSets ==
  ASSUME NEW c \in Chains
  PROVE  /\ Used(c) \in SUBSET Images /\ Used(c)' \in SUBSET Images
         /\ PendingImages(c) \in SUBSET Images /\ PendingImages(c)' \in SUBSET Images
         /\ AcquiredImages(c) \in SUBSET Images
  BY DEF Used, PendingImages, AcquiredImages

LEMMA PostedNext ==
  ASSUME SwapInv, SwapInv', SwapNext, NEW c \in Chains, Posted(c)
  PROVE  Posted(c)'
<1> SUFFICES ASSUME life'[c] = "live", valid'[c]
             PROVE  free'[c] + Cardinality(Used(c)') <= NumImages
  BY DEF Posted
<1> DEFINE S == Used(c)
           T == Used(c)'
<1>1. /\ S \in SUBSET Images /\ T \in SUBSET Images
      /\ free[c] \in Nat /\ free'[c] \in Nat /\ NumImages \in Nat
  BY UsedSets, SwapchainAssumption DEF SwapInv, SwapTypeOK
<1>2. Cardinality(S) \in Nat /\ Cardinality(T) \in Nat BY <1>1, ImageSets
<1>3. ASSUME life[c] = "live", valid[c], free'[c] <= free[c], T \subseteq S
      PROVE  free'[c] + Cardinality(T) <= NumImages
  <2>1. Cardinality(T) <= Cardinality(S) BY <1>1, <1>3, ImageSets
  <2>2. free[c] + Cardinality(S) <= NumImages BY <1>3 DEF Posted
  <2> QED BY <1>1, <1>2, <1>3, <2>1, <2>2
<1>4. ASSUME life[c] = "live", valid[c], free'[c] = free[c] + 1,
             NEW i \in S, T \subseteq S \ {i}
      PROVE  free'[c] + Cardinality(T) <= NumImages
  <2>1. Cardinality(T) <= Cardinality(S \ {i}) /\ Cardinality(S \ {i}) = Cardinality(S) - 1
    BY <1>1, <1>4, ImageSets
  <2>2. free[c] + Cardinality(S) <= NumImages BY <1>4 DEF Posted
  <2> QED BY <1>1, <1>2, <1>4, <2>1, <2>2
<1>5. CASE Quiet(c)
  <2>1. \A i \in Images : Queued(c, i)' <=> Queued(c, i) BY <1>5 DEF Quiet, Queued, InRing
  <2>2. T \subseteq S BY <1>5, <2>1 DEF Quiet, Used
  <2> QED BY <1>3, <1>5, <2>2 DEF Quiet
<1>6. CASE Draws(c)
  <2>1. PICK i \in Images :
          /\ image[c][i] = "FREE" /\ ~Queued(c, i) /\ image'[c][i] = "ACQUIRED"
          /\ \A h \in Images : h # i => image'[c][h] = image[c][h]
    BY <1>6 DEF Draws
  <2>2. \A h \in Images : Queued(c, h)' <=> Queued(c, h) BY <1>6 DEF Draws, Queued, InRing
  <2>3. i \notin S /\ T = S \cup {i} BY <2>1, <2>2 DEF Used
  <2>4. Cardinality(T) = Cardinality(S) + 1 BY <1>1, <2>3, ImageSets
  <2>5. free[c] + Cardinality(S) <= NumImages BY <1>6 DEF Draws, Newest, Posted
  <2>6. free'[c] = free[c] - 1 BY <1>6 DEF Draws
  <2> QED BY <1>1, <1>2, <2>4, <2>5, <2>6
<1>7. CASE Create(c)
  <2>1. /\ life[c] = "none" /\ flip'[c].pc = "wait" /\ UNCHANGED ring
        /\ free'[c] = NumImages /\ \A i \in Images : image'[c][i] = "FREE"
    BY <1>7 DEF Create, SwapInv, SwapTypeOK
  <2>2. ring'[c] = <<>> BY <2>1 DEF SwapInv, Untouched
  <2>3. T = {} BY <2>1, <2>2 DEF Used, Queued, InRing, InHand
  <2>4. Cardinality(T) = 0 BY <2>3, FS_EmptySet
  <2> QED BY <1>1, <2>1, <2>4
<1>8. CASE TakePending(c)
  <2>1. /\ life[c] = "live" /\ image'[c] = image[c] /\ valid'[c] = valid[c]
        /\ free'[c] = free[c] /\ \A i \in Images : Queued(c, i)' <=> Queued(c, i)
    BY <1>8, TakesOne
  <2>2. T \subseteq S BY <2>1 DEF Used
  <2> QED BY <1>1, <1>3, <2>1, <2>2
<1>9. CASE FenceFails(c) BY <1>9 DEF FenceFails, SwapInv, SwapTypeOK
<1>10. CASE ReleaseRetired(c)
  <2>1. PICK h \in Images :
           /\ life[c] = "live" /\ InHand(c, h) /\ image[c][h] = "FREE" /\ ~InRing(c, h)
           /\ image'[c][h] = "INVALID"
           /\ \A i \in Images : i # h => image'[c][i] = image[c][i]
           /\ ring'[c] = ring[c] /\ valid'[c] = valid[c] /\ free'[c] = free[c] + 1
           /\ \A i \in Images : ~InHand(c, i)'
    BY <1>10, RetiresOne
  <2>2. h \in S /\ T \subseteq S \ {h} BY <2>1 DEF Used, Queued, InRing
  <2> QED BY <1>4, <2>1, <2>2
<1>11. CASE Shows(c)
  <2>1. /\ life[c] = "live" /\ ring'[c] = ring[c] /\ valid'[c] = valid[c]
        /\ \A i \in Images : ~InHand(c, i)'
    BY <1>11 DEF Shows
  <2>2. CASE free'[c] = free[c] /\ image'[c] = image[c]
    <3>1. T \subseteq S BY <2>1, <2>2 DEF Used, Queued, InRing
    <3> QED BY <1>1, <1>3, <2>1, <2>2, <3>1
  <2>3. CASE \E old \in Images :
               /\ free'[c] = free[c] + 1
               /\ OnScreen(c, old) /\ image[c][old] = "PENDING" /\ ~Queued(c, old)
               /\ image'[c][old] \in {"FREE", "INVALID"}
               /\ \A i \in Images : i # old => image'[c][i] = image[c][i]
    <3>1. PICK old \in Images :
               /\ free'[c] = free[c] + 1
               /\ OnScreen(c, old) /\ image[c][old] = "PENDING" /\ ~Queued(c, old)
               /\ image'[c][old] \in {"FREE", "INVALID"}
               /\ \A i \in Images : i # old => image'[c][i] = image[c][i]
      BY <2>3
    <3>2. old \in S BY <3>1 DEF Used
    <3>3. old \notin T BY <2>1, <3>1 DEF Used, Queued, InRing
    <3>4. \A i \in Images : i # old /\ i \in T => i \in S
      BY <2>1, <3>1 DEF Used, Queued, InRing
    <3>5. T \subseteq S \ {old} BY <1>1, <3>3, <3>4
    <3> QED BY <1>4, <2>1, <3>1, <3>2, <3>5
  <2> QED BY <1>11, <2>2, <2>3 DEF Shows
<1>12. ASSUME NEW i \in Images, QueuePresent(c, i)
       PROVE  free'[c] + Cardinality(T) <= NumImages
  <2>1. /\ life[c] = "live" /\ image[c][i] = "ACQUIRED"
        /\ \A h \in Images : h # i => image'[c][h] = image[c][h]
        /\ valid'[c] = valid[c] /\ free'[c] = free[c]
        /\ \A h \in Images : /\ InRing(c, h)' <=> InRing(c, h) \/ h = i
                             /\ InHand(c, h)' <=> InHand(c, h)
    BY <1>12, QueuesOne
  <2>2. T \subseteq S BY <2>1 DEF Used, Queued
  <2> QED BY <1>1, <1>3, <2>1, <2>2
<1> QED BY <1>5, <1>6, <1>7, <1>8, <1>9, <1>10, <1>11, <1>12, ChainSteps

LEMMA ShownNext ==
  ASSUME SwapInv, SwapNext, NEW c \in Chains, Shown(c)
  PROVE  Shown(c)'
<1> USE DEF chainVars, screenVars, appVars
<1>0. SwapTypeOK /\ FlipAt BY DEF SwapInv
<1>1. CASE UNCHANGED <<firstPresent, inFlight>> BY <1>1 DEF Shown
<1>2. ASSUME NEW d \in Chains, FirstFlip(d) \/ LaterFlip(d) PROVE Shown(c)'
  <2>1. flip[d].image \in Images
    BY <1>0, <1>2 DEF FirstFlip, LaterFlip, ToPresent, FlipAt
  <2>2. /\ inFlight' = [inFlight EXCEPT ![d] = flip[d].image]
        /\ firstPresent'[c] = firstPresent[c] \/ c = d
    BY <1>0, <1>2 DEF FirstFlip, LaterFlip, PresentImage, SwapTypeOK
  <2> QED BY <1>0, <2>1, <2>2, ChainFacts DEF Shown, SwapTypeOK
<1>3. ASSUME NEW d \in Chains, TakePending(d) \/ FlipStep(d), ~FirstFlip(d), ~LaterFlip(d)
      PROVE  Shown(c)'
  BY <1>1, <1>3 DEF TakePending, FlipStep, FenceFails, ReleaseRetired, AwaitAncestor,
     DrainAncestor, FlipEnds
<1>4. CASE AppStep \/ AppCall \/ \E d \in Chains : BeginTeardown(d)
  BY <1>1, <1>4 DEF AppStep, AppCall, Acquire, AwaitStart, DrainOne, StopFlipping, Join, Create,
     StartAcquire, QueuePresent, BeginTeardown
<1> QED BY <1>2, <1>3, <1>4 DEF SwapNext

(* A swapchain that has an image to show goes on having one. *)
LEMMA PendingStays ==
  ASSUME SwapInv, SwapNext, NEW c \in Chains, life[c] = "live", life'[c] = "live",
         PendingImages(c) # {}
  PROVE  PendingImages(c)' # {}
<1> SUFFICES \E i \in Images : image'[c][i] = "PENDING"
  BY DEF PendingImages
<1>0. PICK i \in Images : image[c][i] = "PENDING" BY DEF PendingImages
<1>1. CASE Quiet(c)
  <2>1. image'[c][i] = "PENDING" BY <1>0, <1>1 DEF Quiet
  <2> QED BY <2>1
<1>2. CASE Draws(c)
  <2>1. image'[c][i] = "PENDING" BY <1>0, <1>2 DEF Draws
  <2> QED BY <2>1
<1>3. CASE TakePending(c) BY <1>0, <1>3, TakesOne
<1>4. CASE FenceFails(c) BY <1>0, <1>4 DEF FenceFails
<1>5. CASE ReleaseRetired(c)
  <2>1. PICK h \in Images : /\ image[c][h] = "FREE"
                            /\ \A j \in Images : j # h => image'[c][j] = image[c][j]
    BY <1>5, RetiresOne
  <2>2. image'[c][i] = "PENDING" BY <1>0, <2>1
  <2> QED BY <2>2
<1>6. CASE Shows(c) BY <1>6 DEF Shows
<1>7. ASSUME NEW j \in Images, QueuePresent(c, j) PROVE image'[c][i] = "PENDING"
  <2>1. /\ image[c][j] = "ACQUIRED"
        /\ \A h \in Images : h # j => image'[c][h] = image[c][h]
    BY <1>7, QueuesOne
  <2> QED BY <1>0, <2>1
<1>8. ~Create(c) BY DEF Create
<1> QED BY <1>1, <1>2, <1>3, <1>4, <1>5, <1>6, <1>7, <1>8, ChainSteps

(* A swapchain gets a descendant when it is the newest, and keeps it. *)
LEMMA Heirs ==
  ASSUME SwapInv, SwapNext, NEW c \in Chains, life[c] = "live", descendant'[c] # NoChain,
         life'[c] = "live"
  PROVE  descendant'[c] = descendant[c] \/ (Newest(c) /\ Quiet(c))
<1>0. SwapTypeOK BY DEF SwapInv
<1>1. CASE Join
  <2> DEFINE Without(link) == [d \in Chains |-> IF link[d] = app.chain THEN NoChain ELSE link[d]]
  <2>1. descendant' = Without(descendant) BY <1>1 DEF Join
  <2> QED BY <2>1
<1>2. ASSUME NEW d \in Chains, Create(d)
      PROVE  descendant'[c] = descendant[c] \/ (Newest(c) /\ Quiet(c))
  <2> DEFINE old == IF d > 1 /\ life[d - 1] = "live" THEN d - 1 ELSE NoChain
  <2>1. /\ descendant' = [e \in Chains |-> IF e = old THEN d ELSE descendant[e]]
        /\ life[d] = "none"
    BY <1>2 DEF Create
  <2>2. CASE c # old BY <2>1, <2>2
  <2>3. CASE c = old
    <3>1. c = d - 1 BY <2>3, ChainFacts
    <3>2. \A e \in Chains : e > c => e = d \/ e > d BY <3>1, ChainFacts DEF Chains
    <3>3. \A e \in Chains : e > c => life[e] = "none"
      BY <2>1, <3>2 DEF SwapInv, InOrder
    <3>4. Quiet(c) BY <1>2, <2>1, CreateSteps
    <3> QED BY <3>3, <3>4 DEF Newest
  <2> QED BY <2>2, <2>3
<1>3. CASE ~Join /\ \A d \in Chains : ~Create(d) BY <1>3, OthersKeepLinks
<1> QED BY <1>1, <1>2, <1>3

LEMMA RetiringNext ==
  ASSUME SwapInv, SwapInv', SwapNext, NEW c \in Chains, Retiring(c)
  PROVE  Retiring(c)'
<1> DEFINE r == ring[c]
           s == ring'[c]
<1> SUFFICES ASSUME life'[c] = "live", descendant'[c] # NoChain
             PROVE  /\ \A k, l \in 1..Len(s) :
                         k < l /\ image'[c][s[k]] = "FREE" => image'[c][s[l]] = "FREE"
                    /\ \A h \in Images : InHand(c, h)' /\ image'[c][h] = "FREE" =>
                         \A l \in 1..Len(s) : image'[c][s[l]] = "FREE"
                    /\ \A i \in Images : Queued(c, i)' /\ image'[c][i] = "FREE" =>
                         DescendantPresents(c)'
  BY DEF Retiring
<1>0. SwapTypeOK /\ SwapTypeOK' /\ Links /\ Links' BY DEF SwapInv
<1>1. /\ r \in Seq(Images) /\ s \in Seq(Images)
      /\ \A k \in 1..Len(r) : r[k] \in Images /\ InRing(c, r[k])
      /\ \A k \in 1..Len(s) : s[k] \in Images
      /\ \A i \in Images : InRing(c, i)' <=> \E k \in 1..Len(s) : s[k] = i
  <2>1. r \in Seq(Images) /\ s \in Seq(Images) BY <1>0 DEF SwapTypeOK
  <2>2. \A k \in 1..Len(r) : r[k] \in Images BY <2>1
  <2>3. \A k \in 1..Len(s) : s[k] \in Images BY <2>1
  <2>4. \A k \in 1..Len(r) : InRing(c, r[k]) BY DEF InRing
  <2>5. \A i \in Images : InRing(c, i)' <=> \E k \in 1..Len(s) : s[k] = i BY DEF InRing
  <2> HIDE DEF r, s
  <2> QED BY <2>1, <2>2, <2>3, <2>4, <2>5
<1>2. ~Create(c)
  <2> SUFFICES ASSUME Create(c) PROVE FALSE
    OBVIOUS
  <2> DEFINE old == IF c > 1 /\ life[c - 1] = "live" THEN c - 1 ELSE NoChain
  <2>1. /\ descendant' = [e \in Chains |-> IF e = old THEN c ELSE descendant[e]]
        /\ life[c] = "none"
    BY DEF Create
  <2>2. c # old BY ChainFacts
  <2> QED BY <2>1, <2>2 DEF SwapInv, Untouched
<1>3. life[c] = "live"
  BY <1>2, ChainSteps, TakesOne, RetiresOne, QueuesOne
     DEF Quiet, Draws, Newest, Shows, FenceFails, SwapInv, FlipAt
<1> HIDE DEF r, s
<1>4. CASE Newest(c) /\ Quiet(c)
  <2>1. \A i \in Images : Queued(c, i) => image[c][i] = "PENDING"
    BY <1>3, <1>4 DEF SwapInv, Owned, Held, Queued, Newest
  <2>2. \A i \in Images : Queued(c, i)' <=> Queued(c, i) BY <1>4 DEF Quiet, Queued, InRing
  <2>3. \A i \in Images : Queued(c, i)' => image'[c][i] # "FREE"
    BY <1>4, <2>1, <2>2 DEF Quiet
  <2> QED BY <1>1, <2>3 DEF Queued
<1>5. CASE descendant'[c] = descendant[c]
  <2>0. /\ \A k, l \in 1..Len(r) : k < l /\ image[c][r[k]] = "FREE" => image[c][r[l]] = "FREE"
        /\ \A h \in Images : InHand(c, h) /\ image[c][h] = "FREE" =>
             \A l \in 1..Len(r) : image[c][r[l]] = "FREE"
        /\ \A i \in Images : Queued(c, i) /\ image[c][i] = "FREE" => DescendantPresents(c)
    BY <1>3, <1>5 DEF Retiring, r
  <2>1. DescendantPresents(c) => DescendantPresents(c)'
    <3>1. PICK d \in Chains : d = descendant[c] BY <1>0, <1>5 DEF SwapTypeOK
    <3>2. life[d] = "live" /\ life'[d] = "live" BY <1>0, <1>3, <1>5, <3>1 DEF Links
    <3>3. PendingImages(d) # {} => PendingImages(d)' # {} BY <3>2, PendingStays
    <3> QED BY <1>5, <3>1, <3>3 DEF DescendantPresents, PendingImages
  <2>2. ASSUME s = r,
               \A i \in Images : InHand(c, i)' => InHand(c, i),
               \A i \in Images : Queued(c, i)' => image'[c][i] = image[c][i]
        PROVE  /\ \A k, l \in 1..Len(s) :
                    k < l /\ image'[c][s[k]] = "FREE" => image'[c][s[l]] = "FREE"
               /\ \A h \in Images : InHand(c, h)' /\ image'[c][h] = "FREE" =>
                    \A l \in 1..Len(s) : image'[c][s[l]] = "FREE"
               /\ \A i \in Images : Queued(c, i)' /\ image'[c][i] = "FREE" =>
                    DescendantPresents(c)'
    <3>1. \A k \in 1..Len(s) : image'[c][s[k]] = image[c][r[k]]
      BY <1>1, <2>2 DEF Queued
    <3>2. \A i \in Images : Queued(c, i)' => Queued(c, i)
      BY <2>2 DEF Queued, InRing, r, s
    <3>3. \A h \in Images : InHand(c, h)' => image'[c][h] = image[c][h]
      BY <2>2 DEF Queued
    <3> QED BY <2>0, <2>1, <2>2, <3>1, <3>2, <3>3
  <2>3. CASE Quiet(c)
    <3>1. s = r BY <2>3 DEF Quiet, r, s
    <3>2. \A i \in Images : Queued(c, i)' => image'[c][i] = image[c][i]
      BY <2>3 DEF Quiet, Queued, InRing
    <3> QED BY <2>2, <2>3, <3>1, <3>2 DEF Quiet
  <2>4. ~Draws(c)
    <3>1. descendant[c] \in Chains BY <1>0, <1>5 DEF SwapTypeOK
    <3>2. life[descendant[c]] = "live" /\ c < descendant[c] BY <1>0, <1>3, <3>1 DEF Links
    <3> QED BY <3>1, <3>2, ChainFacts DEF Draws, Newest
  <2>5. CASE TakePending(c)
    <3>1. PICK h \in Images :
           /\ r # <<>> /\ h = Head(r) /\ s = Tail(r) /\ image'[c] = image[c]
           /\ \A i \in Images : /\ Queued(c, i)' <=> Queued(c, i)
                                /\ InHand(c, i)' <=> i = h
      BY <2>5, TakesOne DEF r, s
    <3>2. /\ Len(s) = Len(r) - 1 /\ Len(r) \in Nat /\ Len(r) > 0 /\ h = r[1]
          /\ \A k \in 1..Len(s) : s[k] = r[k + 1]
      BY <1>1, <3>1
    <3>3. \A k \in 1..Len(s) : k + 1 \in 1..Len(r) /\ 1 < k + 1 BY <3>2
    <3>4. 1 \in 1..Len(r) BY <3>2
    <3>5. \A k, l \in 1..Len(s) :
            k < l /\ image'[c][s[k]] = "FREE" => image'[c][s[l]] = "FREE"
      <4> TAKE k, l \in 1..Len(s)
      <4>1. k < l => k + 1 < l + 1 OBVIOUS
      <4> QED BY <2>0, <3>1, <3>2, <3>3, <4>1
    <3>6. \A l \in 1..Len(s) : image'[c][h] = "FREE" => image'[c][s[l]] = "FREE"
      BY <2>0, <3>1, <3>2, <3>3, <3>4
    <3> QED BY <2>0, <2>1, <3>1, <3>5, <3>6
  <2>6. CASE FenceFails(c)
    <3>1. UNCHANGED <<ring, image>> /\ flip' = [flip EXCEPT ![c] = Again(c)]
      BY <2>6 DEF FenceFails
    <3>2. flip'[c].pc \in {"wait", "done"} BY <1>0, <3>1, FlipAgain
    <3> QED BY <2>2, <3>1, <3>2 DEF InHand, r, s
  <2>7. CASE ReleaseRetired(c)
    <3>1. PICK h \in Images :
           /\ ~InRing(c, h) /\ ring'[c] = ring[c]
           /\ \A i \in Images : i # h => image'[c][i] = image[c][i]
           /\ \A i \in Images : ~InHand(c, i)'
      BY <2>7, RetiresOne
    <3>2. ~InRing(c, h)' BY <3>1 DEF InRing
    <3> QED BY <2>2, <3>1, <3>2 DEF Queued, r, s
  <2>8. CASE Shows(c)
    <3>1. s = r /\ \A i \in Images : ~InHand(c, i)' BY <2>8 DEF Shows, r, s
    <3>2. \A i \in Images : Queued(c, i)' => image'[c][i] = image[c][i]
      BY <2>8, <3>1 DEF Shows, Queued, InRing, r, s
    <3> QED BY <2>2, <3>1, <3>2
  <2>9. ASSUME NEW i \in Images, QueuePresent(c, i)
        PROVE  /\ \A k, l \in 1..Len(s) :
                    k < l /\ image'[c][s[k]] = "FREE" => image'[c][s[l]] = "FREE"
               /\ \A h \in Images : InHand(c, h)' /\ image'[c][h] = "FREE" =>
                    \A l \in 1..Len(s) : image'[c][s[l]] = "FREE"
               /\ \A h \in Images : Queued(c, h)' /\ image'[c][h] = "FREE" =>
                    DescendantPresents(c)'
    <3>1. /\ ~Queued(c, i) /\ s = Append(r, i)
          /\ image'[c][i] = IF DescendantPresents(c) THEN "FREE" ELSE "PENDING"
          /\ \A h \in Images : h # i => image'[c][h] = image[c][h]
          /\ \A h \in Images : /\ InRing(c, h)' <=> InRing(c, h) \/ h = i
                               /\ InHand(c, h)' <=> InHand(c, h)
      BY <2>9, QueuesOne DEF r, s
    <3>2. /\ Len(s) = Len(r) + 1 /\ Len(r) \in Nat /\ s[Len(r) + 1] = i
          /\ \A k \in 1..Len(r) : s[k] = r[k] /\ image'[c][s[k]] = image[c][r[k]]
      <4>1. /\ Len(s) = Len(r) + 1 /\ Len(r) \in Nat /\ s[Len(r) + 1] = i
            /\ \A k \in 1..Len(r) : s[k] = r[k]
        BY <1>1, <3>1
      <4>2. \A k \in 1..Len(r) : r[k] # i BY <1>1, <3>1 DEF Queued
      <4> QED BY <1>1, <3>1, <4>1, <4>2
    <3>3. \A k \in 1..Len(s) : k \in 1..Len(r) \/ k = Len(r) + 1 BY <3>2
    <3>4. CASE DescendantPresents(c)
      <4>1. image'[c][i] = "FREE" BY <3>1, <3>4
      <4>2. \A k, l \in 1..Len(s) :
              k < l /\ image'[c][s[k]] = "FREE" => image'[c][s[l]] = "FREE"
        <5> TAKE k, l \in 1..Len(s)
        <5>1. CASE l = Len(r) + 1 BY <3>2, <4>1, <5>1
        <5>2. CASE l # Len(r) + 1 /\ k < l BY <2>0, <3>2, <3>3, <5>2
        <5> QED BY <5>1, <5>2
      <4>3. \A h \in Images : InHand(c, h)' /\ image'[c][h] = "FREE" =>
              \A l \in 1..Len(s) : image'[c][s[l]] = "FREE"
        <5> TAKE h \in Images
        <5> SUFFICES ASSUME InHand(c, h)', image'[c][h] = "FREE", NEW l \in 1..Len(s)
                     PROVE  image'[c][s[l]] = "FREE"
          OBVIOUS
        <5>1. InHand(c, h) /\ h # i BY <3>1 DEF Queued
        <5>2. image[c][h] = "FREE" BY <3>1, <5>1
        <5> QED BY <2>0, <3>2, <3>3, <4>1, <5>1, <5>2
      <4> QED BY <2>1, <3>4, <4>2, <4>3
    <3>5. CASE ~DescendantPresents(c)
      <4>1. \A h \in Images : Queued(c, h)' => image'[c][h] # "FREE"
        BY <2>0, <3>1, <3>5 DEF Queued
      <4> QED BY <1>1, <4>1 DEF Queued
    <3> QED BY <3>4, <3>5
  <2> QED BY <1>2, <2>3, <2>4, <2>5, <2>6, <2>7, <2>8, <2>9, ChainSteps
<1> QED BY <1>3, <1>4, <1>5, Heirs

LEMMA WaitsSince ==
  ASSUME SwapInv, SwapInv', SwapNext, NEW c \in Chains, flip'[c].pc = "ancestor"
  PROVE  /\ AwaitAncestor(c) \/ DrainAncestor(c) \/ flip'[c] = flip[c]
         /\ ancestor'[c] = ancestor[c]
<1> USE DEF chainVars, screenVars, appVars
<1>0. SwapTypeOK /\ SwapTypeOK' /\ FlipAt /\ FlipAt' BY DEF SwapInv
<1>1. ancestor'[c] # NoChain BY <1>0 DEF FlipAt
<1>2. ASSUME NEW d \in Chains, TakePending(d) \/ FlipStep(d)
      PROVE  /\ AwaitAncestor(c) \/ DrainAncestor(c) \/ flip'[c] = flip[c]
             /\ ancestor'[c] = ancestor[c]
  <2>1. UNCHANGED ancestor /\ (d # c => flip'[c] = flip[c]) BY <1>0, <1>2, FlipLocal
  <2>2. CASE d = c
    <3>1. ~TakePending(c) BY <1>0 DEF TakePending, SwapTypeOK
    <3>2. flip' = [flip EXCEPT ![c] = Again(c)] => flip'[c].pc \in {"wait", "done"}
      BY <1>0, FlipAgain
    <3> QED
      BY <1>2, <2>1, <2>2, <3>1, <3>2 DEF FlipStep, FenceFails, ReleaseRetired, FirstFlip,
         LaterFlip, FlipEnds
  <2> QED BY <2>1, <2>2
<1>3. CASE Join
  <2> DEFINE Without(link) == [d \in Chains |-> IF link[d] = app.chain THEN NoChain ELSE link[d]]
  <2>1. ancestor' = Without(ancestor) /\ UNCHANGED flip BY <1>3 DEF Join
  <2> QED BY <1>1, <2>1
<1>4. ASSUME NEW d \in Chains, Create(d) PROVE flip'[c] = flip[c] /\ ancestor'[c] = ancestor[c]
  <2> DEFINE old == IF d > 1 /\ life[d - 1] = "live" THEN d - 1 ELSE NoChain
  <2>1. /\ flip' = [flip EXCEPT ![d].pc = "wait"]
        /\ ancestor' = [ancestor EXCEPT ![d] = old]
    BY <1>4 DEF Create
  <2> HIDE DEF old
  <2>2. d # c BY <1>0, <2>1 DEF SwapTypeOK
  <2> QED BY <1>0, <2>1, <2>2 DEF SwapTypeOK
<1>5. ASSUME NEW d \in Chains,
             \/ Acquire \/ AwaitStart \/ DrainOne \/ StopFlipping \/ StartAcquire(d)
             \/ BeginTeardown(d) \/ \E i \in Images : QueuePresent(d, i)
      PROVE  UNCHANGED <<flip, ancestor>>
  BY <1>5 DEF Acquire, AwaitStart, DrainOne, StopFlipping, StartAcquire, QueuePresent,
     BeginTeardown
<1> QED BY <1>2, <1>3, <1>4, <1>5 DEF SwapNext, AppStep, AppCall

LEMMA AwaitBegins ==
  ASSUME SwapInv, NEW c \in Chains, AwaitAncestor(c), NEW a \in Chains, a = ancestor[c],
         Posted(a), valid[a]
  PROVE  free'[a] + Cardinality(PendingImages(a)') <= flip'[c].left + 1
<1> DEFINE P == PendingImages(a)
           A == AcquiredImages(a)
           U == Used(a)
<1>1. life[a] = "live"
  <2>1. life[c] = "live" BY DEF AwaitAncestor, ToPresent, SwapInv, FlipAt
  <2> QED BY <2>1 DEF SwapInv, Links
<1>2. free[a] + Cardinality(U) <= NumImages BY <1>1 DEF Posted
<1>3. P \in SUBSET Images /\ A \in SUBSET Images /\ U \in SUBSET Images BY UsedSets
<1>4. P \cap A = {} /\ P \cup A \subseteq U BY DEF PendingImages, AcquiredImages, Used
<1>5. /\ Cardinality(P) \in Nat /\ Cardinality(A) \in Nat /\ Cardinality(U) \in Nat
      /\ Cardinality(P) + Cardinality(A) <= Cardinality(U)
  <2> HIDE DEF P, A, U
  <2>1. Cardinality(P \cup A) = Cardinality(P) + Cardinality(A) BY <1>3, <1>4, ImageSets
  <2>2. P \cup A \in SUBSET Images BY <1>3
  <2>3. Cardinality(P \cup A) <= Cardinality(U) BY <1>3, <1>4, <2>2, ImageSets
  <2>4. Cardinality(P) \in Nat /\ Cardinality(A) \in Nat /\ Cardinality(U) \in Nat
    BY <1>3, ImageSets
  <2> QED BY <2>1, <2>3, <2>4
<1>6. flip'[c].left = PendingBuffers(a) /\ UNCHANGED <<free, image>>
  BY DEF AwaitAncestor, SwapInv, SwapTypeOK
<1>7. PendingImages(a)' = P BY <1>6 DEF PendingImages
<1>8. PendingBuffers(a) = NumImages - Cardinality(A) - 1
  BY DEF PendingBuffers, Count, AcquiredImages
<1>9. free'[a] = free[a] /\ free[a] \in Nat /\ NumImages \in Nat
  BY <1>6, SwapchainAssumption DEF SwapInv, SwapTypeOK
<1> HIDE DEF P, A, U
<1> QED BY <1>2, <1>5, <1>6, <1>7, <1>8, <1>9

LEMMA AwaitingNext ==
  ASSUME SwapInv, SwapInv', SwapNext, FirstFlipInv, NEW c \in Chains
  PROVE  Awaiting(c)'
<1>0. SwapTypeOK /\ SwapTypeOK' BY DEF SwapInv
<1> SUFFICES ASSUME flip'[c].pc = "ancestor", NEW a \in Chains, a = ancestor'[c],
                    valid'[a], PendingQueued(a)'
             PROVE  free'[a] + Cardinality(PendingImages(a)') <= flip'[c].left + 1
  <2>1. flip'[c].pc = "ancestor" => ancestor'[c] \in Chains
    BY <1>0 DEF SwapInv, FlipAt, SwapTypeOK
  <2> QED BY <2>1 DEF Awaiting, PendingQueued, PendingImages, Queued, InRing, InHand
<1>1. /\ AwaitAncestor(c) \/ DrainAncestor(c) \/ flip'[c] = flip[c]
      /\ a = ancestor[c]
  BY WaitsSince
<1>2. CASE AwaitAncestor(c)
  <2>1. valid[a] /\ Posted(a) BY <1>2 DEF AwaitAncestor, FirstFlipInv
  <2> QED BY <1>1, <1>2, <2>1, AwaitBegins
<1> DEFINE P == PendingImages(a)
           Q == PendingImages(a)'
<1>3. /\ P \in SUBSET Images /\ Q \in SUBSET Images
      /\ Cardinality(P) \in Nat /\ Cardinality(Q) \in Nat
      /\ free[a] \in Nat /\ free'[a] \in Nat
      /\ flip[c].left \in Int /\ flip'[c].left \in Int
  BY <1>0, UsedSets, ImageSets DEF SwapTypeOK
<1>4. CASE flip[c].pc = "ancestor" /\ ~AwaitAncestor(c)
  <2>1. /\ life[c] = "live" /\ life[a] = "live" /\ descendant[a] = c /\ a < c
        /\ flip[c].of = a /\ image[c][flip[c].image] = "PENDING" /\ flip[c].image \in Images
    <3>1. /\ life[c] = "live" /\ flip[c].of = a /\ image[c][flip[c].image] = "PENDING"
          /\ flip[c].image \in Images
      BY <1>1, <1>4 DEF SwapInv, FlipAt
    <3>2. descendant[a] = c /\ a < c /\ life[a] = "live"
      BY <1>1, <3>1 DEF SwapInv, Links
    <3> QED BY <3>1, <3>2
  <2>2. ASSUME valid[a], PendingQueued(a)
        PROVE  free[a] + Cardinality(P) <= flip[c].left + 1
    BY <1>1, <1>4, <2>2 DEF FirstFlipInv, Awaiting
  <2>3. CASE DrainAncestor(c)
    <3>1. /\ UNCHANGED <<image, ring, valid>> /\ free' = [free EXCEPT ![a] = @ - 1]
          /\ flip' = [flip EXCEPT ![c].left = @ - 1]
      BY <2>1, <2>3 DEF DrainAncestor
    <3>2. free'[a] = free[a] - 1 /\ flip'[c].left = flip[c].left - 1 /\ flip'[a] = flip[a]
      BY <1>0, <2>1, <3>1, ChainFacts DEF SwapTypeOK
    <3>3. Q = P /\ PendingQueued(a) /\ valid[a]
      BY <3>1, <3>2 DEF PendingImages, PendingQueued, Queued, InRing, InHand
    <3> QED BY <1>3, <2>2, <3>2, <3>3
  <2>4. CASE flip'[c] = flip[c]
    <3>1. ASSUME valid[a], PendingQueued(a), free'[a] <= free[a], Q \subseteq P
          PROVE  free'[a] + Cardinality(Q) <= flip'[c].left + 1
      <4>1. Cardinality(Q) <= Cardinality(P) BY <1>3, <3>1, ImageSets
      <4> QED BY <1>3, <2>2, <2>4, <3>1, <4>1
    <3>2. life'[a] = "live" BY <1>0 DEF SwapInv, FlipAt, Links
    <3>3. PICK i \in Images : image'[a][i] = "PENDING" /\ Queued(a, i)'
      BY DEF PendingQueued, PendingImages, Queued, InRing, InHand
    <3>4. CASE Quiet(a)
      <4>1. \A h \in Images : Queued(a, h)' <=> Queued(a, h) BY <3>4 DEF Quiet, Queued, InRing
      <4>2. Q \subseteq P BY <3>4 DEF Quiet, PendingImages
      <4>3. PendingQueued(a) BY <3>3, <3>4, <4>1 DEF Quiet, PendingQueued, PendingImages
      <4> QED BY <3>1, <3>4, <4>2, <4>3 DEF Quiet
    <3>5. ~Draws(a) BY <2>1, ChainFacts DEF Draws, Newest
    <3>6. ~Create(a) BY <2>1 DEF Create
    <3>7. CASE TakePending(a)
      <4>1. /\ image'[a] = image[a] /\ valid'[a] = valid[a] /\ free'[a] = free[a]
            /\ \A h \in Images : Queued(a, h)' <=> Queued(a, h)
        BY <3>7, TakesOne
      <4>2. Q = P /\ PendingQueued(a) BY <3>3, <4>1 DEF PendingImages, PendingQueued
      <4> QED BY <1>3, <3>1, <4>1, <4>2
    <3>8. ~FenceFails(a) BY <1>0 DEF FenceFails, SwapTypeOK
    <3>9. ~ReleaseRetired(a)
      <4> SUFFICES ASSUME ReleaseRetired(a) PROVE FALSE
        OBVIOUS
      <4>1. PICK h \in Images :
             /\ InHand(a, h) /\ image[a][h] = "FREE" /\ image'[a][h] = "INVALID"
             /\ \A j \in Images : j # h => image'[a][j] = image[a][j]
             /\ ring'[a] = ring[a]
             /\ \A j \in Images : ~InHand(a, j)'
        BY RetiresOne
      <4>2. InRing(a, i) /\ image[a][i] = "PENDING"
        BY <3>3, <4>1 DEF Queued, InRing
      <4>3. \A l \in 1..Len(ring[a]) : image[a][ring[a][l]] = "FREE"
        BY <2>1, <4>1, ChainFacts DEF FirstFlipInv, Retiring
      <4> QED BY <4>2, <4>3 DEF InRing
    <3>10. CASE Shows(a)
      <4>1. /\ ring'[a] = ring[a] /\ valid'[a] = valid[a]
            /\ \A j \in Images : ~InHand(a, j)'
        BY <3>10 DEF Shows
      <4>2. InRing(a, i) BY <3>3, <4>1 DEF Queued, InRing
      <4>3. CASE free'[a] = free[a] /\ image'[a] = image[a]
        <5>1. Q = P /\ PendingQueued(a)
          BY <3>3, <4>2, <4>3 DEF PendingImages, PendingQueued, Queued
        <5> QED BY <1>3, <3>1, <4>1, <4>3, <5>1
      <4>4. CASE \E old \in Images :
               /\ free'[a] = free[a] + 1
               /\ image[a][old] = "PENDING"
               /\ image'[a][old] \in {"FREE", "INVALID"}
               /\ \A j \in Images : j # old => image'[a][j] = image[a][j]
        <5>1. PICK old \in Images :
               /\ free'[a] = free[a] + 1
               /\ image[a][old] = "PENDING"
               /\ image'[a][old] \in {"FREE", "INVALID"}
               /\ \A j \in Images : j # old => image'[a][j] = image[a][j]
          BY <4>4
        <5>2. old \in P /\ Q = P \ {old} BY <5>1 DEF PendingImages
        <5>3. Cardinality(Q) = Cardinality(P) - 1 BY <1>3, <5>2, ImageSets
        <5>4. PendingQueued(a) BY <3>3, <4>2, <5>1 DEF PendingQueued, PendingImages, Queued
        <5> QED BY <1>3, <2>2, <2>4, <4>1, <5>1, <5>3, <5>4
      <4> QED BY <3>10, <4>3, <4>4 DEF Shows
    <3>11. ASSUME NEW g \in Images, QueuePresent(a, g)
           PROVE  free'[a] + Cardinality(Q) <= flip'[c].left + 1
      <4>1. DescendantPresents(a) BY <2>1, ChainFacts DEF DescendantPresents
      <4>2. /\ image[a][g] = "ACQUIRED" /\ image'[a][g] = "FREE"
            /\ \A h \in Images : h # g => image'[a][h] = image[a][h]
            /\ valid'[a] = valid[a] /\ free'[a] = free[a]
            /\ \A h \in Images : /\ InRing(a, h)' <=> InRing(a, h) \/ h = g
                                 /\ InHand(a, h)' <=> InHand(a, h)
        <5>1. image'[a][g] = IF DescendantPresents(a) THEN "FREE" ELSE "PENDING"
          BY <3>11, QueuesOne
        <5>2. /\ image[a][g] = "ACQUIRED"
              /\ \A h \in Images : h # g => image'[a][h] = image[a][h]
              /\ valid'[a] = valid[a] /\ free'[a] = free[a]
          BY <3>11, QueuesOne
        <5>3. \A h \in Images : /\ InRing(a, h)' <=> InRing(a, h) \/ h = g
                                /\ InHand(a, h)' <=> InHand(a, h)
          BY <3>11, QueuesOne
        <5> QED BY <4>1, <5>1, <5>2, <5>3
      <4>3. Q \subseteq P BY <4>2 DEF PendingImages
      <4>4. i # g BY <3>3, <4>2
      <4>5. PendingQueued(a) BY <3>3, <4>2, <4>4 DEF PendingQueued, PendingImages, Queued
      <4> QED BY <1>3, <3>1, <4>2, <4>3, <4>5
    <3> QED BY <3>2, <3>4, <3>5, <3>6, <3>7, <3>8, <3>9, <3>10, <3>11, ChainSteps
  <2> QED BY <1>1, <1>4, <2>3, <2>4
<1>5. DrainAncestor(c) => flip[c].pc = "ancestor" BY DEF DrainAncestor
<1> QED BY <1>1, <1>2, <1>4, <1>5

LEMMA FirstFlipInit == SwapInit => FirstFlipInv
  BY DEF SwapInit, FirstFlipInv, Posted, Retiring, Shown, Awaiting

LEMMA FirstFlipNext ==
  ASSUME SwapInv, SwapInv', FirstFlipInv, [SwapNext]_swapVars
  PROVE  FirstFlipInv'
<1>1. CASE UNCHANGED swapVars
  <2>1. UNCHANGED <<life, image, free, ring, ancestor, descendant, valid, firstPresent,
                    inFlight, flip>>
    BY <1>1 DEF swapVars, chainVars, screenVars
  <2>2. \A c \in Chains : /\ Used(c)' = Used(c)
                          /\ PendingImages(c)' = PendingImages(c)
                          /\ DescendantPresents(c)' <=> DescendantPresents(c)
                          /\ \A i \in Images : /\ InHand(c, i)' <=> InHand(c, i)
                                               /\ Queued(c, i)' <=> Queued(c, i)
    BY <2>1 DEF Used, PendingImages, Queued, InRing, InHand, DescendantPresents
  <2>3. ASSUME NEW c \in Chains PROVE Posted(c)' /\ Shown(c)' /\ Retiring(c)'
    BY <2>1, <2>2 DEF FirstFlipInv, Posted, Shown, Retiring
  <2>4. ASSUME NEW c \in Chains PROVE Awaiting(c)'
    BY <2>1 DEF FirstFlipInv, Awaiting, PendingQueued, PendingImages, Queued, InRing, InHand
  <2> QED BY <2>3, <2>4 DEF FirstFlipInv
<1>2. CASE SwapNext
  BY <1>2, PostedNext, RetiringNext, ShownNext, AwaitingNext DEF FirstFlipInv
<1> QED BY <1>1, <1>2

(* A step that flips for the first time over an ancestor finds none of its *)
(* images on their way to the screen.                                      *)
LEMMA FlippedFirst ==
  ASSUME SwapInv, FirstFlipInv, [SwapNext]_swapVars, NEW c \in Chains, NEW a \in Chains,
         firstPresent[c], ~firstPresent'[c], a = ancestor[c], ~firstPresent[a], valid[a],
         NEW i \in Images, image[a][i] = "PENDING"
  PROVE  ~InRing(a, i) /\ ~InHand(a, i)
<1> USE DEF chainVars, screenVars, appVars
<1>0. SwapTypeOK /\ FlipAt BY DEF SwapInv
<1>1. ASSUME NEW d \in Chains, TakePending(d) \/ FlipStep(d) PROVE FirstFlip(c)
  <2>1. d = c BY <1>0, <1>1, FlipLocal
  <2> QED
    BY <1>1, <2>1 DEF TakePending, FlipStep, FenceFails, ReleaseRetired, AwaitAncestor,
       DrainAncestor, LaterFlip, FlipEnds
<1>2. ~(AppStep \/ AppCall \/ (\E d \in Chains : BeginTeardown(d)) \/ UNCHANGED swapVars)
  BY DEF AppStep, AppCall, Acquire, AwaitStart, DrainOne, StopFlipping, Join, Create,
     StartAcquire, QueuePresent, BeginTeardown, swapVars
<1>3. FirstFlip(c) BY <1>1, <1>2 DEF SwapNext
<1>4. flip[c].pc = "ancestor" /\ flip[c].left <= 0 BY <1>3, ChainFacts DEF FirstFlip
<1>5. life[a] = "live" BY <1>0, <1>4 DEF FlipAt, SwapInv, Links
<1>6. inFlight[a] \in Images BY <1>0 DEF FirstFlipInv, Shown, SwapTypeOK
<1>7. PICK h \in Images : OnScreen(a, h) BY <1>6 DEF OnScreen
<1>8. /\ image[a][h] = "PENDING" /\ ~InRing(a, h) /\ ~InHand(a, h)
  BY <1>5, <1>7 DEF SwapInv, Owned, Held
<1> SUFFICES ASSUME InRing(a, i) \/ InHand(a, i) PROVE FALSE
  OBVIOUS
<1>9. i # h BY <1>8
<1>10. free[a] + Cardinality(PendingImages(a)) <= flip[c].left + 1
  BY <1>4 DEF FirstFlipInv, Awaiting, PendingQueued, PendingImages, Queued
<1>11. Cardinality(PendingImages(a)) >= 2
  <2>1. {i, h} \subseteq PendingImages(a) /\ {i, h} \in SUBSET Images
    BY <1>8 DEF PendingImages
  <2>2. Cardinality({i, h}) = 2
    <3>1. Cardinality({i}) = 1 /\ IsFiniteSet({i}) BY FS_Singleton
    <3>2. Cardinality({i} \cup {h}) = Cardinality({i}) + 1 BY <1>9, <3>1, FS_AddElement
    <3>3. {i, h} = {i} \cup {h} OBVIOUS
    <3> QED BY <3>1, <3>2, <3>3
  <2>3. PendingImages(a) \in SUBSET Images BY UsedSets
  <2>4. Cardinality({i, h}) <= Cardinality(PendingImages(a)) BY <2>1, <2>3, ImageSets
  <2>5. Cardinality(PendingImages(a)) \in Nat BY <2>3, ImageSets
  <2> QED BY <2>2, <2>4, <2>5
<1>12. free[a] \in Nat /\ flip[c].left \in Int /\ Cardinality(PendingImages(a)) \in Nat
  BY <1>0, UsedSets, ImageSets DEF SwapTypeOK
<1> QED BY <1>4, <1>10, <1>11, <1>12
=============================================================================
