---------------------------- MODULE CaptureProofs ----------------------------
(***************************************************************************)
(* The safety of the way of a frame to the encoder on either platform: a   *)
(* step of the Linux build is a step of the swapchains or leaves them      *)
(* alone, and the steps of one platform leave the state of the other.      *)
(***************************************************************************)
EXTENDS Capture, SwapchainProofs, DirectModeProofs

EncPc == {"off", "listen", "read", "more", "render", "failed", "stopped"}

(* An encoder that reads or renders has accepted a client, and renders     *)
(* what it has read.                                                       *)
HasClient ==
  /\ enc.pc \in {"read", "more", "render"} => enc.client \in Chains
  /\ enc.pc \in {"more", "render"} => enc.image \in Images

LinuxInv == LinuxTypeOK /\ HasClient

(* How the steps of the Linux build act on the swapchains *)
LEMMA LinuxIsSwap == LinuxNext => [SwapNext]_swapVars
<1>1. Compositor => SwapNext
  BY DEF Compositor, TakeAndSubmit, Destroy, SwapNext, AppStep, AppCall
<1>2. Listen \/ Accept \/ ReadPacket \/ ReadEnds \/ Encode => UNCHANGED swapVars
  BY DEF Listen, Accept, ReadPacket, ReadEnds, Encode, socketVars
<1>3. \A pc \in {"failed", "stopped"} : EncoderEnds(pc) => UNCHANGED swapVars
  BY DEF EncoderEnds, socketVars
<1> QED BY <1>1, <1>2, <1>3 DEF LinuxNext

LEMMA SubmitTypes ==
  ASSUME SwapTypeOK, LinuxTypeOK, NEW c \in Chains, TakeAndSubmit(c)
  PROVE  LinuxTypeOK'
<1> DEFINE i == Head(ring[c])
<1>1. i \in Images BY DEF TakeAndSubmit, TakePending, SwapTypeOK
<1>2. Submit(c, i) /\ UNCHANGED <<closed, enc>> BY DEF TakeAndSubmit
<1> HIDE DEF i
<1>3. /\ latest' \in [Chains -> Images \cup {NoImage}]
      /\ connected' \in [Chains -> BOOLEAN]
      /\ backlog' \in Seq(Chains)
  <2>1. latest' = [latest EXCEPT ![c] = i] BY <1>2 DEF Submit
  <2>2. connected' = [connected EXCEPT ![c] = @ \/ (~connected[c] /\ ~closed[c] /\ Listening)]
    BY <1>2 DEF Submit
  <2>3. backlog' = Append(backlog, c) \/ backlog' = backlog BY <1>2 DEF Submit
  <2>4. connected' \in [Chains -> BOOLEAN]
    <3> DEFINE b == connected[c] \/ (~connected[c] /\ ~closed[c] /\ Listening)
    <3>1. connected' = [connected EXCEPT ![c] = b] BY <2>2
    <3>2. b \in BOOLEAN OBVIOUS
    <3> HIDE DEF b
    <3> QED BY <3>1, <3>2 DEF LinuxTypeOK
  <2>5. backlog' \in Seq(Chains)
    <3>1. backlog \in Seq(Chains) BY DEF LinuxTypeOK
    <3>2. Append(backlog, c) \in Seq(Chains) BY <3>1
    <3> QED BY <2>3, <3>1, <3>2
  <2>6. latest' \in [Chains -> Images \cup {NoImage}] BY <1>1, <2>1 DEF LinuxTypeOK
  <2> QED BY <2>4, <2>5, <2>6
<1>4. pipe' \in [Chains -> Seq(Images)]
  <2>1. pipe' = [pipe EXCEPT ![c] = Append(@, i)] \/ pipe' = pipe BY <1>2 DEF Submit
  <2>2. Append(pipe[c], i) \in Seq(Images) BY <1>1 DEF LinuxTypeOK
  <2> QED BY <2>1, <2>2 DEF LinuxTypeOK
<1> QED BY <1>2, <1>3, <1>4 DEF LinuxTypeOK

LEMMA EncoderTypesKept ==
  ASSUME LinuxInv,
         \/ Listen \/ Accept \/ ReadPacket \/ ReadEnds \/ Encode
         \/ \E pc \in {"failed", "stopped"} : EncoderEnds(pc)
  PROVE  LinuxInv'
<1> USE DEF socketVars
<1> DEFINE Enc == [pc : EncPc, client : Chains \cup {NoChain}, image : Images \cup {NoImage}]
<1>1. enc \in Enc BY DEF LinuxInv, LinuxTypeOK, EncPc
<1>2. LinuxTypeOK /\ HasClient BY DEF LinuxInv
<1>3. UNCHANGED <<connected, closed, latest>>
  BY DEF Listen, Accept, ReadPacket, ReadEnds, Encode, EncoderEnds
<1>4. enc' \in Enc /\ backlog' \in Seq(Chains) /\ pipe' \in [Chains -> Seq(Images)]
  <2>1. CASE Listen BY <1>1, <2>1 DEF Listen, LinuxInv, LinuxTypeOK, EncPc
  <2>2. CASE Accept
    <3>1. Head(backlog) \in Chains /\ Tail(backlog) \in Seq(Chains)
      BY <2>2 DEF Accept, LinuxInv, LinuxTypeOK
    <3> DEFINE c == Head(backlog)
    <3>2. enc' = [enc EXCEPT !.pc = "read", !.client = c] BY <2>2 DEF Accept
    <3>3. backlog' \in Seq(Chains) /\ pipe' = pipe BY <2>2, <3>1 DEF Accept
    <3>4. c \in Chains BY <3>1
    <3> HIDE DEF c
    <3>5. enc' \in Enc BY <1>1, <3>2, <3>4 DEF EncPc
    <3> QED BY <3>3, <3>5 DEF LinuxInv, LinuxTypeOK
  <2>3. CASE ReadPacket
    <3> DEFINE c == enc.client
               i == Head(pipe[c])
    <3>1. c \in Chains \cup {NoChain} BY <1>1
    <3>2. /\ enc' = [enc EXCEPT !.pc = "more", !.image = i]
          /\ pipe' = [pipe EXCEPT ![c] = Tail(@)]
          /\ pipe[c] # <<>> /\ backlog' = backlog
      BY <2>3 DEF ReadPacket
    <3>3. PICK d \in Chains \cup {NoChain} : d = c BY <3>1
    <3>4. d \in Chains
      BY <2>3, <3>3 DEF ReadPacket, HasClient, LinuxInv
    <3>5. i \in Images /\ Tail(pipe[d]) \in Seq(Images) BY <3>2, <3>3, <3>4 DEF LinuxInv, LinuxTypeOK
    <3> HIDE DEF i, c
    <3>6. enc' \in Enc BY <1>1, <3>2, <3>5 DEF EncPc
    <3>7. pipe' \in [Chains -> Seq(Images)] BY <3>2, <3>3, <3>4, <3>5 DEF LinuxInv, LinuxTypeOK
    <3> QED BY <3>2, <3>6, <3>7 DEF LinuxInv, LinuxTypeOK
  <2>4. CASE ReadEnds
    <3>1. enc' \in Enc
      <4>1. enc' = [enc EXCEPT !.pc = "render"]
            \/ enc' = [enc EXCEPT !.pc = "read", !.image = NoImage]
        BY <2>4 DEF ReadEnds
      <4> QED BY <1>1, <4>1 DEF EncPc
    <3> QED BY <2>4, <3>1 DEF ReadEnds, LinuxInv, LinuxTypeOK
  <2>5. CASE Encode
    <3>1. enc' = [enc EXCEPT !.pc = "read", !.image = NoImage] BY <2>5 DEF Encode
    <3>2. enc' \in Enc BY <1>1, <3>1 DEF EncPc
    <3> QED BY <2>5, <3>2 DEF Encode, LinuxInv, LinuxTypeOK
  <2>6. ASSUME NEW pc \in {"failed", "stopped"}, EncoderEnds(pc)
        PROVE  enc' \in Enc /\ backlog' \in Seq(Chains) /\ pipe' \in [Chains -> Seq(Images)]
    BY <2>6 DEF EncoderEnds, LinuxInv, LinuxTypeOK, EncPc
  <2> QED BY <2>1, <2>2, <2>3, <2>4, <2>5, <2>6
<1>5. HasClient'
  <2>1. CASE Accept
    <3>1. Head(backlog) \in Chains BY <2>1 DEF Accept, LinuxInv, LinuxTypeOK
    <3>2. enc'.client = Head(backlog) /\ enc'.pc = "read" BY <1>1, <2>1 DEF Accept
    <3> QED BY <3>1, <3>2 DEF HasClient
  <2>2. CASE Listen BY <1>1, <2>2 DEF Listen, HasClient
  <2>3. CASE ReadPacket
    <3> DEFINE i == Head(pipe[enc.client])
    <3>1. enc.client \in Chains BY <1>2, <2>3 DEF ReadPacket, HasClient
    <3>2. pipe[enc.client] \in Seq(Images) BY <1>2, <3>1 DEF LinuxTypeOK
    <3>3. i \in Images BY <2>3, <3>2 DEF ReadPacket
    <3>4. enc' = [enc EXCEPT !.pc = "more", !.image = i] BY <2>3 DEF ReadPacket
    <3> HIDE DEF i
    <3>5. enc'.client = enc.client /\ enc'.image = i BY <1>1, <3>4
    <3> QED BY <3>1, <3>3, <3>5 DEF HasClient
  <2>4. CASE ReadEnds BY <1>1, <1>2, <2>4 DEF ReadEnds, HasClient
  <2>5. CASE Encode BY <1>1, <1>2, <2>5 DEF Encode, HasClient
  <2>6. ASSUME NEW pc \in {"failed", "stopped"}, EncoderEnds(pc) PROVE HasClient'
    BY <2>6 DEF EncoderEnds, HasClient
  <2> QED BY <2>1, <2>2, <2>3, <2>4, <2>5, <2>6
<1> QED BY <1>2, <1>3, <1>4, <1>5 DEF LinuxInv, LinuxTypeOK, EncPc

LEMMA LinuxTypesKept == ASSUME SwapTypeOK, LinuxInv, LinuxNext PROVE LinuxInv'
<1> USE DEF LinuxInv
<1>1. ASSUME NEW c \in Chains, TakeAndSubmit(c) PROVE LinuxInv'
  BY <1>1, SubmitTypes DEF TakeAndSubmit, HasClient
<1>2. ASSUME NEW c \in Chains, Destroy(c) PROVE LinuxInv'
  <2> DEFINE b == latest[c] # NoImage
  <2>1. closed' = [closed EXCEPT ![c] = b] /\ UNCHANGED <<connected, pipe, latest, backlog, enc>>
    BY <1>2 DEF Destroy
  <2>2. b \in BOOLEAN OBVIOUS
  <2> HIDE DEF b
  <2> QED BY <2>1, <2>2 DEF LinuxTypeOK, HasClient
<1>3. CASE UNCHANGED encVars BY <1>3 DEF encVars, LinuxTypeOK, HasClient
<1>4. CASE Compositor BY <1>1, <1>2, <1>3, <1>4 DEF Compositor
<1> QED BY <1>4, EncoderTypesKept DEF LinuxNext

-----------------------------------------------------------------------------
(* The image submitted last *)

(* The image submitted last is the one in hand, if there is one, and the   *)
(* application cannot get at it: it is not even FREE, unless a newer       *)
(* swapchain was made, and images are acquired from the newest one only.   *)
Kept(c, i) ==
  /\ life[c] # "none"
  /\ image[c][i] # "ACQUIRED"
  /\ image[c][i] = "FREE" => \E d \in Chains : d > c /\ life[d] # "none"

NewestKept ==
  \A c \in Chains :
    /\ latest[c] # NoImage => Kept(c, latest[c])
    /\ flip[c].pc \in {"fence", "ancestor"} => flip[c].image = latest[c]

LEMMA SubmittedKept ==
  ASSUME SwapInv, LinuxTypeOK, NewestKept, NEW c \in Chains, TakeAndSubmit(c)
  PROVE  NewestKept'
<1>0. PICK i : i = Head(ring[c])
  OBVIOUS
<1>1. /\ flip[c].pc = "wait" /\ ring[c] # <<>>
      /\ flip' = [flip EXCEPT ![c].pc = "fence", ![c].image = i]
      /\ UNCHANGED <<image, life>>
      /\ latest' = [latest EXCEPT ![c] = i]
  BY <1>0 DEF TakeAndSubmit, TakePending, Submit, chainVars
<1>2. life[c] = "live" BY <1>1 DEF SwapInv, FlipAt
<1>3. i \in Images /\ InRing(c, i)
  <2>1. ring[c] \in Seq(Images) BY DEF SwapInv, SwapTypeOK
  <2>2. 1 \in 1..Len(ring[c]) /\ ring[c][1] = i /\ i \in Images BY <1>0, <1>1, <2>1
  <2> QED BY <2>2 DEF InRing
<1>4. Kept(c, i) BY <1>2, <1>3 DEF SwapInv, Owned, Held, Kept
<1>5. Kept(c, i)' BY <1>1, <1>4 DEF Kept
<1>6. \A d \in Chains : d # c => flip'[d] = flip[d] /\ latest'[d] = latest[d]
  BY <1>1 DEF SwapInv, SwapTypeOK, LinuxTypeOK
<1>7. latest'[c] = i /\ flip'[c].image = i BY <1>1 DEF SwapInv, SwapTypeOK, LinuxTypeOK
<1>8. ASSUME NEW d \in Chains, d # c, latest[d] # NoImage PROVE Kept(d, latest[d])'
  BY <1>1, <1>6, <1>8 DEF NewestKept, Kept
<1>9. ASSUME NEW d \in Chains, latest'[d] # NoImage PROVE Kept(d, latest[d])'
  <2>1. CASE d = c BY <1>5, <1>7, <2>1 DEF Kept
  <2>2. CASE d # c BY <1>6, <1>8, <1>9, <2>2
  <2> QED BY <2>1, <2>2
<1>10. ASSUME NEW d \in Chains, flip'[d].pc \in {"fence", "ancestor"}
       PROVE  flip'[d].image = latest'[d]
  BY <1>6, <1>7, <1>10 DEF NewestKept
<1> QED BY <1>9, <1>10 DEF NewestKept

LEMMA FlippedKept ==
  ASSUME SwapInv, LinuxTypeOK, NewestKept, NEW c \in Chains, FlipStep(c), latest' = latest
  PROVE  NewestKept'
<1> USE DEF chainVars, screenVars, appVars
<1>0. SwapTypeOK /\ FlipAt BY DEF SwapInv
<1>1. UNCHANGED life BY <1>0, FlipLocal
<1>2. \A d \in Chains : d # c => flip'[d] = flip[d] /\ image'[d] = image[d]
  BY <1>0, FlipLocal
<1>3. flip'[c].pc \in {"fence", "ancestor"} => flip'[c].image = latest[c]
  <2>1. CASE AwaitAncestor(c) \/ DrainAncestor(c)
    BY <1>0, <2>1 DEF AwaitAncestor, DrainAncestor, ToPresent, NewestKept, SwapTypeOK
  <2>2. CASE flip' = [flip EXCEPT ![c] = Again(c)]
    <3>1. flip'[c].pc \in {"wait", "done"} BY <1>0, <2>2, AgainType DEF SwapTypeOK
    <3> QED BY <3>1
  <2> QED
    BY <2>1, <2>2 DEF FlipStep, FenceFails, ReleaseRetired, FirstFlip, LaterFlip, FlipEnds
<1>4. ASSUME latest[c] # NoImage, Kept(c, latest[c]) PROVE Kept(c, latest[c])'
  <2> DEFINE l == latest[c]
  <2>1. l \in Images BY <1>4 DEF LinuxTypeOK
  <2>2. CASE image'[c] = image[c] BY <1>1, <1>4, <2>2 DEF Kept
  <2>3. CASE ReleaseRetired(c)
    <3>1. flip[c].image = l BY <2>3 DEF ReleaseRetired, NewestKept
    <3>2. image'[c][l] = "INVALID" BY <1>0, <2>1, <2>3, <3>1 DEF ReleaseRetired, SwapTypeOK
    <3> QED BY <1>1, <1>4, <3>2 DEF Kept
  <2>4. CASE (FirstFlip(c) \/ LaterFlip(c)) /\ PresentImage(c) /\ inFlight[c] # NoImage
    <3> DEFINE old == inFlight[c]
    <3>1. flip[c].pc \in {"fence", "ancestor"} BY <2>4 DEF FirstFlip, LaterFlip, ToPresent
    <3>2. flip[c].image = l BY <3>1 DEF NewestKept
    <3>3. life[c] = "live" BY <3>1 DEF SwapInv, FlipAt
    <3>4. old # l
      BY <2>1, <3>1, <3>2, <3>3 DEF SwapInv, Owned, Held, InHand, OnScreen
    <3>5. \E s : image' = [image EXCEPT ![c][old] = s] BY <2>4 DEF PresentImage
    <3>6. image'[c][l] = image[c][l] BY <1>0, <2>1, <3>4, <3>5 DEF SwapTypeOK
    <3> QED BY <1>1, <1>4, <3>6 DEF Kept
  <2> QED
    BY <2>2, <2>3, <2>4 DEF FlipStep, FenceFails, AwaitAncestor, DrainAncestor, FirstFlip,
       LaterFlip, FlipEnds, PresentImage
<1> QED BY <1>1, <1>2, <1>3, <1>4 DEF NewestKept, Kept

LEMMA AppKept ==
  ASSUME SwapInv, LinuxTypeOK, NewestKept, latest' = latest,
         AppStep \/ AppCall \/ \E c \in Chains : BeginTeardown(c)
  PROVE  NewestKept'
<1> USE DEF chainVars, screenVars, appVars
<1>0. SwapTypeOK BY DEF SwapInv
<1>1. ASSUME NEW c \in Chains, Create(c) PROVE NewestKept'
  <2>1. /\ life[c] = "none" /\ life' = [life EXCEPT ![c] = "live"]
        /\ flip' = [flip EXCEPT ![c].pc = "wait"]
    BY <1>1 DEF Create
  <2>2. latest[c] = NoImage BY <2>1 DEF NewestKept, Kept
  <2>3. \A d \in Chains : life[d] # "none" => life'[d] # "none" BY <2>1 DEF SwapInv, SwapTypeOK
  <2>4. \A d \in Chains, i \in Images :
          d # c => image'[d][i] = image[d][i] \/ image'[d][i] = "INVALID"
    BY <1>1 DEF Create
  <2>5. \A d \in Chains : d # c => flip'[d] = flip[d] BY <1>0, <2>1 DEF SwapTypeOK
  <2>6. flip'[c].pc = "wait" BY <1>0, <2>1 DEF SwapTypeOK
  <2>7. ASSUME NEW d \in Chains, d # c, latest[d] # NoImage PROVE Kept(d, latest[d])'
    <3>1. latest[d] \in Images BY <2>7 DEF LinuxTypeOK
    <3> QED BY <2>3, <2>4, <2>7, <3>1 DEF NewestKept, Kept
  <2> QED BY <2>2, <2>5, <2>6, <2>7 DEF NewestKept
<1>2. ASSUME NEW c \in Chains, NEW i \in Images, QueuePresent(c, i) PROVE NewestKept'
  <2>1. UNCHANGED <<life, flip>> /\ image[c][i] = "ACQUIRED" BY <1>2 DEF QueuePresent
  <2>2. \E s : image' = [image EXCEPT ![c][i] = s] BY <1>2 DEF QueuePresent
  <2>3. \A d \in Chains, j \in Images : d # c \/ j # i => image'[d][j] = image[d][j]
    BY <1>0, <2>2 DEF SwapTypeOK
  <2>4. latest[c] # i BY <2>1, ChainFacts DEF NewestKept, Kept
  <2>5. ASSUME NEW d \in Chains, latest[d] # NoImage PROVE Kept(d, latest[d])'
    <3>1. latest[d] \in Images BY <2>5 DEF LinuxTypeOK
    <3> QED BY <2>1, <2>3, <2>4, <2>5, <3>1 DEF NewestKept, Kept
  <2> QED BY <2>1, <2>5 DEF NewestKept
<1>3. CASE Acquire
  <2> DEFINE c == app.chain
             i == FirstFree(c)
  <2>1. c \in Chains /\ Newest(c) BY <1>3 DEF Acquire, SwapInv, AppAt
  <2>2. UNCHANGED <<life, flip>> BY <1>3 DEF Acquire
  <2>3. CASE image' = image BY <2>2, <2>3 DEF NewestKept, Kept
  <2>4. CASE i # NoImage /\ image' = [image EXCEPT ![c][i] = "ACQUIRED"]
    <3>1. i \in Images /\ image[c][i] = "FREE" BY <1>0, <2>1, <2>4, FirstFreeType
    <3>2. ~ \E d \in Chains : d > c /\ life[d] # "none" BY <2>1 DEF Newest
    <3> HIDE DEF c, i
    <3>3. latest[c] # i BY <2>1, <3>1, <3>2, ChainFacts DEF NewestKept, Kept
    <3>4. \A d \in Chains, j \in Images : d # c \/ j # i => image'[d][j] = image[d][j]
      BY <1>0, <2>4 DEF SwapTypeOK
    <3>5. ASSUME NEW d \in Chains, latest[d] # NoImage PROVE Kept(d, latest[d])'
      <4>1. latest[d] \in Images BY <3>5 DEF LinuxTypeOK
      <4> QED BY <2>2, <3>3, <3>4, <3>5, <4>1 DEF NewestKept, Kept
    <3> QED BY <2>2, <3>5 DEF NewestKept
  <2> QED BY <1>3, <2>3, <2>4 DEF Acquire
<1>4. CASE Join
  <2> DEFINE c == app.chain
  <2>1. c \in Chains BY <1>4 DEF Join, SwapInv, AppAt
  <2>2. /\ life' = [life EXCEPT ![c] = "gone"] /\ UNCHANGED flip
        /\ image' = [image EXCEPT ![c] = [i \in Images |-> "INVALID"]]
    BY <1>4 DEF Join
  <2> HIDE DEF c
  <2>3. \A d \in Chains : life[d] # "none" => life'[d] # "none" BY <2>2 DEF SwapInv, SwapTypeOK
  <2>4. \A d \in Chains, i \in Images :
          image'[d][i] = image[d][i] \/ image'[d][i] = "INVALID"
    BY <1>0, <2>1, <2>2 DEF SwapTypeOK
  <2>5. ASSUME NEW d \in Chains, latest[d] # NoImage PROVE Kept(d, latest[d])'
    <3>1. latest[d] \in Images BY <2>5 DEF LinuxTypeOK
    <3> QED BY <2>3, <2>4, <2>5, <3>1 DEF NewestKept, Kept
  <2> QED BY <2>2, <2>5 DEF NewestKept
<1>5. CASE UNCHANGED <<life, image, flip>> BY <1>5 DEF NewestKept, Kept
<1> QED
  BY <1>1, <1>2, <1>3, <1>4, <1>5
  DEF AppStep, AppCall, AwaitStart, DrainOne, StopFlipping, StartAcquire, BeginTeardown

LEMMA LinuxKept == ASSUME SwapInv, LinuxTypeOK, NewestKept, LinuxNext PROVE NewestKept'
<1>1. ASSUME NEW c \in Chains, TakeAndSubmit(c) PROVE NewestKept'
  BY <1>1, SubmittedKept
<1>2. ASSUME NEW c \in Chains, FlipStep(c), UNCHANGED encVars PROVE NewestKept'
  BY <1>2, FlippedKept DEF encVars
<1>3. CASE (AppStep \/ AppCall) /\ UNCHANGED encVars BY <1>3, AppKept DEF encVars
<1>4. ASSUME NEW c \in Chains, Destroy(c) PROVE NewestKept'
  BY <1>4, AppKept DEF Destroy
<1>5. CASE Compositor BY <1>1, <1>2, <1>3, <1>4, <1>5 DEF Compositor
<1>6. CASE UNCHANGED <<swapVars, latest>>
  BY <1>6 DEF NewestKept, Kept, swapVars, chainVars
<1>7. Listen \/ Accept \/ ReadPacket \/ ReadEnds \/ Encode => UNCHANGED <<swapVars, latest>>
  BY DEF Listen, Accept, ReadPacket, ReadEnds, Encode, socketVars
<1>8. \A pc \in {"failed", "stopped"} : EncoderEnds(pc) => UNCHANGED <<swapVars, latest>>
  BY DEF EncoderEnds, socketVars
<1> QED BY <1>5, <1>6, <1>7, <1>8 DEF LinuxNext

-----------------------------------------------------------------------------
(* The invariant of either build *)

CaptureInv ==
  SwapInv /\ AcquireFindsImage /\ FirstFlipInv /\ LinuxInv /\ NewestKept /\ DirectRingInv

LEMMA InitCapture == Init => CaptureInv
<1> SUFFICES ASSUME Init PROVE CaptureInv
  OBVIOUS
<1>1. SwapInv BY SwapInitInv DEF Init, LinuxInit
<1>2. LinuxInv BY DEF Init, LinuxInit, LinuxInv, LinuxTypeOK, HasClient
<1>3. DirectRingInv BY DirectInitRing DEF Init
<1>4. NewestKept BY DEF Init, LinuxInit, SwapInit, NewestKept
<1>5. AcquireFindsImage /\ FirstFlipInv BY FreeInit, FirstFlipInit DEF Init, LinuxInit
<1> QED BY <1>1, <1>2, <1>3, <1>4, <1>5 DEF CaptureInv

LEMMA NextCapture == CaptureInv /\ [Next]_vars => CaptureInv'
<1> SUFFICES ASSUME CaptureInv, [Next]_vars PROVE CaptureInv'
  OBVIOUS
<1>1. [SwapNext]_swapVars
  BY LinuxIsSwap DEF Next, Linux, Win32, vars, linuxVars
<1>2. [DirectNext]_directVars BY DEF Next, Linux, Win32, vars
<1>3. LinuxInv'
  <2>1. CASE UNCHANGED linuxVars
    BY <2>1 DEF CaptureInv, LinuxInv, LinuxTypeOK, HasClient, linuxVars, encVars
  <2>2. CASE LinuxNext BY <2>2, LinuxTypesKept DEF CaptureInv, SwapInv
  <2> QED BY <2>1, <2>2 DEF Next, Linux, Win32, vars
<1>4. NewestKept'
  <2>1. CASE UNCHANGED linuxVars
    BY <2>1 DEF CaptureInv, NewestKept, Kept, linuxVars, encVars, swapVars, chainVars
  <2>2. CASE LinuxNext BY <2>2, LinuxKept DEF CaptureInv, LinuxInv
  <2> QED BY <2>1, <2>2 DEF Next, Linux, Win32, vars
<1>5. SwapInv' BY <1>1, SwapNextInv DEF CaptureInv
<1>6. AcquireFindsImage' BY <1>1, <1>5, FreeNext DEF CaptureInv
<1>7. FirstFlipInv' BY <1>1, <1>5, FirstFlipNext DEF CaptureInv
<1> QED BY <1>2, <1>3, <1>4, <1>5, <1>6, <1>7, DirectNextRing DEF CaptureInv

(* What the theorems below follow from *)
THEOREM CaptureInvariant == Spec => []CaptureInv
  BY InitCapture, NextCapture, PTL DEF Spec

(* Every variable of either build has its type: no index of an image, and  *)
(* no length of a ring, is out of range.                                   *)
THEOREM CaptureTypes == Spec => []TypeOK
<1>1. CaptureInv => TypeOK
  BY SwapSafe, DirectSafe DEF CaptureInv, LinuxInv, TypeOK
<1> QED BY <1>1, CaptureInvariant, PTL

(* An image of a swapchain is in one place at a time: it is drawn into, or *)
(* waits once, or is being flipped, or is on screen.                       *)
THEOREM ImagesOwnedOnce == Spec => []ImageOwnedOnce
<1>1. CaptureInv => ImageOwnedOnce BY SwapSafe DEF CaptureInv
<1> QED BY <1>1, CaptureInvariant, PTL

(* In whatever order swapchains are made, replaced and destroyed, nobody   *)
(* waits on one that is gone.                                              *)
THEOREM WaitsOnLiving == Spec => []WaitsOnTheLiving
<1>1. CaptureInv => WaitsOnTheLiving BY SwapSafe DEF CaptureInv
<1> QED BY <1>1, CaptureInvariant, PTL

(* The semaphore of the free buffers never has two threads that wait.      *)
THEOREM FreeBufferHasOneWaiter == Spec => []SoleWaiter
<1>1. CaptureInv => SoleWaiter BY OneWaiter DEF CaptureInv
<1> QED BY <1>1, CaptureInvariant, PTL

(* acquire_next_image never returns without an index: a free buffer stands *)
(* for an image that is FREE, as long as the swapchain is the newest one   *)
(* and no fence of it failed.                                              *)
THEOREM AcquireFinds == Spec => []AcquireFindsImage
<1>1. CaptureInv => AcquireFindsImage BY DEF CaptureInv
<1> QED BY <1>1, CaptureInvariant, PTL

(* A swapchain that replaces another one puts its first image on screen    *)
(* when no image of the other one is on its way there, unless the other    *)
(* one has never flipped or lost its device.                               *)
THEOREM AncestorsFlipFirst == Spec => AncestorFlippedFirst
<1> DEFINE Over(c, a) ==
      (firstPresent[c] /\ ~firstPresent'[c] /\ a # NoChain /\ ~firstPresent[a] /\ valid[a])
        => \A i \in Images : image[a][i] = "PENDING" => ~InRing(a, i) /\ ~InHand(a, i)
<1>1. CaptureInv /\ [Next]_vars => [\A c \in Chains : Over(c, ancestor[c])]_swapVars
  <2> SUFFICES ASSUME CaptureInv, [SwapNext]_swapVars, NEW c \in Chains PROVE Over(c, ancestor[c])
    BY LinuxIsSwap DEF Next, Linux, Win32, vars, linuxVars
  <2>1. ancestor[c] \in Chains \cup {NoChain} BY DEF CaptureInv, SwapInv, SwapTypeOK
  <2> QED BY <2>1, FlippedFirst DEF CaptureInv
<1> QED BY <1>1, CaptureInvariant, PTL DEF Spec, AncestorFlippedFirst

(* On Linux the encoder, which reads the images of the swapchain itself,   *)
(* renders from no image the application draws into, as long as it is the  *)
(* one submitted last.                                                     *)
THEOREM NewestIsNotDrawnInto == Spec => []NewestNotDrawnInto
<1>1. CaptureInv => NewestNotDrawnInto
  <2> SUFFICES ASSUME CaptureInv, enc.pc = "render", enc.image = latest[enc.client]
               PROVE  image[enc.client][enc.image] # "ACQUIRED"
    BY DEF NewestNotDrawnInto
  <2>1. enc.client \in Chains /\ enc.image \in Images BY DEF CaptureInv, LinuxInv, HasClient
  <2>2. latest[enc.client] # NoImage BY <2>1, ChainFacts
  <2> QED BY <2>1, <2>2 DEF CaptureInv, NewestKept, Kept
<1> QED BY <1>1, CaptureInvariant, PTL

(* On Windows the compositor never draws to the texture that is encoded.   *)
THEOREM StagingIsStable == Spec => []StagingStable
<1>1. CaptureInv => StagingStable BY DirectSafe DEF CaptureInv
<1> QED BY <1>1, CaptureInvariant, PTL

(* A texture and a label that are encoded together are of one frame, and,  *)
(* once a frame was copied, with a later label than the last packet's.     *)
THEOREM FramesNotMixed == Spec => []NoFrameMixed
<1>1. CaptureInv => NoFrameMixed BY DirectSafe DEF CaptureInv
<1> QED BY <1>1, CaptureInvariant, PTL

(* A packet carries the label of a frame that is one ring of buffers newer *)
(* than the one it shows.                                                  *)
THEOREM LabelsLag == Spec => []LabelLag
<1>1. CaptureInv => LabelLag BY DirectSafe DEF CaptureInv
<1> QED BY <1>1, CaptureInvariant, PTL
=============================================================================
