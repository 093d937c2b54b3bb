------------------------------ MODULE Swapchain ------------------------------
(***************************************************************************)
(* The swapchains of the Vulkan layer that stands between the compositor   *)
(* and the screen on Linux: one application thread that creates, acquires, *)
(* presents and destroys, and for each swapchain the thread that flips the *)
(* pages.  A swapchain may replace an older one (oldSwapchain): the older  *)
(* one is its ancestor, and its first page flip waits for the ancestor's.  *)
(*                                                                         *)
(* The application is one thread that keeps the rules of Vulkan: it        *)
(* acquires from the newest swapchain only, waits without a time-out only  *)
(* while it holds no more images than the surface lets it, and presents    *)
(* what it acquired.  It destroys swapchains in any order.                 *)
(***************************************************************************)
EXTENDS Integers, Sequences, FiniteSets

CONSTANTS
  NumChains,     \* swapchains created one after the other
  NumImages,     \* images of a swapchain; send_fds asserts that there are 3
  MaxPresents,   \* bound: calls of queue_present
  FaultyChains   \* swapchains whose fences may fail (device lost)

ASSUME SwapchainAssumption ==
  /\ NumChains \in Nat \ {0}
  /\ NumImages \in Nat \ {0}
  /\ MaxPresents \in Nat
  /\ FaultyChains \subseteq 1..NumChains

Chains == 1..NumChains
Images == 0..(NumImages - 1)
NoChain == 0     \* VK_NULL_HANDLE
NoImage == -1    \* UINT32_MAX

MinImageCount == 1   \* what get_surface_capabilities announces

VARIABLES
  life,          \* life[c]: whether swapchain c does not exist yet, lives, or is gone
  image,         \* image[c][i]: m_swapchain_images[i].status
  free,          \* free[c]: count of m_free_image_semaphore
  ring,          \* ring[c]: m_pending_buffer_pool; its length is m_page_flip_semaphore
  startPresent,  \* startPresent[c]: count of m_start_present_semaphore
  ancestor,      \* m_ancestor
  descendant,    \* m_descendant
  valid,         \* m_is_valid
  firstPresent,  \* m_first_present
  running,       \* m_page_flip_thread_run
  inFlight,      \* in_flight_index of the headless swapchain
  lastAcquired,  \* m_last_acquired_image
  flip,          \* flip[c]: page_flip_thread of c
  app,           \* the application thread
  presents       \* calls of queue_present so far

chainVars == <<life, ancestor, descendant, running>>
screenVars == <<startPresent, firstPresent, inFlight>>
appVars == <<app, presents, lastAcquired>>
swapVars == <<chainVars, screenVars, appVars, image, free, ring, valid, flip>>

Count(c, status) == Cardinality({i \in Images : image[c][i] = status})

SwapInit ==
  /\ life = [c \in Chains |-> "none"]
  /\ image = [c \in Chains |-> [i \in Images |-> "INVALID"]]
  /\ free = [c \in Chains |-> 0]
  /\ ring = [c \in Chains |-> <<>>]
  /\ startPresent = [c \in Chains |-> 0]
  /\ ancestor = [c \in Chains |-> NoChain]
  /\ descendant = [c \in Chains |-> NoChain]
  /\ valid = [c \in Chains |-> TRUE]
  /\ firstPresent = [c \in Chains |-> TRUE]
  /\ running = [c \in Chains |-> TRUE]
  /\ inFlight = [c \in Chains |-> NoImage]
  /\ lastAcquired = [c \in Chains |-> 0]
  /\ flip = [c \in Chains |-> [pc |-> "off", image |-> NoImage, left |-> 0, of |-> NoChain]]
  /\ app = [pc |-> "idle", chain |-> NoChain, left |-> 0]
  /\ presents = 0

-----------------------------------------------------------------------------
(* The page flip thread *)

(* The next step of the loop of page_flip_thread *)
Again(c) == [flip[c] EXCEPT !.pc = IF running[c] THEN "wait" ELSE "done", !.of = NoChain]

(* Mutant: the image that stays on screen is waited for too. *)
PendingBuffersAll(c) == NumImages - Count(c, "ACQUIRED")

(* Mutant: a buffer too few is waited for. *)
PendingBuffersFewer(c) == NumImages - Count(c, "ACQUIRED") - 2

(* How many free buffers wait_for_pending_buffers waits for *)
PendingBuffers(c) == NumImages - Count(c, "ACQUIRED") - 1

(* Mutant: the image to present is freed, not the one it replaces. *)
PresentImageFreesNew(c) ==
  /\ inFlight' = [inFlight EXCEPT ![c] = flip[c].image]
  /\ image' = [image EXCEPT ![c][flip[c].image] =
                 IF descendant[c] = NoChain THEN "FREE" ELSE "INVALID"]
  /\ free' = [free EXCEPT ![c] = @ + 1]

(* Mutant: the first image that is presented counts as one released. *)
PresentImagePosts(c) ==
  LET old == inFlight[c]
  IN  /\ inFlight' = [inFlight EXCEPT ![c] = flip[c].image]
      /\ image' = [image EXCEPT ![c] =
                     [i \in Images |->
                        IF i = old
                          THEN IF descendant[c] = NoChain THEN "FREE" ELSE "INVALID"
                          ELSE @[i]]]
      /\ free' = [free EXCEPT ![c] = @ + 1]

(* present_image: unpresent the image in flight; the new one is in flight. *)
PresentImage(c) ==
  LET old == inFlight[c]
  IN  /\ inFlight' = [inFlight EXCEPT ![c] = flip[c].image]
      /\ IF old = NoImage
           THEN UNCHANGED <<image, free>>
           ELSE /\ image' = [image EXCEPT ![c][old] =
                               IF descendant[c] = NoChain THEN "FREE" ELSE "INVALID"]
                /\ free' = [free EXCEPT ![c] = @ + 1]

(* The oldest image of the ring is taken and submitted to the encoder. *)
TakePending(c) ==
  /\ flip[c].pc = "wait"
  /\ ring[c] # <<>>
  /\ ring' = [ring EXCEPT ![c] = Tail(@)]
  /\ flip' = [flip EXCEPT ![c].pc = "fence", ![c].image = Head(ring[c])]
  /\ UNCHANGED <<image, free, valid, chainVars, screenVars, appVars>>

FenceFails(c) ==
  /\ flip[c].pc = "fence"
  /\ c \in FaultyChains
  /\ valid' = [valid EXCEPT ![c] = FALSE]
  /\ free' = [free EXCEPT ![c] = @ + 1]
  /\ flip' = [flip EXCEPT ![c] = Again(c)]
  /\ UNCHANGED <<image, ring, chainVars, screenVars, appVars>>

(* The descendant presents: queue_present marked the image FREE. *)
ReleaseRetired(c) ==
  /\ flip[c].pc = "fence"
  /\ image[c][flip[c].image] = "FREE"
  /\ image' = [image EXCEPT ![c][flip[c].image] = "INVALID"]
  /\ free' = [free EXCEPT ![c] = @ + 1]
  /\ flip' = [flip EXCEPT ![c] = Again(c)]
  /\ UNCHANGED <<ring, valid, chainVars, screenVars, appVars>>

ToPresent(c) == flip[c].pc = "fence" /\ image[c][flip[c].image] # "FREE"

(* First present: wait_for_pending_buffers of the ancestor counts ... *)
AwaitAncestor(c) ==
  /\ ToPresent(c)
  /\ firstPresent[c]
  /\ ancestor[c] # NoChain
  /\ flip' = [flip EXCEPT ![c].pc = "ancestor", ![c].of = ancestor[c],
                          ![c].left = PendingBuffers(ancestor[c])]
  /\ UNCHANGED <<image, free, ring, valid, chainVars, screenVars, appVars>>

(* ... and takes the free buffers one by one. *)
DrainAncestor(c) ==
  /\ flip[c].pc = "ancestor"
  /\ flip[c].left > 0
  /\ free[flip[c].of] > 0
  /\ free' = [free EXCEPT ![flip[c].of] = @ - 1]
  /\ flip' = [flip EXCEPT ![c].left = @ - 1]
  /\ UNCHANGED <<image, ring, valid, chainVars, screenVars, appVars>>

FirstFlip(c) ==
  /\ \/ ToPresent(c) /\ firstPresent[c] /\ ancestor[c] = NoChain
     \/ flip[c].pc = "ancestor" /\ flip[c].left <= 0
  /\ startPresent' = [startPresent EXCEPT ![c] = @ + 1]
  /\ PresentImage(c)
  /\ firstPresent' = [firstPresent EXCEPT ![c] = FALSE]
  /\ flip' = [flip EXCEPT ![c] = Again(c)]
  /\ UNCHANGED <<ring, valid, chainVars, appVars>>

LaterFlip(c) ==
  /\ ToPresent(c)
  /\ ~firstPresent[c]
  /\ PresentImage(c)
  /\ flip' = [flip EXCEPT ![c] = Again(c)]
  /\ UNCHANGED <<ring, valid, startPresent, firstPresent, chainVars, appVars>>

(* The wait of 250 ms for an image ends, and the thread is to end. *)
FlipEnds(c) ==
  /\ flip[c].pc = "wait"
  /\ ~running[c]
  /\ flip' = [flip EXCEPT ![c] = Again(c)]
  /\ UNCHANGED <<image, free, ring, valid, chainVars, screenVars, appVars>>

FlipStep(c) ==
  \/ FenceFails(c) \/ ReleaseRetired(c) \/ AwaitAncestor(c) \/ DrainAncestor(c)
  \/ FirstFlip(c) \/ LaterFlip(c) \/ FlipEnds(c)

-----------------------------------------------------------------------------
(* The application thread *)

Newest(c) == life[c] = "live" /\ \A d \in Chains : d > c => life[d] = "none"
Idle == [pc |-> "idle", chain |-> NoChain, left |-> 0]

(* init; the live swapchain before it becomes its ancestor, which deprecate *)
(* makes destroy its FREE images.                                           *)
Create(c) ==
  LET old == IF c > 1 /\ life[c - 1] = "live" THEN c - 1 ELSE NoChain
  IN  /\ app.pc = "idle"
      /\ life[c] = "none"
      /\ \A d \in Chains : d < c => life[d] # "none"
      /\ life' = [life EXCEPT ![c] = "live"]
      /\ image' = [d \in Chains |->
                     [i \in Images |->
                        IF d = c THEN "FREE"
                        ELSE IF d = old /\ image[d][i] = "FREE" THEN "INVALID"
                        ELSE image[d][i]]]
      /\ free' = [free EXCEPT ![c] = NumImages]
      /\ flip' = [flip EXCEPT ![c].pc = "wait"]
      /\ ancestor' = [ancestor EXCEPT ![c] = old]
      /\ descendant' = [d \in Chains |-> IF d = old THEN c ELSE descendant[d]]
      /\ UNCHANGED <<ring, valid, running, screenVars, appVars>>

(* acquire_next_image waits for a free buffer; Vulkan has no call without a *)
(* time-out when more than NumImages - minImageCount images are acquired.   *)
StartAcquire(c) ==
  /\ app.pc = "idle"
  /\ Newest(c)
  /\ Count(c, "ACQUIRED") <= NumImages - MinImageCount
  /\ app' = [pc |-> "acquire", chain |-> c, left |-> 0]
  /\ UNCHANGED <<presents, lastAcquired, image, free, ring, valid, flip, chainVars,
                 screenVars>>

(* It takes the first FREE image, from the second after the last one. *)
ScanOrder(c) == [j \in 1..NumImages |-> (lastAcquired[c] + 1 + j) % NumImages]

(* Mutant: the status is not looked at. *)
NextInOrder(c) == ScanOrder(c)[1]

FirstFree(c) ==
  LET hits == {j \in 1..NumImages : image[c][ScanOrder(c)[j]] = "FREE"}
  IN  IF hits = {} THEN NoImage
      ELSE ScanOrder(c)[CHOOSE j \in hits : \A k \in hits : j <= k]

(* Mutant: the loss of the device is not looked at. *)
AcquireUnchecked ==
  LET c == app.chain
      i == FirstFree(c)
  IN  /\ app.pc = "acquire"
      /\ free[c] > 0
      /\ free' = [free EXCEPT ![c] = @ - 1]
      /\ image' = [image EXCEPT ![c] = [j \in Images |-> IF j = i THEN "ACQUIRED" ELSE @[j]]]
      /\ lastAcquired' = [lastAcquired EXCEPT ![c] = i]
      /\ app' = Idle
      /\ UNCHANGED <<presents, ring, valid, flip, chainVars, screenVars>>

Acquire ==
  LET c == app.chain
      i == FirstFree(c)
  IN  /\ app.pc = "acquire"
      /\ free[c] > 0
      /\ free' = [free EXCEPT ![c] = @ - 1]
      /\ IF valid[c] /\ i # NoImage
           THEN /\ image' = [image EXCEPT ![c][i] = "ACQUIRED"]
                /\ lastAcquired' = [lastAcquired EXCEPT ![c] = i]
           ELSE UNCHANGED <<image, lastAcquired>>
      /\ app' = Idle
      /\ UNCHANGED <<presents, ring, valid, flip, chainVars, screenVars>>

(* The descendant has an image that waits for its flip or is on screen. *)
DescendantPresents(c) ==
  /\ descendant[c] # NoChain
  /\ \E i \in Images : image[descendant[c]][i] = "PENDING"

QueuePresent(c, i) ==
  /\ app.pc = "idle"
  /\ life[c] = "live"
  /\ image[c][i] = "ACQUIRED"
  /\ presents < MaxPresents
  /\ presents' = presents + 1
  /\ image' = [image EXCEPT ![c][i] =
                 IF DescendantPresents(c) THEN "FREE" ELSE "PENDING"]
  /\ ring' = [ring EXCEPT ![c] = Append(@, i)]
  /\ UNCHANGED <<app, lastAcquired, free, valid, flip, chainVars, screenVars>>

(* Mutant: the old swapchain does not wait for the descendant's first flip. *)
BeginTeardownAtOnce(c) ==
  /\ app.pc = "idle"
  /\ life[c] = "live"
  /\ app' = [chain |-> c, pc |-> "stop", left |-> 0]
  /\ UNCHANGED <<presents, lastAcquired, image, free, ring, valid, flip, chainVars,
                 screenVars>>

(* Mutant: the old swapchain waits for its own buffers in any case. *)
BeginTeardownDrains(c) ==
  /\ app.pc = "idle"
  /\ life[c] = "live"
  /\ app' = [chain |-> c, pc |-> IF valid[c] THEN "drain" ELSE "stop",
             left |-> PendingBuffers(c)]
  /\ UNCHANGED <<presents, lastAcquired, image, free, ring, valid, flip, chainVars,
                 screenVars>>

(* teardown: wait for the descendant's first flip, or for the own buffers. *)
BeginTeardown(c) ==
  /\ app.pc = "idle"
  /\ life[c] = "live"
  /\ app' = [chain |-> c,
             pc |-> IF DescendantPresents(c) THEN "await_start"
                    ELSE IF valid[c] THEN "drain" ELSE "stop",
             left |-> PendingBuffers(c)]
  /\ UNCHANGED <<presents, lastAcquired, image, free, ring, valid, flip, chainVars,
                 screenVars>>

AwaitStart ==
  LET d == descendant[app.chain]
  IN  /\ app.pc = "await_start"
      /\ startPresent[d] > 0
      /\ startPresent' = [startPresent EXCEPT ![d] = @ - 1]
      /\ app' = [app EXCEPT !.pc = "stop"]
      /\ UNCHANGED <<presents, lastAcquired, image, free, ring, valid, flip, chainVars,
                     firstPresent, inFlight>>

DrainOne ==
  /\ app.pc = "drain"
  /\ app.left > 0
  /\ free[app.chain] > 0
  /\ free' = [free EXCEPT ![app.chain] = @ - 1]
  /\ app' = [app EXCEPT !.left = @ - 1]
  /\ UNCHANGED <<presents, lastAcquired, image, ring, valid, flip, chainVars, screenVars>>

StopFlipping ==
  /\ app.pc = "stop" \/ (app.pc = "drain" /\ app.left <= 0)
  /\ running' = [running EXCEPT ![app.chain] = FALSE]
  /\ app' = [app EXCEPT !.pc = "join"]
  /\ UNCHANGED <<presents, lastAcquired, image, free, ring, valid, flip, life, ancestor,
                 descendant, screenVars>>

(* The flip thread is joined; both neighbours forget the swapchain. *)
Join ==
  LET c == app.chain
      Without(link) == [d \in Chains |-> IF link[d] = c THEN NoChain ELSE link[d]]
  IN  /\ app.pc = "join"
      /\ flip[c].pc = "done"
      /\ life' = [life EXCEPT ![c] = "gone"]
      /\ image' = [image EXCEPT ![c] = [i \in Images |-> "INVALID"]]
      /\ ancestor' = Without(ancestor)
      /\ descendant' = Without(descendant)
      /\ app' = Idle
      /\ UNCHANGED <<presents, lastAcquired, free, ring, valid, flip, running, screenVars>>

(* What the application has to go on with once it called *)
AppStep == Acquire \/ AwaitStart \/ DrainOne \/ StopFlipping \/ Join

(* What it may call *)
AppCall ==
  \E c \in Chains :
    \/ Create(c) \/ StartAcquire(c)
    \/ \E i \in Images : QueuePresent(c, i)

SwapNext == AppStep \/ AppCall \/ \E c \in Chains : \/ TakePending(c) \/ FlipStep(c)
                                                   \/ BeginTeardown(c)

-----------------------------------------------------------------------------
(* Properties *)

(* Every variable has its type. *)
SwapTypeOK ==
  /\ life \in [Chains -> {"none", "live", "gone"}]
  /\ image \in [Chains -> [Images -> {"INVALID", "FREE", "ACQUIRED", "PENDING"}]]
  /\ free \in [Chains -> Nat]
  /\ ring \in [Chains -> Seq(Images)]
  /\ startPresent \in [Chains -> Nat]
  /\ ancestor \in [Chains -> Chains \cup {NoChain}]
  /\ descendant \in [Chains -> Chains \cup {NoChain}]
  /\ valid \in [Chains -> BOOLEAN]
  /\ firstPresent \in [Chains -> BOOLEAN]
  /\ running \in [Chains -> BOOLEAN]
  /\ inFlight \in [Chains -> Images \cup {NoImage}]
  /\ lastAcquired \in [Chains -> Images]
  /\ flip \in [Chains -> [pc : {"off", "wait", "fence", "ancestor", "done"},
                          image : Images \cup {NoImage}, left : Int,
                          of : Chains \cup {NoChain}]]
  /\ app \in [pc : {"idle", "acquire", "await_start", "drain", "stop", "join"},
              chain : Chains \cup {NoChain}, left : Int]
  /\ presents \in 0..MaxPresents

(* Where the page flip thread has image i of swapchain c *)
InRing(c, i) == \E k \in 1..Len(ring[c]) : ring[c][k] = i
InHand(c, i) == flip[c].pc \in {"fence", "ancestor"} /\ flip[c].image = i
OnScreen(c, i) == inFlight[c] = i

(* An image that waits, is being flipped or is on screen is so once, and   *)
(* the application can neither draw into it nor acquire it: the ring never *)
(* holds more images than it has room for.                                 *)
ImageOwnedOnce ==
  \A c \in Chains :
    life[c] = "live" =>
      /\ \A j, k \in 1..Len(ring[c]) : ring[c][j] = ring[c][k] => j = k
      /\ \A i \in Images :
           /\ ~(InRing(c, i) /\ InHand(c, i))
           /\ ~(InRing(c, i) /\ OnScreen(c, i))
           /\ ~(InHand(c, i) /\ OnScreen(c, i))
           /\ image[c][i] = "ACQUIRED" =>
                ~InRing(c, i) /\ ~InHand(c, i) /\ ~OnScreen(c, i)
           /\ (image[c][i] = "PENDING" /\ valid[c]) =>
                InRing(c, i) \/ InHand(c, i) \/ OnScreen(c, i)

(* A free buffer that acquire_next_image may take stands for an image that *)
(* it then finds FREE: it never returns without an index.                  *)
AcquireFindsImage ==
  \A c \in Chains :
    Newest(c) /\ valid[c] /\ ~(app.chain = c /\ app.pc \in {"drain", "stop", "join"})
      => free[c] <= Count(c, "FREE")

(* Threads that wait for a free buffer of c *)
Waiters(c) ==
  (IF app.chain = c /\ app.pc \in {"acquire", "drain"} THEN {NoChain} ELSE {})
  \cup {d \in Chains : flip[d].pc = "ancestor" /\ flip[d].of = c}

(* One thread at most waits for the free buffers of a swapchain: a buffer  *)
(* that is posted cannot be taken from the thread it woke, which           *)
(* timed_semaphore, whose wait has no loop, does not provide for.          *)
SoleWaiter == \A c \in Chains : Cardinality(Waiters(c)) <= 1

(* Nobody waits on a swapchain that was destroyed: neither the first flip  *)
(* of a descendant for its buffers, nor a teardown for its first flip.     *)
WaitsOnTheLiving ==
  /\ \A c \in Chains : flip[c].pc = "ancestor" => life[flip[c].of] = "live"
  /\ app.pc = "await_start" => /\ descendant[app.chain] # NoChain
                              /\ life[descendant[app.chain]] = "live"

(* A swapchain first flips when the page flips of its ancestor are over,   *)
(* unless the ancestor had not flipped once or lost its device: then the   *)
(* ancestor's last image may still wait for its fence.                     *)
AncestorFlippedFirst ==
  [][ \A c \in Chains :
        LET a == ancestor[c]
        IN  (firstPresent[c] /\ ~firstPresent'[c] /\ a # NoChain
               /\ ~firstPresent[a] /\ valid[a])
              => \A i \in Images : image[a][i] = "PENDING" =>
                                     ~InRing(a, i) /\ ~InHand(a, i) ]_swapVars

(* The application waits for an image of c when it has every one of them   *)
(* but the one on screen: it waits for good, as present_image frees that   *)
(* one when another is presented, which is for the application to do.      *)
WaitsForTheScreen(c) ==
  /\ app.pc = "acquire" /\ app.chain = c
  /\ inFlight[c] # NoImage
  /\ \A i \in Images : i # inFlight[c] => image[c][i] = "ACQUIRED"

(* acquire_next_image returns, whatever the encoder does, unless a fence   *)
(* of the swapchain or of its ancestor failed, or the application has all  *)
(* other images and the last one has come to the screen.  Vulkan allows    *)
(* that call, and acquire_next_image does not return from it.              *)
AcquireReturns ==
  (app.pc = "acquire")
    ~> (app.pc = "idle" \/ \E c \in Chains : ~valid[c] \/ WaitsForTheScreen(c))

(* vkDestroySwapchainKHR returns, unless a swapchain that replaced this    *)
(* one was destroyed before it, or a fence failed.                         *)
TeardownEnds ==
  \A c \in Chains :
    (app.chain = c /\ app.pc \in {"await_start", "drain", "stop", "join"})
      ~> \/ life[c] = "gone"
         \/ \E d \in Chains : (d > c /\ life[d] = "gone") \/ ~valid[d]
=============================================================================
