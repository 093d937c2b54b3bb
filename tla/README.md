# A verification development for the ALVR fork in `src/`

The repository streams VR: a SteamVR driver on a PC (the *server*: C++ encoder,
Rust core, a Vulkan layer on Linux) sends encoded video to a headset (the
*client*: Rust core behind a C interface), which sends tracking data, statistics
and requests back. The fork adds network statistics and several bitrate
controllers (NestVR, BRAVR).

TLC checks the models on small instances; TLAPS proves most of their invariants
for every value of the constants. Paths below are relative to `src/alvr/`.

## 1. Inventory

| component | state | operations | talks to |
|---|---|---|---|
| stream socket `sockets/src/stream_socket.rs` | packet index per sender; packets being put together, used-buffer queues, `shard_recv_state`, shard counters, highest frame/shard; `last_packet_index` per receiver | `send`, `StreamSocket::recv`, `StreamReceiver::recv`, drop of `ReceiverData` | every stream: video, audio, tracking, haptics, statistics |
| control socket `sockets/src/control_socket.rs` | partly read message | `framed_send`, `framed_recv` | handshake, keepalive, requests |
| video path `server/src/connection.rs` (`send_video`, `video_send_thread`), `server/cpp/**/IDRScheduler.cpp`, `CEncoder.cpp`, `client_core/src/connection.rs`, `decoder.rs` | IDR schedule, `STREAM_CORRUPTED`, `VIDEO_CHANNEL_SENDER` and its queue, `stream_corrupted`, `DECODER_SINK` | encode, queue, send, receive, decode, `RequestIdr`, `InitializeDecoder` | stream socket, control socket |
| life of a server connection `server/src/connection.rs` (`handshake_loop`, `try_connect`), `server_io/src/lib.rs` (`update_client_list`), `server/src/web_server.rs` (`RemoveEntry`), `server/src/lib.rs` (`shutdown_driver`) | state of each client in the client list, `CLIENTS_TO_BE_REMOVED`, `LIFECYCLE_STATE`, one thread per connection | connect, stream, notice the end, join, update the list; remove a client; shut down | session, dashboard, SteamVR |
| threads of a connection `server/src/connection.rs` (`connection_pipeline`) | eleven threads, seven global locks, `VIDEO_CHANNEL_SENDER` | the iterations of each thread, the disconnection | everything on the server |
| swapchains of the Vulkan layer `vulkan_layer/wsi/swapchain_base.cpp`, `wsi/headless/swapchain.cpp`, `util/*` | status of each image, semaphore of free images, ring of pending images, ancestor and descendant, image in flight | create, acquire, present, flip pages, tear down | compositor, Linux encoder thread |
| encoder thread on Linux `server/cpp/platform/linux/CEncoder.cpp` | its one client, the packet read last | listen, accept, read the latest packet, render, encode, stop | Vulkan layer, over a Unix socket |
| direct mode on Windows `server/cpp/platform/win32/OvrDirectModeComponent.cpp`, `CEncoder.cpp`, `VideoEncoderNVENC.cpp`, `NvEncoder.cpp` | staging texture and its timestamp, two events, NvEncoder's ring of buffers | `Present`, `CopyTexture`, `NewFrameReady`, `Run`, `Transmit`, `StartStreaming`, `Stop` | compositor, IDR schedule, `send_video` |
| client connection `client_core/src/connection.rs` | `connection_state`, senders, event queue | lifecycle loop, `connection_pipeline` and its threads | client application |
| statistics `server/src/statistics.rs` | history of frames, shards per frame, highest frame/shard seen | `report_*` | encoder callbacks, control and statistics threads |
| bitrate manager `server/src/bitrate.rs` | packet sizes under way, averages, update flags | `report_*`, `get_encoder_params` | encoder callbacks, statistics |
| BRAVR `server/src/bravr_agent.rs`, `learning_env.rs` | network weights, n-step buffer | `select_action`, `update`, `finish_episode` | bitrate manager |
| session `server_io/src/lib.rs` | `session.json`, client list | `update_client_list`, `set_values`, ... | dashboard, connections |
| audio, tracking, haptics, web server, telemetry, dashboard, launcher, client front ends | | | see `PROJECT.json` |

What is hard here, and what each component has to get right:

- **Stream socket.** UDP loses, duplicates and reorders shards; indices wrap;
  buffers are few and recycled along four ways. Packets must be whole, in order,
  reported with the right gap; no buffer may be lost; counters must add up.
- **Video path.** A frame is only of use if the one before it arrived. Frames
  are dropped in four places (no client, full queue, network, no input buffer),
  each with its own way to get an IDR frame; parts of the state outlive the
  connection. No frame may be shown without its reference, and nobody may wait
  for an IDR frame that nobody sends.
- **Life of a connection.** A client can be connected to again while its last
  connection still ends, removed by the user at any time, and everybody waits for
  its state to become `Disconnected`. No state and no mark for removal may be left
  behind, an end must be noticed, the shut-down must return.
- **Threads of a connection.** A dozen threads nest locks, one of them an `RwLock`
  whose waiting writers stop new readers. Threads must not wait in a circle, and
  a connection that ends must end all of them.
- **Swapchains.** A swapchain is replaced while images of the old one wait, are
  flipped or are on screen, and is destroyed while its thread runs; a fence may
  fail. An image must be in one place, nobody may wait on what is gone, and the
  calls of the application must return.
- **Capture.** On Linux the encoder reads the image itself, on Windows a texture
  that the compositor writes: neither may see half of a frame, or a frame with the
  timestamp of another one.
- **Statistics, bitrate.** Reports of one frame come from both sides at
  different times, out of order or never. Shards lost must be shards sent minus
  received; a report about an unknown frame must not disturb the others.
- **Control socket.** A message is read over several calls that time out.

`PROJECT.json` lists each hazard at its line with the properties that watch it.

## 2. The modules

    PacketChannel          what sender and receiver of one stream promise
       ^ implements
    StreamSocket           senders, network, StreamSocket::recv, receivers
    StreamSocketChannel    the refinement mapping
    VideoStream            the video path over that channel, several connections

    Connection             the client list and who changes it, several connections
    ServerLocks            threads and locks of one connection, and how it ends

    Swapchain              swapchains of the Vulkan layer, application, page flips
       ^ extends
    LinuxCapture           with the encoder thread that reads the images
    DirectMode             compositor, encoder thread and NvEncoder on Windows
    Capture                the two builds of the driver in one specification

    MCStreamSocket, MCServerLocks      instances for TLC
    StreamSocketProofs, StreamSocketChannelProofs, VideoStreamProofs,
    ConnectionProofs, ServerLocksProofs,
    SwapchainProofs, DirectModeProofs, CaptureProofs

`VideoStream` is built on what `PacketChannel` says of the video stream (in
order, gaps reported except before the first packet), not on shards: that is
what the refinement is for. `Connection` has the connection from outside (its
state in the list), `ServerLocks` from inside (its locks).

### StreamSocket

`send` is `BeginSend`, one `SendShard` per shard (the writer's mutex is taken
per shard, so sends interleave), `EndSend`, or `FailSend` where `?` leaves the
loop. `StreamSocket::recv` is two steps, as it is over the two halves of a
timeout: `PeekShard` (statistics, choice of a buffer) and `StoreShard`,
`CompletePacket` or `ReadDiscarded`. `StreamReceiver::recv` is `DropOldPacket`
or `ReadPacket`.

- The `HashMap` of packets is a set: which packet loses its buffer is arbitrary.
- `sent`, `latest`, `arrivals` and `reported` record history for the properties;
  the program has no such state. A shard carries the number of the `send` that
  wrote it (`attempt`) in place of its payload.
- Sums on indices wrap, as they do in a release build (a debug build panics).
- Left out: bytes (prefixes written over the end of the shard before, `rx_bytes`,
  maximum sizes), the jitter and Kalman filters, streams without a subscriber.
- Each receive loop drops its `ReceiverData` before the next `recv`, hence `held`
  is 0 or 1.
- A shard stays at most `MaxLag` sends in the network and the queues: without
  it, a shard older than half the index range would be taken for a new one.

### VideoStream

`EncodeFrame` is an iteration of `CEncoder::Run` on Windows and `SendVideo` the
call of `send_video` it leads to. `conn` is on from `VIDEO_CHANNEL_SENDER = Some`
to `= None`; setting it, `InitializeStreaming` and the change of the state are one
step because `send_video` waits for `SERVER_DATA_MANAGER`, which the pipeline
holds all the while. `VideoReceive(k)` reads the k-th packet under way: those
before it are lost, which is all that `PacketChannel` allows. `gap` travels with
a frame and says that the frame encoded before it is not the packet before it;
`missing` gathers it at each stage. Neither is state of the program.

- The decoder is the Android client's: it needs an IDR frame after it was
  created and after a gap. It may refuse a frame (no input buffer).
- `RequestIdr` and `InitializeDecoder` are counted up to `MaxControl`: another
  one under way changes nothing that one does not.
- `avoid_video_glitching` is on in the runs (it is off by default): off, there
  is no promise about glitches.
- NVENC gets no IDR frame when the bitrate changes (the AMF and VAAPI encoders
  can ask for one), and the dashboard's button inserts one: both leave a stuck
  stream, neither is an answer to the client. They are left out.

### Connection

`hand` is `handshake_loop`, which connects to a client that announces itself
(`Announce`, `TryConnect`). `pipe[p]` is the thread `try_connect` spawns:
`connection_pipeline` sets the state `Connecting` and keeps the guard for writing
until it streams or returns early (`Begin`, `Leave`, `Stream`), `wait_rwlock` gives
the guard back, and, notified, `Disconnect` and `JoinThreads` follow; `LockRemovals` and
`UpdateList` are what `try_connect` does afterwards. `watch[p]` are the threads that
notify. `RequestRemoval` and `Mark` are `RemoveEntry`; `Shutdown` is
`shutdown_driver`.

- What a thread does under a lock while it waits for nothing else is one step. A
  guard that is held across another wait is a variable (`writer`, `marker`).
- `wait_rwlock` releases the lock before it waits on a condition variable whose
  mutex nobody else takes, without a predicate: with `SlowWait` other threads run in
  between, and a notification they send then is lost. `lost` records it.
- `keepalive` stands for `stream_receive_thread` too: both end without notifying
  when only the state tells them to, and both notify when the client is silent.
- `gone` (the client left, or is silent) is not state of the server.
- Clients are trusted (`auto_trust_clients`, or the user did it). What is negotiated
  in the handshake is left out; its failures are `Leave`.

### ServerLocks

A thread runs iterations; an iteration is a sequence of steps, each of which
waits for one lock and says which guards are held afterwards, in the order of
the source (temporaries in the head of an `if let` live to the end of its body,
in the condition of an `if` they do not). The `RwLock` is parking_lot's:
`take` the writer's bit, which stops new readers, then `wait_for_readers`.
The model covers the time from `wait_rwlock` in `connection_pipeline` to the end
of the thread that `try_connect` started. Data is left out except for what the
control depends on: `streaming`, `sender`, and which threads have `ended`.
Threads that never hold two locks (video_send, audio, keepalive, ...) are
represented by `video_send`. The notification of the pipeline is taken to
arrive: `Connection` is about the case that it does not.

A thread *blocks* another one if it has the lock the other one waits for, at the
head of an iteration (the loop condition reads the state of the client) or in it,
or if the other one joins it.

The lock orders of the code conflict, so whether the server gets stuck depends
on what happens in a connection. `Activities` names what may happen; the
constant `Scenarios` is a set of sets of them.

### Swapchain and LinuxCapture

`app` is the thread of the application in the entry points of the layer, `flip[c]` the
`page_flip_thread` of swapchain c. A call that waits is split where it waits:
`StartAcquire` and `Acquire`; `BeginTeardown`, `AwaitStart` or `DrainOne`,
`StopFlipping`, `Join`. `TakePending` begins an iteration of `page_flip_thread`,
which goes on with `FenceFails`, `ReleaseRetired`, `AwaitAncestor` and
`DrainAncestor`, `FirstFlip` or `LaterFlip`. Between two waits a thread changes
state that the other may read without a lock; the accesses themselves are atomic.

- The application keeps Vulkan's rules: one thread, images acquired from the
  newest swapchain only, only acquired images presented. It may wait without a
  time-out while at most `NumImages - MinImageCount` images are acquired; the surface
  announces `minImageCount = 1` (`surface_properties.cpp:55`), so that is as long as one
  image is not. It destroys swapchains in any order.
- Not modelled: calls of `acquire_next_image` with a time-out, and failures while a
  swapchain is created. A call that times out returns at `swapchain_base.cpp:338`
  with no state changed, one that gets a buffer in time is `Acquire`, and when all images are
  acquired, where Vulkan allows no other call, it can only time out.
- `LinuxCapture` adds the socket to the encoder. `Submit` is part of the step that
  takes an image, as in the code; a packet that does not fit is lost, as the
  socket is `SOCK_NONBLOCK` and the result of `write` is ignored. The encoder's `ReadPacket` and `ReadEnds` are
  `read_latest`. `latest` records history for `NewestNotDrawnInto`.

### DirectMode

`comp` is the compositor in `Present`, `thread` the thread of `CEncoder::Run`.
`newFrame` and `finished` are the events `m_newFrameReady` and `m_encodeFinished`,
`staging` the texture and `m_targetTimestampNs`: they are written in two steps, as
`CopyToStaging` does. `input`, `sent` and `got` are NvEncoder's ring. A frame is a number,
which stands for its timestamp and for what the texture shows.

### Capture

One behaviour of `Capture` is of one platform, chosen in `Init`: the two share no
state, and one run checks both.

## 3. Runs

| run | bounds | shows |
|---|---|---|
| `stream_socket` | 1 stream, 2 buffers, packets of 1 or 2 shards, 3 sends, 1 loss, 1 duplicate, 1 failed write | buffers conserved, packets whole, shards counted once, highest frame covers the packet, order, gaps |
| `stream_socket_wrap` | indices modulo 8, 10 packets, lag 2, 5 buffers, no loss | `StreamSocket` implements `PacketChannel` across the wrap-around; the newest packet is read |
| `stream_socket_highest` | as `_wrap` | **violation**, finding 1 |
| `video_stream` | queue of 1, 2 packets under way, 2 failures, 2 connections | no glitch, clients recover, the first client gets video |
| `video_stream_reconnect` | no failures, 2 connections | **violation**, finding 2 |
| `server_locks` | all 7 threads, 8 sets of activities | no circular wait, disconnection completes, the encoder gets on |
| `server_locks_disconnect` | frames and disconnect | **violation**, finding 3 |
| `server_locks_frame_rate` | statistics and frame rate | **violation**, finding 4 |
| `server_locks_playspace` | tracking, PlayspaceSync, disconnect | **violation**, finding 5 |
| `capture` | 2 swapchains of 3 images, 3 presents, fences of the first may fail, 1 packet in the socket; 2 buffers in NvEncoder, 4 frames | images in one place, acquired ones found, one waiter per semaphore, nobody waits on what is gone, the newest image and the staging texture are stable while they are read, labels lag by the ring, calls return |
| `connection` | 1 client, 2 connections, 1 request, notifications may be lost | no state and no mark left behind, the end of a client is noticed, the shut-down returns |
| `connection_shutdown` | 1 client, 1 connection, 2 requests | **violation**, finding 6 |

Why the bounds are enough.

- *Stream socket.* Two buffers and three sends are the least with which a buffer is
  taken from an unfinished packet, a shard is discarded, a packet completes after
  a later one, and the next packet reuses the index of a failed write. `KeepWindow`
  is 5 in the code; 1 in the runs lets `map_rx` forget a frame that is still under
  way. Ten packets modulo 8 pass both the wrap-around and the half of the range
  where a signed index turns negative. Streams meet only in the socket's order of
  shards; the proofs hold for any number of them.
- *Video.* Two connections are the least for state that outlives one; two failures
  let a request and its answer be hit each.
- *Locks.* The thread set is the code's.
- *Capture.* `send_fds` asserts three images. Two swapchains are one replacement, the
  case every link between swapchains is for; three presents let the old one have an
  image on screen and one that waits while the new one flips its first. While
  the encoder runs there is one swapchain (`EncodedChains`), as it accepts one client.
  `frameIntervalP` is 1 by default, where the label is right; 2 shows the lag. Four
  frames go twice round that ring. The theorems hold for any of these numbers.
- *Connection.* Two connections of one client let one begin while the other ends
  (the code connects to a client by its own entry only, so clients meet in the locks
  alone); one request is a removal or a shut-down at any point.

`CHECK_DEADLOCK FALSE` is set where a bound ends the run (`MaxPackets`,
`MaxPresents`, `MaxFrames`, `MaxConnections`) or the system may stop: a fence that
failed, an encoder that stopped, a lost notification. In the runs that show a
violation it is there because the run is about one property; a server that is
stuck for good is the violation itself.

What the properties leave out, because the code does not give it:
`AncestorFlippedFirst` an ancestor that never flipped or lost its device;
`AcquireReturns` and `TeardownEnds` failed fences, `TeardownEnds` also a newer
swapchain destroyed before the older one; `AcquireReturns` an application that waits
for the last image when that one is on screen (`WaitsForTheScreen`): the next present
would free it (`headless/swapchain.cpp:321`), so the wait, which Vulkan allows here, never
ends; `NewestNotDrawnInto` every image but the one
submitted last; `PresentReturns` an encoder that is being stopped; `DisconnectNoticed` and
`ShutdownReturns` a lost notification and the deadlock of finding 6; `GlitchFree` and
the order of packets failed writes. Each is a hazard in `PROJECT.json`.

**Fairness.** *StreamSocket*: threads that loop take their next step
(`WF` on the socket, on a send under way, on the receive loop, on the drop);
sending and losing are not fair. *VideoStream*: SteamVR presents frames, time
passes, threads loop; connecting, leaving and every failure are not fair.
*ServerLocks*: `SF` per thread, as parking_lot's locks hand over to a waiting
thread eventually and receive calls have timeouts (`STREAMING_RECV_TIMEOUT`);
nobody has to disconnect. *Capture*: a call of the application that is under way,
the page flip threads, the compositor and the encoder's thread on Windows go on, and
the GPU signals the fences that do not fail; which calls are made, and everything
the Linux encoder does, is free, so that what is shown does not rest on an encoder
that reads. *Connection*: every thread takes its next step, as a handshake ends by
its time-outs, a thread that looks at the list loops, and a shut-down that began
goes on; users, clients and the call of `shutdown_driver` are free.

## 4. Findings

1. **Highest frame index** (`stream_socket.rs:784`). A `u32` index is compared as
   `i32`; for the second half of the range the highest frame index does not move,
   although the comment at line 155 promises no more than a false packet loss.
2. **No video after a reconnection** (`server/src/connection.rs:1540`).
   `STREAM_CORRUPTED` is a static that is not set when a client connects; if it is
   left set and the IDR frame was encoded while nobody was connected, every frame
   is held back, and a client that gets none asks for none.
3. **Disconnection and a frame** (`:1543` and `:1487`): opposite lock orders.
4. **Frame rate and statistics** (`:1107` and `:1017`): opposite lock orders.
5. **Tracking and PlayspaceSync** (`:857` and `:1269`): opposite lock orders
   between two readers, with the writer of `custom_thread` between them.
6. **Removal of a client and the end of its connection**
   (`server/src/web_server.rs:118` and `server/src/connection.rs:347`): the first takes
   `SERVER_DATA_MANAGER` and then `CLIENTS_TO_BE_REMOVED`, the second the other
   way round. Both wait for good, and the shut-down with them.

## 5. Proofs

All of them rest on the `ASSUME`s of the modules alone (constants are natural
numbers, sets or booleans), except where one is named below.

**Stream socket** (`StreamSocketProofs`), for any streams, index range, buffers,
losses, duplicates and failed writes:

- `TypeCorrect`: `[]TypeOK`. Inductive with `SendingHasPacket`: the send in
  progress is the last one recorded.
- `BuffersConserved`: `[]BufferConservation`. Inductive with `ReadHasBuffer`: the
  shard being read belongs to a packet that still has its buffer (nothing takes a
  buffer between the two halves of `recv`), so completing it moves one buffer.
- `ShardsAreCountedOnce`: `[]ShardsCountedOnce`, with wrap-around, duplicates and
  failed writes. The counters of a queue are a recursive function of it
  (`CountsQueued`). That the function exists, and what a packet added at the end or
  taken from the front makes of it (`CountsAppend`, `CountsTail`), is proved by
  induction on the length of the queue; `SetInduction`, on a set in place of a
  predicate, comes from the least number principle (`SmallestOfSet`).

**The channel** (`StreamSocketChannelProofs`). An index that wraps can name two
sends, and `wrapping_cmp` orders only what is less than half the range apart. The
theorems therefore speak of the behaviours that stay `WithinReach`: the shard being
read is less than `IndexMod` sends (2^32 in the code) away from every shard in the
unfinished packets of its stream, and the first packet of a queue is at most
`(IndexMod - 1) \div 2` sends away from the last one read. Nothing in the
code enforces this: a stream all of whose packets lose a shard can keep the
shards of one of them for good, and a receiver may stop reading.

- `PacketsAreIntact`, `PacketsReadInOrder`, `SkippedIsExact`: the properties of
  the run, as long as `WithinReach` holds. The invariant `ChannelInv` says that while
  no write failed the send d positions after another has the index d further on,
  modulo `IndexMod`; that every shard anywhere is a shard of the send it names, so that
  within reach the shards of one index are shards of one send and as many different
  ones as it has are all of them; and that `last_packet_index` is the index of the last
  packet read. Within reach, ordering by distance is the order of the sends
  (`OrderWithinReach`).
- `SocketImplementsChannel`: with `MaxErrors = 0`, every such behaviour is one of
  `PacketChannel`. Each step maps to a send, a read or a stutter.
- `DeliveryWithoutWrap`, `SocketImplementsChannelWithoutWrap`: the same without the
  condition, if at most `(IndexMod - 1) \div 2` packets are sent (`NoWrap`; 2^31 - 1 packets
  in the code, 276 days of video at 90 frames a second): everything is within reach then.
  `WithinReach` also holds in every state of the instance of `stream_socket_wrap`, which
  does wrap.
- `HighestCovers`: `[]HighestCoversPacket`, under `NoWrap`, with failed writes too; finding 1
  is what happens without it. The invariant `CoverInv` says that a stream uses no more
  indices than it has sends, so that `as i32` keeps them, and that the highest frame
  covers the shard in the hands of `recv`, which was counted before, hence the packet
  that shard completes.

**Video path** (`VideoStreamProofs`), for any queue, network, failures and
connections: `VideoTypes`, and `NoGlitch`, which is `[]GlitchFree`. A frame *dangles* if
it refers to one that was dropped. The invariant `Unbroken` says that only the
first frame of a connection can (`OnlyFirstDangles`), that each place where a frame
can be dropped leaves a mark that makes the next ones wait for an IDR frame
(`DropIsMarked`), and that a decoder that got one is intact. The first frame is let
through because a receiver reports no gap before its first packet
(`LossIsReported`), and the decoder refuses it as it has no IDR frame yet.

**Connections** (`ConnectionProofs`), for any clients, connections and requests:
`TypeCorrect`, `MarksAreServed`, `StatesAreServed`. The two invariants are inductive
together with `GuardHeld`: the guard for writing is with the pipeline in its
handshake, or with the request that waits to mark a client. A connection cannot
end without that guard, so the one of the client to be marked still goes on
when the mark is made; the mark is taken back in the step that ends a connection
of that client, and that step needs the guard of the marks.

**Threads and locks** (`ServerLocksProofs`), for any set of `Scenarios`:

- `GuardsExclude`: `[]TypeOK`, which says that guards that exclude each other are
  never had by two threads and that none is left between two iterations, whatever
  activities meet. The steps of an iteration are data, so the invariant `OnPath` says
  of each thread that the rest of its iteration is a path: every step begins with
  the guards that the one before it keeps, and the last one keeps none.
- `NoDeadlock`: `[]NoCircularWait`, if no activities that conflict meet
  (`ConflictFree`). `Level` orders the locks: below `SERVER_DATA_MANAGER` those that
  are had while it is waited for, above it the others. The order depends on the
  activities of the connection: there is none for all of them. Each step of a path waits
  for a lock above all those its thread has. So the thread of a circle that waits for
  the highest lock is blocked by one that waits for a still higher one.
  `Conflicts` are the three pairs that findings 3 to 5 show a circle for,
  and `rolling`, where `send_video` reads `SERVER_DATA_MANAGER` twice: nothing else
  that may happen in a connection needs to be ruled out.

**Capture** (`SwapchainProofs`, `DirectModeProofs`, put together in `CaptureProofs`),
for any swapchains, images, buffers, frames and failing fences:

- `CaptureTypes`; `ImagesOwnedOnce` (`Owned`: for each image at most one of ring,
  hand of the flip thread and screen, and its status says which);
  `WaitsOnLiving` and `FreeBufferHasOneWaiter`. These two need `Links` (ancestor and
  descendant of a live swapchain are live and point back), `FlipAt` (a thread that
  waits for an ancestor has yet to flip, and the image in its hand is `PENDING`) and
  `AppAt` (a swapchain that is torn down has no descendant about to flip first).
  What keeps them is the test of `teardown`: a descendant with a `PENDING` image
  makes it wait for the descendant's first flip, which comes after the descendant has
  taken its ancestor's buffers.
- `StagingIsStable`, `FramesNotMixed`: `OneTurn` says that of `m_encodeFinished`, the
  compositor that copies, `m_newFrameReady` and the thread that encodes there is
  one at a time, wherever the encoder is handed over or stopped; `Labelled`
  relates the texture, its label and the last packet.
- `AcquireFinds`: the count of a swapchain's semaphore is never above the number of
  its `FREE` images (`Counted`), so whoever took one from the count finds one.
- `NewestIsNotDrawnInto`: the image submitted last is never `ACQUIRED`, and `FREE` only
  when a newer swapchain exists; while the page flip thread has an image in its hand, that is the
  one submitted last (`NewestKept`). Of older images the theorem says nothing: an
  encoder that is a packet behind may render from one the application draws into.
- `LabelsLag`: the ring of the encoder holds frames that follow each other, up to the
  one that went in last (`RingInv`); a packet comes out `NumBuffers - 1` frames later.
- `AncestorsFlipFirst`, the action property `AncestorFlippedFirst`. A swapchain waits
  for as many free buffers of its ancestor as that has images in use, less the one
  on screen. `Posted`: a buffer is free only for an image out of use. `Retiring`: once
  the descendant presents, images are queued to be retired, behind all that are to be
  flipped. So as long as one is to be flipped no retired image was counted in its
  place, and the ancestor has fewer free buffers than the first flip still
  waits for (`Awaiting`).
- An encoder or a socket changes nothing a swapchain has: every step of
  `LinuxCapture` is a step of `Swapchain` or leaves it alone (`LinuxIsSwap`).

Only model-checked: all liveness, which needs fairness and `ENABLED`, out of the
prover's reach.

## 6. Not modelled

`PROJECT.json` gives the reason per component.

- *Floating point*: statistics, bitrate manager, BRAVR and NestVR controllers,
  learning environment, poses, gestures, jitter and Kalman filters. Their control
  is a function of averages, thresholds and logarithms; a model that drops them
  has no decision left. Their locks are in `ServerLocks`, and the indices the
  statistics start from in `StreamSocket`.
- *One actor and bytes*: the control socket, which the other modules take for a FIFO
  channel without loss; audio, which fades samples; the client's statistics and
  event queue, each under one lock.
- *The client's life cycle*: a loop of one thread that connects again; what the end
  of a connection leaves behind on the client is in `VideoStream`.
- *I/O and interfaces*: dashboard, launcher, HTTP, telemetry, storage, rendering,
  hardware encoders.
- *Vendored code*: GLM, tinygltf, OpenVR, headers of the NVENC and AMF SDKs, most of
  the C++ in the repository.

Hazards that no property covers, and why:

- `server/cpp/platform/linux/CEncoder.cpp:241`: the Linux encoder loses a scheduled
  IDR frame when `GetEncoded` fails. `EncodeFrame` follows the Windows encoder.
- `server/src/connection.rs:1561`: with `rolling_video_files`, `send_video` reads
  `SERVER_DATA_MANAGER` twice at once. `SendVideo(TRUE)` models it, but no line of the
  repository says more than that it works.
- `server/src/connection.rs:769`: an error in the set-up of the microphone leaves the
  pipeline when threads run. `Connection` has no such return.
- `vulkan_layer/wsi/headless/swapchain.cpp:64`: a descriptor is closed while another
  thread may write to it; the model has the write fail.
- `server/cpp/platform/linux/CEncoder.cpp:177`: the encoder accepts one client; a
  swapchain that replaces it is never read. The model does the same; no line says
  that it should be.
- `server/cpp/platform/win32/OvrDirectModeComponent.cpp:283`: two threads in one
  Direct3D context.
- `server/src/statistics.rs:429`: shards lost, as sent minus received, can be negative.
  The statistics are not modelled, and `HighestCoversPacket` does not bound the difference.
- `sockets/src/control_socket.rs:42`: see above.

## 7. What is left

1. A control socket whose framing and resumed reads refine a FIFO channel.
2. The failures during the creation of a swapchain, and the AMF encoder's queue.
