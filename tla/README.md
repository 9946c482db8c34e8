# Verification of the Meshtastic BLE proxy firmware

TLA+ models of the proxy firmware (`src/*.c`), TLC runs over small instances and
TLAPS proofs for every instance. The firmware sits between one Meshtastic node
(serial line) and several phones (BLE): it fetches the node's configuration once,
replays it to each phone, and routes live traffic.

## The system

| Part | State | Operations | Talks to |
|---|---|---|---|
| `main.c` | position in the boot | `main`, `on_toradio_ble`, `on_fromradio_uart` | everything |
| `ble_gatt.c` | slot table `conns`, `active_conn_count`, per slot: phone state, nonce, replay cursor, terminator, FromRadio queue | connect, disconnect, FROMRADIO read, TORADIO and NODE_REG write, enqueue, broadcast, replay, park | BT stack, cache, `upstream_session` |
| `upstream_session.c` | `s_state`, `s_nonce`, `s_pending`, `s_serve_cb`, keepalive flags | start, frame of the fetch, park, serve, keepalive | cache, UART, `ble_gatt` (through a callback) |
| `config_cache.c` | log of frames, bytes used, ready flag, own `node_info` | begin, add, mark ready, segment filter | – |
| `router.c` | none | `router_dispatch` | session, `ble_gatt` |
| `uart_meshtastic.c` TX | `tx_msgq`, `tx_in_progress`, `tx_frame_buf`, `tx_work` | `uart_meshtastic_tx`, `tx_work_handler`, TX events | UART driver |
| `uart_meshtastic.c` RX | DMA buffers, ring buffer, byte machine | RX events, `rx_work_handler` | UART driver, `main.c` |
| `proto_handler.c`, `proxy_protocol.c` | scratch buffers | decode, encode | nanopb |

**Threads.** `main` is preemptible. GATT and connection callbacks run on the BT RX
work queue, frames, transmission and keepalive on the system work queue: both are
cooperative (`prj.conf`, `docs/architecture.md` §5), so a handler is not preempted by
the other's. The UART interrupt can hit anywhere. (Several file headers say that
everything runs on the system work queue; `main` and the BT callbacks do not.)

**What is hard.** Phones can connect and write as soon as advertising starts, while
`main` is still setting up the session; the cache is read without a lock; phones come
and go while parked, and the BT stack reuses `bt_conn` objects; a replay is spread
over dozens of reads with live traffic in between; the interrupt, the handler and
several senders share one flag and one buffer; received bytes pass through two DMA
buffers, a ring that may overflow and a machine without checksums; a read of one frame
takes several ATT requests; the keepalive's timer races the phones' packets; the node
may still be sending an earlier burst when the proxy restarts. `PROJECT.json` lists these hazards with the
line where each bites and the properties aimed at it.

**What makes each part correct.** Slots match links and are advertised when free; a
replay is exactly the segment of the phone's latest nonce; the cache is complete when
published and frozen afterwards; a parked phone is served; once the fetch has begun,
frames of the burst reach phones by replay only; a proxy packet reaches the phone that registered its id; an
accepted packet goes out once, in order; received frames come out whole, in order and
once, and the machine finds its way back after a gap; a long read is one frame; the node
is never left in silence for long, and its answers go to whom they are meant for; what a
phone builds is what the proxy reads.

## Modules

    FrameCache <- UpstreamSession <- BleGatt <- Router <- Proxy <- ProxyClaims <- MCProxy
                                      Proxy <- ProxyProofs <- ProxySlotProofs <- ProxyBurstProofs
    ConfigService (abstract)  is implemented by  Proxy, shown in ProxySlotProofs
    TxChannel   (abstract)  is implemented by  UartTx <- MCUartTx,     UartTx <- UartTxProofs
    RxLink      (abstract)  is implemented by  UartRx <- MCUartRx,     UartRx <- UartRxProofs
    FrameStream (abstract)  is implemented by  ReadPath <- MCReadPath, ReadPath <- ReadPathProofs
    Keepalive     <- MCKeepalive,      Keepalive     <- KeepaliveProofs
    ProxyProtocol <- MCProxyProtocol,  ProxyProtocol <- ProxyProtocolProofs

The first line is the system; every other module opens up a part that the first line
abstracts, and the abstract modules say what it abstracts it to.
An arrow reads "is extended by". Definitions keep the names of the C functions.

* **FrameCache** – what `config_cache` promises: a log of frames with two bounds, a
  publish flag, and the segment filter for the nonces 69420 and 69421. A frame is a
  record of what the proxy can tell apart: the payload variant, how the router
  classifies a packet, one number (node, nonce or destination) and its length.
* **UpstreamSession** – the session's state and the conditions of
  `upstream_on_fromradio` and `upstream_on_pending_phone`.
* **BleGatt** – the slot table. Functions of the code that change one slot are
  operators from slot to slot (`Armed`, `Parked`, `Enqueued`, `AfterRead`).
* **Router** – the slots a frame goes to.
* **Proxy** – the handlers, one action each, and around them the node, the serial
  line and the phones, modelled from how the firmware uses them. `boot` is the
  position of `main`; each statement of `upstream_session_start` that touches shared
  state is a step. `serve_pending_phones` is one step per phone, because
  `bt_gatt_notify` may wait for a buffer and let BT callbacks in; the work queue is
  busy during that loop. `phone[c]` records what the phone did and saw (subscription,
  whether it is draining, its last nonce, all nonces it sent on this connection, its
  registration, the frames of its replay); it is there for the environment and the properties and is never read by a
  firmware action.
* **ConfigService** – what the proxy promises its phones: one log, published once and fixed
  from then on, and for each phone a session (gone, idle, waiting, replaying, active). The
  answer to a nonce is the wanted frames of the log in order, then the terminator; phones
  that asked too early are owed an answer. `Sessions`, `PublishedLog` and `Owed` in `Proxy`
  map slots, cache and pending list to it. It also says what the code does not promise: a
  request with nonce 0 may be answered with any nonce that phones send, and an answer owed
  to a phone that left goes to the next one on its connection. `InOrder` selects by rank,
  not by recursion; an assumption of `MCProxy` compares it with `SelectSeq`.
* **ProxyClaims** – statements of comments and documents that the code does not keep.
* **UartTx** – the transmitter, split at every access to shared state, so that the
  interrupt and other senders come in between. `queued` and `dma` stand for the
  kernel's work item and the UART.
* **TxChannel** – what a sender may rely on: bounded, in order, one packet on the wire
  at a time, none twice; only the packet at the front may be dropped.
* **UartRx** – the receiver: one action per event of `uart_cb`, one operator per state of
  `rx_process_byte`, one action per byte that `rx_work_handler` takes out of the ring, so
  that the interrupt comes in anywhere. The driver's part (DMA, `ring_buf_put`, the
  restart) and the node are external. A byte carries its origin for the properties; the
  machine looks at its value only.
* **RxLink** – what `Proxy` assumes of the line: frames in order and once, all of them as
  long as nothing went wrong, at most one damaged frame per fault.
* **ReadPath** – `fromradio_read` over bytes, for one slot: the packed arena with its
  index, the circular queue with `head`, `tail` and `count`, the staging buffer, ATT reads
  at an offset, notifications that fail. Whether `cache_frame_in_segment` accepts a
  cached frame is a flag of the frame here.
* **FrameStream** – the same in whole frames, as `BleGatt` and `FrameCache` have it. The
  mapping (`Cached`, `Waiting`, `InHand`) reads the frames out of arena, queue and staging
  buffer.
* **Keepalive** – the delayable work item in discrete time: timer, expiry, handler,
  rescheduling by packets, the nonce with its width, the flag, and the node's answers with
  their addressees. `balance`, `misled` and `excuse` are there for the properties.
  `k_work_reschedule` restarts the timer but leaves an item that has expired on the work
  queue, as the kernel does.
* **ProxyProtocol** – header, identifiers and lookup over bytes. Memory past the caller's
  buffer is part of the state, and lengths wrap around as a `uint16_t` does.

## Runs

| Run | Shows |
|---|---|
| `core` | Two phones, five events of any kind, after the rest of an earlier burst: `SlotAccounting`, `AdvertisesWhileFree`, `ReplayDelivers` (what a phone reads is the segment of its nonce, in order, once, closed by its nonce), `CompleteEchoesRequest` (no older nonce leaks in), `PendingIsRemembered`, `ReadyCacheHoldsBurst` (only the session's own terminator publishes the cache, which then holds the whole burst), `TypeOK` with all capacities |
| `boot` | Phones and node act at every point of the boot, one frame may be lost, the cache is smaller than the burst, `tx_msgq` may be full when `main` needs it: `ReplayFromReadyCache`, `ImplementsService` (slots, cursors, pending list and cache implement `ConfigService`; a published cache never changes), `ConfigBroadcastOnlyInBoot` |
| `live` | `StoredNonceIsOwn` (a phone that asks with nonce 0 never gets a nonce that another phone left in its slot), `TargetedDelivery` (registrations of phones that left attract no packet), and under fairness `FetchEnds`, `PendingIsServed`, `ReplayCompletes` |
| `uart_tx` | `FlagIsOwnership`, `FrameBufStable`, `NoLostWakeup`, `ImplementsChannel`, `EveryPacketLeaves` |
| `uart_rx` | `PayloadInBounds`, `DmaBuffersDistinct`, `NoLostWakeup`, `NothingLeftLying`, `IntactFrameDelivered` (resynchronisation), `ImplementsRxLink` |
| `read_path` | `IdleOnlyIfUntold` (a failed notification is made good by the next), `ImplementsStream`, no write past an array |
| `keepalive` | `SilenceBounded`, `SwallowBudget`, `AnswersReachTheirOwner`, a nonce that is never 0 or 1 |
| `proxy_protocol` | `BuildStaysInside`, `HeaderIsWholePayload`, `BuiltIsUnderstood`, `ReachesAddressee` |

Every property has a mutant: an operator that breaks the code the way a plausible
slip would (a dropped guard, an off-by-one, a missing reset), with which TLC finds the
property violated.

### Where the code and its documents disagree

Each is a run that TLC ends with a counterexample.

* `boot_pending` – A phone connects and asks for config while `main` is between
  starting to advertise and `s_pending_count = 0`. It is parked, then the list is
  reset; it waits in PENDING until it asks again.
* `stale_pending` – A parked phone that disconnects stays in `s_pending`, which is
  therefore not bounded by the live connections. The next phone on its `bt_conn` object gets a replay it did not ask for,
  closed by nonce 0.
* `full_queue` – A packet queued during a replay is still there when the replay's closing
  read comes back empty and the phone stops reading (`ble_gatt.c:276`). If the queue
  filled during the replay, later packets are dropped before the notification, so that a
  phone that waits for FROMNUM never reads again. (A client that also drains after its
  own writes, as `docs/client-integration.md:146` advises, gets out of it with its next
  write.)
* `keepalive_theft` – The keepalive expires; before the work queue gets to it, a phone's
  packet is accepted and restarts the timer. The expired item still runs: the heartbeat
  leaves right behind the packet, and the queueStatus that answers the packet is
  swallowed in place of the heartbeat's, which is broadcast. Nothing has to be lost or
  late for that. `AnswersReachTheirOwner` says that without such a meeting, a loss or a
  late answer every queueStatus goes where it belongs.

Seen while modelling, without a run of its own:

* A node that answered `want_config` before `main` stores FETCHING would have the start
  of its burst broadcast and missing from the cache. `ConfigBroadcastOnlyInBoot` shows
  that this window is the only one.
* A want_config with nonce 0 is taken for "use the stored one": a phone that sends 5 and
  then 0 gets `config_complete_id = 5`, although `docs/client-integration.md:45-46` says
  that any nonce is echoed. `CompleteEchoesRequest` leaves nonce 0 out; `StoredNonceIsOwn`
  includes it: the stored nonce is one the same phone sent on this connection, or 0.
* When the rest of an earlier burst contains a `node_info`, the first one in the cache is
  not the node's own (`config_cache.c:99`), and ONLY_CONFIG replays the wrong one. The
  tail in `core` has none.
* `proxy_id_from_str` cuts at `PROXY_ID_SIZE`, its header comment (`proxy_protocol.h:93-94`)
  says one less. `ReachesAddressee` therefore speaks of shorter names only, about which
  both agree; the run sends to longer ones too.
  `proxy_id_to_str` prints sixteen bytes of an identifier of four. Neither has a caller
  in the firmware.
* When the stack refuses to advertise again after a disconnect (`ble_gatt.c:438`), nothing
  retries: no phone finds the proxy until another link ends. `AdvertisesWhileFree`
  excuses a refused start.
* While `serve_pending_phones` waits in `bt_gatt_notify`, a phone that is still on the list
  may ask again and be answered at once; its turn on the list then arms the replay anew,
  and the phone reads the burst from its start. `ConfigService` allows it (`Serve`).

### Bounds

`MaxConns = 2` slots (six in `prj.conf`) are enough for any pair of phones to interact,
and the code treats slots alike; `Conn` has two objects, as the BT stack's pool has as
many as there are slots, so that reuse happens after one disconnect. `QueueDepth = 1` and `TxDepth = 1` make full queues common.
Bursts have two or three frames: own and other `node_info` and one configuration
frame, so that every segment differs. `MaxInputs` bounds the events from phones, mesh
and timer (4 or 5: connect, subscribe, ask, be disturbed, ask again); reads,
registrations, main, node and disconnects are not counted. So the four of `live` are
enough for a phone that registers and leaves, a second that takes over its slot, a third
that registers the same identifier, and a packet for it; its nonces are 0 and one more.
The other `Proxy` runs have no identifiers. `MaxLoss` bounds lost frames. Because these
events run out, the runs switch deadlock checking off. Phones are interchangeable, so
the safety runs use symmetry. In `uart_tx` five packets go round a queue of two.

In `uart_rx` a byte has four values, two of them the magic ones, DMA buffers hold two
bytes and payloads up to the maximum: frames are split at every place, and payloads
contain each magic byte. They do not contain both in a row: the framing has no checksum,
so that a receiver that has lost a byte can take such a payload for a frame of its own.
That no frame is left behind is stated at rest (`NothingLeftLying`), which needs no
fairness. In `read_path` frames have one to three bytes and a response two, so that long
reads take one or two requests, and a frame may end exactly with a response; the queue
wraps around. In `keepalive` a tick is a third of a period, long against a transmission,
and nonces have two bits, so that the counter wraps; two losses are what
`SilenceBounded` needs to show that three periods (the node's fifteen minutes) are not
reached with fewer. In `proxy_protocol` identifiers have two bytes, lengths four bits,
bytes two values (zero and one, which is also the version); the code treats all other
values alike. Names and messages are constants of the module; the run takes all short
names, and messages of equal bytes.

`BootRaces = FALSE` (runs other than `boot*`) assumes that phones write and the node
answers only after `main` has finished its boot, which takes a few milliseconds; the
`boot*` runs drop this assumption and show what depends on it.

### Fairness

`Main`, the serve loop and the arrival of frames are weakly fair: they are code that
runs when it is ready. The node reads its serial port and sends. A phone that drains
goes on reading, as the protocol says; nothing else of the phones is fair. In `UartTx`
the handler, the senders between put and submit, and the end of a transfer (the driver
has a timeout) are weakly fair.

## Proofs

The proof modules hold for all constants that satisfy the named assumptions (capacities
are natural numbers, bursts are sequences of frames, `NoConn` is not a connection, the two
magic bytes differ, …): the number of phones, frames, bytes and events is arbitrary, and so
is `BootRaces` unless a theorem says otherwise. A theorem with a hypothesis about the
constants states it with `ASSUME`; the constants of the run that checks the same property
satisfy it.

**Proxy** (`ProxyProofs`)

* `TypeCorrect`: types and capacities. The state is split into cache,
  session, slots and environment, each with a lemma per group of actions; lemmas
  about the slot operators (`ArmedOK`, `AfterReadOK`, …) carry the slots. `CacheWriters`
  names the only steps that write the cache.
* `ReplayCorrect`: `ReplayFromReadyCache`. It is not inductive by itself: it needs that
  a replay is armed only when the cache is published. `Control` supplies it: the session
  is in BOOT exactly while `main` has not stored FETCHING, and the ready flag is set
  exactly in CACHE_READY and LIVE. The inductive invariant is
  `TypeOK /\ Control /\ ReplayFromReadyCache`.
* `FrozenCorrect`: `CacheFrozen` (not in a run of its own: `ImplementsService` has it for the
  frames of the log), from the same invariant: `cache_begin` runs in BOOT,
  frames are stored and the flag is set in FETCHING, and the flag is off in both.

**The slot table** (`ProxySlotProofs`). Every step but connect and disconnect changes a
slot by one of a few operators (`SlotOp`), none of which touches its connection; `EffectStep`
says which goes with what the phone did. Hypothesis of all: `FewSlots`, at most 255 slots, because
`active_conn_count` is a `uint8_t` (`prj.conf` has six).

* `SlotsCorrect`, `AdvertisingCorrect`: `SlotAccounting` and `AdvertisesWhileFree` are
  inductive together with `RoomWhileAdvertising`: `alloc_slot` finds a free slot for
  whoever connects, because the stack stops advertising when the last one is taken.
* `EchoCorrect`: `CompleteEchoesRequest`. `Echo` extends it from replays to every slot in
  use: a parked phone's stored nonce is its latest one, a slot that was freed has none.
* `OwnNonceCorrect`: `StoredNonceIsOwn`, nonce 0 included. `OwnNonces` extends it to every
  slot in use: the stored nonce is one of those its phone sent on this connection, or 0.
* `TargetedCorrect`: `TargetedDelivery`, from `Registered`: the id in a slot is the one
  its phone registered on this connection. A proxy packet without destination (id 0) is
  for everyone, and the property leaves it out.
* `RememberedCorrect`: `PendingIsRemembered`, for `~BootRaces` (the run `boot_pending` shows
  that it fails otherwise) and `PoolFits`, a pool of connection objects no larger than the
  table, which is how the stack is configured. `Parking`: the list has no duplicates. So
  even with entries of phones that left it never overflows, whose branch would leave a
  phone in PENDING unlisted.

* `ServiceCorrect`: `Proxy` implements `ConfigService`, with every race of the boot, loss and
  a cache of any size. The invariant `ServiceInv` has, next to what the theorems above
  use, `Deliveries` (what a phone has read since its replay was armed is the wanted frames
  that its cursor has passed, then the terminator if it was sent) and `OwnFirst` (the
  cache's own node is the first `node_info` of the log). Then each handler is a step of the
  service: `on_connected` is `Join`, `on_disconnected` `Leave`, a `want_config` is
  `AskPublished` or `AskEarly`, serving one pending phone is `Serve`, the terminator of the
  burst is `Publish`, the reset of the pending list is `Forget`; `fromradio_read` is `Read`
  when it returns a frame of the replay, `Finish` when it comes back empty at the end of
  it, and a stutter otherwise. The lemmas about `InOrder` (`Rank` counts up by one from
  position to position) do what an induction over the log would do.

**The burst** (`ProxyBurstProofs`). `NodeKeepsProtocol` is what the proxy takes for granted
of the node: config frames come only in bursts, a burst is closed once, and what is left of
an earlier burst is not closed by the nonce the session picks now.

* `BroadcastCorrect`: `ConfigBroadcastOnlyInBoot`, with every race of the boot. It needs
  `BurstLine`, an invariant of the two directions of the serial line: there is at most one
  `want_config` under way, it is the session's and not answered yet; a terminator that
  would close the fetch is the last config frame on the line; nothing of a burst follows
  once the cache is published.
* `CacheHoldsBurst`: `ReadyCacheHoldsBurst`, for `~BootRaces`, a line without loss and a
  cache that is large enough (`CacheSuffices`); with a loss or a smaller cache frames are
  missing, as the code intends. `Layout` places every frame of the earlier burst's rest
  and of the burst (`Line`): those before some position are stored in the cache or were
  dropped before FETCHING, those behind it are under way, in order, between packets.

* `DeliveryCorrect`: `ReplayDelivers`, from `Deliveries` and `CacheHoldsBurst`. It speaks of
  the node's own number where the code has "the first `node_info`"; both agree because the
  nodes of a burst differ and the rest of an earlier burst has none (`NodesKnown`), so that
  the frames promised are the frames wanted (`PromisedIsWanted`).

**Transmitter** (`UartTxProofs`)

* `TypeCorrect`, `FlagCorrect`, `BufferCorrect`, `WakeupCorrect` come from one
  inductive invariant, which adds to the four properties where the handler's local
  packet lives and that the buffer holds it from `Build` on.
* `Refinement`: `UartTx` implements `TxChannel`, where the packets that wait are the
  handler's own packet followed by the queue; `Start` is the transmission, `StartFails`
  the drop, and `Get` a stutter.

**Receiver** (`UartRxProofs`), for every size and every byte stream, payloads with the magic
pair in them included:

* `TypeCorrect`, `PayloadCorrect`: with the announced length as `uint16_t` from two bytes.
* `BuffersCorrect`, `WakeupCorrect`: the interrupt against the handler.
* `ResyncCorrect`: `IntactFrameDelivered`. `Tracks` says that while a frame comes in without
  a gap the machine is exactly where that frame's bytes put it.
* `OrderCorrect`: whole frames come out in order and once. Bytes carry where they come
  from; everything in ring, DMA buffers and machine comes from later in the stream than
  what was delivered.
* `AllDelivered`: `NothingLeftLying`. Without a fault the bytes delivered, in the machine, in
  the ring and in the buffers are together the stream of the frames sent (`Lossless`).

**Read path** (`ReadPathProofs`). The invariant has one part per memory: `Shape` (every
index entry lies inside the used part of the arena), `Ring` (`tail` is `count` places
behind `head`, and waiting packets are not empty), `Staging` (what a phone has of a packet
is the front of what is staged, all of it when it has met a short response). Lemmas say
what a `memcpy` does to the parts of an array (`CopiedOK`, `SamePart`, `JoinParts`).

* `TypeCorrect`, `ToldCorrect`: bounds, and `IdleOnlyIfUntold`, which is inductive with them.
* `StreamCorrect`: `ReadPath` implements `FrameStream`. A read at offset 0 takes a frame, one
  further on is a stutter; a frame added to the arena or put in the queue is appended to
  the sequence the mapping reads (`ShapeAppend`, `RingAppend`), also around the end of the
  circular queue.

**Keepalive** (`KeepaliveProofs`)

* `TypeCorrect`, `SilenceCorrect`, `BudgetCorrect`. `SilenceBounded` needs
  `TimerInv`: an armed item is scheduled or on the work queue, and while nothing waits to
  be sent the silence so far and the time until the item is due fit into the bound
  together. A tick is paid for by the timer; the handler always leaves something to send
  behind it, its heartbeat or what kept the queue full; each message then reaches the
  node or raises the bound. `SwallowBudget` is inductive with the types.
* `OwnerCorrect`: `AnswersReachTheirOwner`. Without an excuse at most one heartbeat or its
  answer is under way, only while the flag is set, and nothing but the end of the fetch
  comes before that answer.

**Proxy protocol** (`ProxyProtocolProofs`), for any sizes of identifier, buffer and length
type: `TypeCorrect`, `BuildCorrect` (the check on `content_len` comes before the sum that
could wrap), `ParseCorrect`, `RoundTripCorrect`, `AddresseeCorrect` (for
names shorter than an identifier). The invariant adds
where the bytes of a built header are in memory (`Sent`) and what was looked up (`Routed`).

**Only model-checked.**

* The liveness properties `FetchEnds`, `PendingIsServed`, `ReplayCompletes` and
  `EveryPacketLeaves`: the prover does not treat fairness.
* `ImplementsRxLink`: its bound of one damaged frame per fault holds for payloads without
  the two magic bytes in a row, as in the run. With them a receiver that lost a byte can
  take parts of several payloads for frames, so that there is no theorem for all byte
  streams; the rest of it is `OrderCorrect` and `AllDelivered`.

## Not modelled

LEDs, logging, the Phase 0 counters, route tracing and the LOGRADIO stub have no effect
on the proxy's state. nanopb, the BT stack, the kernel and the UART driver are
libraries. The host tools in `tools/meshtastic` are sequential scripts. FROMNUM's value,
which the phones do not compare, unsubscribing, `cache_get_queuestatus` (no caller) and
the two functions that print identifiers are left out. A packet written before
`uart_meshtastic_init` has set `uart_dev` would reach the driver with a null device; what
that does is the driver's affair.

Error paths without a case of their own: `on_connected` with an error (`ble_gatt.c:402`)
returns before it changes anything, and undirected advertising does not cause it; a failed
encoding in `upstream_session_start` and a failed `uart_meshtastic_init` leave the session
in BOOT, as the refused transmission does that `SendWantConfig` has; a heartbeat always
fits its buffer, so that its encoding does not fail.
