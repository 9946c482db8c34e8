----------------------------- MODULE ProxyProofs -----------------------------
(***************************************************************************)
(* Proofs about Proxy.                                                     *)
(***************************************************************************)
EXTENDS Proxy, WellFoundedInduction, TLAPS

--------------------------------------------------------------------------------
\* Choices of a least element.

\* Every non-empty set of naturals has a least element.
LEMMA LeastExists ==
  ASSUME NEW S \in SUBSET Nat, S # {}
  PROVE  \E i \in S : \A j \in S : i <= j
<1> DEFINE R == OpToRel(<, Nat)
<1>1. PICK i \in S : \A j \in S : ~(<<j, i>> \in R)
  <2>1. IsWellFoundedOn(R, Nat)
    BY NatLessThanWellFounded, Zenon
  <2> HIDE DEF R
  <2>2. QED
    BY <2>1, WFMin, Zenon
<1>2. \A j \in S : ~(j < i)
  BY <1>1 DEF OpToRel
<1>3. QED
  BY <1>2

\* Least picks it (fromradio_read's next frame of the segment).
LEMMA LeastIsIn ==
  ASSUME NEW S \in SUBSET Nat, S # {}
  PROVE  Least(S) \in S /\ \A j \in S : Least(S) <= j
  BY LeastExists, Zenon DEF Least

\* find_slot returns a slot of the connection when there is one.
LEMMA FindSlot ==
  ASSUME NEW c, Tracked(c)
  PROVE  find_slot(c) \in Slot /\ Holds(find_slot(c), c)
<1> DEFINE S == {s \in Slot : Holds(s, c)}
<1>1. S \in SUBSET Nat /\ S # {}
  BY PoolAssumption DEF Tracked, Slot
<1>2. PICK s \in S : \A t \in S : s <= t
  BY <1>1, LeastExists
<1>3. s \in Slot /\ Holds(s, c) /\ \A t \in Slot : t < s => ~Holds(t, c)
  BY <1>2, PoolAssumption DEF Slot
<1>4. QED
  BY <1>3, Zenon DEF find_slot

--------------------------------------------------------------------------------
\* The operators on one slot keep its type and the bound of its queue.

SlotOK(pc) == pc \in SlotRec /\ Len(pc.queue) <= QueueDepth

\* alloc_slot and free_slot reset a slot.
LEMMA ResetSlotOK ==
  ASSUME NEW pc, SlotOK(pc), NEW c \in Conn \cup {NoConn}
  PROVE  SlotOK(ResetSlot(pc, c))
<1>1. <<>> \in Seq(Frame) /\ Len(<<>>) <= QueueDepth
  BY SlotAssumption
<1>2. ResetSlot(pc, c) \in SlotRec
  BY <1>1 DEF SlotOK, SlotRec, ResetSlot, PhoneState
<1>3. ResetSlot(pc, c).queue = <<>>
  BY DEF SlotOK, SlotRec, ResetSlot
<1>4. QED
  BY <1>1, <1>2, <1>3 DEF SlotOK

\* A slot with another queue within the bound.
LEMMA NewQueueOK ==
  ASSUME NEW pc, SlotOK(pc), NEW q \in Seq(Frame), Len(q) <= QueueDepth
  PROVE  SlotOK([pc EXCEPT !.queue = q])
<1>1. [pc EXCEPT !.queue = q] \in SlotRec
  BY DEF SlotOK, SlotRec
<1>2. [pc EXCEPT !.queue = q].queue = q
  BY DEF SlotOK, SlotRec
<1>3. QED
  BY <1>1, <1>2 DEF SlotOK

\* ble_gatt_enqueue_fromradio appends only when there is room.
LEMMA EnqueuedOK ==
  ASSUME NEW pc, SlotOK(pc), NEW f \in Frame
  PROVE  SlotOK(Enqueued(pc, f))
<1>1. CASE HasRoom(pc)
  <2>1. Append(pc.queue, f) \in Seq(Frame) /\ Len(Append(pc.queue, f)) = Len(pc.queue) + 1
    BY DEF SlotOK, SlotRec
  <2>2. Enqueued(pc, f) = [pc EXCEPT !.queue = Append(pc.queue, f)]
    BY <1>1 DEF Enqueued
  <2>3. Len(pc.queue) + 1 <= QueueDepth
    BY <1>1, SlotAssumption DEF SlotOK, SlotRec, HasRoom
  <2>4. QED
    BY <2>1, <2>2, <2>3, NewQueueOK
<1>2. QED
  BY <1>1 DEF Enqueued

\* ble_gatt_replay_cached_burst arms a slot.
LEMMA ArmedOK ==
  ASSUME NEW pc, SlotOK(pc), NEW n \in Nat
  PROVE  SlotOK(Armed(pc, n))
  BY DEF SlotOK, SlotRec, Armed, PhoneState

\* ble_gatt_park_pending parks it.
LEMMA ParkedOK ==
  ASSUME NEW pc, SlotOK(pc), NEW n \in Nat
  PROVE  SlotOK(Parked(pc, n))
<1> DEFINE parked == [pc EXCEPT !.state = "PENDING", !.nonce = n]
<1>1. SlotOK(parked)
  BY DEF SlotOK, SlotRec, PhoneState
<1>2. QED
  BY <1>1, ArmedOK DEF Parked

\* fromradio_read moves the cursor or takes the head of the queue.
LEMMA AfterReadOK ==
  ASSUME NEW pc, SlotOK(pc), s_index \in Seq(Frame)
  PROVE  SlotOK(AfterRead(pc)) /\ ReadResult(pc) \in Seq(Frame)
<1>1. Len(s_index) \in Nat /\ pc.replay_cursor \in Nat /\ pc.cc \in Nat
  BY DEF SlotOK, SlotRec
<1>2. CASE pc.state = "REPLAYING" /\ Remaining(pc) # {}
  <2>1. Remaining(pc) \in SUBSET (1..Len(s_index))
    BY <1>1 DEF Remaining
  <2>2. Least(Remaining(pc)) \in 1..Len(s_index)
    BY <1>1, <1>2, <2>1, LeastIsIn
  <2>3. QED
    BY <1>1, <1>2, <2>2 DEF AfterRead, ReadResult, SlotOK, SlotRec
<1>3. CASE pc.state = "REPLAYING" /\ Remaining(pc) = {}
  <2>1. ConfigComplete(pc.cc) \in Frame
    BY <1>1 DEF ConfigComplete, Frame, Variant, Route
  <2>2. ReadResult(pc) \in Seq(Frame)
    BY <1>3, <2>1 DEF ReadResult
  <2>3. SlotOK(AfterRead(pc))
    BY <1>1, <1>3 DEF AfterRead, SlotOK, SlotRec, PhoneState
  <2>4. QED
    BY <2>2, <2>3
<1>4. CASE pc.state # "REPLAYING" /\ pc.queue # <<>>
  <2>1. /\ Head(pc.queue) \in Frame /\ Tail(pc.queue) \in Seq(Frame)
        /\ Len(Tail(pc.queue)) <= QueueDepth
    BY <1>4, SlotAssumption DEF SlotOK, SlotRec
  <2>2. ReadResult(pc) \in Seq(Frame)
    BY <1>4, <2>1 DEF ReadResult
  <2>3. AfterRead(pc) = [pc EXCEPT !.queue = Tail(pc.queue)]
    BY <1>4 DEF AfterRead
  <2>4. QED
    BY <2>1, <2>2, <2>3, NewQueueOK
<1>5. CASE pc.state # "REPLAYING" /\ pc.queue = <<>>
  BY <1>5 DEF AfterRead, ReadResult
<1>6. QED
  BY <1>2, <1>3, <1>4, <1>5

--------------------------------------------------------------------------------
\* Who writes what: the steps that change the cache, and the frames that arrive.

\* The frame of an arrival is a FromRadio message.
LEMMA ArrivalIsFrame ==
  ASSUME TypeOK, NodeFrameArrives \/ LiveFrameArrives
  PROVE  \E f \in Frame : on_fromradio_uart(f)
<1>1. CASE NodeFrameArrives
  <2>1. Head(node_out) \in Frame
    BY <1>1 DEF NodeFrameArrives, TypeOK
  <2>2. QED
    BY <1>1, <2>1 DEF NodeFrameArrives
<1>2. CASE LiveFrameArrives
  BY <1>2, ProxyAssumption DEF LiveFrameArrives
<1>3. QED
  BY <1>1, <1>2

\* The cache is written by main's cache_begin and by the frames of the fetch, and by
\* nothing else.
LEMMA CacheWriters ==
  ASSUME TypeOK, [Next]_vars
  PROVE  \/ UNCHANGED cacheVars
         \/ BeginCache
         \/ \E f \in Frame : CacheFrame(f) \/ CloseBurst(f)
<1>1. CASE Main
  BY <1>1 DEF Main, SetServeCb, ResetPending, SendWantConfig, StartFetching, ArmKeepalive
<1>2. ASSUME NEW c \in Conn, PhoneStep(c) PROVE UNCHANGED cacheVars
  BY <1>2 DEF PhoneStep, on_connected, on_disconnected, fromnum_ccc_changed, WantConfigReplay,
    WantConfigPark, Heartbeat, Forward, node_reg_write, fromradio_read
<1>3. CASE WorkQueue
  BY <1>3 DEF WorkQueue, ServeOnePending, GoLive, keepalive_work_handler
<1>4. CASE NodeConsumes \/ FrameLost
  BY <1>4 DEF NodeConsumes, FrameLost
<1>5. CASE NodeFrameArrives \/ LiveFrameArrives
  <2>1. PICK f \in Frame : on_fromradio_uart(f)
    BY <1>5, ArrivalIsFrame
  <2>2. QED
    BY <2>1 DEF on_fromradio_uart, BroadcastRaw, SwallowQueueStatus, RouteFrame
<1>6. CASE UNCHANGED vars
  BY <1>6 DEF vars
<1>7. QED
  BY <1>1, <1>2, <1>3, <1>4, <1>5, <1>6 DEF Next, Node

--------------------------------------------------------------------------------
\* TypeOK, part by part.

CacheOK == CacheTypeOK /\ Len(s_index) <= MaxFrames /\ s_used <= ArenaBytes

\* cache_add_frame checks both bounds before it stores a frame.
LEMMA AddFrameOK ==
  ASSUME CacheOK, NEW f \in Frame, cache_add_frame(f)
  PROVE  CacheOK'
<1>1. CASE CacheFits(f)
  <2>1. /\ Append(s_index, f) \in Seq(Frame)
        /\ Len(Append(s_index, f)) = Len(s_index) + 1
        /\ Len(s_index) \in Nat /\ f.len \in Nat
    BY DEF CacheOK, CacheTypeOK, Frame
  <2>2. s_index' \in Seq(Frame) /\ Len(s_index') <= MaxFrames
    BY <1>1, <2>1, CacheBoundsAssumption DEF cache_add_frame, CacheFits
  <2>3. s_used' \in Nat /\ s_used' <= ArenaBytes
    BY <1>1, <2>1, CacheBoundsAssumption DEF cache_add_frame, CacheFits, CacheOK, CacheTypeOK
  <2>4. s_own_nodeinfo_idx' \in Nat
    BY <1>1, <2>1 DEF cache_add_frame, CacheOK, CacheTypeOK
  <2>5. s_ready' \in BOOLEAN
    BY <1>1, Zenon DEF cache_add_frame, CacheOK, CacheTypeOK
  <2>6. QED
    BY <2>2, <2>3, <2>4, <2>5 DEF CacheOK, CacheTypeOK
<1>2. CASE ~CacheFits(f)
  BY <1>2 DEF cache_add_frame, cacheVars, CacheOK, CacheTypeOK
<1>3. QED
  BY <1>1, <1>2

\* The cache keeps its type and its bounds.
LEMMA CacheTypeStep == ASSUME TypeOK, [Next]_vars PROVE CacheOK'
<1>0. CacheOK
  BY DEF TypeOK, CacheOK
<1>1. CASE UNCHANGED cacheVars
  BY <1>0, <1>1 DEF cacheVars, CacheOK, CacheTypeOK
<1>2. CASE BeginCache
  <2>1. s_ready' = FALSE /\ s_index' = <<>> /\ s_used' = 0 /\ s_own_nodeinfo_idx' = 0
    BY <1>2, Zenon DEF BeginCache, cache_begin
  <2>2. s_ready' \in BOOLEAN
    BY <2>1, Zenon
  <2>3. QED
    BY <2>1, <2>2, CacheBoundsAssumption DEF CacheOK, CacheTypeOK
<1>3. ASSUME NEW f \in Frame, CacheFrame(f) PROVE CacheOK'
  BY <1>0, <1>3, AddFrameOK DEF CacheFrame
<1>4. ASSUME NEW f \in Frame, CloseBurst(f) PROVE CacheOK'
  <2>1. UNCHANGED <<s_index, s_used, s_own_nodeinfo_idx>>
    BY <1>4 DEF CloseBurst, cache_mark_ready
  <2>2. s_ready' \in BOOLEAN
    BY <1>4, Zenon DEF CloseBurst, cache_mark_ready
  <2>3. QED
    BY <1>0, <2>1, <2>2 DEF CacheOK, CacheTypeOK
<1>5. QED
  BY <1>1, <1>2, <1>3, <1>4, CacheWriters

SlotsOK == conns \in [Slot -> SlotRec] /\ \A s \in Slot : SlotOK(conns[s])

\* A table of well-formed slots is one, however it was built.
LEMMA SlotsOKRule ==
  ASSUME NEW T, conns' = T, T = [s \in Slot |-> T[s]], \A s \in Slot : SlotOK(T[s])
  PROVE  SlotsOK'
  BY DEF SlotsOK, SlotOK

\* ble_gatt_enqueue_fromradio, for any set of slots.
LEMMA EnqueueSlots ==
  ASSUME SlotsOK, NEW S, NEW f \in Frame, Enqueue(S, f)
  PROVE  SlotsOK'
<1>1. \A s \in Slot : SlotOK(ble_gatt_enqueue_fromradio(S, f)[s])
  BY EnqueuedOK DEF SlotsOK, ble_gatt_enqueue_fromradio
<1>2. QED
  BY <1>1, SlotsOKRule DEF Enqueue, ble_gatt_enqueue_fromradio

\* ble_gatt_replay_cached_burst, for any connection.
LEMMA ReplaySlots ==
  ASSUME SlotsOK, NEW c, NEW n \in Nat, conns' = ble_gatt_replay_cached_burst(c, n)
  PROVE  SlotsOK'
<1>1. \A s \in Slot : SlotOK(ble_gatt_replay_cached_burst(c, n)[s])
  BY ArmedOK DEF SlotsOK, ble_gatt_replay_cached_burst
<1>2. QED
  BY <1>1, SlotsOKRule DEF ble_gatt_replay_cached_burst

\* The operations of the phone on c keep every slot well formed.
LEMMA PhoneSlots ==
  ASSUME TypeOK, SlotsOK, NEW c \in Conn, PhoneStep(c)
  PROVE  SlotsOK'
<1>1. CASE on_connected(c)
  <2>1. \A s \in Slot : SlotOK(alloc_slot(c)[s])
    BY ResetSlotOK DEF SlotsOK, alloc_slot
  <2>2. conns' = alloc_slot(c) \/ conns' = conns
    BY <1>1 DEF on_connected
  <2>3. QED
    BY <2>1, <2>2, SlotsOKRule DEF alloc_slot, SlotsOK
<1>2. CASE on_disconnected(c)
  <2>1. \A s \in Slot : SlotOK(free_slot(c)[s])
    BY ResetSlotOK DEF SlotsOK, free_slot
  <2>2. conns' = free_slot(c) \/ conns' = conns
    BY <1>2 DEF on_disconnected
  <2>3. QED
    BY <2>1, <2>2, SlotsOKRule DEF free_slot, SlotsOK
<1>3. CASE fromnum_ccc_changed(c)
  BY <1>3 DEF fromnum_ccc_changed, gattVars, SlotsOK
<1>4. ASSUME NEW n \in Nonce, WantConfigReplay(c, n) PROVE SlotsOK'
  BY <1>4, ReplaySlots, SlotAssumption DEF WantConfigReplay
<1>5. ASSUME NEW n \in Nonce, WantConfigPark(c, n) PROVE SlotsOK'
  <2>1. \A s \in Slot : SlotOK(ble_gatt_park_pending(c, n)[s])
    BY ParkedOK, SlotAssumption DEF SlotsOK, ble_gatt_park_pending
  <2>2. QED
    BY <1>5, <2>1, SlotsOKRule DEF WantConfigPark, ble_gatt_park_pending
<1>6. CASE Heartbeat(c)
  <2>1. QueueStatus \in Frame
    BY DEF QueueStatus, Frame, Variant, Route
  <2>2. QED
    BY <1>6, <2>1, EnqueueSlots DEF Heartbeat
<1>7. ASSUME NEW kind, Forward(c, kind) PROVE SlotsOK'
  BY <1>7 DEF Forward, gattVars, SlotsOK
<1>8. ASSUME NEW id \in ProxyId, node_reg_write(c, id) PROVE SlotsOK'
  <2>1. \A s \in Slot : SlotOK([conns[s] EXCEPT !.proxy_id = id])
    BY SlotAssumption DEF SlotsOK, SlotOK, SlotRec
  <2>2. \A s \in Slot : SlotOK(ble_gatt_register_proxy_id(c, id)[s])
    BY <2>1 DEF SlotsOK, ble_gatt_register_proxy_id
  <2>3. QED
    BY <1>8, <2>2, SlotsOKRule DEF node_reg_write, ble_gatt_register_proxy_id
<1>9. CASE fromradio_read(c)
  <2> DEFINE pc == conns[find_slot(c)]
             T  == [s \in Slot |-> IF s = find_slot(c) THEN AfterRead(pc) ELSE conns[s]]
  <2>1. SlotOK(pc)
    BY <1>9, FindSlot DEF fromradio_read, SlotsOK
  <2>2. SlotOK(AfterRead(pc))
    BY <2>1, AfterReadOK DEF TypeOK, CacheTypeOK
  <2>3. \A s \in Slot : SlotOK(T[s])
    BY <2>2 DEF SlotsOK
  <2>4. conns' = T
    BY <1>9 DEF fromradio_read
  <2>5. QED
    BY <2>3, <2>4, SlotsOKRule
<1>10. QED
  BY <1>1, <1>2, <1>3, <1>4, <1>5, <1>6, <1>7, <1>8, <1>9 DEF PhoneStep

\* Every slot stays well formed over every step.
LEMMA SlotsStep == ASSUME TypeOK, [Next]_vars PROVE SlotsOK'
<1>0. SlotsOK
  BY DEF TypeOK, GattTypeOK, SlotsOK, SlotOK
<1>1. CASE Main
  BY <1>0, <1>1 DEF Main, SetServeCb, BeginCache, ResetPending, SendWantConfig, StartFetching,
    ArmKeepalive, gattVars, SlotsOK
<1>2. ASSUME NEW c \in Conn, PhoneStep(c) PROVE SlotsOK'
  BY <1>0, <1>2, PhoneSlots
<1>3. CASE ServeOnePending
  BY <1>0, <1>3, ReplaySlots DEF ServeOnePending, SlotsOK
<1>4. CASE GoLive \/ keepalive_work_handler \/ NodeConsumes \/ FrameLost \/ UNCHANGED vars
  BY <1>0, <1>4 DEF GoLive, keepalive_work_handler, NodeConsumes, FrameLost, vars, gattVars,
    SlotsOK
<1>5. CASE NodeFrameArrives \/ LiveFrameArrives
  <2>1. PICK f \in Frame : on_fromradio_uart(f)
    BY <1>5, ArrivalIsFrame
  <2>2. CASE BroadcastRaw(f) \/ RouteFrame(f)
    BY <1>0, <2>2, EnqueueSlots DEF BroadcastRaw, RouteFrame
  <2>3. CASE CloseBurst(f) \/ CacheFrame(f) \/ SwallowQueueStatus(f)
    BY <1>0, <2>3 DEF CloseBurst, CacheFrame, SwallowQueueStatus, SlotsOK
  <2>4. QED
    BY <2>1, <2>2, <2>3 DEF on_fromradio_uart
<1>6. QED
  BY <1>1, <1>2, <1>3, <1>4, <1>5 DEF Next, WorkQueue, Node

SessionOK == UpstreamTypeOK /\ Len(s_pending) <= MaxConns

\* upstream_on_pending_phone checks the bound of the list.
LEMMA QueuedOK ==
  ASSUME SessionOK, NEW c \in Conn
  PROVE  Queued(c) \in Seq(Conn) /\ Len(Queued(c)) <= MaxConns
  BY PoolAssumption DEF SessionOK, UpstreamTypeOK, Queued

\* The session keeps its type and the bound of the pending list.
LEMMA SessionStep == ASSUME TypeOK, [Next]_vars PROVE SessionOK'
<1>0. SessionOK
  BY DEF TypeOK, SessionOK
<1>1. s_pending' \in Seq(Conn) /\ Len(s_pending') <= MaxConns
  <2>1. CASE ResetPending
    BY <2>1, PoolAssumption DEF ResetPending
  <2>2. ASSUME NEW c \in Conn, NEW n, WantConfigPark(c, n)
        PROVE  s_pending' \in Seq(Conn) /\ Len(s_pending') <= MaxConns
    BY <1>0, <2>2, QueuedOK DEF WantConfigPark
  <2>3. CASE ServeOnePending
    BY <1>0, <2>3, PoolAssumption DEF ServeOnePending, SessionOK, UpstreamTypeOK
  <2>4. CASE UNCHANGED s_pending
    BY <1>0, <2>4 DEF SessionOK, UpstreamTypeOK
  <2>5. ASSUME NEW c \in Conn, PhoneStep(c)
        PROVE  UNCHANGED s_pending \/ \E n \in Nonce : WantConfigPark(c, n)
    BY <2>5 DEF PhoneStep, on_connected, on_disconnected, fromnum_ccc_changed,
      WantConfigReplay, Heartbeat, Forward, node_reg_write, fromradio_read, upstreamVars
  <2>6. ASSUME NEW f, on_fromradio_uart(f) PROVE UNCHANGED s_pending
    BY <2>6 DEF on_fromradio_uart, BroadcastRaw, CloseBurst, CacheFrame, SwallowQueueStatus,
      RouteFrame, upstreamVars
  <2>7. ResetPending \/ ServeOnePending \/ UNCHANGED s_pending
        \/ \E c \in Conn : \E n \in Nonce : WantConfigPark(c, n)
    BY <2>5, <2>6 DEF Next, Main, SetServeCb, BeginCache, SendWantConfig, StartFetching,
      ArmKeepalive, WorkQueue, GoLive, keepalive_work_handler, Node, NodeConsumes,
      NodeFrameArrives, LiveFrameArrives, FrameLost, upstreamVars, vars
  <2>8. QED
    BY <2>1, <2>2, <2>3, <2>4, <2>7
<1>2. ASSUME NEW f, on_fromradio_uart(f)
      PROVE  /\ s_state' \in UpstreamState
             /\ UNCHANGED <<s_nonce, s_serve_cb, s_keepalive_armed>>
             /\ s_keepalive_pending' \in BOOLEAN
  <2>1. s_state' \in UpstreamState /\ UNCHANGED <<s_nonce, s_serve_cb, s_keepalive_armed>>
    BY <1>0, <1>2 DEF on_fromradio_uart, BroadcastRaw, CloseBurst, CacheFrame,
      SwallowQueueStatus, RouteFrame, upstreamVars, SessionOK, UpstreamTypeOK, UpstreamState
  <2>2. s_keepalive_pending' = s_keepalive_pending \/ s_keepalive_pending' = FALSE
    BY <1>2 DEF on_fromradio_uart, BroadcastRaw, CloseBurst, CacheFrame,
      SwallowQueueStatus, RouteFrame, upstreamVars
  <2>3. QED
    BY <1>0, <2>1, <2>2, Zenon DEF SessionOK, UpstreamTypeOK
<1>3. ASSUME NEW c \in Conn, PhoneStep(c)
      PROVE  UNCHANGED <<s_state, s_nonce, s_serve_cb, s_keepalive_pending, s_keepalive_armed>>
  BY <1>3 DEF PhoneStep, on_connected, on_disconnected, fromnum_ccc_changed,
    WantConfigReplay, WantConfigPark, Heartbeat, Forward, node_reg_write, fromradio_read,
    upstreamVars
<1>4. s_nonce' \in Nat
  <2>1. CASE BeginCache
    BY <2>1, ProxyAssumption DEF BeginCache, PickNonce
  <2>2. BeginCache \/ UNCHANGED s_nonce
    BY <1>2, <1>3 DEF Next, Main, SetServeCb, ResetPending, SendWantConfig, StartFetching,
      ArmKeepalive, WorkQueue, ServeOnePending, GoLive, keepalive_work_handler, Node,
      NodeConsumes, NodeFrameArrives, LiveFrameArrives, FrameLost, upstreamVars, vars
  <2>3. QED
    BY <1>0, <2>1, <2>2 DEF SessionOK, UpstreamTypeOK
<1>5. s_state' \in UpstreamState
  BY <1>0, <1>2, <1>3 DEF Next, Main, SetServeCb, BeginCache, ResetPending, SendWantConfig,
    StartFetching, ArmKeepalive, WorkQueue, ServeOnePending, GoLive, keepalive_work_handler,
    Node, NodeConsumes, NodeFrameArrives, LiveFrameArrives, FrameLost, upstreamVars, vars,
    SessionOK, UpstreamTypeOK, UpstreamState
<1>6. /\ s_serve_cb' = TRUE \/ UNCHANGED s_serve_cb
      /\ s_keepalive_armed' = TRUE \/ UNCHANGED s_keepalive_armed
      /\ s_keepalive_pending' \in BOOLEAN \/ UNCHANGED s_keepalive_pending
  <2>1. TxFits \in BOOLEAN
    BY DEF TxFits
  <2>2. QED
    BY <1>2, <1>3, <2>1, Zenon DEF Next, Main, SetServeCb, BeginCache, ResetPending,
      SendWantConfig, StartFetching, ArmKeepalive, WorkQueue, ServeOnePending, GoLive,
      keepalive_work_handler, Node, NodeConsumes, NodeFrameArrives, LiveFrameArrives,
      FrameLost, upstreamVars, vars
<1>7. s_serve_cb' \in BOOLEAN /\ s_keepalive_armed' \in BOOLEAN /\ s_keepalive_pending' \in BOOLEAN
  BY <1>0, <1>6, Zenon DEF SessionOK, UpstreamTypeOK
<1>8. QED
  BY <1>1, <1>4, <1>5, <1>7 DEF SessionOK, UpstreamTypeOK

\* A notification changes nothing but whether the phone drains.
LEMMA NotifiedOK ==
  ASSUME phone \in [Conn -> Phone], NEW N
  PROVE  Notified(N) \in [Conn -> Phone]
<1>1. ASSUME NEW c \in Conn
      PROVE  [phone[c] EXCEPT !.draining = @ \/ (c \in N /\ phone[c].sub)] \in Phone
  BY <1>1 DEF Phone
<1>2. QED
  BY <1>1 DEF Notified

\* Arming a replay clears what the phone read.
LEMMA KickedOK ==
  ASSUME phone \in [Conn -> Phone], NEW c \in Conn
  PROVE  Kicked(c) \in [Conn -> Phone]
<1>1. Notified({c}) \in [Conn -> Phone]
  BY NotifiedOK
<1>2. [Notified({c}) EXCEPT ![c].rx = <<>>] \in [Conn -> Phone]
  <2>1. ASSUME NEW P \in [Conn -> Phone] PROVE [P EXCEPT ![c].rx = <<>>] \in [Conn -> Phone]
    <3>1. <<>> \in Seq(Frame)
      OBVIOUS
    <3>2. [P[c] EXCEPT !.rx = <<>>] \in Phone
      BY <3>1 DEF Phone
    <3>3. QED
      BY <3>2
  <2>2. QED
    BY <1>1, <2>1
<1>3. QED
  BY <1>2 DEF Kicked

\* The phone's view keeps its type over its own operations.
LEMMA PhoneOpsOK ==
  ASSUME TypeOK, NEW c \in Conn, PhoneStep(c)
  PROVE  phone' \in [Conn -> Phone]
<1>0. phone \in [Conn -> Phone]
  BY DEF TypeOK
<1>1. CASE on_connected(c) \/ on_disconnected(c)
  <2>1. NewPhone \in Phone
    BY DEF NewPhone, Phone
  <2>2. QED
    BY <1>0, <1>1, <2>1 DEF on_connected, on_disconnected
<1>2. CASE fromnum_ccc_changed(c)
  <2>1. phone' = [phone EXCEPT ![c] = [phone[c] EXCEPT !.sub = TRUE]]
    BY <1>2, Zenon DEF fromnum_ccc_changed
  <2>2. [phone[c] EXCEPT !.sub = TRUE] \in Phone
    BY <1>0 DEF Phone
  <2>3. QED
    BY <1>0, <2>1, <2>2
<1>3. ASSUME NEW n \in Nonce, WantConfigReplay(c, n) PROVE phone' \in [Conn -> Phone]
  <2>1. n \in Nat
    BY SlotAssumption
  <2>2. Kicked(c) \in [Conn -> Phone]
    BY <1>0, KickedOK
  <2>3. phone' = [Kicked(c) EXCEPT ![c].want = {n}, ![c].asked = @ \cup {n}]
    BY <1>3 DEF WantConfigReplay
  <2>4. QED
    BY <2>1, <2>2, <2>3 DEF Phone
<1>4. ASSUME NEW n \in Nonce, WantConfigPark(c, n) PROVE phone' \in [Conn -> Phone]
  <2>1. n \in Nat
    BY SlotAssumption
  <2> DEFINE P == IF s_ready THEN Kicked(c) ELSE phone
  <2>2. P \in [Conn -> Phone]
    BY <1>0, KickedOK
  <2>3. phone' = [P EXCEPT ![c].want = {n}, ![c].asked = @ \cup {n}]
    BY <1>4 DEF WantConfigPark
  <2> HIDE DEF P
  <2>4. QED
    BY <2>1, <2>2, <2>3 DEF Phone
<1>5. CASE Heartbeat(c)
  BY <1>0, <1>5, NotifiedOK DEF Heartbeat, Enqueue
<1>6. ASSUME NEW kind, Forward(c, kind) PROVE phone' \in [Conn -> Phone]
  BY <1>0, <1>6 DEF Forward
<1>7. ASSUME NEW id \in ProxyId, node_reg_write(c, id) PROVE phone' \in [Conn -> Phone]
  BY <1>0, <1>7, SlotAssumption DEF node_reg_write, Phone
<1>8. CASE fromradio_read(c)
  <2> DEFINE pc == conns[find_slot(c)]
             r  == ReadResult(pc)
  <2>1. SlotOK(pc)
    BY <1>8, FindSlot DEF fromradio_read, TypeOK, GattTypeOK, SlotOK
  <2>2. r \in Seq(Frame)
    BY <2>1, AfterReadOK DEF TypeOK, CacheTypeOK
  <2>3. phone' = [phone EXCEPT ![c].draining = (r # <<>>),
                               ![c].rx = IF pc.state = "REPLAYING" THEN @ \o r ELSE @]
    BY <1>8 DEF fromradio_read
  <2> HIDE DEF pc, r
  <2>4. phone[c].rx \o r \in Seq(Frame) /\ phone[c].rx \in Seq(Frame)
    BY <1>0, <2>2 DEF Phone
  <2>5. [phone[c] EXCEPT !.draining = (r # <<>>),
                         !.rx = IF pc.state = "REPLAYING" THEN @ \o r ELSE @] \in Phone
    BY <1>0, <2>4 DEF Phone
  <2>6. phone' = [phone EXCEPT ![c] = [phone[c] EXCEPT !.draining = (r # <<>>),
                    !.rx = IF pc.state = "REPLAYING" THEN @ \o r ELSE @]]
    BY <1>0, <2>3 DEF Phone
  <2>7. QED
    BY <1>0, <2>5, <2>6
<1>9. QED
  BY <1>1, <1>2, <1>3, <1>4, <1>5, <1>6, <1>7, <1>8 DEF PhoneStep

EnvOK ==
  /\ active_conn_count \in 0..255
  /\ advertising \in BOOLEAN
  /\ boot \in BootStep
  /\ tx_msgq \in Seq(ToRadio) /\ Len(tx_msgq) <= TxDepth
  /\ node_out \in Seq(Frame)
  /\ link \subseteq Conn
  /\ phone \in [Conn -> Phone]
  /\ adv_err \in BOOLEAN
  /\ inputs \in Nat
  /\ losses \in Nat

\* uart_meshtastic_tx checks the bound of the queue.
LEMMA TxOK ==
  ASSUME EnvOK, NEW m \in ToRadio, uart_meshtastic_tx(m)
  PROVE  tx_msgq' \in Seq(ToRadio) /\ Len(tx_msgq') <= TxDepth
  BY ProxyAssumption DEF EnvOK, uart_meshtastic_tx, TxFits

\* The environment over a step of main.
LEMMA MainEnv == ASSUME TypeOK, EnvOK, Main PROVE EnvOK'
<1>1. CASE SendWantConfig
  <2>1. [kind |-> "want_config", nonce |-> s_nonce] \in ToRadio
    BY DEF TypeOK, UpstreamTypeOK, ToRadio
  <2>2. tx_msgq' \in Seq(ToRadio) /\ Len(tx_msgq') <= TxDepth
    BY <1>1, <2>1, TxOK DEF SendWantConfig
  <2>3. boot' \in BootStep
        /\ UNCHANGED <<active_conn_count, advertising, node_out, link, phone, adv_err,
                       inputs, losses>>
    BY <1>1 DEF SendWantConfig, MainAt, BootStep, gattVars
  <2>4. QED
    BY <2>2, <2>3 DEF EnvOK
<1>2. CASE SetServeCb \/ BeginCache \/ ResetPending \/ StartFetching \/ ArmKeepalive
  <2>1. boot' \in BootStep
        /\ UNCHANGED <<active_conn_count, advertising, tx_msgq, node_out, link, phone,
                       adv_err, inputs, losses>>
    BY <1>2 DEF SetServeCb, BeginCache, ResetPending, StartFetching, ArmKeepalive, MainAt,
      BootStep, gattVars
  <2>2. QED
    BY <2>1 DEF EnvOK
<1>3. QED
  BY <1>1, <1>2 DEF Main

\* The environment over an operation of the phone on c.
LEMMA PhoneEnv == ASSUME TypeOK, EnvOK, NEW c \in Conn, PhoneStep(c) PROVE EnvOK'
<1>1. phone' \in [Conn -> Phone]
  BY PhoneOpsOK
<1>2. CASE on_connected(c) \/ on_disconnected(c)
  <2>1. active_conn_count' \in 0..255
    <3>1. active_conn_count' \in {active_conn_count, (active_conn_count + 1) % 256,
                                  (active_conn_count - 1) % 256}
      BY <1>2, Zenon DEF on_connected, on_disconnected
    <3>2. QED
      BY <3>1 DEF EnvOK
  <2>2. link' \subseteq Conn /\ inputs' \in Nat
        /\ UNCHANGED <<boot, tx_msgq, node_out, losses>>
    BY <1>2 DEF on_connected, on_disconnected, Input, EnvOK
  <2>3. advertising' \in BOOLEAN /\ adv_err' \in BOOLEAN
    <3>1. CASE on_connected(c)
      BY <3>1, Zenon DEF on_connected, EnvOK
    <3>2. CASE on_disconnected(c)
      BY <3>2, Zenon DEF on_disconnected, ble_gatt_start_advertising, EnvOK
    <3>3. QED
      BY <1>2, <3>1, <3>2
  <2>4. QED
    BY <1>1, <2>1, <2>2, <2>3 DEF EnvOK
<1>3. ASSUME NEW kind \in {"packet", "malformed"}, Forward(c, kind) PROVE EnvOK'
  <2>1. Plain(kind) \in ToRadio
    BY DEF Plain, ToRadio
  <2>2. tx_msgq' \in Seq(ToRadio) /\ Len(tx_msgq') <= TxDepth
    BY <1>3, <2>1, TxOK DEF Forward
  <2>3. inputs' \in Nat
        /\ UNCHANGED <<active_conn_count, advertising, boot, node_out, link, adv_err, losses>>
    BY <1>3 DEF Forward, PhoneActs, Input, gattVars, EnvOK
  <2>4. QED
    BY <1>1, <2>2, <2>3 DEF EnvOK
<1>4. CASE \/ fromnum_ccc_changed(c) \/ Heartbeat(c) \/ fromradio_read(c)
           \/ \E n \in Nonce : WantConfigReplay(c, n) \/ WantConfigPark(c, n)
           \/ \E id \in ProxyId : node_reg_write(c, id)
  <2> DEFINE Rest == UNCHANGED <<active_conn_count, advertising, boot, tx_msgq, node_out,
                                 link, adv_err, losses>>
  <2>1. ASSUME fromnum_ccc_changed(c) PROVE Rest /\ (Input \/ UNCHANGED inputs)
    BY <2>1 DEF fromnum_ccc_changed, PhoneActs, gattVars
  <2>2. ASSUME Heartbeat(c) \/ fromradio_read(c) PROVE Rest /\ (Input \/ UNCHANGED inputs)
    BY <2>2 DEF Heartbeat, fromradio_read, PhoneActs
  <2>3. ASSUME NEW n \in Nonce, WantConfigReplay(c, n) \/ WantConfigPark(c, n)
        PROVE  Rest /\ (Input \/ UNCHANGED inputs)
    BY <2>3 DEF WantConfigReplay, WantConfigPark, PhoneActs
  <2>4. ASSUME NEW id \in ProxyId, node_reg_write(c, id)
        PROVE  Rest /\ (Input \/ UNCHANGED inputs)
    BY <2>4 DEF node_reg_write
  <2>5. Rest /\ (Input \/ UNCHANGED inputs)
    BY <1>4, <2>1, <2>2, <2>3, <2>4
  <2>6. QED
    BY <1>1, <2>5 DEF EnvOK, Input
<1>5. QED
  BY <1>2, <1>3, <1>4 DEF PhoneStep

\* The environment over the steps of the work queue and of the node.
LEMMA OtherEnv == ASSUME TypeOK, EnvOK, WorkQueue \/ Node PROVE EnvOK'
<1>1. CASE ServeOnePending
  <2>1. s_pending \in Seq(Conn) /\ s_pending # <<>>
    BY <1>1 DEF ServeOnePending, TypeOK, UpstreamTypeOK
  <2>2. Head(s_pending) \in Conn
    BY <2>1
  <2>3. phone' \in [Conn -> Phone]
    BY <1>1, <2>2, KickedOK DEF ServeOnePending, EnvOK
  <2>4. UNCHANGED <<active_conn_count, advertising, boot, tx_msgq, node_out, link, adv_err,
                    inputs, losses>>
    BY <1>1 DEF ServeOnePending
  <2>5. QED
    BY <2>3, <2>4 DEF EnvOK
<1>2. CASE GoLive
  BY <1>2 DEF GoLive, gattVars, EnvOK
<1>3. CASE keepalive_work_handler
  <2>1. Plain("heartbeat") \in ToRadio
    BY DEF Plain, ToRadio
  <2>2. tx_msgq' \in Seq(ToRadio) /\ Len(tx_msgq') <= TxDepth
    BY <1>3, <2>1, TxOK DEF keepalive_work_handler
  <2>3. QED
    BY <1>3, <2>2 DEF keepalive_work_handler, Input, gattVars, EnvOK
<1>4. CASE NodeConsumes
  <2>1. tx_msgq \in Seq(ToRadio) /\ tx_msgq # <<>>
    BY <1>4 DEF NodeConsumes, EnvOK
  <2>2. Head(tx_msgq) \in ToRadio /\ Tail(tx_msgq) \in Seq(ToRadio)
        /\ Len(Tail(tx_msgq)) = Len(tx_msgq) - 1
    BY <2>1
  <2>3. ASSUME NEW m \in ToRadio PROVE Reply(m) \in Seq(Frame)
    <3>1. ConfigComplete(m.nonce) \in Frame /\ QueueStatus \in Frame
      BY DEF ToRadio, ConfigComplete, QueueStatus, Frame, Variant, Route
    <3>2. Burst \o <<ConfigComplete(m.nonce)>> \in Seq(Frame)
      BY <3>1, ProxyAssumption
    <3>3. QED
      BY <3>1, <3>2 DEF Reply
  <2>4. node_out \o Reply(Head(tx_msgq)) \in Seq(Frame)
    BY <2>2, <2>3 DEF EnvOK
  <2>5. node_out' \in Seq(Frame) /\ tx_msgq' \in Seq(ToRadio) /\ Len(tx_msgq') <= TxDepth
    BY <1>4, <2>2, <2>4, ProxyAssumption DEF NodeConsumes, EnvOK
  <2>6. QED
    BY <1>4, <2>5 DEF NodeConsumes, gattVars, EnvOK
<1>5. CASE FrameLost
  <2>1. node_out' \in Seq(Frame)
    BY <1>5 DEF FrameLost, EnvOK
  <2>2. QED
    BY <1>5, <2>1 DEF FrameLost, gattVars, EnvOK
<1>6. ASSUME NEW f, on_fromradio_uart(f)
      PROVE  /\ phone' \in [Conn -> Phone]
             /\ UNCHANGED <<active_conn_count, advertising, boot, tx_msgq, link, adv_err>>
  BY <1>6, NotifiedOK DEF on_fromradio_uart, BroadcastRaw, CloseBurst, CacheFrame,
    SwallowQueueStatus, RouteFrame, Enqueue, EnvOK
<1>7. CASE NodeFrameArrives
  <2>1. node_out' \in Seq(Frame) /\ UNCHANGED <<inputs, losses>>
    BY <1>7 DEF NodeFrameArrives, EnvOK
  <2>2. QED
    BY <1>6, <1>7, <2>1 DEF NodeFrameArrives, EnvOK
<1>8. CASE LiveFrameArrives
  <2>1. PICK f \in LiveFrames : on_fromradio_uart(f)
    BY <1>8 DEF LiveFrameArrives
  <2>2. /\ phone' \in [Conn -> Phone]
        /\ UNCHANGED <<active_conn_count, advertising, boot, tx_msgq, link, adv_err>>
    BY <1>6, <2>1
  <2>3. inputs' \in Nat /\ UNCHANGED <<node_out, losses>>
    BY <1>8 DEF LiveFrameArrives, Input, EnvOK
  <2>4. QED
    BY <2>2, <2>3 DEF EnvOK
<1>9. QED
  BY <1>1, <1>2, <1>3, <1>4, <1>5, <1>7, <1>8 DEF WorkQueue, Node

\* TypeOK is its four parts.
LEMMA TypeParts == TypeOK <=> CacheOK /\ SessionOK /\ SlotsOK /\ EnvOK
<1>1. SlotsOK <=> /\ conns \in [Slot -> SlotRec]
                  /\ \A s \in Slot : Len(conns[s].queue) <= QueueDepth
  BY DEF SlotsOK, SlotOK
<1>2. GattTypeOK <=> /\ conns \in [Slot -> SlotRec]
                     /\ active_conn_count \in 0..255 /\ advertising \in BOOLEAN
  BY Zenon DEF GattTypeOK
<1> HIDE DEF SlotsOK, GattTypeOK
<1>3. QED
  BY <1>1, <1>2, Zenon DEF TypeOK, CacheOK, SessionOK, EnvOK

\* The initial state is well typed.
LEMMA InitType == Init => TypeOK
<1> SUFFICES ASSUME Init PROVE TypeOK
  OBVIOUS
<1>1. CacheOK
  <2>1. s_ready \in BOOLEAN
    BY Zenon DEF Init, CacheInit
  <2>2. /\ s_index \in Seq(Frame) /\ s_used \in Nat /\ s_own_nodeinfo_idx \in Nat
        /\ Len(s_index) <= MaxFrames /\ s_used <= ArenaBytes
    BY CacheBoundsAssumption DEF Init, CacheInit
  <2>3. QED
    BY <2>1, <2>2, Zenon DEF CacheOK, CacheTypeOK
<1>2. SessionOK
  <2>1. s_serve_cb \in BOOLEAN /\ s_keepalive_pending \in BOOLEAN
        /\ s_keepalive_armed \in BOOLEAN
    BY Zenon DEF Init, UpstreamInit
  <2>2. /\ s_state \in UpstreamState /\ s_nonce \in Nat /\ s_pending \in Seq(Conn)
        /\ Len(s_pending) <= MaxConns
    BY PoolAssumption DEF Init, UpstreamInit, UpstreamState
  <2>3. QED
    BY <2>1, <2>2, Zenon DEF SessionOK, UpstreamTypeOK
<1>3. SlotsOK
  <2>1. SlotOK(ZeroSlot)
    BY SlotAssumption DEF ZeroSlot, SlotOK, SlotRec, PhoneState
  <2>2. QED
    BY <2>1 DEF Init, SlotsOK, SlotOK
<1>4. EnvOK
  <2>1. NewPhone \in Phone
    BY DEF NewPhone, Phone
  <2>2. advertising \in BOOLEAN /\ adv_err \in BOOLEAN
    BY Zenon DEF Init
  <2>3. /\ active_conn_count \in 0..255 /\ boot \in BootStep
        /\ tx_msgq \in Seq(ToRadio) /\ Len(tx_msgq) <= TxDepth
        /\ node_out \in Seq(Frame) /\ link \subseteq Conn
        /\ inputs \in Nat /\ losses \in Nat
    BY ProxyAssumption DEF Init, BootStep
  <2>4. phone \in [Conn -> Phone]
    BY <2>1 DEF Init
  <2>5. QED
    BY <2>2, <2>3, <2>4, Zenon DEF EnvOK
<1>5. QED
  BY <1>1, <1>2, <1>3, <1>4, TypeParts

\* Every step keeps TypeOK.
LEMMA TypeStep == TypeOK /\ [Next]_vars => TypeOK'
<1> SUFFICES ASSUME TypeOK, [Next]_vars PROVE TypeOK'
  OBVIOUS
<1>1. EnvOK'
  <2>1. EnvOK
    BY TypeParts
  <2>2. CASE UNCHANGED vars
    BY <2>1, <2>2 DEF vars, gattVars, EnvOK
  <2>3. QED
    BY <2>1, <2>2, MainEnv, PhoneEnv, OtherEnv DEF Next
<1>2. QED
  BY <1>1, CacheTypeStep, SessionStep, SlotsStep
  DEF TypeOK, CacheOK, SessionOK, SlotsOK, EnvOK, SlotOK, GattTypeOK

\* For any number of phones, frames and events: every variable keeps its type and every
\* buffer of the firmware stays within its capacity.
THEOREM TypeCorrect == Spec => []TypeOK
  BY InitType, TypeStep, PTL DEF Spec

--------------------------------------------------------------------------------
\* Why fromradio_read may read the cache without a lock.

\* main is still before the assignment of FETCHING.
BeforeFetch == boot \in {"uart", "cache", "pending", "want_config", "fetching", "failed"}

\* main is in step with the session, and the session with the publish flag.
Control ==
  /\ s_state = "BOOT" <=> BeforeFetch
  /\ s_ready <=> s_state \in {"CACHE_READY", "LIVE"}

\* A slot whose replay is armed or finished has its cursor in a published cache, of
\* n frames; ready is the publish flag.
CursorOK(pc, ready, n) ==
  pc.state \in {"REPLAYING", "ACTIVE"} => ready /\ pc.replay_cursor <= n + 1

\* Main moves from step to step, and the session leaves BOOT when main says so.
LEMMA ControlStep == TypeOK /\ Control /\ [Next]_vars => Control'
<1> SUFFICES ASSUME TypeOK, Control, [Next]_vars PROVE Control'
  OBVIOUS
<1>1. CASE Main
  <2>1. CASE BeginCache
    <3>1. s_ready' = FALSE /\ s_state' = s_state /\ boot = "cache" /\ boot' = "pending"
      BY <2>1, Zenon DEF BeginCache, MainAt, cache_begin
    <3>2. ~s_ready'
      BY <3>1, Zenon
    <3>3. QED
      BY <3>1, <3>2 DEF Control, BeforeFetch
  <2>2. CASE SendWantConfig
    <3>1. /\ boot = "want_config" /\ boot' \in {"fetching", "failed"}
          /\ UNCHANGED <<s_state, s_ready>>
      BY <2>2 DEF SendWantConfig, MainAt, upstreamVars, cacheVars
    <3>2. QED
      BY <3>1 DEF Control, BeforeFetch
  <2>3. CASE SetServeCb \/ ResetPending \/ ArmKeepalive
    BY <2>3 DEF SetServeCb, ResetPending, ArmKeepalive, MainAt, cacheVars, Control,
      BeforeFetch
  <2>4. CASE StartFetching
    BY <2>4 DEF StartFetching, MainAt, cacheVars, Control, BeforeFetch
  <2>5. QED
    BY <1>1, <2>1, <2>2, <2>3, <2>4 DEF Main
<1>2. ASSUME NEW c \in Conn, PhoneStep(c) PROVE Control'
  <2> DEFINE Same == UNCHANGED <<s_state, s_ready, boot>>
  <2>1. ASSUME \/ on_connected(c) \/ on_disconnected(c) \/ fromnum_ccc_changed(c)
               \/ Heartbeat(c) \/ fromradio_read(c)
        PROVE  Same
    BY <2>1 DEF on_connected, on_disconnected, fromnum_ccc_changed, Heartbeat,
      fromradio_read, upstreamVars, cacheVars
  <2>2. ASSUME NEW n \in Nonce, WantConfigReplay(c, n) \/ WantConfigPark(c, n) PROVE Same
    BY <2>2 DEF WantConfigReplay, WantConfigPark, upstreamVars, cacheVars
  <2>3. ASSUME NEW kind, Forward(c, kind) PROVE Same
    BY <2>3 DEF Forward, upstreamVars, cacheVars
  <2>4. ASSUME NEW id, node_reg_write(c, id) PROVE Same
    BY <2>4 DEF node_reg_write, upstreamVars, cacheVars
  <2>5. Same
    BY <1>2, <2>1, <2>2, <2>3, <2>4 DEF PhoneStep
  <2>6. QED
    BY <2>5 DEF Control, BeforeFetch
<1>3. CASE WorkQueue
  BY <1>3 DEF WorkQueue, ServeOnePending, GoLive, keepalive_work_handler, upstreamVars,
    cacheVars, Control, BeforeFetch
<1>4. ASSUME NEW f, on_fromradio_uart(f) PROVE Control'
  <2>1. CASE BroadcastRaw(f) \/ SwallowQueueStatus(f) \/ RouteFrame(f)
    BY <1>4, <2>1 DEF on_fromradio_uart, BroadcastRaw, SwallowQueueStatus, RouteFrame,
      upstreamVars, cacheVars, Control, BeforeFetch
  <2>2. CASE CloseBurst(f)
    BY <1>4, <2>2 DEF on_fromradio_uart, CloseBurst, cache_mark_ready, Consumes, Control,
      BeforeFetch
  <2>3. CASE CacheFrame(f)
    BY <1>4, <2>3 DEF on_fromradio_uart, CacheFrame, cache_add_frame, upstreamVars,
      cacheVars, Control, BeforeFetch
  <2>4. QED
    BY <1>4, <2>1, <2>2, <2>3 DEF on_fromradio_uart
<1>5. CASE Node
  BY <1>4, <1>5 DEF Node, NodeConsumes, NodeFrameArrives, LiveFrameArrives, FrameLost,
    upstreamVars, cacheVars, Control, BeforeFetch
<1>6. CASE UNCHANGED vars
  BY <1>6 DEF vars, upstreamVars, cacheVars, Control, BeforeFetch
<1>7. QED
  BY <1>1, <1>2, <1>3, <1>5, <1>6 DEF Next

\* A published cache is not written: cache_begin runs in BOOT, frames are stored while
\* FETCHING, and the flag is set in neither.
LEMMA FrozenStep == ASSUME TypeOK, Control, [Next]_vars PROVE s_ready => UNCHANGED cacheVars
<1>1. CASE BeginCache
  BY <1>1 DEF BeginCache, MainAt, Control, BeforeFetch
<1>2. ASSUME NEW f \in Frame, CacheFrame(f) \/ CloseBurst(f) PROVE ~s_ready
  BY <1>2 DEF CacheFrame, CloseBurst, Consumes, Control
<1>3. QED
  BY <1>1, <1>2, CacheWriters

\* A read moves the cursor inside the cache or past its end.
LEMMA ReadCursor ==
  ASSUME NEW pc, SlotOK(pc), s_index \in Seq(Frame), CursorOK(pc, s_ready, Len(s_index))
  PROVE  CursorOK(AfterRead(pc), s_ready, Len(s_index))
<1>1. pc.replay_cursor \in Nat /\ Len(s_index) \in Nat
  BY DEF SlotOK, SlotRec
<1>2. CASE pc.state = "REPLAYING" /\ Remaining(pc) # {}
  <2>1. Remaining(pc) \subseteq 1..Len(s_index)
    BY <1>1 DEF Remaining
  <2>2. Least(Remaining(pc)) \in 1..Len(s_index)
    BY <1>2, <2>1, LeastIsIn
  <2>3. QED
    BY <1>1, <1>2, <2>2 DEF AfterRead, CursorOK, SlotOK, SlotRec
<1>3. CASE pc.state = "REPLAYING" /\ Remaining(pc) = {}
  BY <1>1, <1>3 DEF AfterRead, CursorOK, SlotOK, SlotRec
<1>4. CASE pc.state # "REPLAYING"
  BY <1>4 DEF AfterRead, CursorOK, SlotOK, SlotRec
<1>5. QED
  BY <1>2, <1>3, <1>4

\* Arming a replay sets the cursor to 0.
LEMMA ArmedCursor ==
  ASSUME NEW pc, SlotOK(pc), NEW n, NEW m \in Nat
  PROVE  CursorOK(Armed(pc, n), TRUE, m)
  BY DEF Armed, CursorOK, SlotOK, SlotRec

\* A phone's operation leaves every cursor where it may be.
LEMMA PhoneCursors ==
  ASSUME TypeOK, SlotsOK, Control, ReplayFromReadyCache, NEW c \in Conn, PhoneStep(c)
  PROVE  \A s \in Slot : CursorOK(conns'[s], s_ready, Len(s_index))
<1> DEFINE OK(pc) == CursorOK(pc, s_ready, Len(s_index))
<1>0. /\ \A s \in Slot : SlotOK(conns[s]) /\ OK(conns[s])
      /\ s_index \in Seq(Frame) /\ Len(s_index) \in Nat
  BY DEF ReplayFromReadyCache, CursorOK, SlotsOK, TypeOK, CacheTypeOK
<1>1. CASE on_connected(c) \/ on_disconnected(c)
  <2>1. ASSUME NEW s \in Slot, NEW d PROVE OK(ResetSlot(conns[s], d))
    BY <1>0 DEF ResetSlot, CursorOK, SlotOK, SlotRec
  <2>2. conns' \in {conns, alloc_slot(c), free_slot(c)}
    BY <1>1 DEF on_connected, on_disconnected
  <2>3. \A s \in Slot : \/ conns'[s] = conns[s]
                       \/ \E d : conns'[s] = ResetSlot(conns[s], d)
    BY <2>2 DEF alloc_slot, free_slot
  <2>4. QED
    BY <1>0, <2>1, <2>3
<1>2. ASSUME NEW n \in Nonce, WantConfigReplay(c, n) PROVE \A s \in Slot : OK(conns'[s])
  <2>1. s_ready
    BY <1>2 DEF WantConfigReplay, CanReplay, Control
  <2>2. \A s \in Slot : OK(Armed(conns[s], n))
    BY <1>0, <2>1, ArmedCursor DEF CursorOK
  <2>3. \A s \in Slot : conns'[s] \in {conns[s], Armed(conns[s], n)}
    BY <1>2 DEF WantConfigReplay, ble_gatt_replay_cached_burst
  <2>4. QED
    BY <1>0, <2>2, <2>3
<1>3. ASSUME NEW n \in Nonce, WantConfigPark(c, n) PROVE \A s \in Slot : OK(conns'[s])
  <2>1. ASSUME NEW s \in Slot PROVE OK(Parked(conns[s], n))
    <3> DEFINE P == [conns[s] EXCEPT !.state = "PENDING", !.nonce = n]
    <3>1. SlotOK(P)
      BY <1>0, SlotAssumption DEF SlotOK, SlotRec, PhoneState
    <3>2. OK(P)
      BY <1>0 DEF CursorOK, SlotOK, SlotRec
    <3>3. Parked(conns[s], n) = IF s_ready /\ s_serve_cb THEN Armed(P, 0) ELSE P
      BY DEF Parked
    <3> HIDE DEF P
    <3>4. CursorOK(Armed(P, 0), TRUE, Len(s_index))
      BY <1>0, <3>1, ArmedCursor
    <3>5. QED
      BY <3>2, <3>3, <3>4 DEF CursorOK
  <2>2. \A s \in Slot : conns'[s] \in {conns[s], Parked(conns[s], n)}
    BY <1>3 DEF WantConfigPark, ble_gatt_park_pending
  <2>3. QED
    BY <1>0, <2>1, <2>2
<1>4. CASE Heartbeat(c)
  <2>1. \A s \in Slot : OK(Enqueued(conns[s], QueueStatus))
    BY <1>0 DEF Enqueued, CursorOK, SlotOK, SlotRec
  <2>2. \A s \in Slot : conns'[s] \in {conns[s], Enqueued(conns[s], QueueStatus)}
    BY <1>4 DEF Heartbeat, Enqueue, ble_gatt_enqueue_fromradio
  <2>3. QED
    BY <1>0, <2>1, <2>2
<1>5. ASSUME NEW id \in ProxyId, node_reg_write(c, id) PROVE \A s \in Slot : OK(conns'[s])
  <2>1. \A s \in Slot : OK([conns[s] EXCEPT !.proxy_id = id])
    BY <1>0 DEF CursorOK, SlotOK, SlotRec
  <2>2. \A s \in Slot : conns'[s] \in {conns[s], [conns[s] EXCEPT !.proxy_id = id]}
    BY <1>5 DEF node_reg_write, ble_gatt_register_proxy_id
  <2>3. QED
    BY <1>0, <2>1, <2>2
<1>6. CASE fromradio_read(c)
  <2>1. \A s \in Slot : OK(AfterRead(conns[s]))
    BY <1>0, ReadCursor
  <2>2. find_slot(c) \in Slot
    BY <1>6, FindSlot DEF fromradio_read
  <2>3. \A s \in Slot : conns'[s] \in {conns[s], AfterRead(conns[s])}
    BY <1>6, <2>2 DEF fromradio_read
  <2>4. QED
    BY <1>0, <2>1, <2>3
<1>7. ASSUME fromnum_ccc_changed(c) \/ \E kind \in {"packet", "malformed"} : Forward(c, kind)
      PROVE  conns' = conns
  BY <1>7 DEF fromnum_ccc_changed, Forward, gattVars
<1>8. QED
  BY <1>0, <1>1, <1>2, <1>3, <1>4, <1>5, <1>6, <1>7 DEF PhoneStep

\* Every step leaves every cursor where it may be in the cache before the step ...
LEMMA CursorStep ==
  ASSUME TypeOK, SlotsOK, Control, ReplayFromReadyCache, [Next]_vars
  PROVE  \A s \in Slot : CursorOK(conns'[s], s_ready, Len(s_index))
<1> DEFINE OK(pc) == CursorOK(pc, s_ready, Len(s_index))
<1>0. /\ \A s \in Slot : SlotOK(conns[s]) /\ OK(conns[s])
      /\ Len(s_index) \in Nat
  BY DEF ReplayFromReadyCache, CursorOK, SlotsOK, TypeOK, CacheTypeOK
<1>1. CASE Main
  BY <1>0, <1>1 DEF Main, SetServeCb, BeginCache, ResetPending, SendWantConfig,
    StartFetching, ArmKeepalive, gattVars
<1>2. CASE ServeOnePending
  <2>1. s_ready
    BY <1>2 DEF ServeOnePending, Control
  <2>2. \A s \in Slot : OK(Armed(conns[s], 0))
    BY <1>0, <2>1, ArmedCursor DEF CursorOK
  <2>3. \A s \in Slot : conns'[s] \in {conns[s], Armed(conns[s], 0)}
    BY <1>2 DEF ServeOnePending, ble_gatt_replay_cached_burst
  <2>4. QED
    BY <1>0, <2>2, <2>3
<1>3. CASE GoLive \/ keepalive_work_handler \/ NodeConsumes \/ FrameLost \/ UNCHANGED vars
  BY <1>0, <1>3 DEF GoLive, keepalive_work_handler, NodeConsumes, FrameLost, vars, gattVars
<1>4. CASE NodeFrameArrives \/ LiveFrameArrives
  <2>1. PICK f \in Frame : on_fromradio_uart(f)
    BY <1>4, ArrivalIsFrame
  <2>2. \A s \in Slot : OK(Enqueued(conns[s], f))
    BY <1>0 DEF Enqueued, CursorOK, SlotOK, SlotRec
  <2>3. ASSUME NEW S, Enqueue(S, f)
        PROVE  \A s \in Slot : conns'[s] \in {conns[s], Enqueued(conns[s], f)}
    BY <2>3 DEF Enqueue, ble_gatt_enqueue_fromradio
  <2>4. \A s \in Slot : conns'[s] \in {conns[s], Enqueued(conns[s], f)}
    BY <2>1, <2>3 DEF on_fromradio_uart, BroadcastRaw, CloseBurst, CacheFrame,
      SwallowQueueStatus, RouteFrame
  <2>5. QED
    BY <1>0, <2>2, <2>4
<1>5. QED
  BY <1>1, <1>2, <1>3, <1>4, PhoneCursors DEF Next, WorkQueue, Node

\* ... and so in the cache after it, which is the same one if any cursor counts.
LEMMA ReplayStep ==
  ASSUME TypeOK, Control, ReplayFromReadyCache, [Next]_vars
  PROVE  ReplayFromReadyCache'
<1>1. \A s \in Slot : CursorOK(conns'[s], s_ready, Len(s_index))
  BY TypeParts, CursorStep
<1>2. CASE s_ready
  <2>1. UNCHANGED <<s_ready, s_index>>
    BY <1>2, FrozenStep DEF cacheVars
  <2>2. QED
    BY <1>1, <2>1 DEF CursorOK, ReplayFromReadyCache
<1>3. CASE ~s_ready
  BY <1>1, <1>3 DEF CursorOK, ReplayFromReadyCache
<1>4. QED
  BY <1>2, <1>3

\* The inductive invariant: types, the boot and session order, the cursors.
ReplayInv == TypeOK /\ Control /\ ReplayFromReadyCache

\* It holds initially: the session is in BOOT and every slot is zero.
LEMMA InitReplay == Init => ReplayInv
<1> SUFFICES ASSUME Init PROVE ReplayInv
  OBVIOUS
<1>1. Control
  <2>1. ~s_ready /\ s_state = "BOOT" /\ boot = "uart"
    BY Zenon DEF Init, CacheInit, UpstreamInit
  <2>2. QED
    BY <2>1 DEF Control, BeforeFetch
<1>2. ReplayFromReadyCache
  BY DEF Init, ZeroSlot, ReplayFromReadyCache
<1>3. QED
  BY <1>1, <1>2, InitType DEF ReplayInv

\* And always.
LEMMA ReplayInvariance == Spec => []ReplayInv
<1>1. ReplayInv /\ [Next]_vars => ReplayInv'
  BY TypeStep, ControlStep, ReplayStep DEF ReplayInv
<1>2. QED
  BY <1>1, InitReplay, PTL DEF Spec

\* For any number of phones, any burst and any interleaving with main's boot, a phone
\* whose replay is armed reads from a published cache and inside it: fromradio_read
\* needs no lock.
THEOREM ReplayCorrect == Spec => []ReplayFromReadyCache
<1>1. ReplayInv => ReplayFromReadyCache
  BY DEF ReplayInv
<1>2. QED
  BY <1>1, ReplayInvariance, PTL

\* And the cache it reads never changes under it: once published, no frame of the node
\* and no step of main writes it again.
THEOREM FrozenCorrect == Spec => CacheFrozen
<1>1. ReplayInv /\ [Next]_vars => [s_ready => UNCHANGED cacheVars]_vars
  BY FrozenStep DEF ReplayInv
<1>2. QED
  BY <1>1, ReplayInvariance, PTL DEF Spec, CacheFrozen
==============================================================================
