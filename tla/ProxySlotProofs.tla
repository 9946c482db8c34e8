--------------------------- MODULE ProxySlotProofs ---------------------------
(***************************************************************************)
(* Proofs about the slot table of Proxy: every connection has one slot,    *)
(* and what the slot says of its phone is what that phone asked for.       *)
(***************************************************************************)
EXTENDS ProxyProofs, FiniteSetTheorems

--------------------------------------------------------------------------------
\* How a step changes the slots.

\* The slot pc after an operation that is neither alloc_slot nor free_slot.
SlotOp(pc, qc) ==
  \/ qc = pc
  \/ \E f \in Frame : qc = Enqueued(pc, f)
  \/ \E n \in Nat : qc = Armed(pc, n) \/ qc = Parked(pc, n)
  \/ \E id \in Nat : qc = [pc EXCEPT !.proxy_id = id]
  \/ qc = AfterRead(pc)

\* None of them changes whose slot it is.
LEMMA SlotOpKeepsConn ==
  ASSUME NEW pc \in SlotRec, NEW qc, SlotOp(pc, qc)
  PROVE  qc.conn = pc.conn
<1>1. \A f \in Frame : Enqueued(pc, f).conn = pc.conn
  BY DEF Enqueued, SlotRec
<1>2. \A n \in Nat : Armed(pc, n).conn = pc.conn
  BY DEF Armed, SlotRec
<1>3. ASSUME NEW n \in Nat PROVE Parked(pc, n).conn = pc.conn
  <2> DEFINE P == [pc EXCEPT !.state = "PENDING", !.nonce = n]
  <2>1. P.conn = pc.conn /\ Armed(P, 0).conn = P.conn
    BY DEF Armed, SlotRec
  <2>2. QED
    BY <2>1 DEF Parked
<1>4. \A id \in Nat : [pc EXCEPT !.proxy_id = id].conn = pc.conn
  BY DEF SlotRec
<1>5. AfterRead(pc).conn = pc.conn
  BY DEF AfterRead, SlotRec
<1>6. QED
  BY <1>1, <1>2, <1>3, <1>4, <1>5 DEF SlotOp

\* Every step but those of on_connected and on_disconnected leaves the links, the counter
\* and the advertising alone, and every slot to its connection.
LEMMA TableStep ==
  ASSUME TypeOK, [Next]_vars
  PROVE  \/ \E c \in Conn : on_connected(c) \/ on_disconnected(c)
         \/ /\ UNCHANGED <<active_conn_count, advertising, link, adv_err>>
            /\ \A s \in Slot : SlotOp(conns[s], conns'[s])
<1> DEFINE Kept == UNCHANGED <<active_conn_count, advertising, link, adv_err>>
           Ops  == \A s \in Slot : SlotOp(conns[s], conns'[s])
<1>0. ASSUME UNCHANGED conns PROVE Ops
  BY <1>0 DEF SlotOp
<1>1. CASE Main
  <2>1. Kept /\ UNCHANGED conns
    BY <1>1 DEF Main, SetServeCb, BeginCache, ResetPending, SendWantConfig, StartFetching,
      ArmKeepalive, gattVars
  <2>2. QED
    BY <1>0, <2>1
<1>2. ASSUME NEW S, NEW f \in Frame, Enqueue(S, f) PROVE Ops
  BY <1>2 DEF Enqueue, ble_gatt_enqueue_fromradio, SlotOp
<1>3. ASSUME NEW c, NEW n \in Nat, conns' = ble_gatt_replay_cached_burst(c, n) PROVE Ops
  BY <1>3 DEF ble_gatt_replay_cached_burst, SlotOp
<1>4. ASSUME NEW c \in Conn, PhoneStep(c), ~on_connected(c), ~on_disconnected(c)
      PROVE  Kept /\ Ops
  <2>1. CASE fromnum_ccc_changed(c)
    BY <1>0, <2>1 DEF fromnum_ccc_changed, gattVars
  <2>2. ASSUME NEW n \in Nonce, WantConfigReplay(c, n) PROVE Kept /\ Ops
    <3>1. Kept /\ conns' = ble_gatt_replay_cached_burst(c, n)
      BY <2>2 DEF WantConfigReplay
    <3>2. QED
      BY <1>3, <3>1, SlotAssumption
  <2>3. ASSUME NEW n \in Nonce, WantConfigPark(c, n) PROVE Kept /\ Ops
    <3>1. Kept /\ conns' = ble_gatt_park_pending(c, n)
      BY <2>3 DEF WantConfigPark
    <3>2. n \in Nat
      BY SlotAssumption
    <3>3. QED
      BY <3>1, <3>2 DEF ble_gatt_park_pending, SlotOp
  <2>4. CASE Heartbeat(c)
    <3>1. Kept /\ Enqueue({find_slot(c)}, QueueStatus)
      BY <2>4 DEF Heartbeat
    <3>2. QueueStatus \in Frame
      BY DEF QueueStatus, Frame, Variant, Route
    <3>3. QED
      BY <1>2, <3>1, <3>2
  <2>5. ASSUME NEW kind, Forward(c, kind) PROVE Kept /\ Ops
    BY <1>0, <2>5 DEF Forward, gattVars
  <2>6. ASSUME NEW id \in ProxyId, node_reg_write(c, id) PROVE Kept /\ Ops
    <3>1. Kept /\ conns' = ble_gatt_register_proxy_id(c, id)
      BY <2>6 DEF node_reg_write
    <3>2. id \in Nat
      BY SlotAssumption
    <3>3. QED
      BY <3>1, <3>2 DEF ble_gatt_register_proxy_id, SlotOp
  <2>7. CASE fromradio_read(c)
    <3>1. Kept /\ conns' = [s \in Slot |-> IF s = find_slot(c) THEN AfterRead(conns[find_slot(c)])
                                                               ELSE conns[s]]
      BY <2>7 DEF fromradio_read
    <3>2. QED
      BY <3>1 DEF SlotOp
  <2>8. QED
    BY <1>4, <2>1, <2>2, <2>3, <2>4, <2>5, <2>6, <2>7 DEF PhoneStep
<1>5. CASE ServeOnePending
  BY <1>0, <1>3, <1>5 DEF ServeOnePending
<1>6. CASE GoLive \/ keepalive_work_handler \/ NodeConsumes \/ FrameLost \/ UNCHANGED vars
  <2>1. Kept /\ UNCHANGED conns
    BY <1>6 DEF GoLive, keepalive_work_handler, NodeConsumes, FrameLost, vars, gattVars
  <2>2. QED
    BY <1>0, <2>1
<1>7. CASE NodeFrameArrives \/ LiveFrameArrives
  <2>1. PICK f \in Frame : on_fromradio_uart(f)
    BY <1>7, ArrivalIsFrame
  <2>2. CASE BroadcastRaw(f) \/ RouteFrame(f)
    BY <1>2, <2>1, <2>2 DEF BroadcastRaw, RouteFrame, on_fromradio_uart
  <2>3. CASE CloseBurst(f) \/ CacheFrame(f) \/ SwallowQueueStatus(f)
    BY <1>0, <2>1, <2>3 DEF CloseBurst, CacheFrame, SwallowQueueStatus, on_fromradio_uart
  <2>4. QED
    BY <2>1, <2>2, <2>3 DEF on_fromradio_uart
<1>8. QED
  BY <1>1, <1>4, <1>5, <1>6, <1>7 DEF Next, WorkQueue, Node

--------------------------------------------------------------------------------
\* One slot for every connection.

\* The facts about finite sets that the counter needs.
LEMMA SlotFinite == IsFiniteSet(Slot) /\ Cardinality(Slot) = MaxConns
<1>1. MaxConns \in Nat /\ MaxConns >= 1
  BY PoolAssumption
<1>2. QED
  BY <1>1, FS_Interval DEF Slot

\* The counter is one byte: with at most 255 slots it never wraps.
FewSlots == MaxConns <= 255

\* While the stack advertises, alloc_slot finds a slot for whoever connects.
RoomWhileAdvertising == advertising => InUse # Slot

\* The inductive invariant of the table.
TableInv == TypeOK /\ SlotAccounting /\ AdvertisesWhileFree /\ RoomWhileAdvertising

\* The slots in use, as a set of slots.
LEMMA InUseFinite ==
  /\ IsFiniteSet(InUse) /\ Cardinality(InUse) \in Nat
  /\ Cardinality(InUse) <= MaxConns
  /\ Cardinality(InUse) = MaxConns => InUse = Slot
<1>1. InUse \subseteq Slot
  BY DEF InUse
<1>2. /\ IsFiniteSet(InUse) /\ Cardinality(InUse) <= Cardinality(Slot)
      /\ Cardinality(InUse) = Cardinality(Slot) => InUse = Slot
  BY <1>1, SlotFinite, FS_Subset, Zenon
<1>3. Cardinality(InUse) \in Nat
  BY <1>2, FS_CardinalityType
<1>4. QED
  BY <1>2, <1>3, SlotFinite

\* A connection gets the first free slot and is in no other.
LEMMA ConnectStep ==
  ASSUME FewSlots, TableInv, NEW c \in Conn, on_connected(c)
  PROVE  SlotAccounting' /\ AdvertisesWhileFree' /\ RoomWhileAdvertising'
<1> DEFINE t == find_slot(NoConn)
<1>1. Tracked(NoConn)
  BY DEF on_connected, TableInv, RoomWhileAdvertising, InUse, Tracked, Holds
<1>2. t \in Slot /\ conns[t].conn = NoConn
  BY <1>1, FindSlot DEF Holds
<1>3. conns' = [s \in Slot |-> IF s = t THEN ResetSlot(conns[s], c) ELSE conns[s]]
  BY <1>1 DEF on_connected, alloc_slot
<1> HIDE DEF t
<1>4. /\ conns'[t].conn = c
      /\ \A s \in Slot : s # t => conns'[s] = conns[s]
  BY <1>2, <1>3 DEF ResetSlot, TableInv, TypeOK, GattTypeOK, SlotRec
<1>5. c # NoConn /\ c \notin link /\ link' = link \cup {c}
  BY SlotAssumption DEF on_connected
<1>6. InUse' = InUse \cup {t} /\ t \notin InUse
  BY <1>2, <1>4, <1>5 DEF InUse
<1>7. Cardinality(InUse') = Cardinality(InUse) + 1
  BY <1>6, InUseFinite, FS_AddElement, Zenon
<1>8. Cardinality(InUse) \in Nat /\ Cardinality(InUse) + 1 <= MaxConns
  <2>1. Cardinality(InUse) \in Nat /\ Cardinality(InUse) <= MaxConns
    BY InUseFinite, Zenon
  <2>2. Cardinality(InUse) # MaxConns
    BY <1>2, <1>6, InUseFinite, Zenon
  <2>3. QED
    BY <2>1, <2>2, PoolAssumption
<1>9. active_conn_count' = Cardinality(InUse')
  <2>1. active_conn_count' = (active_conn_count + 1) % 256
    BY <1>1 DEF on_connected
  <2>2. active_conn_count = Cardinality(InUse)
    BY DEF TableInv, SlotAccounting
  <2>3. QED
    BY <1>7, <1>8, <2>1, <2>2, PoolAssumption DEF FewSlots
<1>10. \A d \in Conn : d # c => \A s \in Slot : Holds(s, d)' <=> Holds(s, d)
  BY <1>2, <1>4, SlotAssumption DEF Holds
<1>11. \A s \in Slot : Holds(s, c)' <=> s = t
  <2>1. \A s \in Slot : ~Holds(s, c)
    BY <1>5 DEF TableInv, SlotAccounting, InUse, Holds
  <2>2. QED
    BY <1>2, <1>4, <2>1 DEF Holds
<1>12. SlotAccounting'
  <2>1. \A s \in InUse' : conns'[s].conn \in link'
    BY <1>4, <1>5, <1>6 DEF TableInv, SlotAccounting, InUse
  <2>2. ASSUME NEW d \in link'
        PROVE  \E s \in Slot : Holds(s, d)' /\ \A u \in Slot : Holds(u, d)' => u = s
    <3>1. CASE d = c
      BY <1>2, <1>11, <3>1
    <3>2. CASE d # c
      <4>1. d \in link /\ d \in Conn
        BY <1>5, <3>2 DEF TableInv, TypeOK
      <4>2. PICK s \in Slot : Holds(s, d) /\ \A u \in Slot : Holds(u, d) => u = s
        BY <4>1 DEF TableInv, SlotAccounting
      <4>3. QED
        BY <1>10, <3>2, <4>1, <4>2
    <3>3. QED
      BY <3>1, <3>2
  <2>3. QED
    BY <1>9, <2>1, <2>2 DEF SlotAccounting
<1>13. CASE active_conn_count' < MaxConns
  <2>1. advertising' \/ adv_err'
    <3>1. PICK err \in BOOLEAN : adv_err' = err /\ advertising' = ~err
      BY <1>1, <1>13, Zenon DEF on_connected
    <3>2. CASE err = TRUE
      BY <3>1, <3>2, Zenon
    <3>3. CASE err = FALSE
      BY <3>1, <3>3
    <3>4. QED
      BY <3>2, <3>3
  <2>2. InUse' # Slot
    BY <1>9, <1>13, SlotFinite, PoolAssumption
  <2>3. QED
    BY <1>12, <2>1, <2>2, Zenon DEF AdvertisesWhileFree, RoomWhileAdvertising, Slot
<1>14. CASE ~(active_conn_count' < MaxConns)
  <2>1. ~advertising'
    BY <1>1, <1>14, Zenon DEF on_connected
  <2>2. InUse' = Slot
    <3>1. InUse' \subseteq Slot
      BY <1>2, <1>6 DEF InUse
    <3>2. Cardinality(InUse') = Cardinality(Slot)
      BY <1>7, <1>8, <1>9, <1>14, SlotFinite, PoolAssumption
    <3>3. QED
      BY <3>1, <3>2, SlotFinite, FS_Subset, Zenon
  <2>3. QED
    BY <1>12, <2>1, <2>2, Zenon DEF AdvertisesWhileFree, RoomWhileAdvertising, Slot
<1>15. QED
  BY <1>13, <1>14

\* A disconnection frees the slot of its connection.
LEMMA DisconnectStep ==
  ASSUME FewSlots, TableInv, NEW c \in Conn, on_disconnected(c)
  PROVE  SlotAccounting' /\ AdvertisesWhileFree' /\ RoomWhileAdvertising'
<1> DEFINE t == find_slot(c)
<1>1. c \in link /\ Tracked(c)
  BY DEF on_disconnected, TableInv, SlotAccounting, Tracked
<1>2. t \in Slot /\ conns[t].conn = c
  BY <1>1, FindSlot DEF Holds
<1>3. conns' = [s \in Slot |-> IF s = t THEN ResetSlot(conns[s], NoConn) ELSE conns[s]]
  BY <1>1 DEF on_disconnected, free_slot
<1> HIDE DEF t
<1>4. /\ conns'[t].conn = NoConn
      /\ \A s \in Slot : s # t => conns'[s] = conns[s]
  BY <1>2, <1>3 DEF ResetSlot, TableInv, TypeOK, GattTypeOK, SlotRec
<1>5. c # NoConn /\ link' = link \ {c}
  BY SlotAssumption DEF on_disconnected
<1>6. InUse' = InUse \ {t} /\ t \in InUse
  BY <1>2, <1>4, <1>5 DEF InUse
<1>7. Cardinality(InUse') = Cardinality(InUse) - 1
  BY <1>6, InUseFinite, FS_RemoveElement, Zenon
<1>8. Cardinality(InUse) \in 1..MaxConns
  <2>1. Cardinality(InUse) # 0
    BY <1>6, InUseFinite, FS_EmptySet, Zenon
  <2>2. QED
    BY <2>1, InUseFinite, PoolAssumption
<1>9. active_conn_count' = Cardinality(InUse')
  <2>1. active_conn_count' = (active_conn_count - 1) % 256
    BY <1>1 DEF on_disconnected
  <2>2. active_conn_count = Cardinality(InUse)
    BY DEF TableInv, SlotAccounting
  <2>3. QED
    BY <1>7, <1>8, <2>1, <2>2, PoolAssumption DEF FewSlots
<1>10. \A u \in Slot : Holds(u, c) => u = t
  BY <1>1, <1>2 DEF TableInv, SlotAccounting, Holds
<1>11. \A d \in Conn : d # c => \A s \in Slot : Holds(s, d)' <=> Holds(s, d)
  BY <1>2, <1>4, SlotAssumption DEF Holds
<1>12. SlotAccounting'
  <2>1. \A s \in InUse' : conns'[s].conn \in link'
    BY <1>4, <1>5, <1>6, <1>10 DEF TableInv, SlotAccounting, InUse, Holds
  <2>2. ASSUME NEW d \in link'
        PROVE  \E s \in Slot : Holds(s, d)' /\ \A u \in Slot : Holds(u, d)' => u = s
    <3>1. d \in link /\ d \in Conn /\ d # c
      BY <1>5 DEF TableInv, TypeOK
    <3>2. PICK s \in Slot : Holds(s, d) /\ \A u \in Slot : Holds(u, d) => u = s
      BY <3>1 DEF TableInv, SlotAccounting
    <3>3. QED
      BY <1>11, <3>1, <3>2
  <2>3. QED
    BY <1>9, <2>1, <2>2 DEF SlotAccounting
<1>13. InUse' # Slot
  BY <1>2, <1>6
<1>14. advertising' \/ adv_err'
  <2>1. PICK err \in BOOLEAN : adv_err' = err /\ advertising' = (advertising \/ ~err)
    BY Zenon DEF on_disconnected, ble_gatt_start_advertising
  <2>2. CASE err = TRUE
    BY <2>1, <2>2, Zenon
  <2>3. CASE err = FALSE
    BY <2>1, <2>3
  <2>4. QED
    BY <2>2, <2>3
<1>15. QED
  BY <1>12, <1>13, <1>14, Zenon DEF AdvertisesWhileFree, RoomWhileAdvertising, Slot

\* The other steps leave the table's connections alone.
LEMMA OtherTableStep ==
  ASSUME TableInv, UNCHANGED <<active_conn_count, advertising, link, adv_err>>,
         \A s \in Slot : SlotOp(conns[s], conns'[s])
  PROVE  SlotAccounting' /\ AdvertisesWhileFree' /\ RoomWhileAdvertising'
<1>1. \A s \in Slot : conns'[s].conn = conns[s].conn
  BY SlotOpKeepsConn DEF TableInv, TypeOK, GattTypeOK
<1>2. InUse' = InUse
  BY <1>1 DEF InUse
<1>3. \A c : \A s \in Slot : Holds(s, c)' <=> Holds(s, c)
  BY <1>1 DEF Holds
<1>4. SlotAccounting'
  BY <1>1, <1>2, <1>3 DEF TableInv, SlotAccounting, InUse
<1>5. AdvertisesWhileFree' /\ RoomWhileAdvertising'
  BY <1>2, Zenon DEF TableInv, AdvertisesWhileFree, RoomWhileAdvertising, Slot
<1>6. QED
  BY <1>4, <1>5

\* The table is empty and the stack advertises.
LEMMA InitTable == Init => TableInv
<1> SUFFICES ASSUME Init PROVE TableInv
  OBVIOUS
<1>1. \A s \in Slot : conns[s].conn = NoConn
  BY DEF Init, ZeroSlot
<1>2. InUse = {}
  BY <1>1 DEF InUse
<1>3. SlotAccounting
  <2>1. active_conn_count = Cardinality(InUse)
    BY <1>2, FS_EmptySet DEF Init
  <2>2. QED
    BY <1>2, <2>1 DEF Init, SlotAccounting
<1>4. advertising
  BY Zenon DEF Init
<1>5. InUse # Slot
  BY <1>2, PoolAssumption DEF Slot
<1>6. QED
  BY <1>3, <1>4, <1>5, InitType DEF TableInv, AdvertisesWhileFree, RoomWhileAdvertising

\* With at most 255 slots, every step keeps the table in order.
LEMMA TableInvStep == ASSUME FewSlots, TableInv, [Next]_vars PROVE TableInv'
<1>1. TypeOK /\ TypeOK'
  BY TypeStep DEF TableInv
<1>2. QED
  BY <1>1, TableStep, ConnectStep, DisconnectStep, OtherTableStep DEF TableInv

\* The table is in order in every reachable state.
LEMMA TableInvariance == ASSUME FewSlots PROVE Spec => []TableInv
<1>1. TableInv /\ [Next]_vars => TableInv'
  BY TableInvStep
<1>2. QED
  BY <1>1, InitTable, PTL DEF Spec

\* For any pool of at most 255 slots (active_conn_count is a uint8_t) and any coming and
\* going of phones: every link has exactly one slot, every other slot is free, and the
\* counter of on_connected and on_disconnected is the number of slots in use.
THEOREM SlotsCorrect == ASSUME FewSlots PROVE Spec => []SlotAccounting
<1>1. TableInv => SlotAccounting
  BY DEF TableInv
<1>2. QED
  BY <1>1, TableInvariance, PTL

\* And on_connected and on_disconnected never forget to restart advertising: while a slot
\* is free the proxy advertises, unless the stack refused the last start.
THEOREM AdvertisingCorrect == ASSUME FewSlots PROVE Spec => []AdvertisesWhileFree
<1>1. TableInv => AdvertisesWhileFree
  BY DEF TableInv
<1>2. QED
  BY <1>1, TableInvariance, PTL

--------------------------------------------------------------------------------
\* What a slot says of its phone.

\* The slot pc with its phone p become qc and q in one step.
SlotEffect(pc, qc, p, q) ==
  \/ /\ q.want = p.want /\ q.asked = p.asked /\ q.reg = p.reg
     /\ \/ qc = pc \/ qc = AfterRead(pc) \/ qc = Armed(pc, 0)
        \/ \E f \in Frame : qc = Enqueued(pc, f)
  \/ /\ q.reg = p.reg
     /\ \E n \in Nat : /\ q.want = {n} /\ q.asked = p.asked \cup {n}
                       /\ qc = Armed(pc, n) \/ qc = Parked(pc, n)
  \/ /\ q.want = p.want /\ q.asked = p.asked
     /\ \E id \in Nat : q.reg = id /\ qc = [pc EXCEPT !.proxy_id = id]

Effects == \A s \in InUse :
  SlotEffect(conns[s], conns'[s], phone[conns[s].conn], phone'[conns[s].conn])

\* A notification leaves a phone's request and its registration alone.
LEMMA NotifiedKeeps ==
  ASSUME phone \in [Conn -> Phone], NEW N, NEW d \in Conn
  PROVE  /\ Notified(N)[d].want = phone[d].want /\ Notified(N)[d].asked = phone[d].asked
         /\ Notified(N)[d].reg = phone[d].reg
  BY DEF Notified, Phone

\* So does the kick of a replay.
LEMMA KickedKeeps ==
  ASSUME phone \in [Conn -> Phone], NEW c \in Conn, NEW d \in Conn
  PROVE  /\ Kicked(c)[d].want = phone[d].want /\ Kicked(c)[d].asked = phone[d].asked
         /\ Kicked(c)[d].reg = phone[d].reg
<1> DEFINE P == Notified({c})
<1>1. /\ P \in [Conn -> Phone] /\ P[d].want = phone[d].want /\ P[d].asked = phone[d].asked
      /\ P[d].reg = phone[d].reg
  BY NotifiedOK, NotifiedKeeps
<1>2. Kicked(c) = IF Tracked(c) THEN [P EXCEPT ![c].rx = <<>>] ELSE phone
  BY DEF Kicked
<1> HIDE DEF P
<1>3. /\ [P EXCEPT ![c].rx = <<>>][d].want = P[d].want
      /\ [P EXCEPT ![c].rx = <<>>][d].asked = P[d].asked
      /\ [P EXCEPT ![c].rx = <<>>][d].reg = P[d].reg
  BY <1>1 DEF Phone
<1>4. QED
  BY <1>1, <1>2, <1>3

\* A slot in use is the one of its connection, and find_slot finds it.
LEMMA OwnSlot ==
  ASSUME TableInv, NEW s \in InUse
  PROVE  conns[s].conn \in Conn /\ find_slot(conns[s].conn) = s
<1>1. s \in Slot /\ conns[s].conn \in link /\ conns[s].conn \in Conn
  BY DEF InUse, TableInv, SlotAccounting, TypeOK
<1>2. Tracked(conns[s].conn)
  BY <1>1 DEF Tracked, Holds
<1>3. find_slot(conns[s].conn) \in Slot /\ Holds(find_slot(conns[s].conn), conns[s].conn)
  BY <1>2, FindSlot
<1>4. QED
  BY <1>1, <1>3 DEF TableInv, SlotAccounting, Holds

\* Every step but a connection or a disconnection changes a slot together with its phone.
LEMMA EffectStep ==
  ASSUME TableInv, [Next]_vars
  PROVE  (\E c \in Conn : on_connected(c) \/ on_disconnected(c)) \/ Effects
<1>0. phone \in [Conn -> Phone] /\ \A s \in InUse : s \in Slot
  BY DEF TableInv, TypeOK, InUse
<1>1. ASSUME UNCHANGED <<conns, phone>> PROVE Effects
  BY <1>1 DEF Effects, SlotEffect
<1>2. ASSUME NEW S, NEW f \in Frame, Enqueue(S, f) PROVE Effects
  <2>1. ASSUME NEW s \in InUse
        PROVE  SlotEffect(conns[s], conns'[s], phone[conns[s].conn], phone'[conns[s].conn])
    <3>1. conns'[s] \in {conns[s], Enqueued(conns[s], f)}
      BY <1>0, <1>2 DEF Enqueue, ble_gatt_enqueue_fromradio
    <3>2. /\ phone'[conns[s].conn].want = phone[conns[s].conn].want
          /\ phone'[conns[s].conn].asked = phone[conns[s].conn].asked
          /\ phone'[conns[s].conn].reg = phone[conns[s].conn].reg
      BY <1>0, <1>2, OwnSlot, NotifiedKeeps DEF Enqueue
    <3>3. QED
      BY <3>1, <3>2 DEF SlotEffect
  <2>2. QED
    BY <2>1 DEF Effects
<1>3. ASSUME NEW c \in Conn, NEW n \in Nonce, WantConfigReplay(c, n) PROVE Effects
  <2>1. /\ conns' = ble_gatt_replay_cached_burst(c, n)
        /\ phone' = [Kicked(c) EXCEPT ![c].want = {n}, ![c].asked = @ \cup {n}]
        /\ Tracked(c) /\ n \in Nat
    BY <1>3, SlotAssumption DEF WantConfigReplay, PhoneActs, PhoneMayAct
  <2>2. Kicked(c) \in [Conn -> Phone]
    BY <1>0, KickedOK
  <2>3. ASSUME NEW s \in InUse
        PROVE  SlotEffect(conns[s], conns'[s], phone[conns[s].conn], phone'[conns[s].conn])
    <3> DEFINE d == conns[s].conn
    <3>1. /\ d \in Conn /\ find_slot(d) = s
          /\ Kicked(c)[d].want = phone[d].want /\ Kicked(c)[d].asked = phone[d].asked
          /\ Kicked(c)[d].reg = phone[d].reg
      BY <1>0, OwnSlot, KickedKeeps
    <3>2. CASE d = c
      <4>1. conns'[s] = Armed(conns[s], n)
        BY <1>0, <2>1, <3>1, <3>2 DEF ble_gatt_replay_cached_burst
      <4>2. /\ phone'[d].want = {n} /\ phone'[d].asked = phone[d].asked \cup {n}
            /\ phone'[d].reg = phone[d].reg
        BY <2>1, <2>2, <3>1, <3>2 DEF Phone
      <4>3. QED
        BY <2>1, <4>1, <4>2 DEF SlotEffect
    <3>3. CASE d # c
      <4>1. find_slot(c) # s
        BY <2>1, <3>3, FindSlot DEF Holds
      <4>2. conns'[s] = conns[s]
        BY <1>0, <2>1, <4>1 DEF ble_gatt_replay_cached_burst
      <4>3. /\ phone'[d].want = phone[d].want /\ phone'[d].asked = phone[d].asked
            /\ phone'[d].reg = phone[d].reg
        BY <2>1, <2>2, <3>1, <3>3
      <4>4. QED
        BY <4>2, <4>3 DEF SlotEffect
    <3>4. QED
      BY <3>2, <3>3
  <2>4. QED
    BY <2>3 DEF Effects
<1>4. ASSUME NEW c \in Conn, NEW n \in Nonce, WantConfigPark(c, n) PROVE Effects
  <2> DEFINE K == IF s_ready THEN Kicked(c) ELSE phone
  <2>1. /\ conns' = ble_gatt_park_pending(c, n)
        /\ phone' = [K EXCEPT ![c].want = {n}, ![c].asked = @ \cup {n}]
        /\ Tracked(c) /\ n \in Nat
    BY <1>4, SlotAssumption DEF WantConfigPark, PhoneActs, PhoneMayAct
  <2>2. K \in [Conn -> Phone]
    BY <1>0, KickedOK
  <2>3. ASSUME NEW s \in InUse
        PROVE  SlotEffect(conns[s], conns'[s], phone[conns[s].conn], phone'[conns[s].conn])
    <3> DEFINE d == conns[s].conn
    <3>1. /\ d \in Conn /\ find_slot(d) = s
          /\ K[d].want = phone[d].want /\ K[d].asked = phone[d].asked /\ K[d].reg = phone[d].reg
      BY <1>0, OwnSlot, KickedKeeps
    <3> HIDE DEF K
    <3>2. CASE d = c
      <4>1. conns'[s] = Parked(conns[s], n)
        BY <1>0, <2>1, <3>1, <3>2 DEF ble_gatt_park_pending
      <4>2. /\ phone'[d].want = {n} /\ phone'[d].asked = phone[d].asked \cup {n}
            /\ phone'[d].reg = phone[d].reg
        BY <2>1, <2>2, <3>1, <3>2 DEF Phone
      <4>3. QED
        BY <2>1, <4>1, <4>2 DEF SlotEffect
    <3>3. CASE d # c
      <4>1. find_slot(c) # s
        BY <2>1, <3>3, FindSlot DEF Holds
      <4>2. conns'[s] = conns[s]
        BY <1>0, <2>1, <4>1 DEF ble_gatt_park_pending
      <4>3. /\ phone'[d].want = phone[d].want /\ phone'[d].asked = phone[d].asked
            /\ phone'[d].reg = phone[d].reg
        BY <2>1, <2>2, <3>1, <3>3
      <4>4. QED
        BY <4>2, <4>3 DEF SlotEffect
    <3>4. QED
      BY <3>2, <3>3
  <2>4. QED
    BY <2>3 DEF Effects
<1>5. ASSUME NEW c \in Conn, NEW id \in ProxyId, node_reg_write(c, id) PROVE Effects
  <2>1. /\ conns' = ble_gatt_register_proxy_id(c, id)
        /\ phone' = [phone EXCEPT ![c].reg = id]
        /\ Tracked(c) /\ id \in Nat
    BY <1>5, SlotAssumption DEF node_reg_write, PhoneMayAct
  <2>2. ASSUME NEW s \in InUse
        PROVE  SlotEffect(conns[s], conns'[s], phone[conns[s].conn], phone'[conns[s].conn])
    <3> DEFINE d == conns[s].conn
    <3>1. d \in Conn /\ find_slot(d) = s
      BY OwnSlot
    <3>2. CASE d = c
      <4>1. conns'[s] = [conns[s] EXCEPT !.proxy_id = id]
        BY <1>0, <2>1, <3>1, <3>2 DEF ble_gatt_register_proxy_id
      <4>2. phone'[d].reg = id /\ phone'[d].want = phone[d].want /\ phone'[d].asked = phone[d].asked
        BY <1>0, <2>1, <3>1, <3>2 DEF Phone
      <4>3. QED
        BY <2>1, <4>1, <4>2 DEF SlotEffect
    <3>3. CASE d # c
      <4>1. find_slot(c) # s
        BY <2>1, <3>3, FindSlot DEF Holds
      <4>2. conns'[s] = conns[s]
        BY <1>0, <2>1, <4>1 DEF ble_gatt_register_proxy_id
      <4>3. phone'[d] = phone[d]
        BY <1>0, <2>1, <3>1, <3>3
      <4>4. QED
        BY <4>2, <4>3 DEF SlotEffect
    <3>4. QED
      BY <3>2, <3>3
  <2>3. QED
    BY <2>2 DEF Effects
<1>6. ASSUME NEW c \in Conn, fromradio_read(c) PROVE Effects
  <2>1. ASSUME NEW s \in InUse
        PROVE  SlotEffect(conns[s], conns'[s], phone[conns[s].conn], phone'[conns[s].conn])
    <3>1. conns'[s] \in {conns[s], AfterRead(conns[s])}
      BY <1>0, <1>6 DEF fromradio_read
    <3>2. /\ phone'[conns[s].conn].want = phone[conns[s].conn].want
          /\ phone'[conns[s].conn].asked = phone[conns[s].conn].asked
          /\ phone'[conns[s].conn].reg = phone[conns[s].conn].reg
      <4>1. PICK r, x : phone' = [phone EXCEPT ![c].draining = r, ![c].rx = x]
        BY <1>6 DEF fromradio_read
      <4>2. conns[s].conn \in Conn
        BY OwnSlot
      <4>3. QED
        BY <1>0, <4>1, <4>2 DEF Phone
    <3>3. QED
      BY <3>1, <3>2 DEF SlotEffect
  <2>2. QED
    BY <2>1 DEF Effects
<1>7. CASE ServeOnePending
  <2>1. CASE s_serve_cb
    <3>1. /\ conns' = ble_gatt_replay_cached_burst(Head(s_pending), 0)
          /\ phone' = Kicked(Head(s_pending))
          /\ Head(s_pending) \in Conn
      BY <1>7, <2>1 DEF ServeOnePending, TableInv, TypeOK, UpstreamTypeOK
    <3>2. ASSUME NEW s \in InUse
          PROVE  SlotEffect(conns[s], conns'[s], phone[conns[s].conn], phone'[conns[s].conn])
      <4>1. conns'[s] \in {conns[s], Armed(conns[s], 0)}
        BY <1>0, <3>1 DEF ble_gatt_replay_cached_burst
      <4>2. /\ phone'[conns[s].conn].want = phone[conns[s].conn].want
            /\ phone'[conns[s].conn].asked = phone[conns[s].conn].asked
            /\ phone'[conns[s].conn].reg = phone[conns[s].conn].reg
        BY <1>0, <3>1, OwnSlot, KickedKeeps
      <4>3. QED
        BY <4>1, <4>2 DEF SlotEffect
    <3>3. QED
      BY <3>2 DEF Effects
  <2>2. CASE ~s_serve_cb
    BY <1>1, <1>7, <2>2 DEF ServeOnePending
  <2>3. QED
    BY <2>1, <2>2
<1>8. ASSUME NEW c \in Conn, fromnum_ccc_changed(c) PROVE Effects
  <2>1. ASSUME NEW s \in InUse
        PROVE  SlotEffect(conns[s], conns'[s], phone[conns[s].conn], phone'[conns[s].conn])
    <3>1. conns[s].conn \in Conn /\ conns' = conns /\ phone' = [phone EXCEPT ![c].sub = TRUE]
      BY <1>8, OwnSlot, Zenon DEF fromnum_ccc_changed, gattVars
    <3>2. /\ phone'[conns[s].conn].want = phone[conns[s].conn].want
          /\ phone'[conns[s].conn].asked = phone[conns[s].conn].asked
          /\ phone'[conns[s].conn].reg = phone[conns[s].conn].reg
      BY <1>0, <3>1 DEF Phone
    <3>3. QED
      BY <3>1, <3>2 DEF SlotEffect
  <2>2. QED
    BY <2>1 DEF Effects
<1>9. ASSUME NEW c \in Conn, Heartbeat(c) PROVE Effects
  <2>1. QueueStatus \in Frame
    BY DEF QueueStatus, Frame, Variant, Route
  <2>2. QED
    BY <1>2, <1>9, <2>1 DEF Heartbeat
<1>10. CASE NodeFrameArrives \/ LiveFrameArrives
  <2>1. PICK f \in Frame : on_fromradio_uart(f)
    BY <1>10, ArrivalIsFrame DEF TableInv
  <2>2. CASE BroadcastRaw(f) \/ RouteFrame(f)
    BY <1>2, <2>2 DEF BroadcastRaw, RouteFrame
  <2>3. CASE CloseBurst(f) \/ CacheFrame(f) \/ SwallowQueueStatus(f)
    BY <1>1, <2>3 DEF CloseBurst, CacheFrame, SwallowQueueStatus
  <2>4. QED
    BY <2>1, <2>2, <2>3 DEF on_fromradio_uart
<1>11. ASSUME \/ Main \/ GoLive \/ keepalive_work_handler \/ NodeConsumes \/ FrameLost
              \/ UNCHANGED vars \/ \E c \in Conn : \E kind \in {"packet", "malformed"} :
                                     Forward(c, kind)
       PROVE  Effects
  <2>1. UNCHANGED <<conns, phone>>
    BY <1>11 DEF Main, SetServeCb, BeginCache, ResetPending, SendWantConfig, StartFetching,
      ArmKeepalive, GoLive, keepalive_work_handler, NodeConsumes, FrameLost, vars, Forward,
      gattVars
  <2>2. QED
    BY <1>1, <2>1
<1>12. QED
  BY <1>3, <1>4, <1>5, <1>6, <1>7, <1>8, <1>9, <1>10, <1>11
  DEF Next, PhoneStep, WorkQueue, Node

\* A connection or a disconnection changes one slot, which is fresh or free afterwards,
\* and no phone of another slot.
LEMMA LinkStep ==
  ASSUME TableInv, NEW c \in Conn, on_connected(c) \/ on_disconnected(c),
         NEW s \in Slot, conns'[s].conn # NoConn
  PROVE  \/ s \in InUse /\ conns'[s] = conns[s]
            /\ phone'[conns[s].conn] = phone[conns[s].conn]
         \/ conns'[s] = ResetSlot(conns[s], c) /\ phone'[c] = NewPhone
<1>0. /\ phone \in [Conn -> Phone] /\ conns \in [Slot -> SlotRec]
      /\ phone' = [phone EXCEPT ![c] = NewPhone]
  BY DEF TableInv, TypeOK, GattTypeOK, on_connected, on_disconnected
<1>1. CASE on_connected(c)
  <2>1. Tracked(NoConn) /\ conns' = alloc_slot(c) /\ c \notin link
    BY <1>1 DEF on_connected, TableInv, RoomWhileAdvertising, InUse, Tracked, Holds
  <2>2. CASE s = find_slot(NoConn)
    BY <1>0, <2>1, <2>2 DEF alloc_slot
  <2>3. CASE s # find_slot(NoConn)
    <3>1. conns'[s] = conns[s] /\ s \in InUse
      BY <2>1, <2>3 DEF alloc_slot, InUse
    <3>2. conns[s].conn \in link /\ conns[s].conn \in Conn
      BY <3>1 DEF TableInv, SlotAccounting, TypeOK
    <3>3. QED
      BY <1>0, <2>1, <3>1, <3>2
  <2>4. QED
    BY <2>2, <2>3
<1>2. CASE on_disconnected(c)
  <2>1. Tracked(c) /\ conns' = free_slot(c)
    BY <1>2 DEF on_disconnected, TableInv, SlotAccounting, Tracked
  <2>2. s # find_slot(c)
    <3>1. ResetSlot(conns[s], NoConn).conn = NoConn
      BY <1>0 DEF ResetSlot, SlotRec
    <3>2. QED
      BY <2>1, <3>1 DEF free_slot
  <2>3. conns'[s] = conns[s] /\ s \in InUse
    BY <2>1, <2>2 DEF free_slot, InUse
  <2>4. conns[s].conn # c /\ conns[s].conn \in Conn
    BY <2>2, <2>3, OwnSlot
  <2>5. QED
    BY <1>0, <2>3, <2>4
<1>3. QED
  BY <1>1, <1>2

--------------------------------------------------------------------------------
\* The replay answers the latest request.

\* The slot remembers the nonce its phone sent last, unless that was 0 (which the code
\* takes for "none"), and the pre-encoded terminator of a replay carries the slot's nonce.
EchoOK(pc, want) ==
  /\ want \notin {{}, {0}} => want = {pc.nonce}
  /\ pc.state = "REPLAYING" => pc.cc = pc.nonce

Echo == \A s \in InUse : EchoOK(conns[s], phone[conns[s].conn].want)

\* Arming keeps the stored nonce or takes the new one, for both fields.
LEMMA ArmedEcho ==
  ASSUME NEW pc \in SlotRec, NEW n \in Nat, NEW want,
         n # 0 => want = {n},
         n = 0 => want \in {{}, {0}} \/ want = {pc.nonce}
  PROVE  EchoOK(Armed(pc, n), want)
  BY DEF Armed, EchoOK, SlotRec

\* The operations on a slot keep the echo.
LEMMA EffectEcho ==
  ASSUME NEW pc \in SlotRec, NEW qc, NEW p, NEW q,
         EchoOK(pc, p.want), SlotEffect(pc, qc, p, q)
  PROVE  EchoOK(qc, q.want)
<1>1. CASE /\ q.want = p.want
           /\ \/ qc = pc \/ qc = AfterRead(pc)
              \/ \E f \in Frame : qc = Enqueued(pc, f)
              \/ \E id \in Nat : qc = [pc EXCEPT !.proxy_id = id]
  <2>1. /\ qc.nonce = pc.nonce /\ qc.cc = pc.cc
        /\ qc.state = "REPLAYING" => pc.state = "REPLAYING"
    BY <1>1 DEF AfterRead, Enqueued, SlotRec
  <2>2. QED
    BY <1>1, <2>1 DEF EchoOK
<1>2. CASE q.want = p.want /\ qc = Armed(pc, 0)
  BY <1>2, ArmedEcho DEF EchoOK
<1>3. ASSUME NEW n \in Nat, q.want = {n}, qc = Armed(pc, n) PROVE EchoOK(qc, q.want)
  BY <1>3, ArmedEcho
<1>4. ASSUME NEW n \in Nat, q.want = {n}, qc = Parked(pc, n) PROVE EchoOK(qc, q.want)
  <2> DEFINE P == [pc EXCEPT !.state = "PENDING", !.nonce = n]
  <2>1. P \in SlotRec /\ P.nonce = n /\ P.state = "PENDING"
    BY DEF SlotRec, PhoneState
  <2>2. qc = Armed(P, 0) \/ qc = P
    BY <1>4 DEF Parked
  <2> HIDE DEF P
  <2>3. EchoOK(P, {n})
    BY <2>1 DEF EchoOK
  <2>4. EchoOK(Armed(P, 0), {n})
    BY <2>1, ArmedEcho
  <2>5. QED
    BY <1>4, <2>2, <2>3, <2>4
<1>5. QED
  BY <1>1, <1>2, <1>3, <1>4 DEF SlotEffect

\* Every step keeps the echo; a new user of a slot starts without a request.
LEMMA EchoStep == ASSUME FewSlots, TableInv, Echo, [Next]_vars PROVE Echo'
<1>0. conns \in [Slot -> SlotRec]
  BY DEF TableInv, TypeOK, GattTypeOK
<1>1. ASSUME NEW c \in Conn, on_connected(c) \/ on_disconnected(c) PROVE Echo'
  <2>1. ASSUME NEW s \in Slot, conns'[s].conn # NoConn
        PROVE  EchoOK(conns'[s], phone'[conns'[s].conn].want)
    <3>1. CASE s \in InUse /\ conns'[s] = conns[s]
               /\ phone'[conns[s].conn] = phone[conns[s].conn]
      BY <3>1 DEF Echo
    <3>2. CASE conns'[s] = ResetSlot(conns[s], c) /\ phone'[c] = NewPhone
      BY <1>0, <3>2 DEF ResetSlot, NewPhone, EchoOK, SlotRec
    <3>3. QED
      BY <1>1, <2>1, <3>1, <3>2, LinkStep
  <2>2. QED
    BY <2>1 DEF Echo, InUse
<1>2. ASSUME Effects, \A s \in Slot : conns'[s].conn = conns[s].conn PROVE Echo'
  <2>1. ASSUME NEW s \in InUse
        PROVE  EchoOK(conns'[s], phone'[conns[s].conn].want)
    <3>1. s \in Slot
      BY DEF InUse
    <3>2. QED
      BY <1>0, <1>2, <3>1, EffectEcho DEF Effects, Echo
  <2>2. QED
    BY <1>2, <2>1 DEF Echo, InUse
<1>3. QED
  BY <1>0, <1>1, <1>2, EffectStep, TableStep, SlotOpKeepsConn DEF TableInv

\* No slot is in use.
LEMMA InitEcho == Init => Echo
  BY DEF Init, ZeroSlot, Echo, InUse

\* The replay a phone is served carries the nonce of its latest want_config, for any
\* number of phones that come, go, ask again and are parked in any order.
THEOREM EchoCorrect == ASSUME FewSlots PROVE Spec => []CompleteEchoesRequest
<1>1. TableInv /\ Echo /\ [Next]_vars => Echo'
  BY EchoStep
<1>2. Echo => CompleteEchoesRequest
  BY DEF Echo, EchoOK, CompleteEchoesRequest
<1>3. QED
  BY <1>1, <1>2, InitEcho, TableInvariance, PTL DEF Spec

--------------------------------------------------------------------------------
\* A stored nonce belongs to the connection it came on.

OwnOK(pc, asked) ==
  /\ pc.nonce \in asked \cup {0}
  /\ pc.state \in {"REPLAYING", "ACTIVE"} => pc.cc = pc.nonce

OwnNonces == \A s \in InUse : OwnOK(conns[s], phone[conns[s].conn].asked)

\* The operations on a slot bring in no nonce but the phone's.
LEMMA EffectOwn ==
  ASSUME NEW pc \in SlotRec, NEW qc, NEW p, NEW q,
         OwnOK(pc, p.asked), SlotEffect(pc, qc, p, q)
  PROVE  OwnOK(qc, q.asked)
<1>1. CASE /\ q.asked = p.asked
           /\ \/ qc = pc \/ qc = AfterRead(pc)
              \/ \E f \in Frame : qc = Enqueued(pc, f)
              \/ \E id \in Nat : qc = [pc EXCEPT !.proxy_id = id]
  <2>1. /\ qc.nonce = pc.nonce /\ qc.cc = pc.cc
        /\ qc.state \in {"REPLAYING", "ACTIVE"} => pc.state \in {"REPLAYING", "ACTIVE"}
    BY <1>1 DEF AfterRead, Enqueued, SlotRec
  <2>2. QED
    BY <1>1, <2>1 DEF OwnOK
<1>2. ASSUME NEW rc \in SlotRec, NEW n \in Nat, NEW asked,
             rc.nonce \in asked \cup {0}, n \in asked \cup {0}
      PROVE  OwnOK(Armed(rc, n), asked)
  BY <1>2 DEF Armed, OwnOK, SlotRec
<1>3. CASE q.asked = p.asked /\ qc = Armed(pc, 0)
  BY <1>2, <1>3 DEF OwnOK
<1>4. ASSUME NEW n \in Nat, q.asked = p.asked \cup {n}, qc = Armed(pc, n)
      PROVE  OwnOK(qc, q.asked)
  BY <1>2, <1>4 DEF OwnOK
<1>5. ASSUME NEW n \in Nat, q.asked = p.asked \cup {n}, qc = Parked(pc, n)
      PROVE  OwnOK(qc, q.asked)
  <2> DEFINE P == [pc EXCEPT !.state = "PENDING", !.nonce = n]
  <2>1. P \in SlotRec /\ P.nonce = n /\ P.state = "PENDING"
    BY DEF SlotRec, PhoneState
  <2>2. qc = Armed(P, 0) \/ qc = P
    BY <1>5 DEF Parked
  <2> HIDE DEF P
  <2>3. OwnOK(P, q.asked)
    BY <1>5, <2>1 DEF OwnOK
  <2>4. OwnOK(Armed(P, 0), q.asked)
    BY <1>2, <1>5, <2>1
  <2>5. QED
    BY <2>2, <2>3, <2>4
<1>6. QED
  BY <1>1, <1>3, <1>4, <1>5 DEF SlotEffect

\* Every step keeps the nonces apart; a new user of a slot finds none.
LEMMA OwnStep == ASSUME FewSlots, TableInv, OwnNonces, [Next]_vars PROVE OwnNonces'
<1>0. conns \in [Slot -> SlotRec]
  BY DEF TableInv, TypeOK, GattTypeOK
<1>1. ASSUME NEW c \in Conn, on_connected(c) \/ on_disconnected(c) PROVE OwnNonces'
  <2>1. ASSUME NEW s \in Slot, conns'[s].conn # NoConn
        PROVE  OwnOK(conns'[s], phone'[conns'[s].conn].asked)
    <3>1. CASE s \in InUse /\ conns'[s] = conns[s]
               /\ phone'[conns[s].conn] = phone[conns[s].conn]
      BY <3>1 DEF OwnNonces
    <3>2. CASE conns'[s] = ResetSlot(conns[s], c) /\ phone'[c] = NewPhone
      BY <1>0, <3>2 DEF ResetSlot, NewPhone, OwnOK, SlotRec
    <3>3. QED
      BY <1>1, <2>1, <3>1, <3>2, LinkStep
  <2>2. QED
    BY <2>1 DEF OwnNonces, InUse
<1>2. ASSUME Effects, \A s \in Slot : conns'[s].conn = conns[s].conn PROVE OwnNonces'
  <2>1. ASSUME NEW s \in InUse
        PROVE  OwnOK(conns'[s], phone'[conns[s].conn].asked)
    <3>1. s \in Slot
      BY DEF InUse
    <3>2. QED
      BY <1>0, <1>2, <3>1, EffectOwn DEF Effects, OwnNonces
  <2>2. QED
    BY <1>2, <2>1 DEF OwnNonces, InUse
<1>3. QED
  BY <1>0, <1>1, <1>2, EffectStep, TableStep, SlotOpKeepsConn DEF TableInv

\* A replay is closed by 0 or by a nonce that its phone sent on this connection, for any
\* phones and nonces and at every point of the boot: a slot, a bt_conn object and an entry
\* of the pending list pass from phone to phone without one.
THEOREM OwnNonceCorrect == ASSUME FewSlots PROVE Spec => []StoredNonceIsOwn
<1>1. TableInv /\ OwnNonces /\ [Next]_vars => OwnNonces'
  BY OwnStep
<1>2. OwnNonces => StoredNonceIsOwn
  BY DEF OwnNonces, OwnOK, StoredNonceIsOwn
<1>3. Init => OwnNonces
  BY DEF Init, ZeroSlot, OwnNonces, InUse
<1>4. QED
  BY <1>1, <1>2, <1>3, TableInvariance, PTL DEF Spec

--------------------------------------------------------------------------------
\* A registration belongs to the connection it was made on.

Registered == \A s \in InUse : conns[s].proxy_id = phone[conns[s].conn].reg

\* Only node_reg_write changes either side.
LEMMA EffectRegistered ==
  ASSUME NEW pc \in SlotRec, NEW qc, NEW p, NEW q,
         pc.proxy_id = p.reg, SlotEffect(pc, qc, p, q)
  PROVE  qc.proxy_id = q.reg
<1>1. /\ AfterRead(pc).proxy_id = pc.proxy_id
      /\ \A n \in Nat : Armed(pc, n).proxy_id = pc.proxy_id
      /\ \A f \in Frame : Enqueued(pc, f).proxy_id = pc.proxy_id
      /\ \A id \in Nat : [pc EXCEPT !.proxy_id = id].proxy_id = id
  BY DEF AfterRead, Armed, Enqueued, SlotRec
<1>2. ASSUME NEW n \in Nat PROVE Parked(pc, n).proxy_id = pc.proxy_id
  <2> DEFINE P == [pc EXCEPT !.state = "PENDING", !.nonce = n]
  <2>1. P.proxy_id = pc.proxy_id /\ Armed(P, 0).proxy_id = P.proxy_id
    BY DEF Armed, SlotRec
  <2>2. QED
    BY <2>1 DEF Parked
<1>3. QED
  BY <1>1, <1>2 DEF SlotEffect

\* Every step keeps slot and phone agreed; alloc_slot forgets the registration.
LEMMA RegisteredStep == ASSUME TableInv, Registered, [Next]_vars PROVE Registered'
<1>0. conns \in [Slot -> SlotRec]
  BY DEF TableInv, TypeOK, GattTypeOK
<1>1. ASSUME NEW c \in Conn, on_connected(c) \/ on_disconnected(c) PROVE Registered'
  <2>1. ASSUME NEW s \in Slot, conns'[s].conn # NoConn
        PROVE  conns'[s].proxy_id = phone'[conns'[s].conn].reg
    <3>1. CASE s \in InUse /\ conns'[s] = conns[s]
               /\ phone'[conns[s].conn] = phone[conns[s].conn]
      BY <3>1 DEF Registered
    <3>2. CASE conns'[s] = ResetSlot(conns[s], c) /\ phone'[c] = NewPhone
      BY <1>0, <3>2 DEF ResetSlot, NewPhone, SlotRec
    <3>3. QED
      BY <1>1, <2>1, <3>1, <3>2, LinkStep
  <2>2. QED
    BY <2>1 DEF Registered, InUse
<1>2. ASSUME Effects, \A s \in Slot : conns'[s].conn = conns[s].conn PROVE Registered'
  <2>1. ASSUME NEW s \in InUse
        PROVE  conns'[s].proxy_id = phone'[conns[s].conn].reg
    <3>1. s \in Slot
      BY DEF InUse
    <3>2. QED
      BY <1>0, <1>2, <3>1, EffectRegistered DEF Effects, Registered
  <2>2. QED
    BY <1>2, <2>1 DEF Registered, InUse
<1>3. QED
  BY <1>0, <1>1, <1>2, EffectStep, TableStep, SlotOpKeepsConn DEF TableInv

\* f is the next frame from the node, or a live one.
Arrives(f) == f \in LiveFrames \/ (node_out # <<>> /\ f = Head(node_out))

\* The frame of an arrival.
LEMMA ArrivalOf ==
  ASSUME TypeOK, NodeFrameArrives \/ LiveFrameArrives
  PROVE  \E f \in Frame : Arrives(f) /\ on_fromradio_uart(f)
<1>1. CASE NodeFrameArrives
  <2>1. node_out # <<>> /\ Head(node_out) \in Frame
    BY <1>1 DEF NodeFrameArrives, TypeOK
  <2>2. QED
    BY <1>1, <2>1 DEF NodeFrameArrives, Arrives
<1>2. CASE LiveFrameArrives
  BY <1>2, ProxyAssumption DEF LiveFrameArrives, Arrives
<1>3. QED
  BY <1>1, <1>2

\* What a queue gains: an answer to the phone's own heartbeat, a damaged frame for
\* everyone, or a frame that router_dispatch hands to this slot.
Gains(s, f) ==
  \/ f = QueueStatus
  \/ f.variant = "undecodable"
  \/ Arrives(f) /\ WorkQueueFree /\ RouteFrame(f) /\ s \in PacketTargets(f)

\* Enqueued adds the frame at the end, or nothing.
LEMMA EnqueuedQueue ==
  ASSUME NEW pc \in SlotRec, NEW f \in Frame
  PROVE  Enqueued(pc, f).queue = Append(pc.queue, f) \/ Enqueued(pc, f) = pc
  BY DEF Enqueued, SlotRec

\* What is left of the queue q after a step that adds nothing to it.
Shrunk(q, r) == r = q \/ r = <<>> \/ (q # <<>> /\ r = Tail(q))

\* The other operations on a slot add nothing.
LEMMA QueueShrinks ==
  ASSUME NEW pc \in SlotRec, NEW qc,
         \/ qc = pc \/ qc = AfterRead(pc) \/ \E c : qc = ResetSlot(pc, c)
         \/ \E n \in Nat : qc = Armed(pc, n) \/ qc = Parked(pc, n)
         \/ \E id \in Nat : qc = [pc EXCEPT !.proxy_id = id]
  PROVE  Shrunk(pc.queue, qc.queue)
<1>1. CASE qc = AfterRead(pc)
  BY <1>1 DEF AfterRead, SlotRec, Shrunk
<1>2. CASE \E c : qc = ResetSlot(pc, c)
  <2>1. \A c : ResetSlot(pc, c).queue = <<>>
    BY DEF ResetSlot, SlotRec
  <2>2. QED
    BY <1>2, <2>1 DEF Shrunk
<1>3. \A n \in Nat : Armed(pc, n).queue = pc.queue
  BY DEF Armed, SlotRec
<1>4. ASSUME NEW n \in Nat PROVE Parked(pc, n).queue = pc.queue
  <2> DEFINE P == [pc EXCEPT !.state = "PENDING", !.nonce = n]
  <2>1. P.queue = pc.queue /\ Armed(P, 0).queue = P.queue
    BY DEF Armed, SlotRec
  <2>2. QED
    BY <2>1 DEF Parked
<1>5. CASE \E n \in Nat : qc = Armed(pc, n) \/ qc = Parked(pc, n)
  BY <1>3, <1>4, <1>5 DEF Shrunk
<1>6. CASE \E id \in Nat : qc = [pc EXCEPT !.proxy_id = id]
  <2>1. PICK id \in Nat : qc = [pc EXCEPT !.proxy_id = id]
    BY <1>6
  <2>2. qc.queue = pc.queue
    BY <2>1 DEF SlotRec
  <2>3. QED
    BY <2>2 DEF Shrunk
<1>7. CASE qc = pc
  BY <1>7 DEF Shrunk
<1>8. QED
  BY <1>1, <1>2, <1>5, <1>6, <1>7

\* In one step a queue shrinks, or gains one frame from one of those sources.
LEMMA QueueStep ==
  ASSUME TypeOK, [Next]_vars, NEW s \in Slot
  PROVE  \/ Shrunk(conns[s].queue, conns'[s].queue)
         \/ \E f \in Frame : conns'[s].queue = Append(conns[s].queue, f) /\ Gains(s, f)
<1> DEFINE Less == Shrunk(conns[s].queue, conns'[s].queue)
<1>0. conns[s] \in SlotRec
  BY DEF TypeOK, GattTypeOK
<1>1. ASSUME NEW S, NEW f \in Frame, Enqueue(S, f)
      PROVE  Less \/ (conns'[s].queue = Append(conns[s].queue, f) /\ s \in S)
  <2>1. conns'[s] = conns[s] \/ (s \in S /\ conns'[s] = Enqueued(conns[s], f))
    BY <1>1 DEF Enqueue, ble_gatt_enqueue_fromradio
  <2>2. QED
    BY <1>0, <2>1, EnqueuedQueue, QueueShrinks
<1>2. ASSUME NEW c \in Conn, PhoneStep(c) PROVE Less \/ Heartbeat(c)
  <2>1. CASE on_connected(c) \/ on_disconnected(c)
    <3>1. conns' \in {conns, alloc_slot(c), free_slot(c)}
      BY <2>1 DEF on_connected, on_disconnected
    <3>2. \/ conns'[s] = conns[s]
          \/ \E d : conns'[s] = ResetSlot(conns[s], d)
      BY <3>1 DEF alloc_slot, free_slot
    <3>3. QED
      BY <1>0, <3>2, QueueShrinks
  <2>2. ASSUME NEW n \in Nonce, WantConfigReplay(c, n) \/ WantConfigPark(c, n) PROVE Less
    <3>1. n \in Nat
      BY SlotAssumption
    <3>2. conns'[s] \in {conns[s], Armed(conns[s], n), Parked(conns[s], n)}
      BY <2>2 DEF WantConfigReplay, WantConfigPark, ble_gatt_replay_cached_burst,
        ble_gatt_park_pending
    <3>3. QED
      BY <1>0, <3>1, <3>2, QueueShrinks
  <2>3. ASSUME NEW id \in ProxyId, node_reg_write(c, id) PROVE Less
    <3>1. id \in Nat
      BY SlotAssumption
    <3>2. conns'[s] \in {conns[s], [conns[s] EXCEPT !.proxy_id = id]}
      BY <2>3 DEF node_reg_write, ble_gatt_register_proxy_id
    <3>3. QED
      BY <1>0, <3>1, <3>2, QueueShrinks
  <2>4. CASE fromradio_read(c)
    <3>1. conns'[s] \in {conns[s], AfterRead(conns[s])}
      BY <2>4 DEF fromradio_read
    <3>2. QED
      BY <1>0, <3>1, QueueShrinks
  <2>5. CASE fromnum_ccc_changed(c) \/ \E kind \in {"packet", "malformed"} : Forward(c, kind)
    BY <2>5 DEF fromnum_ccc_changed, Forward, gattVars, Shrunk
  <2>6. QED
    BY <1>2, <2>1, <2>2, <2>3, <2>4, <2>5 DEF PhoneStep
<1>3. ASSUME NEW c \in Conn, Heartbeat(c)
      PROVE  Less \/ \E f \in Frame : conns'[s].queue = Append(conns[s].queue, f) /\ Gains(s, f)
  <2>1. QueueStatus \in Frame
    BY DEF QueueStatus, Frame, Variant, Route
  <2>2. QED
    BY <1>1, <1>3, <2>1 DEF Heartbeat, Gains
<1>4. CASE NodeFrameArrives \/ LiveFrameArrives
  <2>1. PICK f \in Frame : Arrives(f) /\ on_fromradio_uart(f)
    BY <1>4, ArrivalOf
  <2>2. CASE BroadcastRaw(f)
    BY <1>1, <2>2 DEF BroadcastRaw, Gains
  <2>3. CASE RouteFrame(f)
    <3>1. Enqueue(PacketTargets(f), f)
      BY <2>3 DEF RouteFrame
    <3>2. Less \/ (conns'[s].queue = Append(conns[s].queue, f) /\ s \in PacketTargets(f))
      BY <1>1, <3>1
    <3>3. QED
      BY <2>1, <2>3, <3>2 DEF Gains, on_fromradio_uart
  <2>4. CASE CloseBurst(f) \/ CacheFrame(f) \/ SwallowQueueStatus(f)
    BY <2>4 DEF CloseBurst, CacheFrame, SwallowQueueStatus, Shrunk
  <2>5. QED
    BY <2>1, <2>2, <2>3, <2>4 DEF on_fromradio_uart
<1>5. CASE ServeOnePending
  <2>1. conns'[s] \in {conns[s], Armed(conns[s], 0)}
    BY <1>5 DEF ServeOnePending, ble_gatt_replay_cached_burst
  <2>2. QED
    BY <1>0, <2>1, QueueShrinks
<1>6. CASE \/ Main \/ GoLive \/ keepalive_work_handler \/ NodeConsumes \/ FrameLost
           \/ UNCHANGED vars
  <2>1. conns' = conns
    BY <1>6 DEF Main, SetServeCb, BeginCache, ResetPending, SendWantConfig, StartFetching,
      ArmKeepalive, GoLive, keepalive_work_handler, NodeConsumes, FrameLost, vars, gattVars
  <2>2. QED
    BY <2>1 DEF Shrunk
<1>7. QED
  BY <1>2, <1>3, <1>4, <1>5, <1>6 DEF Next, WorkQueue, Node

\* A queue that shrank is not longer.
LEMMA ShrunkLen ==
  ASSUME NEW q \in Seq(Frame), NEW r, Shrunk(q, r)
  PROVE  ~(Len(r) > Len(q))
<1>1. CASE r = q
  BY <1>1
<1>2. CASE r = <<>>
  BY <1>2
<1>3. CASE q # <<>> /\ r = Tail(q)
  BY <1>3
<1>4. QED
  BY <1>1, <1>2, <1>3 DEF Shrunk

\* A queue that grows in a step gains one frame.
LEMMA GrowthStep ==
  ASSUME TypeOK, [Next]_vars, NEW s \in Slot,
         Len(conns'[s].queue) > Len(conns[s].queue)
  PROVE  \E f \in Frame : conns'[s].queue = Append(conns[s].queue, f) /\ Gains(s, f)
<1>1. conns[s].queue \in Seq(Frame)
  BY DEF TypeOK, GattTypeOK, SlotRec
<1>2. ~Shrunk(conns[s].queue, conns'[s].queue)
  BY <1>1, ShrunkLen
<1>3. QED
  BY <1>2, QueueStep

\* The last frame of a queue that grew is the one it gained.
LEMMA LastGained ==
  ASSUME NEW q \in Seq(Frame), NEW f \in Frame
  PROVE  Append(q, f)[Len(Append(q, f))] = f
  OBVIOUS

\* The slots PacketTargets gives a proxy packet: those that registered its DST_ID, or all
\* when none did.
LEMMA TargetsOfProxy ==
  ASSUME TypeOK, NEW f \in Frame, f.variant = "packet", f.route = "proxy", f.body # 0,
         NEW s \in PacketTargets(f)
  PROVE  \/ s \in InUse /\ conns[s].proxy_id = f.body
         \/ \A t \in InUse : conns[t].proxy_id # f.body
<1> DEFINE M == {t \in InUse : f.body # 0 /\ conns[t].proxy_id = f.body}
           R == {t \in M : \A u \in M : t <= u}
<1>1. ble_gatt_get_conn_by_proxy_id(f.body) = R
  BY DEF ble_gatt_get_conn_by_proxy_id
<1>2. R = {} => M = {}
  <2>1. M \in SUBSET Nat
    BY PoolAssumption DEF InUse, Slot
  <2>2. QED
    BY <2>1, LeastExists
<1>3. CASE R # {}
  <2>1. s \in R
    BY <1>1, <1>3 DEF PacketTargets
  <2>2. QED
    BY <2>1
<1>4. CASE R = {}
  BY <1>2, <1>4
<1>5. QED
  BY <1>3, <1>4

\* A step that puts a proxy packet on a queue obeys the registrations of the connections.
LEMMA TargetedStep ==
  ASSUME TableInv, Registered, [Next]_vars, NEW s \in Slot,
         Len(conns'[s].queue) > Len(conns[s].queue),
         NEW f \in Frame, f = conns'[s].queue[Len(conns'[s].queue)],
         f.variant = "packet", f.route = "proxy", f.body # 0
  PROVE  phone[conns[s].conn].reg = f.body \/ \A c \in link : phone[c].reg # f.body
<1>1. PICK g \in Frame : conns'[s].queue = Append(conns[s].queue, g) /\ Gains(s, g)
  BY GrowthStep DEF TableInv
<1>2. f = g
  BY <1>1, LastGained DEF TableInv, TypeOK, GattTypeOK, SlotRec
<1>3. s \in PacketTargets(f)
  BY <1>1, <1>2 DEF Gains, QueueStatus
<1>4. CASE s \in InUse /\ conns[s].proxy_id = f.body
  BY <1>4 DEF Registered
<1>5. CASE \A t \in InUse : conns[t].proxy_id # f.body
  <2>1. ASSUME NEW c \in link PROVE phone[c].reg # f.body
    <3>1. PICK t \in Slot : Holds(t, c)
      BY DEF TableInv, SlotAccounting
    <3>2. t \in InUse /\ conns[t].conn = c
      BY <3>1, SlotAssumption DEF TableInv, TypeOK, InUse, Holds
    <3>3. QED
      BY <1>5, <3>2 DEF Registered
  <2>2. QED
    BY <2>1
<1>6. QED
  BY <1>3, <1>4, <1>5, TargetsOfProxy DEF TableInv

\* No slot is in use.
LEMMA InitRegistered == Init => Registered
  BY DEF Init, ZeroSlot, Registered, InUse

\* For any phones and registrations: a proxy packet is put on the queue of a phone that
\* did not register its DST_ID on the current connection only when no connected phone did.
THEOREM TargetedCorrect == ASSUME FewSlots PROVE Spec => TargetedDelivery
<1>1. TableInv /\ Registered /\ [Next]_vars => Registered'
  BY RegisteredStep
<1>2. TableInv /\ Registered /\ [Next]_vars =>
        [\A s \in Slot :
           LET before == conns[s].queue
               after  == conns'[s].queue
               f      == after[Len(after)]
           IN  Len(after) > Len(before) /\ f.variant = "packet" /\ f.route = "proxy"
                 /\ f.body # 0 =>
                 \/ phone[conns[s].conn].reg = f.body
                 \/ \A c \in link : phone[c].reg # f.body]_vars
  <2> SUFFICES ASSUME TableInv, Registered, [Next]_vars, NEW s \in Slot,
                      Len(conns'[s].queue) > Len(conns[s].queue)
               PROVE  LET f == conns'[s].queue[Len(conns'[s].queue)]
                      IN  f.variant = "packet" /\ f.route = "proxy" /\ f.body # 0 =>
                            \/ phone[conns[s].conn].reg = f.body
                            \/ \A c \in link : phone[c].reg # f.body
    OBVIOUS
  <2>1. PICK g \in Frame : conns'[s].queue = Append(conns[s].queue, g)
    BY GrowthStep DEF TableInv
  <2>2. conns'[s].queue[Len(conns'[s].queue)] = g
    BY <2>1, LastGained DEF TableInv, TypeOK, GattTypeOK, SlotRec
  <2>3. QED
    BY <2>2, TargetedStep
<1>3. QED
  BY <1>1, <1>2, InitRegistered, TableInvariance, PTL DEF Spec, TargetedDelivery

--------------------------------------------------------------------------------
\* A phone that waits is on the list.

\* The bt_conn objects come from the stack's pool of CONFIG_BT_MAX_CONN, which is also the
\* size of s_pending.
PoolFits == IsFiniteSet(Conn) /\ Cardinality(Conn) <= MaxConns

NoDuplicates(q) == \A i, j \in 1..Len(q) : q[i] = q[j] => i = j

\* main registers the replay callback first; no phone waits before main has finished; and
\* no phone is on the list twice.
Parking ==
  /\ boot # "uart" => s_serve_cb
  /\ ~Booted => \A s \in Slot : conns[s].state # "PENDING"
  /\ NoDuplicates(s_pending)

\* The list has room for every connection that is not on it.
LEMMA RoomOnList ==
  ASSUME PoolFits, NEW q \in Seq(Conn), NoDuplicates(q),
         NEW c \in Conn, \A i \in 1..Len(q) : q[i] # c
  PROVE  Len(q) < MaxConns
<1> DEFINE T == Conn \ {c}
<1>1. IsFiniteSet(T) /\ Cardinality(T) = Cardinality(Conn) - 1
  BY FS_RemoveElement, Zenon DEF PoolFits
<1>2. Len(q) \in Nat /\ q \in [1..Len(q) -> T]
  OBVIOUS
<1>3. q \in Injection(1..Len(q), T)
  BY <1>2 DEF Injection, IsInjective, NoDuplicates
<1>4. Cardinality(1..Len(q)) <= Cardinality(T)
  BY <1>1, <1>3, FS_Injection, Zenon
<1>5. Cardinality(1..Len(q)) = Len(q)
  <2>1. 1 \in Int /\ Len(q) \in Int
    BY <1>2
  <2>2. Cardinality(1..Len(q)) = IF 1 > Len(q) THEN 0 ELSE Len(q) - 1 + 1
    BY <2>1, FS_Interval
  <2>3. QED
    BY <1>2, <2>2
<1>6. Cardinality(Conn) \in Nat
  BY FS_CardinalityType DEF PoolFits
<1>7. QED
  BY <1>1, <1>2, <1>4, <1>5, <1>6, PoolAssumption DEF PoolFits

\* upstream_on_pending_phone never meets a full list: while the cache is not ready it puts
\* the phone on the list, once.
LEMMA QueuedRemembers ==
  ASSUME PoolFits, s_pending \in Seq(Conn), NoDuplicates(s_pending), ~s_ready,
         NEW c \in Conn
  PROVE  /\ NoDuplicates(Queued(c))
         /\ \E i \in 1..Len(Queued(c)) : Queued(c)[i] = c
         /\ Len(s_pending) <= Len(Queued(c))
         /\ \A i \in 1..Len(s_pending) : Queued(c)[i] = s_pending[i]
<1>0. Len(s_pending) \in Nat
  OBVIOUS
<1>1. CASE IsPending(c)
  <2>1. Queued(c) = s_pending
    BY <1>1 DEF Queued
  <2>2. QED
    BY <1>0, <1>1, <2>1 DEF IsPending
<1>2. CASE ~IsPending(c)
  <2>1. Len(s_pending) < MaxConns
    BY <1>2, RoomOnList DEF IsPending
  <2>2. Queued(c) = Append(s_pending, c)
    BY <1>0, <1>2, <2>1, PoolAssumption DEF Queued
  <2>3. /\ Len(Append(s_pending, c)) = Len(s_pending) + 1
        /\ Append(s_pending, c)[Len(s_pending) + 1] = c
        /\ \A i \in 1..Len(s_pending) : Append(s_pending, c)[i] = s_pending[i]
    OBVIOUS
  <2>4. NoDuplicates(Append(s_pending, c))
    <3> DEFINE q == Append(s_pending, c)
    <3>1. ASSUME NEW i \in 1..Len(q), NEW j \in 1..Len(q), q[i] = q[j] PROVE i = j
      <4>1. i = Len(s_pending) + 1 \/ i \in 1..Len(s_pending)
        BY <1>0, <2>3
      <4>2. j = Len(s_pending) + 1 \/ j \in 1..Len(s_pending)
        BY <1>0, <2>3
      <4>3. \A k \in 1..Len(s_pending) : s_pending[k] # c
        BY <1>2 DEF IsPending
      <4> HIDE DEF q
      <4>4. QED
        BY <2>3, <3>1, <4>1, <4>2, <4>3 DEF NoDuplicates, q
    <3>2. QED
      BY <3>1 DEF NoDuplicates
  <2>5. QED
    BY <1>0, <2>2, <2>3, <2>4
<1>3. QED
  BY <1>1, <1>2

\* Only ble_gatt_park_pending makes a phone wait.
LEMMA NotParked ==
  ASSUME NEW pc \in SlotRec, NEW qc, qc.state = "PENDING",
         \/ qc = pc \/ qc = AfterRead(pc)
         \/ \E f \in Frame : qc = Enqueued(pc, f)
         \/ \E n \in Nat : qc = Armed(pc, n)
         \/ \E c : qc = ResetSlot(pc, c)
         \/ \E id \in Nat : qc = [pc EXCEPT !.proxy_id = id]
  PROVE  pc.state = "PENDING" /\ qc.conn = pc.conn
<1>1. CASE qc = AfterRead(pc) \/ \E f \in Frame : qc = Enqueued(pc, f)
  BY <1>1 DEF AfterRead, Enqueued, SlotRec
<1>2. \A n \in Nat : Armed(pc, n).state = "REPLAYING"
  BY DEF Armed, SlotRec
<1>3. \A c : ResetSlot(pc, c).state = "CONNECTED"
  BY DEF ResetSlot, SlotRec
<1>4. ASSUME NEW id \in Nat, qc = [pc EXCEPT !.proxy_id = id]
      PROVE  pc.state = "PENDING" /\ qc.conn = pc.conn
  BY <1>4 DEF SlotRec
<1>5. CASE \E id \in Nat : qc = [pc EXCEPT !.proxy_id = id]
  <2>1. PICK id \in Nat : qc = [pc EXCEPT !.proxy_id = id]
    BY <1>5
  <2>2. QED
    BY <1>4, <2>1
<1>6. CASE qc = pc
  BY <1>6
<1>7. CASE \E n \in Nat : qc = Armed(pc, n)
  BY <1>2, <1>7
<1>8. CASE \E c : qc = ResetSlot(pc, c)
  BY <1>3, <1>8
<1>9. QED
  BY <1>1, <1>5, <1>6, <1>7, <1>8

\* A slot that waits after a step waited before it, for the same phone, or was parked by it.
LEMMA ParkedBy ==
  ASSUME TypeOK, [Next]_vars, NEW s \in Slot, conns'[s].state = "PENDING"
  PROVE  \/ conns[s].state = "PENDING" /\ conns'[s].conn = conns[s].conn
         \/ \E c \in Conn : \E n \in Nonce : WantConfigPark(c, n) /\ s = find_slot(c)
<1> DEFINE Goal == conns[s].state = "PENDING" /\ conns'[s].conn = conns[s].conn
<1>0. conns[s] \in SlotRec
  BY DEF TypeOK, GattTypeOK
<1>1. ASSUME NEW S, NEW f \in Frame, Enqueue(S, f) PROVE Goal
  <2>1. conns'[s] \in {conns[s], Enqueued(conns[s], f)}
    BY <1>1 DEF Enqueue, ble_gatt_enqueue_fromradio
  <2>2. QED
    BY <1>0, <2>1, NotParked
<1>2. ASSUME NEW c, NEW n \in Nat, conns' = ble_gatt_replay_cached_burst(c, n) PROVE Goal
  <2>1. conns'[s] \in {conns[s], Armed(conns[s], n)}
    BY <1>2 DEF ble_gatt_replay_cached_burst
  <2>2. QED
    BY <1>0, <2>1, NotParked
<1>3. ASSUME NEW c \in Conn, PhoneStep(c), ~\E n \in Nonce : WantConfigPark(c, n) PROVE Goal
  <2>1. CASE on_connected(c) \/ on_disconnected(c)
    <3>1. conns' \in {conns, alloc_slot(c), free_slot(c)}
      BY <2>1 DEF on_connected, on_disconnected
    <3>2. conns'[s] = conns[s] \/ \E d : conns'[s] = ResetSlot(conns[s], d)
      BY <3>1 DEF alloc_slot, free_slot
    <3>3. QED
      BY <1>0, <3>2, NotParked
  <2>2. ASSUME NEW n \in Nonce, WantConfigReplay(c, n) PROVE Goal
    BY <1>2, <2>2, SlotAssumption DEF WantConfigReplay
  <2>3. ASSUME NEW id \in ProxyId, node_reg_write(c, id) PROVE Goal
    <3>1. id \in Nat
      BY SlotAssumption
    <3>2. conns'[s] \in {conns[s], [conns[s] EXCEPT !.proxy_id = id]}
      BY <2>3 DEF node_reg_write, ble_gatt_register_proxy_id
    <3>3. QED
      BY <1>0, <3>1, <3>2, NotParked
  <2>4. CASE fromradio_read(c)
    <3>1. conns'[s] \in {conns[s], AfterRead(conns[s])}
      BY <2>4 DEF fromradio_read
    <3>2. QED
      BY <1>0, <3>1, NotParked
  <2>5. CASE fromnum_ccc_changed(c) \/ \E kind \in {"packet", "malformed"} : Forward(c, kind)
    <3>1. conns' = conns
      BY <2>5 DEF fromnum_ccc_changed, Forward, gattVars
    <3>2. QED
      BY <1>0, <3>1, NotParked
  <2>6. CASE Heartbeat(c)
    <3>1. QueueStatus \in Frame
      BY DEF QueueStatus, Frame, Variant, Route
    <3>2. QED
      BY <1>1, <2>6, <3>1 DEF Heartbeat
  <2>7. QED
    BY <1>3, <2>1, <2>2, <2>3, <2>4, <2>5, <2>6 DEF PhoneStep
<1>4. ASSUME NEW c \in Conn, NEW n \in Nonce, WantConfigPark(c, n)
      PROVE  Goal \/ s = find_slot(c)
  <2>1. s = find_slot(c) \/ conns'[s] = conns[s]
    BY <1>4 DEF WantConfigPark, ble_gatt_park_pending
  <2>2. QED
    BY <1>0, <2>1, NotParked
<1>5. CASE NodeFrameArrives \/ LiveFrameArrives
  <2>1. PICK f \in Frame : on_fromradio_uart(f)
    BY <1>5, ArrivalIsFrame
  <2>2. CASE BroadcastRaw(f) \/ RouteFrame(f)
    BY <1>1, <2>2 DEF BroadcastRaw, RouteFrame
  <2>3. CASE CloseBurst(f) \/ CacheFrame(f) \/ SwallowQueueStatus(f)
    <3>1. conns' = conns
      BY <2>3 DEF CloseBurst, CacheFrame, SwallowQueueStatus
    <3>2. QED
      BY <1>0, <3>1, NotParked
  <2>4. QED
    BY <2>1, <2>2, <2>3 DEF on_fromradio_uart
<1>6. CASE \/ Main \/ GoLive \/ keepalive_work_handler \/ NodeConsumes \/ FrameLost
           \/ UNCHANGED vars \/ (ServeOnePending /\ ~s_serve_cb)
  <2>1. conns' = conns
    BY <1>6 DEF Main, SetServeCb, BeginCache, ResetPending, SendWantConfig, StartFetching,
      ArmKeepalive, GoLive, keepalive_work_handler, NodeConsumes, FrameLost, vars, gattVars,
      ServeOnePending
  <2>2. QED
    BY <1>0, <2>1, NotParked
<1>7. CASE ServeOnePending /\ s_serve_cb
  BY <1>2, <1>7 DEF ServeOnePending
<1>8. QED
  BY <1>3, <1>4, <1>5, <1>6, <1>7 DEF Next, WorkQueue, Node

\* The pending list is written by main's reset, by a phone that parks and by the loop that
\* serves it.
LEMMA PendingWriters ==
  ASSUME [Next]_vars
  PROVE  \/ UNCHANGED s_pending
         \/ ResetPending
         \/ ServeOnePending
         \/ \E c \in Conn : \E n \in Nonce : WantConfigPark(c, n)
<1>1. ASSUME NEW c \in Conn, PhoneStep(c)
      PROVE  UNCHANGED s_pending \/ \E n \in Nonce : WantConfigPark(c, n)
  BY <1>1 DEF PhoneStep, on_connected, on_disconnected, fromnum_ccc_changed,
    WantConfigReplay, Heartbeat, Forward, node_reg_write, fromradio_read, upstreamVars
<1>2. ASSUME NEW f, on_fromradio_uart(f) PROVE UNCHANGED s_pending
  BY <1>2 DEF on_fromradio_uart, BroadcastRaw, CloseBurst, CacheFrame, SwallowQueueStatus,
    RouteFrame, upstreamVars
<1>3. QED
  BY <1>1, <1>2 DEF Next, Main, SetServeCb, BeginCache, SendWantConfig, StartFetching,
    ArmKeepalive, WorkQueue, GoLive, keepalive_work_handler, Node, NodeConsumes,
    NodeFrameArrives, LiveFrameArrives, FrameLost, upstreamVars, vars

\* main goes forward: the callback stays registered, and a finished boot stays finished.
LEMMA BootOrder ==
  ASSUME [Next]_vars
  PROVE  /\ boot' # "uart" => s_serve_cb' = TRUE \/ (boot # "uart" /\ UNCHANGED s_serve_cb)
         /\ Booted => Booted'
<1>1. CASE Main
  <2>1. CASE SetServeCb
    BY <2>1, Zenon DEF SetServeCb, MainAt, Booted
  <2>2. CASE BeginCache \/ ResetPending \/ SendWantConfig \/ StartFetching \/ ArmKeepalive
    BY <2>2 DEF BeginCache, ResetPending, SendWantConfig, StartFetching, ArmKeepalive, MainAt,
      Booted, upstreamVars
  <2>3. QED
    BY <1>1, <2>1, <2>2 DEF Main
<1>2. ASSUME NEW c \in Conn, PhoneStep(c) PROVE UNCHANGED <<boot, s_serve_cb>>
  BY <1>2 DEF PhoneStep, on_connected, on_disconnected, fromnum_ccc_changed,
    WantConfigReplay, WantConfigPark, Heartbeat, Forward, node_reg_write, fromradio_read,
    upstreamVars
<1>3. ASSUME NEW f, on_fromradio_uart(f) PROVE UNCHANGED <<boot, s_serve_cb>>
  BY <1>3 DEF on_fromradio_uart, BroadcastRaw, CloseBurst, CacheFrame, SwallowQueueStatus,
    RouteFrame, upstreamVars
<1>4. ASSUME WorkQueue \/ Node \/ UNCHANGED vars PROVE UNCHANGED <<boot, s_serve_cb>>
  BY <1>3, <1>4 DEF WorkQueue, ServeOnePending, GoLive, keepalive_work_handler, Node,
    NodeConsumes, NodeFrameArrives, LiveFrameArrives, FrameLost, upstreamVars, vars
<1>5. UNCHANGED <<boot, s_serve_cb>> \/ Main
  BY <1>2, <1>4 DEF Next
<1>6. QED
  BY <1>1, <1>5 DEF Booted

\* Every step keeps the order of the boot and of the list.
LEMMA ParkingStep ==
  ASSUME PoolFits, ~BootRaces, TypeOK, Control, Parking, [Next]_vars
  PROVE  Parking'
<1>1. boot' # "uart" => s_serve_cb'
  <2>1. CASE s_serve_cb' = TRUE
    BY <2>1, Zenon
  <2>2. CASE boot # "uart" /\ UNCHANGED s_serve_cb
    BY <2>2, Zenon DEF Parking
  <2>3. QED
    BY <2>1, <2>2, BootOrder, Zenon
<1>2. ASSUME ~Booted', NEW s \in Slot, conns'[s].state = "PENDING" PROVE FALSE
  <2>1. ~Booted
    BY <1>2, BootOrder
  <2>2. conns[s].state # "PENDING"
    BY <2>1 DEF Parking
  <2>3. PICK c \in Conn, n \in Nonce : WantConfigPark(c, n)
    BY <1>2, <2>2, ParkedBy
  <2>4. QED
    BY <2>1, <2>3 DEF WantConfigPark, PhoneActs, PhoneMayAct
<1>3. NoDuplicates(s_pending')
  <2>0. s_pending \in Seq(Conn) /\ NoDuplicates(s_pending)
    BY DEF TypeOK, UpstreamTypeOK, Parking
  <2>1. CASE UNCHANGED s_pending
    BY <2>0, <2>1
  <2>2. CASE ResetPending
    BY <2>2 DEF ResetPending, NoDuplicates
  <2>3. CASE ServeOnePending
    <3>1. s_pending' = Tail(s_pending) /\ s_pending # <<>>
      BY <2>3 DEF ServeOnePending
    <3>2. /\ Len(s_pending) \in Nat /\ Len(Tail(s_pending)) = Len(s_pending) - 1
          /\ \A i \in 1..Len(Tail(s_pending)) :
               i + 1 \in 1..Len(s_pending) /\ Tail(s_pending)[i] = s_pending[i + 1]
      BY <2>0, <3>1
    <3>3. QED
      BY <2>0, <3>1, <3>2 DEF NoDuplicates
  <2>4. ASSUME NEW c \in Conn, NEW n \in Nonce, WantConfigPark(c, n)
        PROVE  NoDuplicates(s_pending')
    <3>1. s_pending' = Queued(c) /\ ~s_ready
      BY <2>4 DEF WantConfigPark, CanReplay, Control
    <3>2. QED
      BY <2>0, <3>1, QueuedRemembers
  <2>5. QED
    BY <2>1, <2>2, <2>3, <2>4, PendingWriters
<1>4. QED
  BY <1>1, <1>2, <1>3 DEF Parking, Booted

\* Every step keeps the waiting phones on the list.
LEMMA RememberedStep ==
  ASSUME PoolFits, ~BootRaces, TableInv, Control, Parking, PendingIsRemembered, [Next]_vars
  PROVE  PendingIsRemembered'
<1>0. TypeOK /\ s_pending \in Seq(Conn) /\ Len(s_pending) \in Nat
  BY DEF TableInv, TypeOK, UpstreamTypeOK
<1> SUFFICES ASSUME NEW s \in Slot, conns'[s].conn # NoConn, conns'[s].state = "PENDING"
             PROVE  \E i \in 1..Len(s_pending') : s_pending'[i] = conns'[s].conn
  BY DEF PendingIsRemembered, InUse, IsPending
<1>1. ASSUME NEW c \in Conn, NEW n \in Nonce, WantConfigPark(c, n), s = find_slot(c)
      PROVE  \E i \in 1..Len(s_pending') : s_pending'[i] = conns'[s].conn
  <2>1. s_pending' = Queued(c) /\ ~s_ready /\ Tracked(c)
    BY <1>1 DEF WantConfigPark, CanReplay, Control, PhoneActs, PhoneMayAct
  <2>2. conns[s].conn = c /\ s \in InUse
    BY <1>1, <2>1, FindSlot, SlotAssumption DEF Holds, InUse
  <2>3. conns'[s].conn = c
    <3>1. conns'[s] = Parked(conns[s], n)
      BY <1>1 DEF WantConfigPark, ble_gatt_park_pending
    <3>2. n \in Nat /\ conns[s] \in SlotRec
      BY <1>0, SlotAssumption DEF TypeOK, GattTypeOK
    <3>3. QED
      BY <2>2, <3>1, <3>2, SlotOpKeepsConn DEF SlotOp
  <2>4. QED
    BY <1>0, <2>1, <2>3, QueuedRemembers DEF Parking
<1>2. CASE conns[s].state = "PENDING" /\ conns'[s].conn = conns[s].conn
  <2>1. s \in InUse
    BY <1>2 DEF InUse
  <2>2. PICK i \in 1..Len(s_pending) : s_pending[i] = conns[s].conn
    BY <1>2, <2>1 DEF PendingIsRemembered, IsPending
  <2>3. CASE UNCHANGED s_pending
    BY <1>2, <2>2, <2>3
  <2>4. ASSUME ResetPending PROVE FALSE
    BY <1>2, <2>4 DEF ResetPending, MainAt, Parking, Booted
  <2>5. ASSUME NEW c \in Conn, NEW n \in Nonce, WantConfigPark(c, n)
        PROVE  s_pending'[i] = s_pending[i] /\ i \in 1..Len(s_pending')
    <3>1. s_pending' = Queued(c) /\ ~s_ready
      BY <2>5 DEF WantConfigPark, CanReplay, Control
    <3>2. Len(s_pending) <= Len(Queued(c)) /\ Queued(c)[i] = s_pending[i]
      BY <1>0, <3>1, QueuedRemembers DEF Parking
    <3>3. Len(Queued(c)) \in Nat
      BY <1>0, QueuedOK DEF TypeOK, SessionOK
    <3>4. QED
      BY <1>0, <3>1, <3>2, <3>3
  <2>6. CASE ServeOnePending
    <3>1. s_pending' = Tail(s_pending) /\ s_pending # <<>>
      BY <2>6 DEF ServeOnePending
    <3>2. s_serve_cb
      BY <2>6 DEF ServeOnePending, Control, BeforeFetch, Parking
    <3>3. conns' = ble_gatt_replay_cached_burst(Head(s_pending), 0)
      BY <2>6, <3>2 DEF ServeOnePending
    <3>4. Head(s_pending) # conns[s].conn
      <4>1. SUFFICES ASSUME Head(s_pending) = conns[s].conn PROVE FALSE
        OBVIOUS
      <4>2. Tracked(Head(s_pending)) /\ s = find_slot(Head(s_pending))
        BY <2>1, <4>1, OwnSlot DEF Tracked, Holds
      <4>3. conns'[s] = Armed(conns[s], 0)
        BY <3>3, <4>2 DEF ble_gatt_replay_cached_burst
      <4>4. Armed(conns[s], 0).state = "REPLAYING"
        BY <1>0 DEF Armed, TypeOK, GattTypeOK, SlotRec
      <4>5. QED
        BY <4>3, <4>4
    <3>5. i # 1 /\ Head(s_pending) = s_pending[1]
      BY <1>0, <2>2, <3>1, <3>4
    <3>6. i - 1 \in 1..Len(Tail(s_pending)) /\ Tail(s_pending)[i - 1] = s_pending[i]
      BY <1>0, <3>1, <3>5
    <3>7. QED
      BY <1>2, <2>2, <3>1, <3>6
  <2>7. QED
    BY <1>2, <2>2, <2>3, <2>4, <2>5, <2>6, PendingWriters
<1>3. QED
  BY <1>0, <1>1, <1>2, ParkedBy

\* No phone waits.
LEMMA InitParking == Init => Parking /\ PendingIsRemembered /\ Control
<1> SUFFICES ASSUME Init PROVE Parking /\ PendingIsRemembered /\ Control
  OBVIOUS
<1>1. Parking
  BY DEF Init, UpstreamInit, ZeroSlot, Parking, NoDuplicates
<1>2. PendingIsRemembered
  BY DEF Init, ZeroSlot, PendingIsRemembered, InUse
<1>3. QED
  BY <1>1, <1>2, InitReplay DEF ReplayInv

\* When phones act only after main has finished its boot, a phone in PENDING is on the list
\* that serve_pending_phones walks.  The list is as long as the stack's pool, so that the
\* overflow branch of upstream_on_pending_phone is never taken, also when the list holds
\* phones that left.
THEOREM RememberedCorrect ==
  ASSUME FewSlots, PoolFits, ~BootRaces PROVE Spec => []PendingIsRemembered
<1>1. TableInv /\ Control /\ Parking /\ PendingIsRemembered /\ [Next]_vars =>
        (Control /\ Parking /\ PendingIsRemembered)'
  BY ControlStep, ParkingStep, RememberedStep DEF TableInv
<1>2. QED
  BY <1>1, InitParking, TableInvariance, PTL DEF Spec

--------------------------------------------------------------------------------
\* Positions in order.

\* The abstract specification's Cardinality is that of FiniteSets.
LEMMA SameCardinality == \A S : Service!Cardinality(S) = Cardinality(S)
  BY DEF Service!Cardinality, Cardinality

\* The ranks of a set of positions are as many as its elements, and different.
LEMMA RankFacts ==
  ASSUME NEW P \in SUBSET Nat, IsFiniteSet(P)
  PROVE  /\ Cardinality(P) \in Nat
         /\ \A i \in P : Service!Rank(P, i) \in 1..Cardinality(P)
         /\ \A i, j \in P : i < j => Service!Rank(P, i) < Service!Rank(P, j)
<1> DEFINE Upto(i) == {j \in P : j <= i}
<1>0. Cardinality(P) \in Nat
  BY FS_CardinalityType
<1>1. ASSUME NEW i \in P
      PROVE  /\ IsFiniteSet(Upto(i)) /\ Cardinality(Upto(i)) \in Nat
             /\ Cardinality(Upto(i)) <= Cardinality(P) /\ i \in Upto(i)
  <2>1. Upto(i) \in SUBSET P /\ i \in Upto(i)
    OBVIOUS
  <2> HIDE DEF Upto
  <2>2. IsFiniteSet(Upto(i)) /\ Cardinality(Upto(i)) <= Cardinality(P)
    BY <2>1, FS_Subset
  <2>3. QED
    BY <2>1, <2>2, FS_CardinalityType
<1>2. ASSUME NEW i \in P PROVE Cardinality(Upto(i)) \in 1..Cardinality(P)
  <2> HIDE DEF Upto
  <2>1. Cardinality(Upto(i)) # 0
    BY <1>1, FS_EmptySet
  <2>2. QED
    BY <1>0, <1>1, <2>1
<1>3. ASSUME NEW i \in P, NEW j \in P, i < j PROVE Cardinality(Upto(i)) < Cardinality(Upto(j))
  <2>0. \A x \in P : x \in Nat
    OBVIOUS
  <2>1. \A x \in P : x <= i => x <= j
    BY <1>3, <2>0
  <2>2. j <= j /\ ~(j <= i)
    BY <1>3, <2>0
  <2>3. Upto(i) \in SUBSET Upto(j) /\ j \in Upto(j) /\ j \notin Upto(i)
    BY <2>1, <2>2, Zenon
  <2> HIDE DEF Upto
  <2>4. /\ Cardinality(Upto(i)) <= Cardinality(Upto(j))
        /\ Cardinality(Upto(j)) # Cardinality(Upto(i))
    BY <1>1, <2>3, FS_Subset
  <2>5. QED
    BY <1>1, <2>4
<1>4. \A i : Service!Rank(P, i) = Cardinality(Upto(i))
  BY SameCardinality DEF Service!Rank
<1> HIDE DEF Upto
<1>5. QED
  BY <1>0, <1>2, <1>3, <1>4

\* Every rank up to their number is the rank of exactly one position.
LEMMA RankOnto ==
  ASSUME NEW P \in SUBSET Nat, IsFiniteSet(P), NEW k \in 1..Cardinality(P)
  PROVE  \E i \in P : Service!Rank(P, i) = k
<1> DEFINE N == Cardinality(P)
           f == [i \in P |-> Service!Rank(P, i)]
<1>1. /\ N \in Nat
      /\ \A i \in P : Service!Rank(P, i) \in 1..N
      /\ \A i, j \in P : i < j => Service!Rank(P, i) < Service!Rank(P, j)
  BY RankFacts
<1>2. \A i, j \in P : Service!Rank(P, i) = Service!Rank(P, j) => i = j
  <2>1. \A i, j \in P : i < j \/ j < i \/ i = j
    OBVIOUS
  <2>2. QED
    BY <1>1, <2>1
<1>3. f \in Injection(P, 1..N)
  BY <1>1, <1>2 DEF Injection, IsInjective
<1>4. IsFiniteSet(1..N) /\ Cardinality(1..N) = N
  BY <1>1, FS_Interval
<1> HIDE DEF N, f
<1>5. f \in Surjection(P, 1..N)
  BY <1>3, <1>4, FS_Injection DEF N
<1>6. \E i \in P : f[i] = k
  BY <1>5 DEF Surjection, N
<1>7. QED
  BY <1>6 DEF f

\* The position of a rank.
At(P, k) == CHOOSE i \in P : Service!Rank(P, i) = k

\* There is one, and only one.
LEMMA AtRank ==
  ASSUME NEW P \in SUBSET Nat, IsFiniteSet(P), NEW k \in 1..Cardinality(P)
  PROVE  /\ At(P, k) \in P /\ Service!Rank(P, At(P, k)) = k
         /\ \A i \in P : Service!Rank(P, i) = k => i = At(P, k)
<1>1. At(P, k) \in P /\ Service!Rank(P, At(P, k)) = k
  BY RankOnto, Zenon DEF At
<1>2. ASSUME NEW i \in P, Service!Rank(P, i) = k PROVE i = At(P, k)
  <2> DEFINE a == At(P, k)
  <2>1. a \in P /\ Service!Rank(P, a) = Service!Rank(P, i)
    BY <1>1, <1>2
  <2> HIDE DEF a
  <2>2. a < i \/ i < a \/ i = a
    BY <2>1
  <2>3. \A x, y \in P : Service!Rank(P, x) \in Int
    BY RankFacts
  <2>4. ~(a < i) /\ ~(i < a)
    BY <2>1, <2>3, RankFacts
  <2>5. QED
    BY <2>2, <2>4 DEF a
<1>3. QED
  BY <1>1, <1>2

\* What InOrder returns.
LEMMA InOrderFacts ==
  ASSUME NEW l \in Seq(Frame), NEW P \in SUBSET (1..Len(l))
  PROVE  /\ IsFiniteSet(P) /\ Cardinality(P) \in Nat
         /\ Service!InOrder(l, P) \in Seq(Frame)
         /\ Len(Service!InOrder(l, P)) = Cardinality(P)
         /\ \A k \in 1..Cardinality(P) : Service!InOrder(l, P)[k] = l[At(P, k)]
<1>0. Len(l) \in Nat /\ P \in SUBSET Nat
  OBVIOUS
<1>1. IsFiniteSet(P) /\ Cardinality(P) \in Nat
  <2>1. IsFiniteSet(1..Len(l))
    BY <1>0, FS_Interval
  <2>2. QED
    BY <2>1, FS_Subset, FS_CardinalityType
<1>2. Service!InOrder(l, P) = [k \in 1..Cardinality(P) |-> l[At(P, k)]]
  BY SameCardinality DEF Service!InOrder, At
<1>3. ASSUME NEW k \in 1..Cardinality(P) PROVE l[At(P, k)] \in Frame
  <2>1. At(P, k) \in 1..Len(l)
    BY <1>0, <1>1, AtRank
  <2>2. \A i \in 1..Len(l) : l[i] \in Frame
    OBVIOUS
  <2>3. QED
    BY <2>1, <2>2, Zenon
<1>4. QED
  BY <1>1, <1>2, <1>3

\* The positions Q before all others of P: their ranks in P are those in Q.
LEMMA InOrderPrefix ==
  ASSUME NEW l \in Seq(Frame), NEW P \in SUBSET (1..Len(l)), NEW Q \in SUBSET P,
         \A q \in Q : \A p \in P \ Q : q < p
  PROVE  /\ Cardinality(Q) <= Cardinality(P)
         /\ \A k \in 1..Cardinality(Q) : Service!InOrder(l, P)[k] = Service!InOrder(l, Q)[k]
<1>1. /\ IsFiniteSet(P) /\ Cardinality(P) \in Nat /\ P \in SUBSET Nat
      /\ IsFiniteSet(Q) /\ Cardinality(Q) \in Nat /\ Q \in SUBSET Nat
  BY InOrderFacts
<1>2. Cardinality(Q) <= Cardinality(P)
  BY <1>1, FS_Subset
<1>3. ASSUME NEW k \in 1..Cardinality(Q)
      PROVE  Service!InOrder(l, P)[k] = Service!InOrder(l, Q)[k]
  <2> DEFINE a == At(Q, k)
  <2>1. a \in Q /\ Service!Rank(Q, a) = k
    BY <1>1, AtRank
  <2> HIDE DEF a
  <2>2. {j \in P : j <= a} = {j \in Q : j <= a}
    <3>1. \A j \in P : j <= a => j \in Q
      BY <1>1, <2>1
    <3>2. QED
      BY <3>1, Zenon
  <2>3. Service!Rank(P, a) = k /\ a \in P
    BY <2>1, <2>2, SameCardinality DEF Service!Rank
  <2>4. k \in 1..Cardinality(P)
    BY <1>1, <1>2
  <2>5. a = At(P, k)
    BY <1>1, <2>3, <2>4, AtRank
  <2>6. Service!InOrder(l, P)[k] = l[At(P, k)] /\ Service!InOrder(l, Q)[k] = l[At(Q, k)]
    BY <2>4, InOrderFacts
  <2>7. QED
    BY <2>5, <2>6 DEF a
<1>4. QED
  BY <1>2, <1>3

\* One position more, behind all the others, is one element more at the end.
LEMMA InOrderNext ==
  ASSUME NEW l \in Seq(Frame), NEW Q \in SUBSET (1..Len(l)), NEW i \in 1..Len(l),
         \A q \in Q : q < i
  PROVE  Service!InOrder(l, Q \cup {i}) = Append(Service!InOrder(l, Q), l[i])
<1> DEFINE P == Q \cup {i}
           A == Service!InOrder(l, Q)
           B == Service!InOrder(l, P)
<1>1. /\ P \in SUBSET (1..Len(l)) /\ P \in SUBSET Nat /\ i \in P
      /\ Q \in SUBSET P /\ i \notin Q
      /\ \A q \in Q : \A p \in P \ Q : q < p
  OBVIOUS
<1>2. /\ IsFiniteSet(Q) /\ Cardinality(Q) \in Nat
      /\ A \in Seq(Frame) /\ Len(A) = Cardinality(Q)
  BY InOrderFacts
<1>3. Cardinality(P) = Cardinality(Q) + 1 /\ IsFiniteSet(P)
  BY <1>1, <1>2, FS_AddElement
<1>4. Service!Rank(P, i) = Cardinality(P)
  <2>1. \A q \in P : q <= i
    OBVIOUS
  <2> HIDE DEF P
  <2>2. {j \in P : j <= i} = P
    BY <2>1, Zenon
  <2>3. QED
    BY <2>2, SameCardinality DEF Service!Rank
<1> HIDE DEF P
<1>5. /\ B \in Seq(Frame) /\ Len(B) = Cardinality(P)
      /\ \A k \in 1..Cardinality(P) : B[k] = l[At(P, k)]
  BY <1>1, InOrderFacts
<1>6. At(P, Cardinality(P)) = i
  <2>1. Cardinality(P) \in 1..Cardinality(P)
    BY <1>2, <1>3
  <2>2. QED
    BY <1>1, <1>3, <1>4, <2>1, AtRank
<1>7. \A k \in 1..Cardinality(Q) : B[k] = A[k]
  BY <1>1, InOrderPrefix
<1>8. B[Len(A) + 1] = l[i]
  BY <1>2, <1>3, <1>5, <1>6
<1> HIDE DEF A, B
<1>9. B = Append(A, l[i])
  BY <1>2, <1>3, <1>5, <1>7, <1>8
<1>10. QED
  BY <1>9 DEF A, B, P

--------------------------------------------------------------------------------
\* Whose session a step touches.

\* The step leaves the session in slot s alone: what its phone asked for, what it is
\* answered and what it has read.
Untouched(s) ==
  /\ conns'[s].conn = conns[s].conn /\ conns'[s].state = conns[s].state
  /\ conns'[s].nonce = conns[s].nonce /\ conns'[s].cc = conns[s].cc
  /\ conns'[s].replay_cursor = conns[s].replay_cursor
  /\ phone'[conns[s].conn].want = phone[conns[s].conn].want
  /\ phone'[conns[s].conn].rx = phone[conns[s].conn].rx

\* The step makes of the session in slot s the slot qc, of a phone that wants w and has r.
Becomes(s, qc, w, r) ==
  /\ conns'[s] = qc
  /\ phone'[conns[s].conn].want = w
  /\ phone'[conns[s].conn].rx = r

OnlyTouches(s) == s \in InUse /\ \A t \in InUse \ {s} : Untouched(t)

\* A read, as the phone in slot s sees it.
ReadIn(s) ==
  LET p == phone[conns[s].conn]
  IN  Becomes(s, AfterRead(conns[s]), p.want,
              IF conns[s].state = "REPLAYING" THEN p.rx \o ReadResult(conns[s]) ELSE p.rx)

\* A notification leaves what the phone has read alone, and so does a kick of another.
LEMMA NotifiedKeepsRx ==
  ASSUME phone \in [Conn -> Phone], NEW N, NEW d \in Conn
  PROVE  Notified(N)[d].rx = phone[d].rx
  BY DEF Notified, Phone

\* The kick of a replay empties what its own phone has read.
LEMMA KickedRx ==
  ASSUME phone \in [Conn -> Phone], NEW c \in Conn, NEW d \in Conn
  PROVE  Kicked(c)[d].rx = IF Tracked(c) /\ d = c THEN <<>> ELSE phone[d].rx
<1> DEFINE P == Notified({c})
<1>1. P \in [Conn -> Phone] /\ P[d].rx = phone[d].rx
  BY NotifiedOK, NotifiedKeepsRx
<1>2. Kicked(c) = IF Tracked(c) THEN [P EXCEPT ![c].rx = <<>>] ELSE phone
  BY DEF Kicked
<1> HIDE DEF P
<1>3. [P EXCEPT ![c].rx = <<>>][d].rx = IF d = c THEN <<>> ELSE P[d].rx
  BY <1>1 DEF Phone
<1>4. QED
  BY <1>1, <1>2, <1>3

\* A tracked connection has its slot in use.
LEMMA TrackedSlot ==
  ASSUME TableInv, NEW c \in Conn, Tracked(c)
  PROVE  find_slot(c) \in InUse /\ conns[find_slot(c)].conn = c
<1>1. find_slot(c) \in Slot /\ conns[find_slot(c)].conn = c
  BY FindSlot DEF Holds
<1>2. QED
  BY <1>1, SlotAssumption DEF InUse

\* Two slots in use belong to two connections.
LEMMA OtherSlot ==
  ASSUME TableInv, NEW s \in InUse, NEW t \in InUse, s # t
  PROVE  conns[s].conn # conns[t].conn
  BY OwnSlot

\* fromradio_read touches one session.
LEMMA ReadTouches ==
  ASSUME TableInv, NEW c \in Conn, fromradio_read(c)
  PROVE  \E s \in InUse : conns[s].conn = c /\ OnlyTouches(s) /\ ReadIn(s)
<1> DEFINE s == find_slot(c)
           pc == conns[s]
           r == ReadResult(pc)
           x == IF pc.state = "REPLAYING" THEN phone[c].rx \o r ELSE phone[c].rx
<1>0. phone \in [Conn -> Phone] /\ \A t \in InUse : t \in Slot
  BY DEF TableInv, TypeOK, InUse
<1>1. s \in InUse /\ pc.conn = c /\ s \in Slot
  BY <1>0, TrackedSlot DEF fromradio_read
<1>2. /\ conns' = [t \in Slot |-> IF t = s THEN AfterRead(pc) ELSE conns[t]]
      /\ phone' = [phone EXCEPT ![c].draining = (r # <<>>),
                     ![c].rx = IF pc.state = "REPLAYING" THEN @ \o r ELSE @]
  BY DEF fromradio_read
<1> HIDE DEF s, r
<1>3. phone'[c].want = phone[c].want /\ phone'[c].rx = x
  BY <1>0, <1>2 DEF Phone
<1>4. ReadIn(s)
  BY <1>1, <1>2, <1>3 DEF ReadIn, Becomes, r
<1>5. ASSUME NEW t \in InUse, t # s PROVE Untouched(t)
  <2>1. conns'[t] = conns[t]
    BY <1>0, <1>2, <1>5
  <2>2. conns[t].conn \in Conn /\ conns[t].conn # c
    BY <1>1, <1>5, OtherSlot, OwnSlot
  <2>3. phone'[conns[t].conn] = phone[conns[t].conn]
    BY <1>0, <1>2, <2>2
  <2>4. QED
    BY <2>1, <2>3 DEF Untouched
<1>6. QED
  BY <1>1, <1>4, <1>5 DEF OnlyTouches

\* A want_config that is answered at once touches one session.
LEMMA ReplayTouches ==
  ASSUME TableInv, NEW c \in Conn, NEW n \in Nonce, WantConfigReplay(c, n)
  PROVE  \E s \in InUse : /\ conns[s].conn = c /\ OnlyTouches(s)
                          /\ Becomes(s, Armed(conns[s], n), {n}, <<>>)
<1> DEFINE s == find_slot(c)
<1>0. phone \in [Conn -> Phone] /\ \A t \in InUse : t \in Slot
  BY DEF TableInv, TypeOK, InUse
<1>1. /\ conns' = ble_gatt_replay_cached_burst(c, n) /\ Tracked(c)
      /\ phone' = [Kicked(c) EXCEPT ![c].want = {n}, ![c].asked = @ \cup {n}]
  BY DEF WantConfigReplay, PhoneActs, PhoneMayAct
<1>2. s \in InUse /\ conns[s].conn = c /\ s \in Slot
  BY <1>0, <1>1, TrackedSlot
<1> HIDE DEF s
<1>3. Kicked(c) \in [Conn -> Phone] /\ \A d \in Conn :
        /\ Kicked(c)[d].rx = IF d = c THEN <<>> ELSE phone[d].rx
        /\ Kicked(c)[d].want = phone[d].want
  BY <1>0, <1>1, KickedOK, KickedRx, KickedKeeps
<1>4. /\ phone'[c].want = {n} /\ phone'[c].rx = <<>>
      /\ \A d \in Conn \ {c} : phone'[d].want = phone[d].want /\ phone'[d].rx = phone[d].rx
  BY <1>1, <1>3 DEF Phone
<1>5. \A t \in Slot : conns'[t] = IF t = s THEN Armed(conns[t], n) ELSE conns[t]
  BY <1>1 DEF ble_gatt_replay_cached_burst, s
<1>6. \A t \in InUse \ {s} : conns[t].conn \in Conn \ {c}
  BY <1>2, OtherSlot, OwnSlot
<1>7. \A t \in InUse \ {s} : Untouched(t)
  BY <1>0, <1>4, <1>5, <1>6 DEF Untouched
<1>8. QED
  BY <1>2, <1>4, <1>5, <1>7 DEF OnlyTouches, Becomes

\* So does one that has to wait.
LEMMA ParkTouches ==
  ASSUME TableInv, NEW c \in Conn, NEW n \in Nonce, WantConfigPark(c, n), ~s_ready
  PROVE  \E s \in InUse :
           /\ conns[s].conn = c /\ OnlyTouches(s)
           /\ Becomes(s, [conns[s] EXCEPT !.state = "PENDING", !.nonce = n], {n}, phone[c].rx)
<1> DEFINE s == find_slot(c)
<1>0. phone \in [Conn -> Phone] /\ \A t \in InUse : t \in Slot
  BY DEF TableInv, TypeOK, InUse
<1>1. /\ conns' = ble_gatt_park_pending(c, n) /\ Tracked(c)
      /\ phone' = [phone EXCEPT ![c].want = {n}, ![c].asked = @ \cup {n}]
  BY DEF WantConfigPark, PhoneActs, PhoneMayAct
<1>2. s \in InUse /\ conns[s].conn = c /\ s \in Slot
  BY <1>0, <1>1, TrackedSlot
<1> HIDE DEF s
<1>4. /\ phone'[c].want = {n} /\ phone'[c].rx = phone[c].rx
      /\ \A d \in Conn \ {c} : phone'[d].want = phone[d].want /\ phone'[d].rx = phone[d].rx
  BY <1>0, <1>1 DEF Phone
<1>5. \A t \in Slot : conns'[t] = IF t = s
                                  THEN [conns[t] EXCEPT !.state = "PENDING", !.nonce = n]
                                  ELSE conns[t]
  BY <1>1 DEF ble_gatt_park_pending, Parked, s
<1>6. \A t \in InUse \ {s} : conns[t].conn \in Conn \ {c}
  BY <1>2, OtherSlot, OwnSlot
<1>7. \A t \in InUse \ {s} : Untouched(t)
  BY <1>0, <1>4, <1>5, <1>6 DEF Untouched
<1>8. QED
  BY <1>2, <1>4, <1>5, <1>7 DEF OnlyTouches, Becomes

\* Serving a phone of the pending list touches its session, if it has not left.
LEMMA ServeTouches ==
  ASSUME TableInv, ServeOnePending, s_serve_cb
  PROVE  /\ Head(s_pending) \in Conn
         /\ Tracked(Head(s_pending)) =>
              \E s \in InUse : /\ conns[s].conn = Head(s_pending) /\ OnlyTouches(s)
                               /\ Becomes(s, Armed(conns[s], 0),
                                          phone[Head(s_pending)].want, <<>>)
         /\ ~Tracked(Head(s_pending)) => UNCHANGED <<conns, phone>>
<1> DEFINE c == Head(s_pending)
<1>0. /\ phone \in [Conn -> Phone] /\ \A t \in InUse : t \in Slot
      /\ conns = [t \in Slot |-> conns[t]]
  BY DEF TableInv, TypeOK, GattTypeOK, InUse
<1>1. /\ conns' = ble_gatt_replay_cached_burst(c, 0)
      /\ phone' = Kicked(c)
      /\ c \in Conn
  BY DEF ServeOnePending, TableInv, TypeOK, UpstreamTypeOK
<1> HIDE DEF c
<1>2. CASE ~Tracked(c)
  <2>1. phone' = phone
    BY <1>1, <1>2 DEF Kicked
  <2>2. conns' = [t \in Slot |-> conns[t]]
    BY <1>1, <1>2 DEF ble_gatt_replay_cached_burst
  <2>3. QED
    BY <1>0, <1>1, <1>2, <2>1, <2>2 DEF c
<1>3. CASE Tracked(c)
  <2> DEFINE s == find_slot(c)
  <2>2. s \in InUse /\ conns[s].conn = c /\ s \in Slot
    BY <1>0, <1>1, <1>3, TrackedSlot
  <2> HIDE DEF s
  <2>4. /\ phone'[c].want = phone[c].want /\ phone'[c].rx = <<>>
        /\ \A d \in Conn \ {c} : phone'[d].want = phone[d].want /\ phone'[d].rx = phone[d].rx
    BY <1>0, <1>1, <1>3, KickedRx, KickedKeeps
  <2>5. \A t \in Slot : conns'[t] = IF t = s THEN Armed(conns[t], 0) ELSE conns[t]
    BY <1>1, <1>3 DEF ble_gatt_replay_cached_burst, s
  <2>6. \A t \in InUse \ {s} : conns[t].conn \in Conn \ {c}
    BY <2>2, OtherSlot, OwnSlot
  <2>7. \A t \in InUse \ {s} : Untouched(t)
    BY <1>0, <2>4, <2>5, <2>6 DEF Untouched
  <2>8. QED
    BY <1>1, <1>3, <2>2, <2>4, <2>5, <2>7 DEF OnlyTouches, Becomes, c
<1>4. QED
  BY <1>2, <1>3

\* A frame on the queues touches no session.
LEMMA EnqueueTouches ==
  ASSUME TableInv, NEW S, NEW f, Enqueue(S, f)
  PROVE  \A s \in InUse : Untouched(s)
<1> SUFFICES ASSUME NEW s \in InUse PROVE Untouched(s)
  OBVIOUS
<1>0. /\ phone \in [Conn -> Phone] /\ s \in Slot /\ conns[s] \in SlotRec
      /\ conns[s].conn \in Conn
  BY OwnSlot DEF TableInv, TypeOK, GattTypeOK, InUse
<1>1. conns'[s] \in {conns[s], Enqueued(conns[s], f)}
  BY <1>0 DEF Enqueue, ble_gatt_enqueue_fromradio
<1>2. LET qc == Enqueued(conns[s], f)
          pc == conns[s]
      IN  /\ qc.conn = pc.conn /\ qc.state = pc.state /\ qc.nonce = pc.nonce
          /\ qc.cc = pc.cc /\ qc.replay_cursor = pc.replay_cursor
  BY <1>0 DEF Enqueued, SlotRec
<1>3. /\ phone'[conns[s].conn].want = phone[conns[s].conn].want
      /\ phone'[conns[s].conn].rx = phone[conns[s].conn].rx
  BY <1>0, NotifiedKeeps, NotifiedKeepsRx DEF Enqueue
<1>4. QED
  BY <1>1, <1>2, <1>3 DEF Untouched

\* The steps that touch a session, and all the others.
LEMMA SessionCases ==
  ASSUME TableInv, [Next]_vars
  PROVE  \/ \E c \in Conn : on_connected(c) \/ on_disconnected(c) \/ fromradio_read(c)
         \/ \E c \in Conn : \E n \in Nonce : WantConfigReplay(c, n) \/ WantConfigPark(c, n)
         \/ ServeOnePending
         \/ \A s \in InUse : Untouched(s)
<1>0. phone \in [Conn -> Phone]
  BY DEF TableInv, TypeOK
<1>1. ASSUME UNCHANGED <<conns, phone>> PROVE \A s \in InUse : Untouched(s)
  BY <1>1 DEF Untouched
<1>2. ASSUME NEW c \in Conn, NEW id \in ProxyId, node_reg_write(c, id)
      PROVE  \A s \in InUse : Untouched(s)
  <2> SUFFICES ASSUME NEW s \in InUse PROVE Untouched(s)
    OBVIOUS
  <2>1. conns[s] \in SlotRec /\ s \in Slot /\ conns[s].conn \in Conn
    BY OwnSlot DEF InUse, TableInv, TypeOK, GattTypeOK
  <2>2. conns'[s] \in {conns[s], [conns[s] EXCEPT !.proxy_id = id]}
    BY <1>2, <2>1 DEF node_reg_write, ble_gatt_register_proxy_id
  <2>3. phone' = [phone EXCEPT ![c].reg = id]
    BY <1>2 DEF node_reg_write
  <2>4. /\ phone'[conns[s].conn].want = phone[conns[s].conn].want
        /\ phone'[conns[s].conn].rx = phone[conns[s].conn].rx
    BY <1>0, <2>1, <2>3 DEF Phone
  <2>5. QED
    BY <2>1, <2>2, <2>4 DEF Untouched, SlotRec
<1>3. ASSUME NEW c \in Conn, fromnum_ccc_changed(c) PROVE \A s \in InUse : Untouched(s)
  <2> SUFFICES ASSUME NEW s \in InUse PROVE Untouched(s)
    OBVIOUS
  <2>1. conns[s].conn \in Conn /\ conns' = conns /\ phone' = [phone EXCEPT ![c].sub = TRUE]
    BY <1>3, OwnSlot, Zenon DEF fromnum_ccc_changed, gattVars
  <2>2. /\ phone'[conns[s].conn].want = phone[conns[s].conn].want
        /\ phone'[conns[s].conn].rx = phone[conns[s].conn].rx
    BY <1>0, <2>1 DEF Phone
  <2>3. QED
    BY <2>1, <2>2 DEF Untouched
<1>4. ASSUME NEW c \in Conn, Heartbeat(c) PROVE \A s \in InUse : Untouched(s)
  BY <1>4, EnqueueTouches DEF Heartbeat
<1>5. CASE NodeFrameArrives \/ LiveFrameArrives
  <2>1. PICK f \in Frame : on_fromradio_uart(f)
    BY <1>5, ArrivalIsFrame DEF TableInv
  <2>2. CASE BroadcastRaw(f) \/ RouteFrame(f)
    BY <2>2, EnqueueTouches DEF BroadcastRaw, RouteFrame
  <2>3. CASE CloseBurst(f) \/ CacheFrame(f) \/ SwallowQueueStatus(f)
    BY <1>1, <2>3 DEF CloseBurst, CacheFrame, SwallowQueueStatus
  <2>4. QED
    BY <2>1, <2>2, <2>3 DEF on_fromradio_uart
<1>6. ASSUME \/ Main \/ GoLive \/ keepalive_work_handler \/ NodeConsumes \/ FrameLost
             \/ UNCHANGED vars \/ \E c \in Conn : \E kind \in {"packet", "malformed"} :
                                    Forward(c, kind)
      PROVE  \A s \in InUse : Untouched(s)
  <2>1. UNCHANGED <<conns, phone>>
    BY <1>6 DEF Main, SetServeCb, BeginCache, ResetPending, SendWantConfig, StartFetching,
      ArmKeepalive, GoLive, keepalive_work_handler, NodeConsumes, FrameLost, vars, Forward,
      gattVars
  <2>2. QED
    BY <1>1, <2>1
<1>7. QED
  BY <1>2, <1>3, <1>4, <1>5, <1>6 DEF Next, PhoneStep, WorkQueue, Node

--------------------------------------------------------------------------------
\* What a phone has read of its replay.

\* s_own_nodeinfo_idx is the first node_info of the cache, or none.
OwnFirst ==
  /\ s_own_nodeinfo_idx # 0 =>
       /\ s_own_nodeinfo_idx \in 1..Len(s_index)
       /\ s_index[s_own_nodeinfo_idx].variant = "node_info"
       /\ \A j \in 1..(s_own_nodeinfo_idx - 1) : s_index[j].variant # "node_info"
  /\ s_own_nodeinfo_idx = 0 => \A j \in 1..Len(s_index) : s_index[j].variant # "node_info"

\* Every step keeps it: cache_add_frame sets the index once.
LEMMA OwnFirstStep == ASSUME TypeOK, OwnFirst, [Next]_vars PROVE OwnFirst'
<1>0. /\ s_index \in Seq(Frame) /\ Len(s_index) \in Nat /\ s_own_nodeinfo_idx \in Nat
  BY DEF TypeOK, CacheTypeOK
<1>1. CASE UNCHANGED cacheVars
  BY <1>1 DEF cacheVars, OwnFirst
<1>2. CASE BeginCache
  <2>1. s_own_nodeinfo_idx' = 0 /\ s_index' = <<>>
    BY <1>2 DEF BeginCache, cache_begin
  <2>2. QED
    BY <2>1 DEF OwnFirst
<1>3. ASSUME NEW f \in Frame, CloseBurst(f) PROVE OwnFirst'
  BY <1>3 DEF CloseBurst, cache_mark_ready, OwnFirst
<1>4. ASSUME NEW f \in Frame, CacheFrame(f) PROVE OwnFirst'
  <2>1. CASE ~CacheFits(f)
    BY <1>1, <1>4, <2>1 DEF CacheFrame, cache_add_frame
  <2>2. CASE CacheFits(f)
    <3> DEFINE l == Append(s_index, f)
    <3>1. /\ s_index' = l
          /\ s_own_nodeinfo_idx' = IF f.variant = "node_info" /\ s_own_nodeinfo_idx = 0
                                   THEN Len(s_index) + 1 ELSE s_own_nodeinfo_idx
      BY <1>4, <2>2 DEF CacheFrame, cache_add_frame
    <3>2. /\ Len(l) = Len(s_index) + 1 /\ l[Len(s_index) + 1] = f
          /\ \A i \in 1..Len(s_index) : l[i] = s_index[i]
      BY <1>0
    <3> HIDE DEF l
    <3>3. CASE f.variant = "node_info" /\ s_own_nodeinfo_idx = 0
      BY <1>0, <3>1, <3>2, <3>3 DEF OwnFirst
    <3>4. CASE ~(f.variant = "node_info" /\ s_own_nodeinfo_idx = 0)
      BY <1>0, <3>1, <3>2, <3>4 DEF OwnFirst
    <3>5. QED
      BY <3>3, <3>4
  <2>3. QED
    BY <2>1, <2>2
<1>5. QED
  BY <1>1, <1>2, <1>3, <1>4, CacheWriters

\* cache_frame_in_segment lets through what the abstract service wants.
LEMMA SegIsWanted ==
  ASSUME TypeOK, OwnFirst, NEW n
  PROVE  \A i \in 1..Len(s_index) :
           cache_frame_in_segment(i, n) <=> i \in Service!Wanted(s_index, n)
<1>0. Len(s_index) \in Nat /\ s_own_nodeinfo_idx \in Nat
  BY DEF TypeOK, CacheTypeOK
<1>1. ASSUME NEW i \in 1..Len(s_index), s_index[i].variant = "node_info"
      PROVE  i = s_own_nodeinfo_idx <=> \A j \in 1..(i - 1) : s_index[j].variant # "node_info"
  <2>1. s_own_nodeinfo_idx # 0
    BY <1>1 DEF OwnFirst
  <2>2. ~(i < s_own_nodeinfo_idx)
    BY <1>0, <1>1, <2>1 DEF OwnFirst
  <2>3. s_own_nodeinfo_idx < i => s_own_nodeinfo_idx \in 1..(i - 1)
    BY <1>0, <1>1, <2>1
  <2>4. QED
    BY <1>0, <1>1, <2>1, <2>2, <2>3 DEF OwnFirst
<1>2. QED
  BY <1>1 DEF cache_frame_in_segment, Service!Wanted, Service!IsNode

\* The positions of the segment that the cursor has passed.
Passed(l, n, cursor) == {i \in Service!Wanted(l, n) : i <= cursor}

\* What a phone has read, from its slot and the cache l.
Delivered(pc, rx, l) ==
  /\ pc.state = "REPLAYING" =>
       rx = IF pc.replay_cursor <= Len(l)
            THEN Service!InOrder(l, Passed(l, pc.nonce, pc.replay_cursor))
            ELSE Service!Answer(l, pc.nonce)
  /\ pc.state = "ACTIVE" => rx = Service!Answer(l, pc.nonce)

Deliveries == \A s \in InUse : Delivered(conns[s], phone[conns[s].conn].rx, s_index)

\* A replay that was just armed has read nothing.
LEMMA ArmedDelivers ==
  ASSUME s_index \in Seq(Frame), NEW pc \in SlotRec, NEW n \in Nat
  PROVE  Delivered(Armed(pc, n), <<>>, s_index)
<1> DEFINE qc == Armed(pc, n)
<1>1. qc.state = "REPLAYING" /\ qc.replay_cursor = 0 /\ Len(s_index) \in Nat
  BY DEF Armed, SlotRec
<1> HIDE DEF qc
<1>2. Passed(s_index, qc.nonce, 0) = {}
  BY DEF Passed, Service!Wanted
<1>3. Service!InOrder(s_index, {}) = <<>>
  <2>1. /\ Service!InOrder(s_index, {}) \in Seq(Frame)
        /\ Len(Service!InOrder(s_index, {})) = Cardinality({})
    BY InOrderFacts
  <2>2. QED
    BY <2>1, FS_EmptySet
<1>4. qc.replay_cursor <= Len(s_index) /\ qc.state # "ACTIVE"
  BY <1>1
<1>5. Delivered(qc, <<>>, s_index)
  BY <1>1, <1>2, <1>3, <1>4, Zenon DEF Delivered
<1>6. QED
  BY <1>5 DEF qc

\* What a read gives and leaves, case by case.
LEMMA ReadCases ==
  ASSUME TypeOK, OwnFirst, NEW pc \in SlotRec, pc.state = "REPLAYING",
         pc.replay_cursor <= Len(s_index) + 1, NEW rx, Delivered(pc, rx, s_index),
         pc.cc = pc.nonce
  PROVE  LET qc == AfterRead(pc)
             n  == pc.nonce
             ry == rx \o ReadResult(pc)
             l  == s_index
             W  == Service!Wanted(l, n)
         IN  /\ qc.nonce = n /\ qc.conn = pc.conn
             /\ \/ \E i \in W :
                     /\ qc.state = "REPLAYING" /\ qc.replay_cursor = i
                     /\ Passed(l, n, i) = Passed(l, n, pc.replay_cursor) \cup {i}
                     /\ i \notin Passed(l, n, pc.replay_cursor)
                     /\ rx = Service!InOrder(l, Passed(l, n, pc.replay_cursor))
                     /\ ry = Service!InOrder(l, Passed(l, n, i))
                     /\ ry = Append(rx, l[i])
                \/ /\ qc.state = "REPLAYING" /\ qc.replay_cursor = Len(l) + 1
                   /\ rx = Service!InOrder(l, W)
                   /\ ry = Service!Answer(l, n)
                \/ /\ qc.state = "ACTIVE"
                   /\ rx = Service!Answer(l, n) /\ ry = rx
<1> DEFINE qc == AfterRead(pc)
           n  == pc.nonce
           cur == pc.replay_cursor
           l  == s_index
           ry == rx \o ReadResult(pc)
           W  == Service!Wanted(l, n)
<1>0. l \in Seq(Frame) /\ Len(l) \in Nat /\ cur \in Nat /\ n \in Nat
      /\ W \in SUBSET (1..Len(l))
  BY DEF SlotRec, TypeOK, CacheTypeOK, Service!Wanted
<1>1. qc.nonce = n /\ qc.conn = pc.conn
  BY DEF AfterRead, SlotRec
<1>2. Remaining(pc) = {i \in W : cur < i}
  BY <1>0, SegIsWanted DEF Remaining
<1> HIDE DEF W
<1>3. CASE Remaining(pc) # {}
  <2> DEFINE i == Least(Remaining(pc))
             Q == Passed(l, n, cur)
  <2>1. Remaining(pc) \in SUBSET Nat
    <3>1. \A j \in W : j \in Nat
      BY <1>0
    <3>2. QED
      BY <1>2, <3>1, Zenon
  <2>2. i \in Remaining(pc) /\ \A j \in Remaining(pc) : i <= j
    BY <1>3, <2>1, LeastIsIn
  <2>3. /\ qc = [pc EXCEPT !.replay_cursor = i] /\ ReadResult(pc) = <<l[i]>>
    BY <1>3 DEF AfterRead, ReadResult
  <2> HIDE DEF i
  <2>4. i \in W /\ cur < i /\ i \in 1..Len(l)
    BY <1>0, <1>2, <2>2
  <2>5. cur <= Len(l) /\ rx = Service!InOrder(l, Q)
    <3>1. cur <= Len(l)
      BY <1>0, <2>4
    <3>2. QED
      BY <3>1 DEF Delivered
  <2>6. Passed(l, n, i) = Q \cup {i} /\ i \notin Q
    <3>1. \A j \in W : j \in Nat /\ j <= i => j <= cur \/ j = i
      BY <1>0, <1>2, <2>2, <2>4
    <3>2. \A j \in W : j \in Nat
      BY <1>0
    <3>3. \A j \in W : j <= i <=> j <= cur \/ j = i
      BY <1>0, <2>4, <3>1, <3>2
    <3>4. ~(i <= cur)
      BY <1>0, <2>4
    <3>5. QED
      BY <2>4, <3>3, <3>4, Zenon DEF Passed, W
  <2>7. Q \in SUBSET (1..Len(l)) /\ \A q \in Q : q < i
    BY <1>0, <2>4 DEF Passed, W
  <2> HIDE DEF Q
  <2>8. Service!InOrder(l, Q \cup {i}) = Append(Service!InOrder(l, Q), l[i])
    BY <1>0, <2>4, <2>7, InOrderNext
  <2>9. Service!InOrder(l, Q) \in Seq(Frame) /\ l[i] \in Frame
    <3>1. Service!InOrder(l, Q) \in Seq(Frame)
      BY <1>0, <2>7, InOrderFacts
    <3>2. QED
      BY <1>0, <2>4, <3>1
  <2>10. ry = Append(rx, l[i])
    BY <2>3, <2>5, <2>9
  <2>11. qc.state = "REPLAYING" /\ qc.replay_cursor = i
    BY <2>3 DEF SlotRec
  <2>12. QED
    BY <1>1, <2>4, <2>5, <2>6, <2>8, <2>10, <2>11 DEF Q, W
<1>4. CASE Remaining(pc) = {} /\ cur <= Len(l)
  <2>1. qc = [pc EXCEPT !.replay_cursor = Len(l) + 1] /\ ReadResult(pc) = <<ConfigComplete(n)>>
    BY <1>4 DEF AfterRead, ReadResult
  <2>2. Passed(l, n, cur) = W
    BY <1>0, <1>2, <1>4 DEF Passed, W
  <2>3. rx = Service!InOrder(l, W)
    BY <1>4, <2>2 DEF Delivered
  <2>4. qc.state = "REPLAYING" /\ qc.replay_cursor = Len(l) + 1
    BY <2>1 DEF SlotRec
  <2>5. QED
    BY <1>1, <2>1, <2>3, <2>4 DEF Service!Answer, W
<1>5. CASE Remaining(pc) = {} /\ ~(cur <= Len(l))
  <2>1. qc = [pc EXCEPT !.state = "ACTIVE"] /\ ReadResult(pc) = <<>>
    BY <1>5 DEF AfterRead, ReadResult
  <2>2. rx = Service!Answer(l, n)
    BY <1>5 DEF Delivered
  <2>3. Service!InOrder(l, W) \in Seq(Frame) /\ ConfigComplete(n) \in Frame
    BY <1>0, InOrderFacts DEF ConfigComplete, Frame, Variant, Route
  <2>4. rx \in Seq(Frame)
    BY <2>2, <2>3 DEF Service!Answer, W
  <2>5. ry = rx
    BY <2>1, <2>4
  <2>6. qc.state = "ACTIVE"
    BY <2>1 DEF SlotRec
  <2>7. QED
    BY <1>1, <2>2, <2>5, <2>6
<1>6. QED
  BY <1>3, <1>4, <1>5

\* What is left alone is still delivered.
LEMMA UntouchedDelivers ==
  ASSUME NEW s, Untouched(s), NEW l, Delivered(conns[s], phone[conns[s].conn].rx, l)
  PROVE  Delivered(conns'[s], phone'[conns'[s].conn].rx, l)
  BY DEF Untouched, Delivered

\* Every step keeps what the phones have read in line with their cursors: before the
\* cache is published no replay is on, and from then on it stays as it is.
LEMMA DeliveriesStep ==
  ASSUME TableInv, Control, ReplayFromReadyCache, Echo, OwnFirst, Deliveries, [Next]_vars
  PROVE  Deliveries'
<1>0. /\ conns \in [Slot -> SlotRec] /\ s_index \in Seq(Frame) /\ TypeOK
      /\ \A s \in InUse : s \in Slot
  BY DEF TableInv, TypeOK, GattTypeOK, CacheTypeOK, InUse
<1>1. CASE ~s_ready
  <2>1. \A s \in Slot : conns'[s].state \notin {"REPLAYING", "ACTIVE"}
    BY <1>0, <1>1, TypeParts, CursorStep DEF CursorOK
  <2>2. QED
    BY <2>1 DEF Deliveries, Delivered, InUse
<1>2. CASE s_ready
  <2>0. s_index' = s_index
    BY <1>0, <1>2, FrozenStep DEF cacheVars
  <2> DEFINE Good(s) == Delivered(conns'[s], phone'[conns'[s].conn].rx, s_index)
  <2>1. SUFFICES ASSUME NEW s \in Slot, conns'[s].conn # NoConn PROVE Good(s)
    BY <2>0 DEF Deliveries, InUse
  <2>2. ASSUME s \in InUse, Untouched(s) PROVE Good(s)
    BY <2>2, UntouchedDelivers DEF Deliveries
  <2>3. ASSUME NEW c \in Conn, on_connected(c) \/ on_disconnected(c) PROVE Good(s)
    <3>1. CASE s \in InUse /\ conns'[s] = conns[s]
               /\ phone'[conns[s].conn] = phone[conns[s].conn]
      BY <3>1 DEF Deliveries
    <3>2. CASE conns'[s] = ResetSlot(conns[s], c) /\ phone'[c] = NewPhone
      BY <1>0, <3>2 DEF ResetSlot, Delivered, SlotRec
    <3>3. QED
      BY <2>1, <2>3, <3>1, <3>2, LinkStep
  <2>4. ASSUME NEW t \in InUse, OnlyTouches(t), conns'[t].conn = conns[t].conn,
               Delivered(conns'[t], phone'[conns[t].conn].rx, s_index),
               \A u \in Slot \ InUse : conns'[u].conn = NoConn
        PROVE  Good(s)
    BY <2>1, <2>2, <2>4 DEF OnlyTouches
  <2>5. ASSUME ~\E c \in Conn : on_connected(c) \/ on_disconnected(c)
        PROVE  \A u \in Slot : conns'[u].conn = conns[u].conn
    BY <1>0, <2>5, TableStep, SlotOpKeepsConn
  <2>6. CASE ~\E c \in Conn : on_connected(c) \/ on_disconnected(c)
    <3>1. /\ s \in InUse /\ \A u \in Slot \ InUse : conns'[u].conn = NoConn
          /\ \A t \in InUse : conns'[t].conn = conns[t].conn
      BY <1>0, <2>1, <2>5, <2>6 DEF InUse
    <3>2. ASSUME NEW t \in InUse, NEW n \in Nat, OnlyTouches(t), NEW w,
                 Becomes(t, Armed(conns[t], n), w, <<>>)
          PROVE  Good(s)
      <4>1. Delivered(Armed(conns[t], n), <<>>, s_index)
        BY <1>0, <3>2, ArmedDelivers
      <4>2. QED
        BY <2>4, <3>1, <3>2, <4>1 DEF Becomes
    <3>3. ASSUME NEW c \in Conn, fromradio_read(c) PROVE Good(s)
      <4>1. PICK t \in InUse : conns[t].conn = c /\ OnlyTouches(t) /\ ReadIn(t)
        BY <3>3, ReadTouches
      <4> DEFINE pc == conns[t]
                 rx == phone[c].rx
      <4>2. /\ conns'[t] = AfterRead(pc)
            /\ phone'[c].rx = IF pc.state = "REPLAYING" THEN rx \o ReadResult(pc) ELSE rx
            /\ pc \in SlotRec /\ Delivered(pc, rx, s_index)
        BY <1>0, <4>1 DEF ReadIn, Becomes, Deliveries
      <4>3. CASE pc.state # "REPLAYING"
        <5>1. /\ AfterRead(pc).state = pc.state /\ AfterRead(pc).nonce = pc.nonce
          BY <4>2, <4>3 DEF AfterRead, SlotRec
        <5>2. Delivered(AfterRead(pc), rx, s_index)
          BY <4>2, <4>3, <5>1 DEF Delivered
        <5>3. QED
          BY <2>4, <3>1, <4>1, <4>2, <4>3, <5>2
      <4>4. CASE pc.state = "REPLAYING"
        <5>1. pc.replay_cursor <= Len(s_index) + 1 /\ pc.cc = pc.nonce
          BY <1>0, <4>4 DEF ReplayFromReadyCache, Echo, EchoOK
        <5> DEFINE qc == AfterRead(pc)
                   n  == pc.nonce
                   ry == rx \o ReadResult(pc)
                   W  == Service!Wanted(s_index, n)
        <5>2. /\ qc.nonce = n /\ qc.conn = pc.conn
              /\ \/ \E i \in W :
                      /\ qc.state = "REPLAYING" /\ qc.replay_cursor = i
                      /\ Passed(s_index, n, i) = Passed(s_index, n, pc.replay_cursor) \cup {i}
                      /\ i \notin Passed(s_index, n, pc.replay_cursor)
                      /\ rx = Service!InOrder(s_index, Passed(s_index, n, pc.replay_cursor))
                      /\ ry = Service!InOrder(s_index, Passed(s_index, n, i))
                      /\ ry = Append(rx, s_index[i])
                 \/ /\ qc.state = "REPLAYING" /\ qc.replay_cursor = Len(s_index) + 1
                    /\ rx = Service!InOrder(s_index, W)
                    /\ ry = Service!Answer(s_index, n)
                 \/ /\ qc.state = "ACTIVE"
                    /\ rx = Service!Answer(s_index, n) /\ ry = rx
          BY <1>0, <4>2, <4>4, <5>1, ReadCases, Zenon
        <5>3. /\ Len(s_index) \in Nat /\ ~(Len(s_index) + 1 <= Len(s_index))
              /\ \A i \in W : i <= Len(s_index)
          BY <1>0 DEF Service!Wanted
        <5> HIDE DEF qc, ry, W
        <5>4. Delivered(qc, ry, s_index)
          BY <5>2, <5>3 DEF Delivered
        <5>5. QED
          BY <2>4, <3>1, <4>1, <4>2, <4>4, <5>4 DEF qc, ry
      <4>5. QED
        BY <4>3, <4>4
    <3>4. ASSUME NEW c \in Conn, NEW n \in Nonce, WantConfigReplay(c, n) PROVE Good(s)
      BY <3>2, <3>4, ReplayTouches, SlotAssumption
    <3>5. ASSUME NEW c \in Conn, NEW n \in Nonce, WantConfigPark(c, n) PROVE Good(s)
      BY <1>2, <3>5 DEF WantConfigPark, CanReplay, Control
    <3>6. CASE ServeOnePending
      <4>1. CASE ~s_serve_cb \/ ~Tracked(Head(s_pending))
        <5>1. UNCHANGED <<conns, phone>>
          BY <3>6, <4>1, ServeTouches DEF ServeOnePending
        <5>2. QED
          BY <3>1, <5>1 DEF Deliveries
      <4>2. CASE s_serve_cb /\ Tracked(Head(s_pending))
        BY <3>2, <3>6, <4>2, ServeTouches
      <4>3. QED
        BY <4>1, <4>2
    <3>7. QED
      BY <2>2, <2>6, <3>1, <3>3, <3>4, <3>5, <3>6, SessionCases
  <2>7. QED
    BY <2>3, <2>6
<1>3. QED
  BY <1>1, <1>2

\* Sessions are in order: slots, boot, cursors, requests, and what was read.
SessionInv ==
  TableInv /\ Control /\ ReplayFromReadyCache /\ Echo /\ OwnFirst /\ Deliveries

\* It holds at first.
LEMMA InitSession == Init => SessionInv
<1>1. Init => OwnFirst
  BY DEF Init, CacheInit, OwnFirst
<1>2. Init => Deliveries
  BY DEF Init, ZeroSlot, Deliveries, InUse
<1>3. QED
  BY <1>1, <1>2, InitTable, InitReplay, InitEcho DEF SessionInv, ReplayInv

\* Every step keeps it.
LEMMA SessionInvStep == ASSUME FewSlots, SessionInv, [Next]_vars PROVE SessionInv'
  BY TableInvStep, ControlStep, ReplayStep, EchoStep, OwnFirstStep, DeliveriesStep
  DEF SessionInv, TableInv

\* So it is an invariant.
LEMMA SessionInvariance == ASSUME FewSlots PROVE Spec => []SessionInv
  BY InitSession, SessionInvStep, PTL DEF Spec

--------------------------------------------------------------------------------
\* The list of answers owed.

\* A list without duplicates is as long as the set of its elements.
LEMMA OwedCount ==
  ASSUME s_pending \in Seq(Conn), NoDuplicates(s_pending)
  PROVE  Cardinality(Owed) = Len(s_pending)
<1> DEFINE D == 1..Len(s_pending)
           f == [i \in D |-> s_pending[i]]
<1>1. Len(s_pending) \in Nat
  OBVIOUS
<1>2. IsFiniteSet(D) /\ Cardinality(D) = Len(s_pending)
  BY <1>1, FS_Interval
<1>3. f \in Injection(D, Owed)
  BY DEF Injection, IsInjective, NoDuplicates, Owed
<1>4. f \in Surjection(D, Owed)
  BY DEF Surjection, Owed
<1>5. f \in Bijection(D, Owed)
  BY <1>3, <1>4 DEF Bijection
<1>6. ExistsBijection(D, Owed)
  BY <1>5 DEF ExistsBijection
<1> HIDE DEF D, f
<1>7. QED
  BY <1>2, <1>6, FS_Bijection

\* upstream_on_pending_phone adds the phone to the set, if there is room, and no duplicate
\* to the list.
LEMMA QueuedOwed ==
  ASSUME s_pending \in Seq(Conn), NoDuplicates(s_pending), Len(s_pending) <= MaxConns,
         ~s_ready, NEW c \in Conn, s_pending' = Queued(c)
  PROVE  /\ NoDuplicates(s_pending')
         /\ Owed' = IF Cardinality(Owed) < MaxConns THEN Owed \cup {c} ELSE Owed
<1>0. Len(s_pending) \in Nat /\ MaxConns \in Nat /\ Cardinality(Owed) = Len(s_pending)
  BY OwedCount, PoolAssumption
<1>1. CASE IsPending(c)
  <2>1. s_pending' = s_pending
    BY <1>1 DEF Queued
  <2>2. c \in Owed
    BY <1>1 DEF IsPending, Owed
  <2>3. Owed' = Owed
    BY <2>1 DEF Owed
  <2>4. QED
    BY <2>1, <2>2, <2>3
<1>2. CASE ~IsPending(c) /\ Len(s_pending) >= MaxConns
  <2>1. s_pending' = s_pending
    BY <1>2 DEF Queued
  <2>2. Owed' = Owed
    BY <2>1 DEF Owed
  <2>3. ~(Cardinality(Owed) < MaxConns)
    BY <1>0, <1>2
  <2>4. QED
    BY <2>1, <2>2, <2>3
<1>3. CASE ~IsPending(c) /\ ~(Len(s_pending) >= MaxConns)
  <2>1. s_pending' = Append(s_pending, c) /\ Cardinality(Owed) < MaxConns
    BY <1>0, <1>3 DEF Queued
  <2>2. /\ Len(s_pending') = Len(s_pending) + 1
        /\ s_pending'[Len(s_pending) + 1] = c
        /\ \A i \in 1..Len(s_pending) : s_pending'[i] = s_pending[i]
    BY <2>1
  <2>3. \A i \in 1..Len(s_pending) : s_pending[i] # c
    BY <1>3 DEF IsPending
  <2>4. 1..Len(s_pending') = 1..Len(s_pending) \cup {Len(s_pending) + 1}
    BY <1>0, <2>2
  <2>5. NoDuplicates(s_pending')
    BY <2>2, <2>3, <2>4 DEF NoDuplicates
  <2>6. Owed' = Owed \cup {c}
    BY <2>2, <2>4 DEF Owed
  <2>7. QED
    BY <2>1, <2>5, <2>6
<1>4. QED
  BY <1>1, <1>2, <1>3

\* serve_pending_phones takes the first phone of the list out of the set.
LEMMA TailOwed ==
  ASSUME s_pending \in Seq(Conn), NoDuplicates(s_pending), s_pending # <<>>,
         s_pending' = Tail(s_pending)
  PROVE  /\ NoDuplicates(s_pending')
         /\ Head(s_pending) \in Owed /\ Owed' = Owed \ {Head(s_pending)}
<1>1. /\ Len(s_pending) \in Nat /\ Len(s_pending') = Len(s_pending) - 1
      /\ Len(s_pending) >= 1 /\ Head(s_pending) = s_pending[1]
      /\ \A i \in 1..Len(s_pending') :
           i + 1 \in 1..Len(s_pending) /\ s_pending'[i] = s_pending[i + 1]
  OBVIOUS
<1>2. NoDuplicates(s_pending')
  BY <1>1 DEF NoDuplicates
<1>3. Head(s_pending) \in Owed
  BY <1>1 DEF Owed
<1>4. ASSUME NEW x \in Owed' PROVE x \in Owed \ {Head(s_pending)}
  <2>1. PICK i \in 1..Len(s_pending') : x = s_pending'[i]
    BY <1>4 DEF Owed
  <2>2. i + 1 \in 1..Len(s_pending) /\ x = s_pending[i + 1] /\ 1 \in 1..Len(s_pending)
        /\ i + 1 # 1
    BY <1>1, <2>1
  <2>3. x # s_pending[1]
    BY <2>2 DEF NoDuplicates
  <2>4. QED
    BY <1>1, <2>2, <2>3 DEF Owed
<1>5. ASSUME NEW x \in Owed, x # Head(s_pending) PROVE x \in Owed'
  <2>1. PICK j \in 1..Len(s_pending) : x = s_pending[j]
    BY <1>5 DEF Owed
  <2>2. j # 1 /\ j \in Nat
    BY <1>1, <1>5, <2>1
  <2>3. (j - 1) \in 1..Len(s_pending') /\ (j - 1) + 1 = j
    BY <1>1, <2>1, <2>2
  <2>4. s_pending'[j - 1] = x
    BY <1>1, <2>1, <2>3
  <2>5. QED
    BY <2>3, <2>4 DEF Owed
<1>6. QED
  BY <1>2, <1>3, <1>4, <1>5

\* The callback is registered when the boot has begun, and the list has no duplicates.
Listing == (boot # "uart" => s_serve_cb) /\ NoDuplicates(s_pending)

\* Every step keeps them, also when phones race the boot and outnumber the list.
LEMMA ListingStep ==
  ASSUME TypeOK, Control, Listing, [Next]_vars
  PROVE  Listing'
<1>1. boot' # "uart" => s_serve_cb'
  <2>1. CASE s_serve_cb' = TRUE
    BY <2>1, Zenon
  <2>2. CASE boot # "uart" /\ UNCHANGED s_serve_cb
    BY <2>2, Zenon DEF Listing
  <2>3. QED
    BY <2>1, <2>2, BootOrder, Zenon
<1>2. NoDuplicates(s_pending')
  <2>0. s_pending \in Seq(Conn) /\ Len(s_pending) <= MaxConns /\ NoDuplicates(s_pending)
    BY DEF TypeOK, UpstreamTypeOK, Listing
  <2>1. CASE UNCHANGED s_pending
    BY <2>0, <2>1
  <2>2. CASE ResetPending
    BY <2>2 DEF ResetPending, NoDuplicates
  <2>3. CASE ServeOnePending
    BY <2>0, <2>3, TailOwed DEF ServeOnePending
  <2>4. ASSUME NEW c \in Conn, NEW n \in Nonce, WantConfigPark(c, n)
        PROVE  NoDuplicates(s_pending')
    <3>1. s_pending' = Queued(c) /\ ~s_ready
      BY <2>4 DEF WantConfigPark, CanReplay, Control
    <3>2. QED
      BY <2>0, <3>1, QueuedOwed
  <2>5. QED
    BY <2>1, <2>2, <2>3, <2>4, PendingWriters
<1>3. QED
  BY <1>1, <1>2 DEF Listing

--------------------------------------------------------------------------------
\* The sessions of the abstract specification.

\* Sessions, of any table of slots T and any phones P; no connection has two slots of T.
SlotOf(T, c) ==
  CHOOSE s \in Slot : T[s].conn = c /\ \A t \in Slot : t < s => ~(T[t].conn = c)

SessionsOf(T, P) ==
  [c \in Conn |-> IF \E s \in Slot : T[s].conn = c THEN SessionIn(T[SlotOf(T, c)], P[c])
                  ELSE NoSession]

OneSlotEach(T) == \A s, t \in Slot : T[s].conn = T[t].conn => T[s].conn = NoConn \/ s = t

\* A connection has the session of its slot, or none.
LEMMA SessionOfSlot ==
  ASSUME NEW T, NEW P, OneSlotEach(T)
  PROVE  /\ \A s \in Slot : T[s].conn \in Conn =>
              SessionsOf(T, P)[T[s].conn] = SessionIn(T[s], P[T[s].conn])
         /\ \A c \in Conn : (\A s \in Slot : T[s].conn # c) => SessionsOf(T, P)[c] = NoSession
<1>1. ASSUME NEW s \in Slot, T[s].conn \in Conn PROVE SlotOf(T, T[s].conn) = s
  <2>1. T[s].conn # NoConn
    BY <1>1, SlotAssumption
  <2>2. \A t \in Slot : t < s => ~(T[t].conn = T[s].conn)
    <3>1. \A t \in Slot : t < s => t # s
      BY DEF Slot
    <3>2. QED
      BY <2>1, <3>1 DEF OneSlotEach
  <2>3. \A t \in Slot : T[t].conn = T[s].conn => t = s
    BY <2>1 DEF OneSlotEach
  <2>4. QED
    BY <2>2, <2>3 DEF SlotOf
<1>2. QED
  BY <1>1 DEF SessionsOf

\* They are those of the refinement mapping, before and after a step.
LEMMA SessionsAre ==
  /\ Sessions = SessionsOf(conns, phone)
  /\ Sessions' = SessionsOf(conns', phone')
  BY DEF Sessions, SessionsOf, SlotOf, Tracked, find_slot, Holds

\* Every connection has one slot.
LEMMA TableOneEach ==
  ASSUME TableInv
  PROVE  OneSlotEach(conns) /\ \A s \in Slot : conns[s].conn \in Conn \cup {NoConn}
<1>1. \A s \in Slot : conns[s].conn \in Conn \cup {NoConn}
  BY DEF TableInv, TypeOK, GattTypeOK, SlotRec
<1>2. ASSUME NEW s \in Slot, NEW t \in Slot, conns[s].conn = conns[t].conn,
             conns[s].conn # NoConn
      PROVE  s = t
  BY <1>2, OwnSlot DEF InUse
<1>3. QED
  BY <1>1, <1>2 DEF OneSlotEach

\* The session of a slot in use, and of a connection that has none.
LEMMA SessionNow ==
  ASSUME TableInv
  PROVE  /\ \A s \in InUse : Sessions[conns[s].conn] = SessionIn(conns[s], phone[conns[s].conn])
         /\ \A c \in Conn : ~Tracked(c) => Sessions[c] = NoSession
<1>1. \A s \in InUse : s \in Slot /\ conns[s].conn \in Conn
  BY OwnSlot DEF InUse
<1>2. QED
  BY <1>1, SessionsAre, TableOneEach, SessionOfSlot DEF Tracked, Holds

\* A session that exists is not "gone".
LEMMA NotGone ==
  ASSUME NEW pc \in SlotRec, NEW p
  PROVE  SessionIn(pc, p).state # "gone"
  BY DEF SessionIn, Phase, SlotRec, PhoneState

\* A step that leaves the connections where they are and touches one session.
LEMMA OneSessionStep ==
  ASSUME TableInv, \A s \in Slot : conns'[s].conn = conns[s].conn,
         NEW t \in InUse, OnlyTouches(t)
  PROVE  Sessions' = [Sessions EXCEPT ![conns[t].conn] =
                        SessionIn(conns'[t], phone'[conns[t].conn])]
<1> DEFINE c == conns[t].conn
           x == SessionIn(conns'[t], phone'[c])
<1>0. /\ \A s \in InUse : s \in Slot /\ conns[s].conn \in Conn
      /\ OneSlotEach(conns) /\ OneSlotEach(conns')
  BY OwnSlot, TableOneEach DEF InUse, OneSlotEach
<1>1. ASSUME NEW d \in Conn PROVE Sessions'[d] = IF d = c THEN x ELSE Sessions[d]
  <2>1. CASE \E s \in Slot : conns[s].conn = d
    <3>1. PICK s \in Slot : conns[s].conn = d
      BY <2>1
    <3>2. s \in InUse /\ conns'[s].conn = d
      BY <3>1, SlotAssumption DEF InUse
    <3>3. Sessions'[d] = SessionIn(conns'[s], phone'[d])
      BY <1>0, <3>2, SessionOfSlot, SessionsAre
    <3>4. Sessions[d] = SessionIn(conns[s], phone[d])
      BY <1>0, <3>1, SessionOfSlot, SessionsAre
    <3>5. CASE s = t
      BY <3>1, <3>3, <3>5
    <3>6. CASE s # t
      <4>1. d # c
        BY <3>1, <3>2, <3>6, OtherSlot
      <4>2. Untouched(s)
        BY <3>2, <3>6 DEF OnlyTouches
      <4>3. SessionIn(conns'[s], phone'[d]) = SessionIn(conns[s], phone[d])
        BY <3>1, <4>2 DEF Untouched, SessionIn
      <4>4. QED
        BY <3>3, <3>4, <4>1, <4>3
    <3>7. QED
      BY <3>5, <3>6
  <2>2. CASE \A s \in Slot : conns[s].conn # d
    <3>1. Sessions'[d] = NoSession /\ Sessions[d] = NoSession
      BY <1>0, <2>2, SessionOfSlot, SessionsAre
    <3>2. d # c
      BY <1>0, <2>2
    <3>3. QED
      BY <3>1, <3>2
  <2>3. QED
    BY <2>1, <2>2
<1>2. /\ Sessions' = [d \in Conn |-> Sessions'[d]] /\ Sessions = [d \in Conn |-> Sessions[d]]
      /\ c \in Conn
  BY <1>0, SessionsAre DEF SessionsOf
<1> HIDE DEF x, c
<1>3. Sessions' = [Sessions EXCEPT ![c] = x]
  BY <1>1, <1>2
<1>4. QED
  BY <1>3 DEF x, c

\* A step that touches none.
LEMMA NoSessionStep ==
  ASSUME TableInv, \A s \in Slot : conns'[s].conn = conns[s].conn,
         \A s \in InUse : Untouched(s)
  PROVE  Sessions' = Sessions
<1>0. /\ \A s \in InUse : s \in Slot /\ conns[s].conn \in Conn
      /\ OneSlotEach(conns) /\ OneSlotEach(conns')
  BY OwnSlot, TableOneEach DEF InUse, OneSlotEach
<1>1. ASSUME NEW d \in Conn PROVE Sessions'[d] = Sessions[d]
  <2>1. CASE \E s \in Slot : conns[s].conn = d
    <3>1. PICK s \in Slot : conns[s].conn = d
      BY <2>1
    <3>2. s \in InUse /\ conns'[s].conn = d
      BY <3>1, SlotAssumption DEF InUse
    <3>3. /\ Sessions'[d] = SessionIn(conns'[s], phone'[d])
          /\ Sessions[d] = SessionIn(conns[s], phone[d])
      BY <1>0, <3>1, <3>2, SessionOfSlot, SessionsAre
    <3>4. SessionIn(conns'[s], phone'[d]) = SessionIn(conns[s], phone[d])
      BY <3>1, <3>2 DEF Untouched, SessionIn
    <3>5. QED
      BY <3>3, <3>4
  <2>2. CASE \A s \in Slot : conns[s].conn # d
    BY <1>0, <2>2, SessionOfSlot, SessionsAre
  <2>3. QED
    BY <2>1, <2>2
<1>2. Sessions' = [d \in Conn |-> Sessions'[d]] /\ Sessions = [d \in Conn |-> Sessions[d]]
  BY SessionsAre DEF SessionsOf
<1>3. QED
  BY <1>1, <1>2

--------------------------------------------------------------------------------
\* Every step is a step of the abstract specification, or none.

\* The nonce a slot keeps is one that a phone sent, or none.
Nonces == \A s \in InUse : conns[s].nonce \in Nonce \cup {0}

\* on_connected gives the connection a session, on_disconnected takes it away.
LEMMA LinkSessions ==
  ASSUME TableInv, TableInv', NEW c \in Conn, on_connected(c) \/ on_disconnected(c)
  PROVE  Service!Join(c) \/ Service!Leave(c)
<1>0. /\ OneSlotEach(conns) /\ OneSlotEach(conns')
      /\ conns \in [Slot -> SlotRec] /\ phone \in [Conn -> Phone]
  <2>1. \A s, t \in Slot : conns'[s].conn = conns'[t].conn /\ conns'[s].conn # NoConn => s = t
    BY DEF TableInv, SlotAccounting, InUse, Holds
  <2>2. QED
    BY <2>1, TableOneEach DEF OneSlotEach, TableInv, TypeOK, GattTypeOK
<1>1. /\ UNCHANGED <<PublishedLog, s_ready, Owed>>
      /\ \A d \in Conn : phone'[d] = IF d = c THEN NewPhone ELSE phone[d]
  BY <1>0 DEF on_connected, on_disconnected, cacheVars, upstreamVars, PublishedLog, Owed
<1>2. /\ Sessions' = [d \in Conn |-> Sessions'[d]] /\ Sessions = [d \in Conn |-> Sessions[d]]
  BY SessionsAre DEF SessionsOf
<1>3. ASSUME NEW t \in Slot, \A s \in Slot \ {t} : conns'[s] = conns[s],
             conns[t].conn \in {c, NoConn}, conns'[t].conn \in {c, NoConn}
      PROVE  Sessions' = [Sessions EXCEPT ![c] = Sessions'[c]]
  <2>1. ASSUME NEW d \in Conn, d # c PROVE Sessions'[d] = Sessions[d]
    <3>0. d # NoConn
      BY SlotAssumption
    <3>1. CASE \E s \in Slot : conns[s].conn = d
      <4>1. PICK s \in Slot : conns[s].conn = d
        BY <3>1
      <4>2. s # t /\ conns'[s] = conns[s]
        BY <1>3, <2>1, <3>0, <4>1
      <4>3. /\ Sessions'[d] = SessionIn(conns'[s], phone'[d])
            /\ Sessions[d] = SessionIn(conns[s], phone[d])
        BY <1>0, <4>1, <4>2, SessionOfSlot, SessionsAre
      <4>4. QED
        BY <1>1, <2>1, <4>2, <4>3
    <3>2. CASE \A s \in Slot : conns[s].conn # d
      <4>1. \A s \in Slot : conns'[s].conn # d
        BY <1>3, <2>1, <3>0, <3>2
      <4>2. QED
        BY <1>0, <3>2, <4>1, SessionOfSlot, SessionsAre
    <3>3. QED
      BY <3>1, <3>2
  <2>2. QED
    BY <1>2, <2>1
<1>4. CASE on_connected(c)
  <2> DEFINE t == find_slot(NoConn)
  <2>1. Tracked(NoConn) /\ advertising /\ c \notin link
    BY <1>4 DEF on_connected, TableInv, RoomWhileAdvertising, InUse, Tracked, Holds
  <2>2. t \in Slot /\ conns[t].conn = NoConn
    BY <2>1, FindSlot DEF Holds
  <2>3. \A s \in Slot : conns[s].conn # c
    BY <2>1, SlotAssumption DEF TableInv, SlotAccounting, InUse
  <2>4. conns' = alloc_slot(c)
    BY <1>4, <2>1 DEF on_connected
  <2> HIDE DEF t
  <2>5. \A s \in Slot : conns'[s] = IF s = t THEN ResetSlot(conns[s], c) ELSE conns[s]
    BY <2>4 DEF alloc_slot, t
  <2>6. conns'[t].conn = c /\ conns'[t].state = "CONNECTED"
    BY <1>0, <2>2, <2>5 DEF ResetSlot, SlotRec
  <2>7. Sessions[c] = NoSession
    BY <1>0, <2>3, SessionOfSlot, SessionsAre
  <2>8. Sessions'[c] = SessionIn(conns'[t], NewPhone)
    BY <1>0, <1>1, <2>2, <2>6, SessionOfSlot, SessionsAre
  <2>9. Sessions'[c] = Service!Session("idle", {}, 0, <<>>)
    BY <2>6, <2>8 DEF SessionIn, NewPhone, Phase, Service!Session
  <2>10. Sessions' = [Sessions EXCEPT ![c] = Sessions'[c]]
    BY <1>3, <2>2, <2>5, <2>6
  <2>11. Service!Join(c)
    BY <1>1, <2>7, <2>9, <2>10 DEF Service!Join, Service!In, NoSession
  <2>12. QED
    BY <2>11
<1>5. CASE on_disconnected(c)
  <2> DEFINE t == find_slot(c)
  <2>1. Tracked(c)
    BY <1>5 DEF on_disconnected, TableInv, SlotAccounting, Tracked
  <2>2. t \in Slot /\ conns[t].conn = c
    BY <2>1, FindSlot DEF Holds
  <2>4. conns' = free_slot(c)
    BY <1>5, <2>1 DEF on_disconnected
  <2> HIDE DEF t
  <2>5. \A s \in Slot : conns'[s] = IF s = t THEN ResetSlot(conns[s], NoConn) ELSE conns[s]
    BY <2>4 DEF free_slot, t
  <2>6. conns'[t].conn = NoConn
    BY <1>0, <2>2, <2>5 DEF ResetSlot, SlotRec
  <2>7. \A s \in Slot : conns'[s].conn # c
    BY <1>0, <2>2, <2>5, <2>6, SlotAssumption DEF OneSlotEach
  <2>8. Sessions[c] = SessionIn(conns[t], phone[c]) /\ conns[t] \in SlotRec
    BY <1>0, <2>2, SessionOfSlot, SessionsAre
  <2>9. Sessions'[c] = NoSession
    BY <1>0, <2>7, SessionOfSlot, SessionsAre
  <2>10. Sessions' = [Sessions EXCEPT ![c] = Sessions'[c]]
    BY <1>3, <2>2, <2>5, <2>6
  <2>11. Sessions[c].state # "gone"
    BY <2>8, NotGone
  <2>12. Service!Leave(c)
    BY <1>1, <2>9, <2>10, <2>11
    DEF Service!Leave, Service!In, Service!Gone, Service!Session, NoSession
  <2>13. QED
    BY <2>12
<1>6. QED
  BY <1>4, <1>5

\* What a phone has read is the beginning of its answer.
LEMMA AnswerBegins ==
  ASSUME NEW l \in Seq(Frame), NEW n \in Nat, NEW Q \in SUBSET Service!Wanted(l, n),
         \A q \in Q : \A p \in Service!Wanted(l, n) \ Q : q < p
  PROVE  LET rx == Service!InOrder(l, Q)
             answer == Service!Answer(l, n)
         IN  /\ rx \in Seq(Frame) /\ answer \in Seq(Frame) /\ Len(rx) < Len(answer)
             /\ \A k \in 1..Len(rx) : answer[k] = rx[k]
<1> DEFINE W == Service!Wanted(l, n)
           a == Service!InOrder(l, W)
           rx == Service!InOrder(l, Q)
           answer == Service!Answer(l, n)
<1>1. W \in SUBSET (1..Len(l)) /\ Q \in SUBSET (1..Len(l))
  BY DEF Service!Wanted
<1>2. answer = a \o <<ConfigComplete(n)>> /\ ConfigComplete(n) \in Frame
  BY DEF Service!Answer, ConfigComplete, Frame, Variant, Route
<1> HIDE DEF W, answer
<1>3. /\ a \in Seq(Frame) /\ Len(a) = Cardinality(W) /\ Cardinality(W) \in Nat
      /\ rx \in Seq(Frame) /\ Len(rx) = Cardinality(Q) /\ Cardinality(Q) \in Nat
  BY <1>1, InOrderFacts
<1>4. Cardinality(Q) <= Cardinality(W) /\ \A k \in 1..Cardinality(Q) : a[k] = rx[k]
  BY <1>1, InOrderPrefix DEF W
<1> HIDE DEF a, rx
<1>5. answer \in Seq(Frame) /\ Len(answer) = Len(a) + 1 /\ \A k \in 1..Len(a) : answer[k] = a[k]
  BY <1>2, <1>3
<1>6. /\ rx \in Seq(Frame) /\ answer \in Seq(Frame) /\ Len(rx) < Len(answer)
      /\ \A k \in 1..Len(rx) : answer[k] = rx[k]
  BY <1>3, <1>4, <1>5
<1>7. QED
  BY <1>6 DEF rx, answer

\* The part of the invariant that the steps on a session need.
ServiceInv == SessionInv /\ Nonces /\ Listing

\* The session of a slot, state by state.
LEMMA SessionByState ==
  ASSUME NEW pc, NEW p
  PROVE  /\ pc.state = "PENDING" => SessionIn(pc, p) = Service!Session("waiting", p.want, 0, <<>>)
         /\ pc.state = "REPLAYING" =>
              SessionIn(pc, p) = Service!Session("replaying", p.want, pc.nonce, p.rx)
         /\ pc.state = "ACTIVE" =>
              SessionIn(pc, p) = Service!Session("active", p.want, pc.nonce, p.rx)
  BY DEF SessionIn, Phase, Service!Session

\* fromradio_read reads the next frame of the answer, learns that there is none, or reads a
\* frame that is not part of it.
LEMMA ReadService ==
  ASSUME ServiceInv, \A s \in Slot : conns'[s].conn = conns[s].conn,
         NEW c \in Conn, fromradio_read(c)
  PROVE  \/ Service!Read(c) \/ Service!Finish(c)
         \/ UNCHANGED <<PublishedLog, s_ready, Owed, Sessions>>
<1>0. /\ TableInv /\ TypeOK /\ s_index \in Seq(Frame) /\ conns \in [Slot -> SlotRec]
      /\ \A s \in InUse : s \in Slot
      /\ ReplayFromReadyCache /\ Echo /\ OwnFirst /\ Deliveries
  BY DEF ServiceInv, SessionInv, TableInv, TypeOK, GattTypeOK, CacheTypeOK, InUse
<1>1. UNCHANGED <<PublishedLog, s_ready, Owed>>
  BY DEF fromradio_read, cacheVars, upstreamVars, PublishedLog, Owed
<1>2. PICK t \in InUse : conns[t].conn = c /\ OnlyTouches(t) /\ ReadIn(t)
  BY <1>0, ReadTouches
<1> DEFINE pc == conns[t]
           qc == AfterRead(pc)
           p  == phone[c]
           rx == p.rx
           n  == pc.nonce
           l  == s_index
           W  == Service!Wanted(l, n)
           ry == rx \o ReadResult(pc)
<1>3. /\ conns'[t] = qc /\ phone'[c].want = p.want
      /\ phone'[c].rx = IF pc.state = "REPLAYING" THEN ry ELSE rx
      /\ pc \in SlotRec /\ Delivered(pc, rx, l)
  BY <1>0, <1>2 DEF ReadIn, Becomes, Deliveries
<1>4. /\ Sessions' = [Sessions EXCEPT ![c] = SessionIn(qc, phone'[c])]
      /\ Sessions[c] = SessionIn(pc, p)
      /\ Sessions = [d \in Conn |-> Sessions[d]]
  BY <1>0, <1>2, <1>3, OneSessionStep, SessionNow, SessionsAre DEF SessionsOf
<1>5. CASE pc.state # "REPLAYING"
  <2>1. qc.state = pc.state /\ qc.nonce = pc.nonce
    BY <1>3, <1>5 DEF AfterRead, SlotRec
  <2>2. SessionIn(qc, phone'[c]) = SessionIn(pc, p)
    BY <1>3, <1>5, <2>1 DEF SessionIn
  <2>3. Sessions' = Sessions
    BY <1>4, <2>2
  <2>4. QED
    BY <1>1, <2>3
<1>6. CASE pc.state = "REPLAYING"
  <2>1. s_ready /\ pc.replay_cursor <= Len(l) + 1 /\ pc.cc = pc.nonce /\ PublishedLog = l
        /\ n \in Nat /\ W \in SUBSET (1..Len(l))
    BY <1>0, <1>3, <1>6 DEF ReplayFromReadyCache, Echo, EchoOK, PublishedLog, SlotRec,
      Service!Wanted
  <2>2. /\ qc.nonce = n /\ qc.conn = pc.conn
        /\ \/ \E i \in W :
                /\ qc.state = "REPLAYING" /\ qc.replay_cursor = i
                /\ Passed(l, n, i) = Passed(l, n, pc.replay_cursor) \cup {i}
                /\ i \notin Passed(l, n, pc.replay_cursor)
                /\ rx = Service!InOrder(l, Passed(l, n, pc.replay_cursor))
                /\ ry = Service!InOrder(l, Passed(l, n, i))
                /\ ry = Append(rx, l[i])
           \/ /\ qc.state = "REPLAYING" /\ qc.replay_cursor = Len(l) + 1
              /\ rx = Service!InOrder(l, W)
              /\ ry = Service!Answer(l, n)
           \/ /\ qc.state = "ACTIVE"
              /\ rx = Service!Answer(l, n) /\ ry = rx
    BY <1>0, <1>3, <1>6, <2>1, ReadCases, Zenon
  <2>3. phone'[c].rx = ry
    BY <1>3, <1>6
  <2>4. Sessions[c] = Service!Session("replaying", p.want, n, rx)
    BY <1>4, <1>6, SessionByState
  <2> DEFINE answer == Service!Answer(l, n)
  <2> HIDE DEF qc, ry, W, answer
  <2>5. ASSUME qc.state = "REPLAYING", rx \in Seq(Frame), Len(rx) < Len(answer),
               ry = Append(rx, answer[Len(rx) + 1])
        PROVE  Service!Read(c)
    <3>1. SessionIn(qc, phone'[c]) = Service!Session("replaying", p.want, n, ry)
      BY <1>3, <2>2, <2>3, <2>5, SessionByState
    <3>2. Sessions' = [Sessions EXCEPT ![c].got = ry]
      <4>1. [Sessions[c] EXCEPT !.got = ry] = Service!Session("replaying", p.want, n, ry)
        BY <2>4 DEF Service!Session
      <4>2. [Sessions EXCEPT ![c].got = ry] =
              [Sessions EXCEPT ![c] = [Sessions[c] EXCEPT !.got = ry]]
        BY <1>4
      <4>3. QED
        BY <1>4, <3>1, <4>1, <4>2
    <3>3. /\ Sessions[c].state = "replaying" /\ Sessions[c].nonce = n /\ Sessions[c].got = rx
      BY <2>4 DEF Service!Session
    <3>4. QED
      BY <1>1, <2>1, <2>5, <3>2, <3>3 DEF Service!Read, Service!In, answer
  <2>6. CASE \E i \in W :
                /\ qc.state = "REPLAYING" /\ qc.replay_cursor = i
                /\ Passed(l, n, i) = Passed(l, n, pc.replay_cursor) \cup {i}
                /\ i \notin Passed(l, n, pc.replay_cursor)
                /\ rx = Service!InOrder(l, Passed(l, n, pc.replay_cursor))
                /\ ry = Service!InOrder(l, Passed(l, n, i))
                /\ ry = Append(rx, l[i])
    <3>1. PICK i \in W :
                /\ qc.state = "REPLAYING"
                /\ rx = Service!InOrder(l, Passed(l, n, pc.replay_cursor))
                /\ ry = Service!InOrder(l, Passed(l, n, i))
                /\ ry = Append(rx, l[i])
      BY <2>6
    <3> DEFINE Q == Passed(l, n, i)
               R == Passed(l, n, pc.replay_cursor)
    <3>2. /\ Q \in SUBSET W /\ R \in SUBSET W
          /\ i \in 1..Len(l) /\ \A q \in W : q \in 1..Len(l)
      BY <2>1 DEF Passed, W
    <3>3. \A q \in Q : \A r \in W \ Q : q < r
      BY <2>1, <3>2 DEF Passed, W
    <3>4. /\ ry \in Seq(Frame) /\ answer \in Seq(Frame) /\ Len(ry) < Len(answer)
          /\ \A k \in 1..Len(ry) : answer[k] = ry[k]
      <4> HIDE DEF Q
      <4>1. LET rz == Service!InOrder(l, Q)
                az == Service!Answer(l, n)
            IN  /\ rz \in Seq(Frame) /\ az \in Seq(Frame) /\ Len(rz) < Len(az)
                /\ \A k \in 1..Len(rz) : az[k] = rz[k]
        BY <1>0, <2>1, <3>2, <3>3, AnswerBegins, Zenon DEF W
      <4>2. QED
        BY <3>1, <4>1, Zenon DEF answer, Q
    <3>5. rx \in Seq(Frame) /\ l[i] \in Frame
      <4>1. R \in SUBSET (1..Len(l))
        BY <2>1, <3>2
      <4>2. QED
        BY <1>0, <3>1, <3>2, <4>1, InOrderFacts
    <3>6. /\ Len(ry) = Len(rx) + 1 /\ ry[Len(rx) + 1] = l[i] /\ Len(rx) \in Nat
          /\ Len(rx) + 1 \in 1..Len(ry) /\ Len(answer) \in Nat
      BY <3>1, <3>4, <3>5
    <3>7. Len(rx) < Len(answer) /\ answer[Len(rx) + 1] = l[i]
      BY <3>4, <3>6
    <3>8. QED
      BY <2>5, <3>1, <3>5, <3>7
  <2>7. CASE /\ qc.state = "REPLAYING" /\ qc.replay_cursor = Len(l) + 1
             /\ rx = Service!InOrder(l, W)
             /\ ry = Service!Answer(l, n)
    <3>1. rx \in Seq(Frame) /\ ConfigComplete(n) \in Frame
      BY <1>0, <2>1, <2>7, InOrderFacts DEF ConfigComplete, Frame, Variant, Route
    <3>2. answer = rx \o <<ConfigComplete(n)>> /\ ry = answer
      BY <2>7 DEF answer, Service!Answer, W
    <3>3. Len(rx) < Len(answer) /\ ry = Append(rx, answer[Len(rx) + 1])
      BY <3>1, <3>2
    <3>4. QED
      BY <2>5, <2>7, <3>1, <3>3
  <2>8. CASE qc.state = "ACTIVE" /\ rx = Service!Answer(l, n) /\ ry = rx
    <3>1. SessionIn(qc, phone'[c]) = Service!Session("active", p.want, n, rx)
      BY <1>3, <2>2, <2>3, <2>8, SessionByState
    <3>2. Sessions' = [Sessions EXCEPT ![c].state = "active"]
      <4>1. [Sessions[c] EXCEPT !.state = "active"] = Service!Session("active", p.want, n, rx)
        BY <2>4 DEF Service!Session
      <4>2. [Sessions EXCEPT ![c].state = "active"] =
              [Sessions EXCEPT ![c] = [Sessions[c] EXCEPT !.state = "active"]]
        BY <1>4
      <4>3. QED
        BY <1>4, <3>1, <4>1, <4>2
    <3>3. /\ Sessions[c].state = "replaying" /\ Sessions[c].nonce = n /\ Sessions[c].got = rx
      BY <2>4 DEF Service!Session
    <3>4. Service!Finish(c)
      BY <1>1, <2>1, <2>8, <3>2, <3>3 DEF Service!Finish, Service!In
    <3>5. QED
      BY <3>4
  <2>9. QED
    BY <2>2, <2>6, <2>7, <2>8
<1>7. QED
  BY <1>5, <1>6

\* A want_config is an early request or is answered at once; a phone of the pending list is
\* served.
LEMMA AskService ==
  ASSUME ServiceInv, \A s \in Slot : conns'[s].conn = conns[s].conn,
         NEW c \in Conn, NEW n \in Nonce, WantConfigReplay(c, n) \/ WantConfigPark(c, n)
  PROVE  Service!AskPublished(c, n) \/ Service!AskEarly(c, n)
<1>0. /\ TableInv /\ Control /\ conns \in [Slot -> SlotRec] /\ n \in Nat
      /\ \A s \in InUse : s \in Slot
      /\ s_pending \in Seq(Conn) /\ Len(s_pending) <= MaxConns /\ NoDuplicates(s_pending)
  BY SlotAssumption DEF ServiceInv, SessionInv, Listing, TableInv, TypeOK, GattTypeOK,
    UpstreamTypeOK, InUse
<1>1. UNCHANGED <<PublishedLog, s_ready>>
  BY DEF WantConfigReplay, WantConfigPark, cacheVars, PublishedLog
<1>2. CASE WantConfigReplay(c, n)
  <2>1. PICK t \in InUse : /\ conns[t].conn = c /\ OnlyTouches(t)
                           /\ Becomes(t, Armed(conns[t], n), {n}, <<>>)
    BY <1>0, <1>2, ReplayTouches
  <2> DEFINE pc == conns[t]
             qc == Armed(pc, n)
             m  == qc.nonce
  <2>2. /\ s_ready /\ Owed' = Owed
        /\ conns'[t] = qc /\ phone'[c].want = {n} /\ phone'[c].rx = <<>> /\ pc \in SlotRec
    BY <1>0, <1>2, <2>1 DEF Becomes, WantConfigReplay, CanReplay, Control, upstreamVars, Owed
  <2>3. qc.state = "REPLAYING" /\ m = IF n # 0 THEN n ELSE pc.nonce
    BY <2>2 DEF Armed, SlotRec
  <2>4. m \in Service!Echo({n})
    BY <2>3 DEF Service!Echo, ServiceInv, Nonces
  <2> HIDE DEF qc, m
  <2>5. SessionIn(qc, phone'[c]) = Service!Session("replaying", {n}, m, <<>>)
    <3>1. SessionIn(qc, phone'[c]) =
            Service!Session("replaying", phone'[c].want, m, phone'[c].rx)
      BY <2>3, SessionByState DEF m
    <3>2. QED
      BY <2>2, <3>1, Zenon
  <2>6. Sessions' = [Sessions EXCEPT ![c] = Service!Session("replaying", {n}, m, <<>>)]
    <3>1. Sessions' = [Sessions EXCEPT ![c] = SessionIn(conns'[t], phone'[c])]
      BY <1>0, <2>1, OneSessionStep
    <3>2. QED
      BY <2>2, <2>5, <3>1
  <2>7. Sessions[c].state # "gone"
    BY <1>0, <2>1, <2>2, SessionNow, NotGone
  <2>8. Service!AskPublished(c, n)
    BY <1>1, <2>2, <2>4, <2>6, <2>7 DEF Service!AskPublished, Service!In
  <2>9. QED
    BY <2>8
<1>3. CASE WantConfigPark(c, n)
  <2>0. ~s_ready /\ s_pending' = Queued(c)
    BY <1>0, <1>3 DEF WantConfigPark, CanReplay, Control
  <2> DEFINE park(x) == [x EXCEPT !.state = "PENDING", !.nonce = n]
  <2>1. PICK t \in InUse : /\ conns[t].conn = c /\ OnlyTouches(t)
                           /\ Becomes(t, park(conns[t]), {n}, phone[c].rx)
    BY <1>0, <1>3, <2>0, ParkTouches
  <2>2. /\ conns'[t] = park(conns[t]) /\ phone'[c].want = {n} /\ conns[t] \in SlotRec
    BY <1>0, <2>1 DEF Becomes
  <2>3. conns'[t].state = "PENDING"
    BY <2>2 DEF SlotRec
  <2>4. SessionIn(conns'[t], phone'[c]) = Service!Session("waiting", {n}, 0, <<>>)
    <3>1. SessionIn(conns'[t], phone'[c]) = Service!Session("waiting", phone'[c].want, 0, <<>>)
      BY <2>3, SessionByState
    <3>2. QED
      BY <2>2, <3>1, Zenon
  <2>5. Sessions' = [Sessions EXCEPT ![c] = Service!Session("waiting", {n}, 0, <<>>)]
    <3>1. Sessions' = [Sessions EXCEPT ![c] = SessionIn(conns'[t], phone'[c])]
      BY <1>0, <2>1, OneSessionStep
    <3>2. QED
      BY <2>4, <3>1
  <2>6. Sessions[c].state # "gone"
    BY <1>0, <2>1, <2>2, SessionNow, NotGone
  <2>7. Owed' = IF Cardinality(Owed) < MaxConns THEN Owed \cup {c} ELSE Owed
    BY <1>0, <2>0, QueuedOwed
  <2>8. Service!AskEarly(c, n)
    BY <1>1, <2>0, <2>5, <2>6, <2>7, SameCardinality DEF Service!AskEarly, Service!In
  <2>9. QED
    BY <2>8
<1>4. QED
  BY <1>2, <1>3

\* serve_pending_phones serves a phone of the list, if it has not left.
LEMMA ServeService ==
  ASSUME ServiceInv, \A s \in Slot : conns'[s].conn = conns[s].conn, ServeOnePending
  PROVE  \E c \in Conn : Service!Serve(c)
<1> DEFINE c == Head(s_pending)
<1>0. /\ TableInv /\ Control /\ conns \in [Slot -> SlotRec] /\ TypeOK
      /\ \A s \in InUse : s \in Slot
      /\ s_pending \in Seq(Conn) /\ NoDuplicates(s_pending)
  BY DEF ServiceInv, SessionInv, Listing, TableInv, TypeOK, GattTypeOK, UpstreamTypeOK, InUse
<1>1. /\ s_state = "CACHE_READY" /\ s_pending # <<>> /\ s_pending' = Tail(s_pending)
      /\ UNCHANGED <<PublishedLog, s_ready>>
  BY DEF ServeOnePending, cacheVars, PublishedLog
<1>2. s_ready /\ s_serve_cb
  <2>1. s_ready /\ boot # "uart"
    BY <1>0, <1>1 DEF Control, BeforeFetch
  <2>2. QED
    BY <2>1 DEF ServiceInv, Listing
<1>3. c \in Owed /\ Owed' = Owed \ {c}
  BY <1>0, <1>1, TailOwed
<1>4. /\ c \in Conn
      /\ Tracked(c) => \E s \in InUse : /\ conns[s].conn = c /\ OnlyTouches(s)
                                        /\ Becomes(s, Armed(conns[s], 0), phone[c].want, <<>>)
      /\ ~Tracked(c) => UNCHANGED <<conns, phone>>
  BY <1>0, <1>2, ServeTouches
<1> HIDE DEF c
<1>5. CASE ~Tracked(c)
  <2>1. Sessions[c].state = "gone"
    BY <1>0, <1>4, <1>5, SessionNow DEF NoSession
  <2>2. Sessions' = Sessions
    BY <1>4, <1>5, SessionsAre
  <2>3. Service!Serve(c)
    BY <1>1, <1>2, <1>3, <2>1, <2>2 DEF Service!Serve, Service!In
  <2>4. QED
    BY <1>4, <2>3
<1>6. CASE Tracked(c)
  <2>1. PICK t \in InUse : /\ conns[t].conn = c /\ OnlyTouches(t)
                           /\ Becomes(t, Armed(conns[t], 0), phone[c].want, <<>>)
    BY <1>4, <1>6
  <2> DEFINE pc == conns[t]
             qc == Armed(pc, 0)
             m  == qc.nonce
             w  == phone[c].want
  <2>2. conns'[t] = qc /\ phone'[c].want = w /\ phone'[c].rx = <<>> /\ pc \in SlotRec
    BY <1>0, <2>1 DEF Becomes
  <2>3. qc.state = "REPLAYING" /\ m = pc.nonce
    BY <2>2 DEF Armed, SlotRec
  <2>4. m \in Service!Echo(w)
    <3>1. w \notin {{}, {0}} => w = {pc.nonce}
      BY <2>1 DEF ServiceInv, SessionInv, Echo, EchoOK
    <3>2. pc.nonce \in Nonce \cup {0}
      BY DEF ServiceInv, Nonces
    <3>3. CASE w \in {{}, {0}}
      BY <2>3, <3>2, <3>3 DEF Service!Echo
    <3>4. CASE w = {pc.nonce}
      BY <2>3, <3>2, <3>4 DEF Service!Echo
    <3>5. QED
      BY <3>1, <3>3, <3>4
  <2> HIDE DEF qc, m
  <2>5. SessionIn(qc, phone'[c]) = Service!Session("replaying", w, m, <<>>)
    BY <2>2, <2>3, SessionByState DEF m
  <2>6. Sessions' = [Sessions EXCEPT ![c] = Service!Session("replaying", w, m, <<>>)]
    BY <1>0, <2>1, <2>2, <2>5, OneSessionStep
  <2>7. Sessions[c] = SessionIn(pc, phone[c])
    BY <1>0, <2>1, SessionNow
  <2>8. Sessions[c].state # "gone" /\ Sessions[c].want = w
    BY <2>2, <2>7, NotGone DEF SessionIn
  <2>9. Sessions' = [Sessions EXCEPT ![c] = Service!Session("replaying", @.want, m, <<>>)]
    BY <2>6, <2>8
  <2>10. Service!Serve(c)
    BY <1>1, <1>2, <1>3, <2>4, <2>8, <2>9 DEF Service!Serve, Service!In
  <2>11. QED
    BY <1>4, <2>10
<1>7. QED
  BY <1>5, <1>6

\* Before the burst is closed nothing of the cache is to be seen.
LEMMA PublishedSteps ==
  ASSUME TypeOK, Control, [Next]_vars
  PROVE  \/ UNCHANGED <<PublishedLog, s_ready>>
         \/ \E f \in Frame : /\ CloseBurst(f) /\ ~s_ready /\ s_ready' = TRUE
                             /\ PublishedLog' \in Seq(Frame)
<1>1. CASE UNCHANGED cacheVars
  BY <1>1 DEF cacheVars, PublishedLog
<1>2. CASE BeginCache
  <2>1. boot = "cache" /\ s_ready' = FALSE
    BY <1>2, Zenon DEF BeginCache, cache_begin, MainAt
  <2>2. s_ready = FALSE
    BY <2>1 DEF Control, BeforeFetch, TypeOK, CacheTypeOK
  <2>3. QED
    BY <2>1, <2>2 DEF PublishedLog
<1>3. ASSUME NEW f \in Frame, CacheFrame(f) PROVE UNCHANGED <<PublishedLog, s_ready>>
  <2>1. s_state = "FETCHING"
    BY <1>3 DEF CacheFrame, Consumes
  <2>2. ~s_ready /\ s_ready' = s_ready
    BY <1>3, <2>1 DEF CacheFrame, cache_add_frame, cacheVars, Control
  <2>3. QED
    BY <2>2 DEF PublishedLog
<1>4. ASSUME NEW f \in Frame, CloseBurst(f)
      PROVE  ~s_ready /\ s_ready' = TRUE /\ PublishedLog' \in Seq(Frame)
  BY <1>4 DEF CloseBurst, Consumes, cache_mark_ready, Control, PublishedLog, TypeOK, CacheTypeOK
<1>5. QED
  BY <1>1, <1>2, <1>3, <1>4, CacheWriters

\* Every step of the proxy is one of the service, or leaves all of it as it was.
LEMMA ServiceStep ==
  ASSUME ServiceInv, TableInv', [Next]_vars
  PROVE  Service!ServiceNext \/ UNCHANGED <<PublishedLog, s_ready, Owed, Sessions>>
<1>0. TableInv /\ Control /\ TypeOK /\ conns \in [Slot -> SlotRec]
  BY DEF ServiceInv, SessionInv, TableInv, TypeOK, GattTypeOK
<1>1. ASSUME NEW c \in Conn, on_connected(c) \/ on_disconnected(c) PROVE Service!ServiceNext
  BY <1>0, <1>1, LinkSessions, Zenon DEF Service!ServiceNext
<1>2. CASE ~\E c \in Conn : on_connected(c) \/ on_disconnected(c)
  <2>0. \A s \in Slot : conns'[s].conn = conns[s].conn
    BY <1>0, <1>2, TableStep, SlotOpKeepsConn
  <2>1. ASSUME NEW c \in Conn, fromradio_read(c)
        PROVE  Service!ServiceNext \/ UNCHANGED <<PublishedLog, s_ready, Owed, Sessions>>
    BY <2>0, <2>1, ReadService, Zenon DEF Service!ServiceNext
  <2>2. ASSUME NEW c \in Conn, NEW n \in Nonce, WantConfigReplay(c, n) \/ WantConfigPark(c, n)
        PROVE  Service!ServiceNext
    <3>1. n \in Nonce \cup {0}
      OBVIOUS
    <3>2. QED
      BY <2>0, <2>2, <3>1, AskService, Zenon DEF Service!ServiceNext
  <2>3. CASE ServeOnePending
    BY <2>0, <2>3, ServeService, Zenon DEF Service!ServiceNext
  <2>4. ASSUME \A s \in InUse : Untouched(s),
               ~\E c \in Conn : \E n \in Nonce : WantConfigPark(c, n), ~ServeOnePending
        PROVE  Service!ServiceNext \/ UNCHANGED <<PublishedLog, s_ready, Owed, Sessions>>
    <3>1. Sessions' = Sessions
      BY <1>0, <2>0, <2>4, NoSessionStep
    <3>2. CASE ResetPending
      <4>1. ~s_ready /\ UNCHANGED <<PublishedLog, s_ready>>
        BY <1>0, <3>2 DEF ResetPending, MainAt, cacheVars, PublishedLog, Control, BeforeFetch
      <4>2. Owed' = {}
        BY <3>2 DEF ResetPending, Owed
      <4>3. Service!Forget
        BY <3>1, <4>1, <4>2 DEF Service!Forget
      <4>4. QED
        BY <4>3 DEF Service!ServiceNext
    <3>3. CASE UNCHANGED s_pending
      <4>1. Owed' = Owed
        BY <3>3 DEF Owed
      <4>2. ASSUME NEW f \in Frame, CloseBurst(f), ~s_ready, s_ready' = TRUE,
                   PublishedLog' \in Seq(Frame)
            PROVE  Service!ServiceNext
        BY <3>1, <4>1, <4>2, Zenon DEF Service!Publish, Service!ServiceNext
      <4>3. QED
        BY <1>0, <3>1, <4>1, <4>2, PublishedSteps
    <3>4. QED
      BY <2>4, <3>2, <3>3, PendingWriters
  <2>5. QED
    BY <1>0, <1>2, <2>1, <2>2, <2>3, <2>4, SessionCases
<1>3. QED
  BY <1>1, <1>2

\* Every step keeps the stored nonces among those that phones sent.
LEMMA NoncesStep == ASSUME TableInv, Control, Nonces, [Next]_vars PROVE Nonces'
<1>0. conns \in [Slot -> SlotRec] /\ \A s \in InUse : s \in Slot
  BY DEF TableInv, TypeOK, GattTypeOK, InUse
<1> SUFFICES ASSUME NEW s \in Slot, conns'[s].conn # NoConn
             PROVE  conns'[s].nonce \in Nonce \cup {0}
  BY DEF Nonces, InUse
<1>1. ASSUME NEW c \in Conn, on_connected(c) \/ on_disconnected(c)
      PROVE  conns'[s].nonce \in Nonce \cup {0}
  <2>1. CASE s \in InUse /\ conns'[s] = conns[s]
    BY <2>1 DEF Nonces
  <2>2. CASE conns'[s] = ResetSlot(conns[s], c)
    BY <1>0, <2>2 DEF ResetSlot, SlotRec
  <2>3. QED
    BY <1>1, <2>1, <2>2, LinkStep
<1>2. CASE ~\E c \in Conn : on_connected(c) \/ on_disconnected(c)
  <2>0. s \in InUse /\ conns[s].nonce \in Nonce \cup {0}
    BY <1>0, <1>2, TableStep, SlotOpKeepsConn DEF InUse, Nonces, TableInv
  <2>1. CASE Untouched(s)
    BY <2>0, <2>1 DEF Untouched
  <2>2. ASSUME NEW t \in InUse, OnlyTouches(t), conns'[t].nonce \in Nonce \cup {0}
        PROVE  conns'[s].nonce \in Nonce \cup {0}
    BY <2>0, <2>1, <2>2 DEF OnlyTouches
  <2>3. ASSUME NEW t \in InUse, NEW n \in Nonce \cup {0}
        PROVE  /\ Armed(conns[t], n).nonce \in Nonce \cup {0}
               /\ [conns[t] EXCEPT !.state = "PENDING", !.nonce = n].nonce \in Nonce \cup {0}
               /\ AfterRead(conns[t]).nonce \in Nonce \cup {0}
    <3>1. conns[t] \in SlotRec /\ conns[t].nonce \in Nonce \cup {0}
      BY <1>0 DEF Nonces
    <3>2. AfterRead(conns[t]).nonce = conns[t].nonce
      BY <3>1 DEF AfterRead, SlotRec
    <3>3. QED
      BY <3>1, <3>2 DEF Armed, SlotRec
  <2>4. ASSUME NEW c \in Conn, fromradio_read(c) PROVE conns'[s].nonce \in Nonce \cup {0}
    <3>1. PICK t \in InUse : OnlyTouches(t) /\ conns'[t] = AfterRead(conns[t])
      BY <2>4, ReadTouches DEF ReadIn, Becomes
    <3>2. QED
      BY <2>2, <2>3, <3>1
  <2>5. ASSUME NEW c \in Conn, NEW n \in Nonce, WantConfigReplay(c, n)
        PROVE  conns'[s].nonce \in Nonce \cup {0}
    <3>1. PICK t \in InUse : OnlyTouches(t) /\ conns'[t] = Armed(conns[t], n)
      BY <2>5, ReplayTouches DEF Becomes
    <3>2. QED
      BY <2>2, <2>3, <3>1
  <2>6. ASSUME NEW c \in Conn, NEW n \in Nonce, WantConfigPark(c, n)
        PROVE  conns'[s].nonce \in Nonce \cup {0}
    <3>1. ~s_ready
      BY <2>6 DEF WantConfigPark, CanReplay, Control
    <3>2. PICK t \in InUse :
            OnlyTouches(t) /\ conns'[t] = [conns[t] EXCEPT !.state = "PENDING", !.nonce = n]
      BY <2>6, <3>1, ParkTouches DEF Becomes
    <3>3. QED
      BY <2>2, <2>3, <3>2
  <2>7. CASE ServeOnePending
    <3>1. CASE UNCHANGED conns
      BY <2>0, <3>1
    <3>2. CASE s_serve_cb /\ Tracked(Head(s_pending))
      <4>1. PICK t \in InUse : OnlyTouches(t) /\ conns'[t] = Armed(conns[t], 0)
        BY <2>7, <3>2, ServeTouches DEF Becomes
      <4>2. QED
        BY <2>2, <2>3, <4>1
    <3>3. QED
      BY <2>7, <3>1, <3>2, ServeTouches DEF ServeOnePending
  <2>8. QED
    BY <1>2, <2>0, <2>1, <2>4, <2>5, <2>6, <2>7, SessionCases
<1>3. QED
  BY <1>1, <1>2

\* Spec implements ConfigService: every behaviour of the firmware, with phones, node and the
\* serial line doing whatever the model lets them, is one of the service under the mapping of
\* Proxy.  Phones may race the boot, outnumber the list and the slots, come and go.
THEOREM ServiceCorrect == ASSUME FewSlots PROVE Spec => ImplementsService
<1>1. Init => ServiceInv /\ Service!ServiceInit
  <2> SUFFICES ASSUME Init PROVE ServiceInv /\ Service!ServiceInit
    OBVIOUS
  <2>1. SessionInv
    BY InitSession
  <2>2. InUse = {} /\ \A s \in Slot : conns[s].conn = NoConn
    BY DEF Init, ZeroSlot, InUse
  <2>3. Nonces
    BY <2>2 DEF Nonces
  <2>4. Listing /\ Owed = {}
    BY DEF Init, UpstreamInit, Listing, NoDuplicates, Owed
  <2>5. PublishedLog = <<>> /\ s_ready = FALSE
    BY DEF Init, CacheInit, PublishedLog
  <2>6. \A c \in Conn : ~Tracked(c)
    BY <2>2, SlotAssumption DEF Tracked, Holds
  <2>7. Sessions = [c \in Conn |-> NoSession]
    BY <2>6 DEF Sessions
  <2>8. QED
    BY <2>1, <2>3, <2>4, <2>5, <2>7
    DEF ServiceInv, Service!ServiceInit, Service!Gone, Service!Session, NoSession
<1>2. ServiceInv /\ [Next]_vars =>
        ServiceInv' /\ [Service!ServiceNext]_(Service!serviceVars)
  <2> SUFFICES ASSUME ServiceInv, [Next]_vars
               PROVE  ServiceInv' /\ [Service!ServiceNext]_(Service!serviceVars)
    OBVIOUS
  <2>1. SessionInv'
    BY SessionInvStep DEF ServiceInv
  <2>2. Nonces' /\ Listing'
    BY NoncesStep, ListingStep DEF ServiceInv, SessionInv, TableInv
  <2>3. Service!ServiceNext \/ UNCHANGED <<PublishedLog, s_ready, Owed, Sessions>>
    BY <2>1, ServiceStep DEF SessionInv
  <2>4. QED
    BY <2>1, <2>2, <2>3 DEF ServiceInv, Service!serviceVars
<1>3. QED
  BY <1>1, <1>2, PTL DEF Spec, ImplementsService, Service!ServiceSpec
==============================================================================
