------------------------------- MODULE BleGatt -------------------------------
(***************************************************************************)
(* ble_gatt: the table of connection slots, each with its phone's config   *)
(* session (state, nonce, replay cursor, pre-encoded terminator) and its   *)
(* bounded FromRadio queue.  Slots are records and the functions of the    *)
(* code that change one slot are operators from slot to slot, so that a    *)
(* whole handler is one update of the table.  The circular array with      *)
(* head, tail and count is the sequence it holds; the staging buffer and   *)
(* the FROMNUM value are left out (a read is taken as one whole frame and  *)
(* a notification as the fact that it was sent).                           *)
(***************************************************************************)
EXTENDS UpstreamSession, FiniteSets

CONSTANTS
  NoConn,       \* the NULL pointer
  QueueDepth,   \* FROMRADIO_QUEUE_DEPTH
  ProxyId,      \* the identifiers a phone may register (0 is "unregistered")
  Nonce         \* the nonces a phone may send

ASSUME SlotAssumption ==
  /\ NoConn \notin Conn
  /\ QueueDepth \in Nat \ {0}
  /\ ProxyId \subseteq Nat
  /\ Nonce \subseteq Nat

VARIABLES
  conns,              \* the slot table
  active_conn_count,  \* slots in use, as the code counts them
  advertising         \* whether the stack advertises (external)

gattVars == <<conns, active_conn_count, advertising>>

\* MAX_BLE_CONNECTIONS is CONFIG_BT_MAX_CONN.
Slot == 1..MaxConns

\* PHONE_AWAIT_WANT_CONFIG is declared in ble_gatt.h and never assigned.
PhoneState == {"CONNECTED", "PENDING", "REPLAYING", "ACTIVE"}

SlotRec == [conn : Conn \cup {NoConn}, proxy_id : Nat, state : PhoneState,
            nonce : Nat, replay_cursor : Nat, cc : Nat, queue : Seq(Frame)]

\* The slot table in .bss: every field zero.
ZeroSlot == [conn |-> NoConn, proxy_id |-> 0, state |-> "CONNECTED", nonce |-> 0,
             replay_cursor |-> 0, cc |-> 0, queue |-> <<>>]

GattTypeOK ==
  /\ conns \in [Slot -> SlotRec]
  /\ active_conn_count \in 0..255
  /\ advertising \in BOOLEAN

--------------------------------------------------------------------------------
\* Connection utilities.

Holds(s, c) == conns[s].conn = c

Tracked(c) == \E s \in Slot : Holds(s, c)

\* find_slot(c), for a tracked c: the first slot that holds it.
find_slot(c) == CHOOSE s \in Slot : Holds(s, c) /\ \A t \in Slot : t < s => ~Holds(t, c)

\* Fault: the nonce survives the connection.
ResetSlotFaultNonce(pc, c) ==
  [pc EXCEPT !.conn = c, !.proxy_id = 0, !.state = "CONNECTED",
             !.replay_cursor = 0, !.queue = <<>>]

\* Fault: the registration survives the connection.
ResetSlotFaultId(pc, c) ==
  [pc EXCEPT !.conn = c, !.state = "CONNECTED", !.nonce = 0,
             !.replay_cursor = 0, !.queue = <<>>]

\* Every field of the slot is reset except cc_frame and cc_len.
ResetSlot(pc, c) ==
  [pc EXCEPT !.conn = c, !.proxy_id = 0, !.state = "CONNECTED", !.nonce = 0,
             !.replay_cursor = 0, !.queue = <<>>]

\* The first free slot, given to c; and the slot of c, given back.
alloc_slot(c) ==
  [s \in Slot |-> IF s = find_slot(NoConn) THEN ResetSlot(conns[s], c) ELSE conns[s]]

\* Fault: the pointer is not cleared.
FreeSlotFault(c) ==
  [s \in Slot |-> IF s = find_slot(c) THEN ResetSlot(conns[s], c) ELSE conns[s]]

free_slot(c) ==
  [s \in Slot |-> IF s = find_slot(c) THEN ResetSlot(conns[s], NoConn) ELSE conns[s]]

--------------------------------------------------------------------------------
\* The FromRadio queue.

\* Fault: one entry more than the array holds.
HasRoomFault(pc) == Len(pc.queue) <= QueueDepth

\* A packet is accepted unless the queue is full; only then is the phone notified.
HasRoom(pc) == Len(pc.queue) < QueueDepth

Enqueued(pc, f) == IF HasRoom(pc) THEN [pc EXCEPT !.queue = Append(@, f)] ELSE pc

\* ble_gatt_enqueue_fromradio on every slot of S.
ble_gatt_enqueue_fromradio(S, f) ==
  [s \in Slot |-> IF s \in S THEN Enqueued(conns[s], f) ELSE conns[s]]

\* The connections that a call of the above notifies.
NotifiedBy(S) == {conns[s].conn : s \in {t \in S : HasRoom(conns[t])}}

InUse == {s \in Slot : conns[s].conn # NoConn}

\* ble_gatt_get_conn_by_proxy_id: the slot it finds, as a set of at most one.
ble_gatt_get_conn_by_proxy_id(id) ==
  LET M == {s \in InUse : id # 0 /\ conns[s].proxy_id = id}
  IN  {s \in M : \A t \in M : s <= t}

--------------------------------------------------------------------------------
\* The config replay.

\* Fault: the stored nonce wins over the passed one.
ArmedFault(pc, nonce) ==
  LET n == IF pc.nonce # 0 THEN pc.nonce ELSE nonce
  IN  [pc EXCEPT !.nonce = n, !.cc = n, !.replay_cursor = 0, !.state = "REPLAYING"]

\* Fault: the cursor of the replay before is kept.
ArmedFaultCursor(pc, nonce) ==
  LET n == IF nonce # 0 THEN nonce ELSE pc.nonce
  IN  [pc EXCEPT !.nonce = n, !.cc = n, !.state = "REPLAYING"]

\* ble_gatt_replay_cached_burst: a passed nonce of 0 means the stored one.
Armed(pc, nonce) ==
  LET n == IF nonce # 0 THEN nonce ELSE pc.nonce
  IN  [pc EXCEPT !.nonce = n, !.cc = n, !.replay_cursor = 0, !.state = "REPLAYING"]

\* A connection without a slot (a phone that left) is ignored.
ble_gatt_replay_cached_burst(c, nonce) ==
  [s \in Slot |-> IF Tracked(c) /\ s = find_slot(c) THEN Armed(conns[s], nonce) ELSE conns[s]]

\* The slot of ble_gatt_park_pending, with the replay that upstream_on_pending_phone
\* would start at once if the cache were ready.
Parked(pc, nonce) ==
  LET parked == [pc EXCEPT !.state = "PENDING", !.nonce = nonce]
  IN  IF s_ready /\ s_serve_cb THEN Armed(parked, 0) ELSE parked

ble_gatt_park_pending(c, nonce) ==
  [s \in Slot |-> IF s = find_slot(c) THEN Parked(conns[s], nonce) ELSE conns[s]]

ble_gatt_register_proxy_id(c, id) ==
  [s \in Slot |-> IF s = find_slot(c) THEN [conns[s] EXCEPT !.proxy_id = id] ELSE conns[s]]

\* The cached frames the cursor still has to serve to this phone.
Remaining(pc) ==
  {i \in (pc.replay_cursor + 1)..Len(s_index) : cache_frame_in_segment(i, pc.nonce)}

Least(S) == CHOOSE i \in S : \A j \in S : i <= j

ConfigComplete(nonce) ==
  [variant |-> "config_complete_id", route |-> "none", body |-> nonce, len |-> 1]

QueueStatus == [variant |-> "queueStatus", route |-> "none", body |-> 0, len |-> 1]

\* fromradio_read at offset 0: what the phone gets (at most one frame) ...
ReadResult(pc) ==
  IF pc.state = "REPLAYING"
  THEN IF Remaining(pc) # {}
       THEN <<s_index[Least(Remaining(pc))]>>
       ELSE IF pc.replay_cursor <= Len(s_index) THEN <<ConfigComplete(pc.cc)>> ELSE <<>>
  ELSE IF pc.queue # <<>> THEN <<Head(pc.queue)>> ELSE <<>>

\* Fault: the end of the replay does not make the phone ACTIVE.
AfterReadFault(pc) ==
  IF pc.state = "REPLAYING"
  THEN IF Remaining(pc) # {}
       THEN [pc EXCEPT !.replay_cursor = Least(Remaining(pc))]
       ELSE [pc EXCEPT !.replay_cursor = Len(s_index) + 1]
  ELSE IF pc.queue # <<>> THEN [pc EXCEPT !.queue = Tail(@)] ELSE pc

\* ... and the slot afterwards.
AfterRead(pc) ==
  IF pc.state = "REPLAYING"
  THEN IF Remaining(pc) # {}
       THEN [pc EXCEPT !.replay_cursor = Least(Remaining(pc))]
       ELSE IF pc.replay_cursor <= Len(s_index)
            THEN [pc EXCEPT !.replay_cursor = Len(s_index) + 1]
            ELSE [pc EXCEPT !.state = "ACTIVE"]
  ELSE IF pc.queue # <<>> THEN [pc EXCEPT !.queue = Tail(@)] ELSE pc
==============================================================================
