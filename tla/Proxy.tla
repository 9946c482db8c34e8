-------------------------------- MODULE Proxy --------------------------------
(***************************************************************************)
(* The whole firmware: main's boot sequence, the BT callbacks, the work    *)
(* queue's handling of FromRadio frames and the keepalive, over the shared *)
(* slot table, config session and cache; and around it the node and the    *)
(* phones, as far as the firmware uses them.                               *)
(*                                                                         *)
(* A handler on the BT RX thread or on the system work queue is one step:  *)
(* both threads are cooperative, so neither is preempted by the other.     *)
(* The one exception is the loop over the pending phones, whose FROMNUM    *)
(* notifications may wait for a buffer: there every phone is a step, and   *)
(* the work queue is busy meanwhile.  main is preemptible, so every        *)
(* statement of upstream_session_start that touches shared state is a step *)
(* of its own.                                                             *)
(***************************************************************************)
EXTENDS Router

CONSTANTS
  TxDepth,        \* TX_QUEUE_DEPTH
  Burst,          \* the frames the node answers a want_config with
  StaleTail,      \* frames of an earlier burst that the node still sends after a reset
  LiveFrames,     \* packets and damaged frames the node may send at any time
  RandomNonce,    \* the values sys_rand32_get may return
  BootRaces,      \* whether phones and node may act before main has finished its boot
  MaxInputs,      \* bound: events from phones, mesh and timer in one behaviour
  MaxLoss         \* bound: frames lost on the serial line

ASSUME ProxyAssumption ==
  /\ TxDepth \in Nat \ {0}
  /\ Burst \in Seq(Frame) /\ StaleTail \in Seq(Frame)
  /\ LiveFrames \subseteq Frame
  /\ RandomNonce \subseteq Nat
  /\ BootRaces \in BOOLEAN
  /\ MaxInputs \in Nat /\ MaxLoss \in Nat

VARIABLES
  boot,       \* where main is
  tx_msgq,    \* ToRadio messages on their way to the node
  node_out,   \* FromRadio frames on their way from the node (external)
  link,       \* connections that are up (external)
  phone,      \* what the phone on each connection did and saw (external)
  adv_err,    \* the last ble_gatt_start_advertising failed
  inputs,     \* events so far
  losses      \* frames lost so far

vars == <<cacheVars, upstreamVars, gattVars, boot, tx_msgq, node_out, link, phone,
          adv_err, inputs, losses>>

BootStep == {"uart", "cache", "pending", "want_config", "fetching",
             "arm", "done", "failed"}

ToRadio == [kind : {"want_config", "heartbeat", "packet", "malformed"}, nonce : Nat]

Plain(kind) == [kind |-> kind, nonce |-> 0]

\* sub: subscribed to FROMNUM; draining: reads FROMRADIO until a read is empty;
\* want: the nonce of the last want_config on this connection, if any;
\* asked: the nonces of all of them;
\* reg: the proxy id it registered on this connection, 0 if none;
\* rx: the frames read since the replay was last armed.
Phone == [sub : BOOLEAN, draining : BOOLEAN, want : SUBSET Nat,
          asked : SUBSET Nat, reg : Nat, rx : Seq(Frame)]

NewPhone ==
  [sub |-> FALSE, draining |-> FALSE, want |-> {}, asked |-> {}, reg |-> 0, rx |-> <<>>]

Init ==
  /\ CacheInit
  /\ UpstreamInit
  /\ conns = [s \in Slot |-> ZeroSlot]
  /\ active_conn_count = 0
  /\ advertising = TRUE
  /\ boot = "uart"
  /\ tx_msgq = <<>>
  /\ node_out = StaleTail
  /\ link = {}
  /\ phone = [c \in Conn |-> NewPhone]
  /\ adv_err = FALSE
  /\ inputs = 0
  /\ losses = 0

Input == inputs < MaxInputs /\ inputs' = inputs + 1

--------------------------------------------------------------------------------
\* uart_meshtastic_tx: a full queue refuses the message.

TxFits == Len(tx_msgq) < TxDepth

uart_meshtastic_tx(m) == tx_msgq' = IF TxFits THEN Append(tx_msgq, m) ELSE tx_msgq

--------------------------------------------------------------------------------
\* main, from uart_meshtastic_init to the end of upstream_session_start.

MainAt(here, next) == boot = here /\ boot' = next

SetServeCb ==
  /\ MainAt("uart", "cache")
  /\ s_serve_cb' = TRUE
  /\ UNCHANGED <<cacheVars, gattVars, s_state, s_nonce, s_pending, s_keepalive_pending,
                 s_keepalive_armed, tx_msgq, node_out, link, phone, adv_err, inputs, losses>>

BeginCache ==
  /\ MainAt("cache", "pending")
  /\ \E r \in RandomNonce : s_nonce' = PickNonce(r)
  /\ cache_begin
  /\ UNCHANGED <<gattVars, s_state, s_pending, s_serve_cb, s_keepalive_pending,
                 s_keepalive_armed, tx_msgq, node_out, link, phone, adv_err, inputs, losses>>

ResetPending ==
  /\ MainAt("pending", "want_config")
  /\ s_pending' = <<>>
  /\ UNCHANGED <<cacheVars, gattVars, s_state, s_nonce, s_serve_cb, s_keepalive_pending,
                 s_keepalive_armed, tx_msgq, node_out, link, phone, adv_err, inputs, losses>>

\* A full queue leaves the session in BOOT; nothing calls upstream_session_start again.
SendWantConfig ==
  /\ MainAt("want_config", IF TxFits THEN "fetching" ELSE "failed")
  /\ uart_meshtastic_tx([kind |-> "want_config", nonce |-> s_nonce])
  /\ UNCHANGED <<cacheVars, upstreamVars, gattVars, node_out, link, phone, adv_err,
                 inputs, losses>>

StartFetching ==
  /\ MainAt("fetching", "arm")
  /\ s_state' = "FETCHING"
  /\ UNCHANGED <<cacheVars, gattVars, s_nonce, s_pending, s_serve_cb, s_keepalive_pending,
                 s_keepalive_armed, tx_msgq, node_out, link, phone, adv_err, inputs, losses>>

ArmKeepalive ==
  /\ MainAt("arm", "done")
  /\ s_keepalive_armed' = TRUE
  /\ UNCHANGED <<cacheVars, gattVars, s_state, s_nonce, s_pending, s_serve_cb,
                 s_keepalive_pending, tx_msgq, node_out, link, phone, adv_err, inputs, losses>>

Booted == boot \in {"done", "failed"}

Main ==
  \/ SetServeCb
  \/ BeginCache
  \/ ResetPending
  \/ SendWantConfig
  \/ StartFetching
  \/ ArmKeepalive

--------------------------------------------------------------------------------
\* Notifications.  A subscribed phone that is notified starts to drain.

Notified(N) ==
  [c \in Conn |-> [phone[c] EXCEPT !.draining = @ \/ (c \in N /\ phone[c].sub)]]

\* The phone of c when its replay is armed: kicked, and nothing of the replay read yet.
Kicked(c) ==
  IF Tracked(c) THEN [Notified({c}) EXCEPT ![c].rx = <<>>] ELSE phone

\* A frame put on the queues of the slots S.
Enqueue(S, f) ==
  /\ conns' = ble_gatt_enqueue_fromradio(S, f)
  /\ phone' = Notified(NotifiedBy(S))

--------------------------------------------------------------------------------
\* BT RX thread: connections.

\* Fault: advertising is not restarted.
NoRestartFault == UNCHANGED <<adv_err, advertising>>

\* ble_gatt_start_advertising; the stack may refuse.
ble_gatt_start_advertising ==
  \E err \in BOOLEAN : adv_err' = err /\ advertising' = (advertising \/ ~err)

\* The stack stops advertising when a central connects.
on_connected(c) ==
  /\ advertising /\ c \notin link
  /\ Input
  /\ link' = link \cup {c}
  /\ phone' = [phone EXCEPT ![c] = NewPhone]
  /\ IF Tracked(NoConn)
     THEN /\ conns' = alloc_slot(c)
          /\ active_conn_count' = (active_conn_count + 1) % 256
          /\ IF active_conn_count' < MaxConns
             THEN \E err \in BOOLEAN : adv_err' = err /\ advertising' = ~err
             ELSE advertising' = FALSE /\ UNCHANGED adv_err
     ELSE advertising' = FALSE /\ UNCHANGED <<conns, active_conn_count, adv_err>>
  /\ UNCHANGED <<cacheVars, upstreamVars, boot, tx_msgq, node_out, losses>>

on_disconnected(c) ==
  /\ c \in link
  /\ link' = link \ {c}
  /\ phone' = [phone EXCEPT ![c] = NewPhone]
  /\ IF Tracked(c)
     THEN /\ conns' = free_slot(c)
          /\ active_conn_count' = (active_conn_count - 1) % 256
     ELSE UNCHANGED <<conns, active_conn_count>>
  /\ ble_gatt_start_advertising
  /\ UNCHANGED <<cacheVars, upstreamVars, boot, tx_msgq, node_out, inputs, losses>>

--------------------------------------------------------------------------------
\* BT RX thread: the phone's GATT operations.

PhoneMayAct(c) == c \in link /\ Tracked(c) /\ (BootRaces \/ Booted)

PhoneActs(c) == PhoneMayAct(c) /\ Input

fromnum_ccc_changed(c) ==
  /\ PhoneActs(c)
  /\ ~phone[c].sub
  /\ phone' = [phone EXCEPT ![c].sub = TRUE]
  /\ UNCHANGED <<cacheVars, upstreamVars, gattVars, boot, tx_msgq, node_out, link,
                 adv_err, losses>>

\* Fault: a replay may start before the cache is published.
CanReplayFault == s_state \in {"FETCHING", "CACHE_READY", "LIVE"}

CanReplay == s_state \in {"CACHE_READY", "LIVE"}

\* on_toradio_ble, want_config when the cache can be replayed ...
WantConfigReplay(c, n) ==
  /\ PhoneActs(c)
  /\ CanReplay
  /\ conns' = ble_gatt_replay_cached_burst(c, n)
  /\ phone' = [Kicked(c) EXCEPT ![c].want = {n}, ![c].asked = @ \cup {n}]
  /\ UNCHANGED <<cacheVars, upstreamVars, active_conn_count, advertising, boot, tx_msgq,
                 node_out, link, adv_err, losses>>

\* ... and when the phone has to wait for it.
WantConfigPark(c, n) ==
  /\ PhoneActs(c)
  /\ ~CanReplay
  /\ conns' = ble_gatt_park_pending(c, n)
  /\ s_pending' = Queued(c)
  /\ phone' = [(IF s_ready THEN Kicked(c) ELSE phone) EXCEPT
                 ![c].want = {n}, ![c].asked = @ \cup {n}]
  /\ UNCHANGED <<cacheVars, s_state, s_nonce, s_serve_cb, s_keepalive_pending,
                 s_keepalive_armed, active_conn_count, advertising, boot, tx_msgq,
                 node_out, link, adv_err, losses>>

\* A heartbeat is answered with a queueStatus on the phone's own queue.
Heartbeat(c) ==
  /\ PhoneActs(c)
  /\ Enqueue({find_slot(c)}, QueueStatus)
  /\ UNCHANGED <<cacheVars, upstreamVars, active_conn_count, advertising, boot, tx_msgq,
                 node_out, link, adv_err, losses>>

\* Anything else, and a ToRadio that does not decode, goes to the node.
Forward(c, kind) ==
  /\ PhoneActs(c)
  /\ uart_meshtastic_tx(Plain(kind))
  /\ UNCHANGED <<cacheVars, upstreamVars, gattVars, boot, node_out, link, phone,
                 adv_err, losses>>

\* Registrations do not count as events: there are few identifiers.
node_reg_write(c, id) ==
  /\ PhoneMayAct(c)
  /\ conns' = ble_gatt_register_proxy_id(c, id)
  /\ phone' = [phone EXCEPT ![c].reg = id]
  /\ UNCHANGED <<cacheVars, upstreamVars, active_conn_count, advertising, boot, tx_msgq,
                 node_out, link, adv_err, inputs, losses>>

\* A FROMRADIO read at offset 0.
fromradio_read(c) ==
  /\ c \in link /\ Tracked(c)
  /\ LET pc == conns[find_slot(c)]
         r  == ReadResult(pc)
     IN  /\ conns' = [s \in Slot |-> IF s = find_slot(c) THEN AfterRead(pc) ELSE conns[s]]
         /\ phone' = [phone EXCEPT
              ![c].draining = (r # <<>>),
              ![c].rx = IF pc.state = "REPLAYING" THEN @ \o r ELSE @]
  /\ UNCHANGED <<cacheVars, upstreamVars, active_conn_count, advertising, boot, tx_msgq,
                 node_out, link, adv_err, inputs, losses>>

--------------------------------------------------------------------------------
\* System work queue: a FromRadio frame is decoded and dispatched.

WorkQueueFree == s_state # "CACHE_READY" /\ boot # "uart"

BroadcastRaw(f) ==
  /\ f.variant = "undecodable"
  /\ Enqueue(InUse, f)
  /\ UNCHANGED <<cacheVars, upstreamVars>>

\* The terminator is not cached; the phones are served in the steps that follow.
CloseBurst(f) ==
  /\ Consumes(f) /\ Terminates(f)
  /\ cache_mark_ready
  /\ s_state' = "CACHE_READY"
  /\ UNCHANGED <<s_nonce, s_pending, s_serve_cb, s_keepalive_pending, s_keepalive_armed,
                 conns, phone>>

CacheFrame(f) ==
  /\ f.variant # "undecodable"
  /\ Consumes(f) /\ ~Terminates(f)
  /\ cache_add_frame(f)
  /\ UNCHANGED <<upstreamVars, conns, phone>>

SwallowQueueStatus(f) ==
  /\ ~Consumes(f) /\ Swallows(f)
  /\ s_keepalive_pending' = FALSE
  /\ UNCHANGED <<cacheVars, s_state, s_nonce, s_pending, s_serve_cb, s_keepalive_armed,
                 conns, phone>>

RouteFrame(f) ==
  /\ f.variant # "undecodable"
  /\ ~Consumes(f) /\ ~Swallows(f)
  /\ Enqueue(PacketTargets(f), f)
  /\ UNCHANGED <<cacheVars, upstreamVars>>

on_fromradio_uart(f) ==
  /\ WorkQueueFree
  /\ \/ BroadcastRaw(f)
     \/ CloseBurst(f)
     \/ CacheFrame(f)
     \/ SwallowQueueStatus(f)
     \/ RouteFrame(f)
  /\ UNCHANGED <<active_conn_count, advertising, boot, tx_msgq, link, adv_err>>

\* serve_pending_phones: one phone of the list, with its stored nonce ...
ServeOnePending ==
  /\ s_state = "CACHE_READY" /\ s_pending # <<>>
  /\ s_pending' = Tail(s_pending)
  /\ IF s_serve_cb
     THEN /\ conns' = ble_gatt_replay_cached_burst(Head(s_pending), 0)
          /\ phone' = Kicked(Head(s_pending))
     ELSE UNCHANGED <<conns, phone>>
  /\ UNCHANGED <<cacheVars, s_state, s_nonce, s_serve_cb, s_keepalive_pending,
                 s_keepalive_armed, active_conn_count, advertising, boot, tx_msgq,
                 node_out, link, adv_err, inputs, losses>>

\* Fault: the loop ends after any phone.
GoLiveFault ==
  /\ s_state = "CACHE_READY"
  /\ s_state' = "LIVE"
  /\ UNCHANGED <<cacheVars, gattVars, s_nonce, s_pending, s_serve_cb, s_keepalive_pending,
                 s_keepalive_armed, boot, tx_msgq, node_out, link, phone, adv_err,
                 inputs, losses>>

\* ... and the end of the list.
GoLive ==
  /\ s_state = "CACHE_READY" /\ s_pending = <<>>
  /\ s_state' = "LIVE"
  /\ UNCHANGED <<cacheVars, gattVars, s_nonce, s_pending, s_serve_cb, s_keepalive_pending,
                 s_keepalive_armed, boot, tx_msgq, node_out, link, phone, adv_err,
                 inputs, losses>>

keepalive_work_handler ==
  /\ s_keepalive_armed /\ WorkQueueFree
  /\ Input
  /\ uart_meshtastic_tx(Plain("heartbeat"))
  /\ s_keepalive_pending' = TxFits
  /\ UNCHANGED <<cacheVars, gattVars, s_state, s_nonce, s_pending, s_serve_cb,
                 s_keepalive_armed, boot, node_out, link, phone, adv_err, losses>>

--------------------------------------------------------------------------------
\* The node and the serial line.

Reply(m) ==
  CASE m.kind = "want_config" -> Burst \o <<ConfigComplete(m.nonce)>>
    [] m.kind = "malformed"   -> <<>>
    [] OTHER                  -> <<QueueStatus>>

NodeConsumes ==
  /\ tx_msgq # <<>>
  /\ BootRaces \/ Booted
  /\ tx_msgq' = Tail(tx_msgq)
  /\ node_out' = node_out \o Reply(Head(tx_msgq))
  /\ UNCHANGED <<cacheVars, upstreamVars, gattVars, boot, link, phone, adv_err, inputs, losses>>

NodeFrameArrives ==
  /\ node_out # <<>>
  /\ node_out' = Tail(node_out)
  /\ on_fromradio_uart(Head(node_out))
  /\ UNCHANGED <<inputs, losses>>

LiveFrameArrives ==
  /\ Input
  /\ \E f \in LiveFrames : on_fromradio_uart(f)
  /\ UNCHANGED <<node_out, losses>>

FrameLost ==
  /\ losses < MaxLoss /\ node_out # <<>>
  /\ losses' = losses + 1
  /\ node_out' = Tail(node_out)
  /\ UNCHANGED <<cacheVars, upstreamVars, gattVars, boot, tx_msgq, link, phone, adv_err, inputs>>

--------------------------------------------------------------------------------
PhoneStep(c) ==
  \/ on_connected(c)
  \/ on_disconnected(c)
  \/ fromnum_ccc_changed(c)
  \/ \E n \in Nonce : WantConfigReplay(c, n) \/ WantConfigPark(c, n)
  \/ Heartbeat(c)
  \/ \E kind \in {"packet", "malformed"} : Forward(c, kind)
  \/ \E id \in ProxyId : node_reg_write(c, id)
  \/ fromradio_read(c)

WorkQueue ==
  \/ ServeOnePending
  \/ GoLive
  \/ keepalive_work_handler

Node ==
  \/ NodeConsumes
  \/ NodeFrameArrives
  \/ LiveFrameArrives
  \/ FrameLost

Next ==
  \/ Main
  \/ \E c \in Conn : PhoneStep(c)
  \/ WorkQueue
  \/ Node

Spec == Init /\ [][Next]_vars

\* A phone that drains goes on reading.
Drain(c) == phone[c].draining /\ fromradio_read(c)

Fairness ==
  /\ WF_vars(Main)
  /\ WF_vars(ServeOnePending \/ GoLive)
  /\ WF_vars(NodeConsumes)
  /\ WF_vars(NodeFrameArrives)
  /\ \A c \in Conn : WF_vars(Drain(c))

FairSpec == Spec /\ Fairness

--------------------------------------------------------------------------------
\* Safety.

\* Every variable has its type, and every buffer of the firmware stays within its
\* capacity: slot queues (ble_gatt_enqueue_fromradio), the pending list
\* (upstream_on_pending_phone), the cache (cache_add_frame) and the UART TX queue.
TypeOK ==
  /\ CacheTypeOK
  /\ Len(s_index) <= MaxFrames /\ s_used <= ArenaBytes
  /\ UpstreamTypeOK
  /\ Len(s_pending) <= MaxConns
  /\ GattTypeOK
  /\ \A s \in Slot : Len(conns[s].queue) <= QueueDepth
  /\ boot \in BootStep
  /\ tx_msgq \in Seq(ToRadio) /\ Len(tx_msgq) <= TxDepth
  /\ node_out \in Seq(Frame)
  /\ link \subseteq Conn
  /\ phone \in [Conn -> Phone]
  /\ adv_err \in BOOLEAN
  /\ inputs \in Nat
  /\ losses \in Nat

\* However phones come and go, the slot table and the counter of on_connected and
\* on_disconnected agree with the links that are up: every link has exactly one slot,
\* every other slot is free, and the counter is the number of slots in use.
SlotAccounting ==
  /\ \A s \in InUse : conns[s].conn \in link
  /\ \A c \in link : \E s \in Slot : Holds(s, c) /\ \A t \in Slot : Holds(t, c) => t = s
  /\ active_conn_count = Cardinality(InUse)

\* While a slot is free the proxy advertises, unless the stack refused the last start:
\* on_connected and on_disconnected never forget to restart advertising.
AdvertisesWhileFree == InUse # Slot => advertising \/ adv_err

\* fromradio_read takes no lock on the cache.  It needs none: a phone whose replay is
\* armed or finished only ever met a published cache, and its cursor stays inside it.
ReplayFromReadyCache ==
  \A s \in Slot :
    conns[s].state \in {"REPLAYING", "ACTIVE"} =>
      s_ready /\ conns[s].replay_cursor <= Len(s_index) + 1

\* A published cache never changes again (config_cache.h: "read-only after ready"),
\* whatever the node sends and whenever main runs.
CacheFrozen == [][s_ready => UNCHANGED cacheVars]_vars

\* The session of a phone, from its slot and what it has read: replays are told from
\* the nonce and the frames of earlier ones.
Phase == [CONNECTED |-> "idle", PENDING |-> "waiting",
          REPLAYING |-> "replaying", ACTIVE |-> "active"]

SessionIn(pc, p) ==
  LET served == pc.state \in {"REPLAYING", "ACTIVE"}
  IN  [state |-> Phase[pc.state],
       want  |-> p.want,
       nonce |-> IF served THEN pc.nonce ELSE 0,
       got   |-> IF served THEN p.rx ELSE <<>>]

NoSession == [state |-> "gone", want |-> {}, nonce |-> 0, got |-> <<>>]

Sessions ==
  [c \in Conn |-> IF Tracked(c) THEN SessionIn(conns[find_slot(c)], phone[c]) ELSE NoSession]

PublishedLog == IF s_ready THEN s_index ELSE <<>>

Owed == {s_pending[i] : i \in 1..Len(s_pending)}

Service ==
  INSTANCE ConfigService
    WITH Client <- Conn, LogFrame <- Frame, ClientNonce <- Nonce \cup {0},
         OnlyConfig <- MESH_NONCE_ONLY_CONFIG, OnlyNodes <- MESH_NONCE_ONLY_NODES,
         Complete <- ConfigComplete, OwedLimit <- MaxConns,
         log <- PublishedLog, published <- s_ready, owed <- Owed, session <- Sessions

\* Slots, cursors, the pending list and the cache together keep the promise the proxy
\* makes to its phones, at every point of the boot: the log is published once, a phone is
\* answered from it only, with its own nonce and its own segment, once for every answer
\* it is owed, and becomes ACTIVE only when it has all of it.
ImplementsService == Service!ServiceSpec

\* The node's own NodeInfo is the first of its burst.
OwnNode ==
  LET N == {i \in 1..Len(Burst) : Burst[i].variant = "node_info"}
  IN  IF N = {} THEN 0 ELSE Burst[Least(N)].body

\* The positions of the frames that the documents promise to a phone that sent nonce n.
Promised(n) ==
  {i \in 1..Len(s_index) :
     /\ s_index[i].variant # "config_complete_id"
     /\ n = MESH_NONCE_ONLY_NODES => s_index[i].variant = "node_info"
     /\ n = MESH_NONCE_ONLY_CONFIG /\ s_index[i].variant = "node_info" =>
          s_index[i].body = OwnNode}

Answer(n) == Service!InOrder(s_index, Promised(n)) \o <<ConfigComplete(n)>>

\* What a phone reads during a replay (fromradio_read, one frame per read) is the
\* segment of its nonce in burst order, each frame once, closed by config_complete_id
\* with its nonce; and it becomes ACTIVE only after it has read all of it, whatever
\* live frames, heartbeats and other phones do in between.
ReplayDelivers ==
  \A s \in InUse :
    LET rx == phone[conns[s].conn].rx
        answer == Answer(conns[s].nonce)
    IN  /\ conns[s].state = "REPLAYING" =>
             Len(rx) <= Len(answer) /\ rx = SubSeq(answer, 1, Len(rx))
        /\ conns[s].state = "ACTIVE" => rx = answer

\* The replay a phone is served carries the nonce of its latest want_config, if that
\* was not 0: neither a re-request, a parked request nor a previous user of the slot or
\* of the bt_conn object leaks an older one.
CompleteEchoesRequest ==
  \A s \in InUse :
    LET want == phone[conns[s].conn].want
    IN  conns[s].state = "REPLAYING" /\ want \notin {{}, {0}} =>
          want = {conns[s].cc} /\ want = {conns[s].nonce}

\* A want_config with nonce 0 gets "the stored one" (ble_gatt_replay_cached_burst).  That
\* is a nonce its own phone sent on this connection, or none: whoever had the slot or the
\* bt_conn object before, whoever was on the pending list, a phone reads the segment and
\* the terminator of no nonce but its own.
StoredNonceIsOwn ==
  \A s \in InUse :
    conns[s].state \in {"REPLAYING", "ACTIVE"} =>
      conns[s].nonce \in phone[conns[s].conn].asked \cup {0} /\ conns[s].cc = conns[s].nonce

\* When the cache is published it holds the node's whole burst, in order, after at most
\* the leftovers of an earlier one: no config_complete_id but the session's own closes
\* the fetch (upstream_on_fromradio), and no live frame slips in.
ReadyCacheHoldsBurst ==
  s_ready => \E k \in 0..Len(StaleTail) :
               s_index = SubSeq(StaleTail, k + 1, Len(StaleTail)) \o Burst

\* A phone that waits in PENDING is on the list that serve_pending_phones walks, also
\* when the list holds phones that left: it is served when the cache is ready.
PendingIsRemembered ==
  \A s \in InUse : conns[s].state = "PENDING" => IsPending(conns[s].conn)

ConfigVariant == {"my_info", "node_info", "config", "config_complete_id"}

\* With the boot raced by phones and node, over a lossy line and with a cache too small,
\* the one window in which a frame of the burst is broadcast is the one before main
\* stores FETCHING: from then on router_dispatch keeps every one from the live queues,
\* those that do not fit the cache included.
ConfigBroadcastOnlyInBoot ==
  [][\A s \in Slot :
       LET before == conns[s].queue
           after  == conns'[s].queue
       IN  Len(after) > Len(before) /\ after[Len(after)].variant \in ConfigVariant =>
             s_state = "BOOT"]_vars

\* A proxy packet (with a DST_ID other than 0, which means "unregistered") is put on the
\* queue of a phone that did not register its DST_ID on the current connection only when
\* no connected phone did: no registration survives its connection, and router_dispatch
\* finds the right slot.
TargetedDelivery ==
  [][\A s \in Slot :
       LET before == conns[s].queue
           after  == conns'[s].queue
           f      == after[Len(after)]
       IN  Len(after) > Len(before) /\ f.variant = "packet" /\ f.route = "proxy"
             /\ f.body # 0 =>
             \/ phone[conns[s].conn].reg = f.body
             \/ \A c \in link : phone[c].reg # f.body]_vars

--------------------------------------------------------------------------------
\* Liveness, under Fairness.

\* Whatever live traffic is mixed into the burst, the fetch ends and the proxy is LIVE.
FetchEnds == s_state = "FETCHING" ~> s_state = "LIVE"

PhoneIn(c, state) == \E s \in Slot : Holds(s, c) /\ conns[s].state = state

\* A parked phone is served, or leaves.
PendingIsServed == \A c \in Conn : PhoneIn(c, "PENDING") ~> ~PhoneIn(c, "PENDING")

\* A phone that drains a replay gets to the end of it and becomes ACTIVE, or leaves.
ReplayCompletes ==
  \A c \in Conn :
    PhoneIn(c, "REPLAYING") /\ phone[c].draining ~> PhoneIn(c, "ACTIVE") \/ c \notin link
==============================================================================
