--------------------------- MODULE UpstreamSession ---------------------------
(***************************************************************************)
(* upstream_session: the proxy's own config session with the node.  It     *)
(* fetches the node's config burst into the cache once, remembers the      *)
(* phones that asked for config too early, and hands them to the replay    *)
(* callback when the burst is complete.  The module holds the session's    *)
(* state and the fragments of its functions that the handlers of Proxy put *)
(* together; the keepalive's nonce and its timer are left out (the         *)
(* keepalive may fire whenever it is armed).                               *)
(***************************************************************************)
EXTENDS FrameCache

CONSTANTS
  Conn,       \* the bt_conn objects of the BT stack's pool
  MaxConns    \* CONFIG_BT_MAX_CONN, the size of s_pending and of the slot table

ASSUME PoolAssumption == MaxConns \in Nat \ {0}

VARIABLES
  s_state,              \* the upstream state machine
  s_nonce,              \* the nonce of the boot want_config
  s_pending,            \* phones to serve when the cache is ready, in order
  s_serve_cb,           \* whether the replay callback is registered
  s_keepalive_pending,  \* a keepalive's queueStatus is ours to swallow
  s_keepalive_armed     \* the keepalive work item is initialised

upstreamVars ==
  <<s_state, s_nonce, s_pending, s_serve_cb, s_keepalive_pending, s_keepalive_armed>>

UpstreamState == {"BOOT", "FETCHING", "CACHE_READY", "LIVE"}

UpstreamInit ==
  /\ s_state = "BOOT"
  /\ s_nonce = 0
  /\ s_pending = <<>>
  /\ s_serve_cb = FALSE
  /\ s_keepalive_pending = FALSE
  /\ s_keepalive_armed = FALSE

UpstreamTypeOK ==
  /\ s_state \in UpstreamState
  /\ s_nonce \in Nat
  /\ s_pending \in Seq(Conn)
  /\ s_serve_cb \in BOOLEAN
  /\ s_keepalive_pending \in BOOLEAN
  /\ s_keepalive_armed \in BOOLEAN

--------------------------------------------------------------------------------
\* The nonce 1 makes the node rebroadcast its NodeInfo and 0 is "none".
PickNonce(random) == IF random \in {0, 1} THEN 2 ELSE random

\* Fault: node_info frames are not taken.
ConsumesFaultNodes(f) == s_state = "FETCHING" /\ f.variant \notin {"packet", "node_info"}

\* Fault: the terminator is not recognised as one.
ConsumesFaultEnd(f) ==
  s_state = "FETCHING" /\ f.variant \notin {"packet", "config_complete_id"}

\* upstream_on_fromradio takes every frame of the fetch window but the packets.
Consumes(f) == s_state = "FETCHING" /\ f.variant # "packet"

\* Fault: any config_complete_id closes the burst.
TerminatesFault(f) == f.variant = "config_complete_id"

\* The frame that closes the burst: config_complete_id with the session's nonce.
Terminates(f) == f.variant = "config_complete_id" /\ f.body = s_nonce

IsPending(c) == \E i \in 1..Len(s_pending) : s_pending[i] = c

\* Fault: the list is taken to be full one entry early.
QueuedFault(c) ==
  IF s_ready \/ IsPending(c) \/ Len(s_pending) >= MaxConns - 1
  THEN s_pending
  ELSE Append(s_pending, c)

\* upstream_on_pending_phone: s_pending afterwards.  A phone is queued once, and not
\* at all when the cache is ready or the list is full.
Queued(c) ==
  IF s_ready \/ IsPending(c) \/ Len(s_pending) >= MaxConns
  THEN s_pending
  ELSE Append(s_pending, c)

\* upstream_swallow_live_queuestatus, asked about the frame at hand.
Swallows(f) == f.variant = "queueStatus" /\ s_keepalive_pending
==============================================================================
