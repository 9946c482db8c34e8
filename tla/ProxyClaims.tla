----------------------------- MODULE ProxyClaims -----------------------------
(***************************************************************************)
(* Statements of the repository's comments and documents that the code     *)
(* does not keep.  Each is the one property of a run in which TLC finds it *)
(* violated; README.md tells the stories of the counterexamples.           *)
(***************************************************************************)
EXTENDS Proxy

\* ble_gatt.h on ble_gatt_replay_cached_burst: a replay answers a want_config of the
\* phone.  on_disconnected leaves the phone in s_pending, and the bt_conn object may
\* belong to another phone when the list is served.
ReplaysAreRequested ==
  \A s \in InUse : conns[s].state = "REPLAYING" => phone[conns[s].conn].want # {}

QueueFull(c) == \E s \in Slot : Holds(s, c) /\ ~HasRoom(conns[s])

\* docs/client-integration.md on FROMNUM: "subscribe to know when to drain FROMRADIO".  A
\* subscribed phone that has its config learns that its queue has filled.  But a packet
\* for a full queue is dropped without a notification, and so a queue that filled during
\* the replay stays full.
FullQueueDrains ==
  \A c \in Conn : QueueFull(c) /\ phone[c].sub /\ PhoneIn(c, "ACTIVE") ~> ~QueueFull(c)
==============================================================================
