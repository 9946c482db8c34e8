------------------------------- MODULE Router -------------------------------
(***************************************************************************)
(* router: which phones a FromRadio frame of the node goes to.             *)
(***************************************************************************)
EXTENDS BleGatt

\* The slots a packet is handed to: the one that registered the DST_ID of a proxy
\* packet, and every slot in use for anything else or when no slot registered it.
PacketTargets(f) ==
  LET registered == ble_gatt_get_conn_by_proxy_id(f.body)
  IN  IF f.variant = "packet" /\ f.route = "proxy" /\ registered # {}
      THEN registered
      ELSE InUse
=============================================================================
