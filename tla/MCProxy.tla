------------------------------- MODULE MCProxy -------------------------------
(***************************************************************************)
(* Small instances of Proxy for TLC.                                       *)
(***************************************************************************)
EXTENDS ProxyClaims, TLC

FrameOf(variant, route, body) ==
  [variant |-> variant, route |-> route, body |-> body, len |-> 1]

Config      == FrameOf("config", "none", 0)
NodeInfo(n) == FrameOf("node_info", "none", n)

\* The node's own number is 1.
ShortBurst == <<NodeInfo(1), Config, NodeInfo(2)>>
TinyBurst  == <<NodeInfo(1), Config>>

NoTail     == <<>>
\* The end of a burst that answered an earlier want_config, with its nonce.
EarlierTail == <<Config, ConfigComplete(8)>>

ToProxyId(id) == FrameOf("packet", "proxy", id)
Mesh          == FrameOf("packet", "standard", 0)
Damaged       == FrameOf("undecodable", "none", 0)

OnePacket == {Mesh}
TwoPackets == {Mesh, ToProxyId(1)}
AnyLive   == {Mesh, ToProxyId(1), Damaged}

PhoneNonces  == {5, MESH_NONCE_ONLY_CONFIG, MESH_NONCE_ONLY_NODES}
PlainNonces  == {0, 5}
JustConfig   == {MESH_NONCE_ONLY_CONFIG}

\* The rank-based InOrder is the usual selection from a sequence.
ASSUME InOrderIsSelection ==
  \A l \in UNION {[1..k -> {NodeInfo(1), NodeInfo(2), Config}] : k \in 0..5} :
    Service!InOrder(l, {i \in 1..Len(l) : l[i].variant = "node_info"})
      = SelectSeq(l, LAMBDA f : f.variant = "node_info")

ConnSymmetry == Permutations(Conn)
==============================================================================
