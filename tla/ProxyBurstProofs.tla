--------------------------- MODULE ProxyBurstProofs ---------------------------
(***************************************************************************)
(* Proofs about the path of the node's config burst through Proxy: who     *)
(* gets its frames, and what the published cache holds.                    *)
(***************************************************************************)
EXTENDS ProxySlotProofs, SequenceTheorems

--------------------------------------------------------------------------------
\* The request and its terminator on the line.

\* The nonces upstream_session_start may pick.
Fresh == {PickNonce(r) : r \in RandomNonce}

\* A frame that would close the fetch of a session with one of them.
Closes(f) == f.variant = "config_complete_id" /\ f.body \in Fresh

\* What the proxy may take for granted of the node: it sends the frames of a burst only
\* when asked, closes a burst once, and the rest of an earlier burst is not closed by a
\* nonce that sys_rand32_get returns now.
NodeKeepsProtocol ==
  /\ \A f \in LiveFrames : f.variant \notin ConfigVariant
  /\ \A i \in 1..Len(Burst) : Burst[i].variant # "config_complete_id"
  /\ \A i \in 1..Len(StaleTail) : ~Closes(StaleTail[i])

NoneAsks(tx)    == \A i \in 1..Len(tx) : tx[i].kind # "want_config"
NoneCloses(out) == \A i \in 1..Len(out) : ~Closes(out[i])
NoneConfig(out) == \A i \in 1..Len(out) : out[i].variant \notin ConfigVariant

\* A want_config under way is the session's, the only one, and not answered yet.
AskedOnce(tx, out, nonce) ==
  \A i \in 1..Len(tx) : tx[i].kind = "want_config" =>
    /\ tx[i].nonce = nonce
    /\ \A j \in 1..Len(tx) : tx[j].kind = "want_config" => j = i
    /\ NoneCloses(out)

\* A terminator under way is the session's, and the end of the config on the line.
ClosedOnce(tx, out, nonce) ==
  \A i \in 1..Len(out) : Closes(out[i]) =>
    /\ out[i].body = nonce
    /\ \A j \in 1..Len(out) : j > i => out[j].variant \notin ConfigVariant
    /\ NoneAsks(tx)

\* main has sent its want_config.
Requested == boot \in {"fetching", "arm", "done"}

LineOK(tx, out, nonce, requested, ready) ==
  /\ ~requested => NoneAsks(tx) /\ NoneCloses(out)
  /\ AskedOnce(tx, out, nonce)
  /\ ClosedOnce(tx, out, nonce)
  /\ ready => NoneAsks(tx) /\ NoneConfig(out)

BurstLine ==
  /\ boot \notin {"uart", "cache"} => s_nonce \in Fresh
  /\ LineOK(tx_msgq, node_out, s_nonce, Requested, s_ready)

\* A message of another kind changes nothing.
LEMMA LineAppend ==
  ASSUME NEW tx \in Seq(ToRadio), NEW out \in Seq(Frame), NEW nonce, NEW requested, NEW ready,
         LineOK(tx, out, nonce, requested, ready),
         NEW m \in ToRadio, m.kind # "want_config"
  PROVE  LineOK(Append(tx, m), out, nonce, requested, ready)
<1> DEFINE ty == Append(tx, m)
<1>1. /\ Len(tx) \in Nat /\ Len(ty) = Len(tx) + 1
      /\ \A i \in 1..Len(ty) :
           ty[i].kind = "want_config" => i \in 1..Len(tx) /\ ty[i] = tx[i]
  OBVIOUS
<1> HIDE DEF ty
<1>2. NoneAsks(tx) => NoneAsks(ty)
  BY <1>1 DEF NoneAsks
<1>3. AskedOnce(ty, out, nonce)
  BY <1>1 DEF LineOK, AskedOnce
<1>4. ClosedOnce(ty, out, nonce)
  BY <1>2 DEF LineOK, ClosedOnce
<1>5. QED
  BY <1>2, <1>3, <1>4 DEF LineOK, ty

\* Nor does the loss or the arrival of the first frame.
LEMMA LineTail ==
  ASSUME NEW tx \in Seq(ToRadio), NEW out \in Seq(Frame), NEW nonce, NEW requested, NEW ready,
         LineOK(tx, out, nonce, requested, ready), out # <<>>
  PROVE  LineOK(tx, Tail(out), nonce, requested, ready)
<1> DEFINE rest == Tail(out)
<1>1. /\ Len(out) \in Nat /\ Len(rest) = Len(out) - 1
      /\ \A i \in 1..Len(rest) : i + 1 \in 1..Len(out) /\ rest[i] = out[i + 1]
  OBVIOUS
<1> HIDE DEF rest
<1>2. /\ NoneCloses(out) => NoneCloses(rest)
      /\ NoneConfig(out) => NoneConfig(rest)
  BY <1>1 DEF NoneCloses, NoneConfig
<1>3. AskedOnce(tx, rest, nonce)
  BY <1>2 DEF LineOK, AskedOnce
<1>4. ClosedOnce(tx, rest, nonce)
  <2>1. ASSUME NEW i \in 1..Len(rest), Closes(rest[i])
        PROVE  /\ rest[i].body = nonce /\ NoneAsks(tx)
               /\ \A j \in 1..Len(rest) : j > i => rest[j].variant \notin ConfigVariant
    <3>1. i + 1 \in 1..Len(out) /\ Closes(out[i + 1])
      BY <1>1, <2>1
    <3>2. /\ out[i + 1].body = nonce /\ NoneAsks(tx)
          /\ \A j \in 1..Len(out) : j > i + 1 => out[j].variant \notin ConfigVariant
      BY <3>1 DEF LineOK, ClosedOnce
    <3>3. ASSUME NEW j \in 1..Len(rest), j > i PROVE rest[j].variant \notin ConfigVariant
      <4>1. j + 1 \in 1..Len(out) /\ rest[j] = out[j + 1] /\ j + 1 > i + 1
        BY <1>1, <3>3
      <4>2. QED
        BY <3>2, <4>1
    <3>4. rest[i] = out[i + 1]
      BY <1>1
    <3>5. QED
      BY <3>2, <3>3, <3>4
  <2>2. QED
    BY <2>1 DEF ClosedOnce
<1>5. QED
  BY <1>2, <1>3, <1>4 DEF LineOK, rest

\* When the terminator arrives, the burst is over.
LEMMA LineClosed ==
  ASSUME NEW tx \in Seq(ToRadio), NEW out \in Seq(Frame), NEW nonce, NEW requested, NEW ready,
         LineOK(tx, out, nonce, requested, ready), out # <<>>, Closes(Head(out))
  PROVE  NoneAsks(tx) /\ NoneConfig(Tail(out))
<1>1. /\ Len(out) \in Nat /\ Len(Tail(out)) = Len(out) - 1
      /\ 1 \in 1..Len(out) /\ out[1] = Head(out)
      /\ \A i \in 1..Len(Tail(out)) : i + 1 \in 1..Len(out) /\ Tail(out)[i] = out[i + 1]
  OBVIOUS
<1>2. NoneAsks(tx) /\ \A j \in 1..Len(out) : j > 1 => out[j].variant \notin ConfigVariant
  BY <1>1 DEF LineOK, ClosedOnce
<1>3. QED
  BY <1>1, <1>2 DEF NoneConfig

\* The node answers the want_config with the burst and its terminator, anything else with
\* a queueStatus or not at all.
LEMMA LineReply ==
  ASSUME NodeKeepsProtocol,
         NEW tx \in Seq(ToRadio), NEW out \in Seq(Frame), NEW nonce \in Nat,
         NEW requested, NEW ready,
         LineOK(tx, out, nonce, requested, ready), tx # <<>>
  PROVE  LineOK(Tail(tx), out \o Reply(Head(tx)), nonce, requested, ready)
<1> DEFINE ty  == Tail(tx)
           add == Reply(Head(tx))
           new == out \o add
<1>1. /\ Len(tx) \in Nat /\ Len(ty) = Len(tx) - 1
      /\ 1 \in 1..Len(tx) /\ tx[1] = Head(tx) /\ Head(tx) \in ToRadio
      /\ \A i \in 1..Len(ty) : i + 1 \in 1..Len(tx) /\ ty[i] = tx[i + 1]
  OBVIOUS
<1>2. add \in Seq(Frame)
  <2>1. ConfigComplete(Head(tx).nonce) \in Frame /\ QueueStatus \in Frame
    BY <1>1 DEF ToRadio, ConfigComplete, QueueStatus, Frame, Variant, Route
  <2>2. Burst \o <<ConfigComplete(Head(tx).nonce)>> \in Seq(Frame)
    BY <2>1, ProxyAssumption
  <2>3. QED
    BY <2>1, <2>2 DEF Reply
<1>3. /\ Len(out) \in Nat /\ Len(add) \in Nat /\ Len(new) = Len(out) + Len(add)
      /\ \A i \in 1..Len(new) : i <= Len(out) => i \in 1..Len(out) /\ new[i] = out[i]
      /\ \A i \in 1..Len(new) : i > Len(out) =>
           i - Len(out) \in 1..Len(add) /\ new[i] = add[i - Len(out)]
  <2> HIDE DEF add
  <2>1. QED
    BY <1>2
<1>4. NoneAsks(tx) => NoneAsks(ty)
  BY <1>1 DEF NoneAsks
<1>5. \A i \in 1..Len(new) :
         \/ i \in 1..Len(out) /\ new[i] = out[i]
         \/ \E k \in 1..Len(add) : i = Len(out) + k /\ new[i] = add[k]
  <2> HIDE DEF new, add
  <2>1. ASSUME NEW i \in 1..Len(new), ~(i <= Len(out))
        PROVE  \E k \in 1..Len(add) : i = Len(out) + k /\ new[i] = add[k]
    <3>1. i - Len(out) \in 1..Len(add) /\ new[i] = add[i - Len(out)]
      BY <1>3, <2>1
    <3>2. i = Len(out) + (i - Len(out))
      BY <1>3
    <3>3. QED
      BY <3>1, <3>2
  <2>2. QED
    BY <1>3, <2>1
<1> HIDE DEF new, ty
<1>6. CASE Head(tx).kind # "want_config"
  <2>1. \A i \in 1..Len(add) : add[i].variant \notin ConfigVariant
    <3>1. add = <<>> \/ add = <<QueueStatus>>
      BY <1>6 DEF Reply
    <3> HIDE DEF add
    <3>2. QED
      BY <3>1 DEF QueueStatus, ConfigVariant
  <2>2. \A i \in 1..Len(add) : ~Closes(add[i])
    BY <2>1 DEF Closes, ConfigVariant
  <2> HIDE DEF add
  <2>3. /\ NoneCloses(out) => NoneCloses(new)
        /\ NoneConfig(out) => NoneConfig(new)
    BY <1>5, <2>1, <2>2 DEF NoneCloses, NoneConfig
  <2>4. AskedOnce(ty, new, nonce)
    <3>1. ASSUME NEW i \in 1..Len(ty), ty[i].kind = "want_config"
          PROVE  /\ ty[i].nonce = nonce /\ NoneCloses(new)
                 /\ \A j \in 1..Len(ty) : ty[j].kind = "want_config" => j = i
      <4>1. /\ tx[i + 1].nonce = nonce /\ NoneCloses(out)
            /\ \A j \in 1..Len(tx) : tx[j].kind = "want_config" => j = i + 1
        BY <1>1, <3>1 DEF LineOK, AskedOnce
      <4>2. ASSUME NEW j \in 1..Len(ty), ty[j].kind = "want_config" PROVE j = i
        <5>1. j + 1 \in 1..Len(tx) /\ tx[j + 1].kind = "want_config"
          BY <1>1, <4>2
        <5>2. j + 1 = i + 1
          BY <4>1, <5>1
        <5>3. QED
          BY <5>2
      <4>3. ty[i] = tx[i + 1]
        BY <1>1
      <4>4. QED
        BY <2>3, <4>1, <4>2, <4>3
    <3>2. QED
      BY <3>1 DEF AskedOnce
  <2>5. ClosedOnce(ty, new, nonce)
    <3>1. ASSUME NEW i \in 1..Len(new), Closes(new[i])
          PROVE  /\ new[i].body = nonce /\ NoneAsks(ty)
                 /\ \A j \in 1..Len(new) : j > i => new[j].variant \notin ConfigVariant
      <4>1. i \in 1..Len(out) /\ new[i] = out[i]
        BY <1>5, <2>2, <3>1
      <4>2. /\ out[i].body = nonce /\ NoneAsks(tx)
            /\ \A j \in 1..Len(out) : j > i => out[j].variant \notin ConfigVariant
        BY <3>1, <4>1 DEF LineOK, ClosedOnce
      <4>3. QED
        BY <1>4, <1>5, <2>1, <4>1, <4>2
    <3>2. QED
      BY <3>1 DEF ClosedOnce
  <2>6. QED
    BY <1>4, <2>3, <2>4, <2>5 DEF LineOK, ty, new, add
<1>7. CASE Head(tx).kind = "want_config"
  <2>1. /\ Head(tx).nonce = nonce /\ NoneCloses(out)
        /\ \A j \in 1..Len(tx) : tx[j].kind = "want_config" => j = 1
    BY <1>1, <1>7 DEF LineOK, AskedOnce
  <2>2. NoneAsks(ty)
    BY <1>1, <2>1 DEF NoneAsks
  <2>3. ~NoneAsks(tx)
    BY <1>1, <1>7 DEF NoneAsks
  <2>4. requested /\ ~ready
    BY <2>3 DEF LineOK
  <2>5. add = Burst \o <<ConfigComplete(nonce)>>
    BY <1>7, <2>1 DEF Reply
  <2>6. /\ Len(Burst) \in Nat /\ Len(add) = Len(Burst) + 1
        /\ \A i \in 1..Len(Burst) : add[i] = Burst[i]
        /\ add[Len(Burst) + 1] = ConfigComplete(nonce)
    BY <2>5, ProxyAssumption
  <2> HIDE DEF add
  <2>7. \A i \in 1..Len(new) : Closes(new[i]) => i = Len(new)
    <3>1. ASSUME NEW i \in 1..Len(new), Closes(new[i]), i # Len(new) PROVE FALSE
      <4>1. CASE i <= Len(out)
        BY <1>3, <2>1, <3>1, <4>1 DEF NoneCloses
      <4>2. CASE i > Len(out)
        <5>1. PICK k \in 1..Len(add) : i = Len(out) + k /\ new[i] = add[k]
          BY <1>5, <1>3, <4>2
        <5>2. k \in 1..Len(Burst)
          BY <1>3, <2>6, <3>1, <5>1
        <5>3. new[i] = Burst[k]
          BY <2>6, <5>1, <5>2
        <5>4. QED
          BY <3>1, <5>2, <5>3 DEF Closes, NodeKeepsProtocol
      <4>3. QED
        BY <1>3, <4>1, <4>2
    <3>2. QED
      BY <3>1
  <2>8. new[Len(new)].body = nonce
    <3>1. Len(new) \in 1..Len(new) /\ Len(new) > Len(out) /\ Len(new) - Len(out) = Len(Burst) + 1
      BY <1>3, <2>6
    <3>2. new[Len(new)] = ConfigComplete(nonce)
      BY <1>3, <2>6, <3>1
    <3>3. QED
      BY <3>2 DEF ConfigComplete
  <2>9. ClosedOnce(ty, new, nonce)
    <3>1. \A i \in 1..Len(new) : Closes(new[i]) =>
            \A j \in 1..Len(new) : ~(j > i)
      BY <1>3, <2>7
    <3>2. QED
      BY <2>2, <2>7, <2>8, <3>1 DEF ClosedOnce
  <2>10. AskedOnce(ty, new, nonce)
    BY <2>2 DEF NoneAsks, AskedOnce
  <2>11. QED
    BY <2>4, <2>9, <2>10 DEF LineOK, ty, new, add
<1>8. QED
  BY <1>6, <1>7

\* The line over a message that is not a want_config.
LEMMA PlainTx ==
  ASSUME TypeOK, BurstLine, NEW m \in ToRadio, m.kind # "want_config", uart_meshtastic_tx(m),
         UNCHANGED <<boot, node_out, s_nonce, s_ready>>
  PROVE  BurstLine'
<1>0. tx_msgq \in Seq(ToRadio) /\ node_out \in Seq(Frame)
  BY DEF TypeOK
<1>1. tx_msgq' = tx_msgq \/ tx_msgq' = Append(tx_msgq, m)
  BY DEF uart_meshtastic_tx
<1>2. LineOK(Append(tx_msgq, m), node_out, s_nonce, Requested, s_ready)
  BY <1>0, LineAppend DEF BurstLine
<1>3. Requested' = Requested
  BY DEF Requested
<1>4. LineOK(tx_msgq', node_out, s_nonce, Requested, s_ready)
  BY <1>1, <1>2 DEF BurstLine
<1>5. QED
  BY <1>3, <1>4 DEF BurstLine

\* Every step keeps the request and its answer in order.
LEMMA BurstLineStep ==
  ASSUME NodeKeepsProtocol, TypeOK, Control, BurstLine, [Next]_vars
  PROVE  BurstLine'
<1> DEFINE Same == UNCHANGED <<boot, tx_msgq, node_out, s_nonce, s_ready>>
<1>0. /\ tx_msgq \in Seq(ToRadio) /\ node_out \in Seq(Frame)
      /\ LineOK(tx_msgq, node_out, s_nonce, Requested, s_ready)
  BY DEF TypeOK, BurstLine
<1>1. ASSUME Same PROVE BurstLine'
  BY <1>1 DEF BurstLine, Requested
<1>2. CASE SetServeCb \/ ResetPending \/ StartFetching \/ ArmKeepalive
  <2>1. UNCHANGED <<tx_msgq, node_out, s_nonce, s_ready>> /\ Requested' = Requested
        /\ (boot' \notin {"uart", "cache"} => boot \notin {"uart", "cache"})
    BY <1>2 DEF SetServeCb, ResetPending, StartFetching, ArmKeepalive, MainAt, cacheVars,
      Requested
  <2>2. QED
    BY <2>1 DEF BurstLine
<1>3. CASE BeginCache
  <2>1. /\ UNCHANGED <<tx_msgq, node_out>> /\ ~Requested /\ ~Requested' /\ ~s_ready
        /\ s_nonce' \in Fresh
    BY <1>3 DEF BeginCache, MainAt, Requested, Control, BeforeFetch, Fresh
  <2>2. ~s_ready'
    BY <1>3, Zenon DEF BeginCache, cache_begin
  <2>3. NoneAsks(tx_msgq) /\ NoneCloses(node_out)
    BY <1>0, <2>1 DEF LineOK
  <2>4. LineOK(tx_msgq, node_out, s_nonce', Requested', s_ready')
    BY <2>1, <2>2, <2>3 DEF LineOK, NoneAsks, NoneCloses, AskedOnce, ClosedOnce
  <2>5. QED
    BY <2>1, <2>4 DEF BurstLine
<1>4. CASE SendWantConfig
  <2>1. /\ boot = "want_config" /\ ~Requested /\ ~s_ready
        /\ UNCHANGED <<node_out, s_nonce, s_ready>> /\ boot' \in {"fetching", "failed"}
        /\ boot' = IF TxFits THEN "fetching" ELSE "failed"
    BY <1>4 DEF SendWantConfig, MainAt, Requested, Control, BeforeFetch, upstreamVars,
      cacheVars
  <2>2. NoneAsks(tx_msgq) /\ NoneCloses(node_out)
    BY <1>0, <2>1 DEF LineOK
  <2>3. CASE TxFits
    <3> DEFINE m  == [kind |-> "want_config", nonce |-> s_nonce]
               ty == Append(tx_msgq, m)
    <3>1. tx_msgq' = ty
      BY <1>4, <2>3 DEF SendWantConfig, uart_meshtastic_tx
    <3>2. m \in ToRadio
      BY DEF ToRadio, TypeOK, UpstreamTypeOK
    <3>3. /\ Len(tx_msgq) \in Nat /\ Len(ty) = Len(tx_msgq) + 1
          /\ \A i \in 1..Len(tx_msgq) : ty[i] = tx_msgq[i]
          /\ ty[Len(tx_msgq) + 1] = m
      BY <1>0, <3>2
    <3>4. m.nonce = s_nonce
      OBVIOUS
    <3> HIDE DEF ty, m
    <3>5. \A i \in 1..Len(ty) : ty[i].kind = "want_config" => i = Len(tx_msgq) + 1
      BY <2>2, <3>3 DEF NoneAsks
    <3>6. AskedOnce(ty, node_out, s_nonce)
      BY <2>2, <3>3, <3>4, <3>5 DEF AskedOnce
    <3>7. ClosedOnce(ty, node_out, s_nonce)
      BY <2>2 DEF ClosedOnce, NoneCloses
    <3>8. LineOK(ty, node_out, s_nonce, Requested', s_ready)
      BY <2>1, <2>3, <3>6, <3>7 DEF LineOK, Requested
    <3>9. QED
      BY <2>1, <3>1, <3>8 DEF BurstLine
  <2>4. CASE ~TxFits
    <3>1. tx_msgq' = tx_msgq /\ ~Requested'
      BY <1>4, <2>1, <2>4 DEF SendWantConfig, uart_meshtastic_tx, Requested
    <3>2. LineOK(tx_msgq, node_out, s_nonce, Requested', s_ready)
      BY <1>0, <2>2, <3>1 DEF LineOK
    <3>3. QED
      BY <2>1, <3>1, <3>2 DEF BurstLine
  <2>5. QED
    BY <2>3, <2>4
<1>5. ASSUME NEW c \in Conn, PhoneStep(c) PROVE BurstLine'
  <2>1. ASSUME NEW kind \in {"packet", "malformed"}, Forward(c, kind) PROVE BurstLine'
    <3>1. Plain(kind) \in ToRadio /\ Plain(kind).kind # "want_config"
      BY DEF Plain, ToRadio
    <3>2. uart_meshtastic_tx(Plain(kind)) /\ UNCHANGED <<boot, node_out, s_nonce, s_ready>>
      BY <2>1 DEF Forward, upstreamVars, cacheVars
    <3>3. QED
      BY <3>1, <3>2, PlainTx
  <2>2. CASE \/ on_connected(c) \/ on_disconnected(c) \/ fromnum_ccc_changed(c)
             \/ Heartbeat(c) \/ fromradio_read(c)
    <3>1. Same
      BY <2>2 DEF on_connected, on_disconnected, fromnum_ccc_changed, Heartbeat,
        fromradio_read, upstreamVars, cacheVars
    <3>2. QED
      BY <1>1, <3>1
  <2>3. ASSUME NEW n \in Nonce, WantConfigReplay(c, n) \/ WantConfigPark(c, n) PROVE BurstLine'
    <3>1. Same
      BY <2>3 DEF WantConfigReplay, WantConfigPark, upstreamVars, cacheVars
    <3>2. QED
      BY <1>1, <3>1
  <2>4. ASSUME NEW id \in ProxyId, node_reg_write(c, id) PROVE BurstLine'
    <3>1. Same
      BY <2>4 DEF node_reg_write, upstreamVars, cacheVars
    <3>2. QED
      BY <1>1, <3>1
  <2>5. QED
    BY <1>5, <2>1, <2>2, <2>3, <2>4 DEF PhoneStep
<1>6. CASE ServeOnePending \/ GoLive \/ UNCHANGED vars
  <2>1. Same
    BY <1>6 DEF ServeOnePending, GoLive, vars, cacheVars, upstreamVars
  <2>2. QED
    BY <1>1, <2>1
<1>7. CASE keepalive_work_handler
  <2>1. Plain("heartbeat") \in ToRadio /\ Plain("heartbeat").kind # "want_config"
    BY DEF Plain, ToRadio
  <2>2. /\ uart_meshtastic_tx(Plain("heartbeat"))
        /\ UNCHANGED <<boot, node_out, s_nonce, s_ready>>
    BY <1>7 DEF keepalive_work_handler, cacheVars
  <2>3. QED
    BY <2>1, <2>2, PlainTx
<1>8. CASE NodeConsumes
  <2>1. /\ tx_msgq # <<>> /\ tx_msgq' = Tail(tx_msgq)
        /\ node_out' = node_out \o Reply(Head(tx_msgq))
        /\ UNCHANGED <<boot, s_nonce, s_ready>>
    BY <1>8 DEF NodeConsumes, upstreamVars, cacheVars
  <2>2. s_nonce \in Nat
    BY DEF TypeOK, UpstreamTypeOK
  <2>3. LineOK(tx_msgq', node_out', s_nonce, Requested, s_ready)
    BY <1>0, <2>1, <2>2, LineReply
  <2>4. Requested' = Requested
    BY <2>1 DEF Requested
  <2>5. QED
    BY <2>1, <2>3, <2>4 DEF BurstLine
<1>9. ASSUME NEW f, on_fromradio_uart(f)
      PROVE  /\ UNCHANGED <<boot, tx_msgq, s_nonce>>
             /\ UNCHANGED s_ready \/ CloseBurst(f)
  BY <1>9 DEF on_fromradio_uart, BroadcastRaw, CloseBurst, CacheFrame, SwallowQueueStatus,
    RouteFrame, upstreamVars, cacheVars, cache_add_frame
<1>10. CASE FrameLost \/ NodeFrameArrives
  <2>1. /\ node_out # <<>> /\ node_out' = Tail(node_out)
        /\ UNCHANGED <<boot, tx_msgq, s_nonce>>
        /\ UNCHANGED s_ready \/ CloseBurst(Head(node_out))
    BY <1>9, <1>10 DEF FrameLost, NodeFrameArrives, upstreamVars, cacheVars
  <2>2. LineOK(tx_msgq, Tail(node_out), s_nonce, Requested, s_ready)
    BY <1>0, <2>1, LineTail
  <2>3. Requested' = Requested
    BY <2>1 DEF Requested
  <2>4. CASE UNCHANGED s_ready
    BY <2>1, <2>2, <2>3, <2>4 DEF BurstLine
  <2>5. CASE CloseBurst(Head(node_out))
    <3>1. Closes(Head(node_out))
      <4>1. Head(node_out).variant = "config_complete_id" /\ Head(node_out).body = s_nonce
            /\ s_state = "FETCHING"
        BY <2>5 DEF CloseBurst, Terminates, Consumes
      <4>2. s_nonce \in Fresh
        BY <4>1 DEF Control, BeforeFetch, BurstLine
      <4>3. QED
        BY <4>1, <4>2 DEF Closes
    <3>2. NoneAsks(tx_msgq) /\ NoneConfig(Tail(node_out))
      BY <1>0, <2>1, <3>1, LineClosed
    <3>3. LineOK(tx_msgq, Tail(node_out), s_nonce, Requested, s_ready')
      BY <2>2, <3>2 DEF LineOK
    <3>4. QED
      BY <2>1, <2>3, <3>3 DEF BurstLine
  <2>6. QED
    BY <2>1, <2>4, <2>5
<1>11. CASE LiveFrameArrives
  <2>1. PICK f \in LiveFrames : on_fromradio_uart(f)
    BY <1>11 DEF LiveFrameArrives
  <2>2. ~CloseBurst(f)
    BY DEF CloseBurst, Terminates, NodeKeepsProtocol, ConfigVariant
  <2>3. Same
    BY <1>9, <1>11, <2>1, <2>2 DEF LiveFrameArrives
  <2>4. QED
    BY <1>1, <2>3
<1>12. QED
  BY <1>2, <1>3, <1>4, <1>5, <1>6, <1>7, <1>8, <1>10, <1>11 DEF Next, Main, WorkQueue, Node

\* At first nothing is asked, and the line holds the rest of an earlier burst at most.
LEMMA InitBurstLine == ASSUME NodeKeepsProtocol, Init PROVE BurstLine
<1>1. ~s_ready
  BY Zenon DEF Init, CacheInit
<1>2. boot = "uart" /\ tx_msgq = <<>> /\ node_out = StaleTail
  BY DEF Init
<1>3. NoneAsks(tx_msgq) /\ NoneCloses(node_out)
  BY <1>2 DEF NodeKeepsProtocol, NoneAsks, NoneCloses
<1>4. LineOK(tx_msgq, node_out, s_nonce, Requested, s_ready)
  BY <1>1, <1>3 DEF LineOK, NoneAsks, NoneCloses, AskedOnce, ClosedOnce
<1>5. QED
  BY <1>2, <1>4 DEF BurstLine

\* Types, the order of boot and session, and the line.
LineInv == TypeOK /\ Control /\ BurstLine

\* It is an invariant.
LEMMA LineInvariance == ASSUME NodeKeepsProtocol PROVE Spec => []LineInv
<1>1. Init => LineInv
  BY InitReplay, InitBurstLine DEF ReplayInv, LineInv
<1>2. LineInv /\ [Next]_vars => LineInv'
  BY TypeStep, ControlStep, BurstLineStep DEF LineInv
<1>3. QED
  BY <1>1, <1>2, PTL DEF Spec

--------------------------------------------------------------------------------
\* Frames of the burst are not broadcast.

\* What a queue gains outside BOOT is not a frame of the burst.
LEMMA GainsNoConfig ==
  ASSUME NodeKeepsProtocol, LineInv, [Next]_vars, NEW s \in Slot, NEW f \in Frame,
         Gains(s, f), f.variant \in ConfigVariant
  PROVE  s_state = "BOOT" /\ node_out # <<>> /\ f = Head(node_out)
<1>1. f # QueueStatus /\ f.variant # "undecodable"
  BY DEF QueueStatus, ConfigVariant
<1>2. Arrives(f) /\ WorkQueueFree /\ RouteFrame(f)
  BY <1>1 DEF Gains
<1>3. f \notin LiveFrames
  BY DEF NodeKeepsProtocol
<1>4. node_out # <<>> /\ f = Head(node_out)
  BY <1>2, <1>3 DEF Arrives
<1>5. s_state # "FETCHING" /\ s_state # "CACHE_READY"
  BY <1>2 DEF RouteFrame, Consumes, WorkQueueFree, ConfigVariant
<1>6. s_state # "LIVE"
  <2>1. SUFFICES ASSUME s_state = "LIVE" PROVE FALSE
    OBVIOUS
  <2>2. NoneConfig(node_out) /\ node_out \in Seq(Frame)
    BY <2>1 DEF LineInv, TypeOK, Control, BurstLine, LineOK
  <2>3. 1 \in 1..Len(node_out) /\ Head(node_out) = node_out[1]
    BY <1>4, <2>2
  <2>4. QED
    BY <1>4, <2>2, <2>3 DEF NoneConfig
<1>7. s_state \in {"BOOT", "FETCHING", "CACHE_READY", "LIVE"}
  BY DEF LineInv, TypeOK, UpstreamTypeOK, UpstreamState
<1>8. QED
  BY <1>4, <1>5, <1>6, <1>7

\* A frame of the burst reaches a live queue in BOOT only.
LEMMA BroadcastStep ==
  ASSUME NodeKeepsProtocol, LineInv, [Next]_vars, NEW s \in Slot,
         Len(conns'[s].queue) > Len(conns[s].queue),
         conns'[s].queue[Len(conns'[s].queue)].variant \in ConfigVariant
  PROVE  s_state = "BOOT"
<1>1. PICK f \in Frame : conns'[s].queue = Append(conns[s].queue, f) /\ Gains(s, f)
  BY GrowthStep DEF LineInv
<1>2. conns'[s].queue[Len(conns'[s].queue)] = f
  BY <1>1, LastGained DEF LineInv, TypeOK, GattTypeOK, SlotRec
<1>3. QED
  BY <1>1, <1>2, GainsNoConfig

\* For any burst, any loss on the line, any size of the cache and any race of phones and
\* node with main's boot: the one window in which a frame of the burst is broadcast is the
\* one before main stores FETCHING.
THEOREM BroadcastCorrect ==
  ASSUME NodeKeepsProtocol PROVE Spec => ConfigBroadcastOnlyInBoot
<1>1. LineInv /\ [Next]_vars =>
        [\A s \in Slot :
           LET before == conns[s].queue
               after  == conns'[s].queue
           IN  Len(after) > Len(before) /\ after[Len(after)].variant \in ConfigVariant =>
                 s_state = "BOOT"]_vars
  BY BroadcastStep
<1>2. QED
  BY <1>1, LineInvariance, PTL DEF Spec, ConfigBroadcastOnlyInBoot

--------------------------------------------------------------------------------
\* The published cache holds the whole burst.

\* The frames that pass the proxy up to the terminator, when nothing is lost.
Line == StaleTail \o Burst

\* Size functions of Line: the bytes of its first i frames.
Sizes ==
  {size \in [0..Len(Line) -> Nat] :
     size[0] = 0 /\ \A i \in 1..Len(Line) : size[i] = size[i - 1] + Line[i].len}

\* The cache is large enough for all of them.
CacheSuffices ==
  Len(Line) <= MaxFrames /\ \E size \in Sizes : size[Len(Line)] <= ArenaBytes

\* Packets and damaged frames are what comes at any time, and what a burst is not made of.
BurstIsConfig ==
  /\ \A f \in LiveFrames : f.variant \in {"packet", "undecodable"}
  /\ \A i \in 1..Len(Burst) : Burst[i].variant \notin {"packet", "undecodable"}
  /\ \A i \in 1..Len(StaleTail) : StaleTail[i].variant \notin {"packet", "undecodable"}

\* Line is the rest of the earlier burst followed by the burst, and none of its frames
\* closes the fetch.
LEMMA LineFacts ==
  ASSUME NodeKeepsProtocol, BurstIsConfig
  PROVE  /\ Len(StaleTail) \in Nat /\ Len(Burst) \in Nat
         /\ Len(Line) = Len(StaleTail) + Len(Burst)
         /\ Line \in Seq(Frame)
         /\ \A i \in 1..Len(StaleTail) : Line[i] = StaleTail[i]
         /\ \A i \in 1..Len(Burst) : Line[Len(StaleTail) + i] = Burst[i]
         /\ \A i \in 1..Len(Line) :
              ~Closes(Line[i]) /\ Line[i].variant \notin {"packet", "undecodable"}
<1>1. StaleTail \in Seq(Frame) /\ Burst \in Seq(Frame)
  BY ProxyAssumption
<1>2. /\ Len(StaleTail) \in Nat /\ Len(Burst) \in Nat
      /\ Len(Line) = Len(StaleTail) + Len(Burst)
      /\ Line \in Seq(Frame)
      /\ \A i \in 1..Len(StaleTail) : Line[i] = StaleTail[i]
      /\ \A i \in 1..Len(Burst) : Line[Len(StaleTail) + i] = Burst[i]
  BY <1>1 DEF Line
<1>3. ASSUME NEW i \in 1..Len(Line)
      PROVE  ~Closes(Line[i]) /\ Line[i].variant \notin {"packet", "undecodable"}
  <2>1. CASE i <= Len(StaleTail)
    BY <1>2, <2>1 DEF NodeKeepsProtocol, BurstIsConfig
  <2>2. CASE i > Len(StaleTail)
    <3>1. i - Len(StaleTail) \in 1..Len(Burst) /\ i = Len(StaleTail) + (i - Len(StaleTail))
      BY <1>2, <2>2
    <3>2. Line[i] = Burst[i - Len(StaleTail)]
      BY <1>2, <3>1
    <3>3. QED
      BY <3>1, <3>2 DEF NodeKeepsProtocol, BurstIsConfig, Closes
  <2>3. QED
    BY <1>2, <2>1, <2>2
<1>4. QED
  BY <1>2, <1>3

\* The bytes of a part of Line are at most the bytes of Line.
LEMMA SizesGrow ==
  ASSUME Len(Line) \in Nat, \A i \in 1..Len(Line) : Line[i].len \in Nat,
         NEW size \in Sizes, NEW j \in 0..Len(Line)
  PROVE  size[j] <= size[Len(Line)]
<1> DEFINE N == Len(Line)
           D == {d \in 0..N : ~(size[N - d] <= size[N])}
<1>0. /\ size \in [0..N -> Nat]
      /\ \A i \in 1..N : size[i] = size[i - 1] + Line[i].len
  BY DEF Sizes
<1> HIDE DEF N
<1>1. N \in Nat
  BY DEF N
<1>2. SUFFICES ASSUME D # {} PROVE FALSE
  <2>1. N - j \in 0..N /\ N - (N - j) = j
    BY <1>1 DEF N
  <2>2. QED
    BY <1>2, <2>1 DEF N
<1>3. PICK d \in D : \A e \in D : d <= e
  <2>1. D \in SUBSET Nat
    BY <1>1
  <2> HIDE DEF D
  <2>2. QED
    BY <1>2, <2>1, LeastExists
<1>4. d \in 0..N /\ ~(size[N - d] <= size[N])
  OBVIOUS
<1>5. d # 0
  BY <1>0, <1>1, <1>4
<1>6. \A e \in 0..N : e < d => size[N - e] <= size[N]
  BY <1>1, <1>3
<1> HIDE DEF D
<1>7. PICK b \in 1..N : b = N - (d - 1) /\ b - 1 = N - d
  BY <1>1, <1>4, <1>5
<1>8. size[b] <= size[N]
  <2>1. d - 1 \in 0..N /\ d - 1 < d
    BY <1>1, <1>4, <1>5
  <2>2. size[N - (d - 1)] <= size[N]
    BY <1>6, <2>1, Zenon
  <2>3. QED
    BY <1>7, <2>2, Zenon
<1>9. size[b] = size[b - 1] + Line[b].len /\ Line[b].len \in Nat
  BY <1>0 DEF N
<1>10. b - 1 \in 0..N /\ b \in 0..N /\ N \in 0..N
  BY <1>1
<1>11. size[b - 1] \in Nat /\ size[b] \in Nat /\ size[N] \in Nat
  BY <1>0, <1>10
<1>12. ~(size[b - 1] <= size[N])
  BY <1>4, <1>7
<1>13. QED
  BY <1>8, <1>9, <1>11, <1>12

\* The boot is undisturbed: main's want_config is the first message, it is not refused, and
\* nothing is stored before FETCHING.
CleanBoot ==
  /\ boot # "failed"
  /\ ~Requested => tx_msgq = <<>>
  /\ boot \in {"fetching", "arm"} => ~NoneAsks(tx_msgq)
  /\ ~NoneAsks(tx_msgq) => tx_msgq # <<>> /\ tx_msgq[1].kind = "want_config"
  /\ s_keepalive_armed => boot = "done"
  /\ s_state = "BOOT" => s_index = <<>> /\ s_used = 0

\* The node has answered the want_config.
Answered(requested, tx) == requested /\ NoneAsks(tx)

\* What is stored is Line from frame k + 1 on ...
Stored(k, index, used) ==
  /\ k \in 0..Len(StaleTail)
  /\ k + Len(index) <= Len(Line)
  /\ \A i \in 1..Len(index) : index[i] = Line[k + i]
  /\ \A size \in Sizes : used = size[k + Len(index)] - size[k]

\* ... and what follows it is under way, up to the terminator once the node has answered.
UnderWay(j, out, answered, ready, nonce) ==
  /\ ready => j = Len(Line)
  /\ ~answered => /\ Len(out) = Len(StaleTail) - j
                  /\ \A i \in 1..Len(out) : out[i] = Line[j + i]
  /\ answered /\ ~ready =>
       /\ Len(out) >= Len(Line) - j + 1
       /\ \A i \in 1..(Len(Line) - j) : out[i] = Line[j + i]
       /\ out[Len(Line) - j + 1] = ConfigComplete(nonce)

Layout ==
  \E k \in Nat :
    /\ Stored(k, s_index, s_used)
    /\ UnderWay(k + Len(s_index), node_out, Answered(Requested, tx_msgq), s_ready, s_nonce)

\* A message of another kind leaves the want_config first.
LEMMA AppendAsks ==
  ASSUME NEW tx \in Seq(ToRadio), NEW m \in ToRadio, m.kind # "want_config"
  PROVE  /\ NoneAsks(Append(tx, m)) <=> NoneAsks(tx)
         /\ tx # <<>> => Append(tx, m) # <<>> /\ Append(tx, m)[1] = tx[1]
<1>1. /\ Len(tx) \in Nat /\ Len(Append(tx, m)) = Len(tx) + 1
      /\ \A i \in 1..Len(tx) : Append(tx, m)[i] = tx[i]
      /\ Append(tx, m)[Len(tx) + 1] = m
  OBVIOUS
<1>2. NoneAsks(Append(tx, m)) <=> NoneAsks(tx)
  BY <1>1 DEF NoneAsks
<1>3. tx # <<>> => Append(tx, m) # <<>> /\ Append(tx, m)[1] = tx[1]
  OBVIOUS
<1>4. QED
  BY <1>2, <1>3

\* After the node has taken the want_config, none is left.
LEMMA TailAsks ==
  ASSUME NEW tx \in Seq(ToRadio), tx # <<>>, NEW out, NEW nonce,
         AskedOnce(tx, out, nonce),
         ~NoneAsks(tx) => tx[1].kind = "want_config"
  PROVE  NoneAsks(Tail(tx))
<1>1. /\ Len(tx) \in Nat /\ Len(Tail(tx)) = Len(tx) - 1 /\ 1 \in 1..Len(tx)
      /\ \A i \in 1..Len(Tail(tx)) : i + 1 \in 1..Len(tx) /\ Tail(tx)[i] = tx[i + 1] /\ i + 1 # 1
  OBVIOUS
<1>2. CASE NoneAsks(tx)
  BY <1>1, <1>2 DEF NoneAsks
<1>3. CASE ~NoneAsks(tx)
  <2>1. \A j \in 1..Len(tx) : tx[j].kind = "want_config" => j = 1
    BY <1>1, <1>3 DEF AskedOnce
  <2>2. QED
    BY <1>1, <2>1 DEF NoneAsks
<1>4. QED
  BY <1>2, <1>3

\* A frame changes neither main nor the queue to the node, and nothing at all of the cache
\* in BOOT.
LEMMA FrameInBoot ==
  ASSUME NEW f, on_fromradio_uart(f)
  PROVE  /\ UNCHANGED <<boot, tx_msgq, s_keepalive_armed, s_nonce>>
         /\ s_state' = "BOOT" => s_state = "BOOT"
         /\ s_state = "BOOT" => UNCHANGED cacheVars
<1>1. UNCHANGED <<boot, tx_msgq, s_keepalive_armed, s_nonce>>
  BY DEF on_fromradio_uart, BroadcastRaw, CloseBurst, CacheFrame, SwallowQueueStatus,
    RouteFrame, upstreamVars
<1>2. s_state' = s_state \/ s_state' = "CACHE_READY"
  BY DEF on_fromradio_uart, BroadcastRaw, CloseBurst, CacheFrame, SwallowQueueStatus,
    RouteFrame, upstreamVars
<1>3. s_state = "BOOT" => UNCHANGED cacheVars
  BY DEF on_fromradio_uart, BroadcastRaw, CloseBurst, CacheFrame, SwallowQueueStatus,
    RouteFrame, Consumes
<1>4. QED
  BY <1>1, <1>2, <1>3

\* The phones' own steps but Forward change nothing of main, session and cache.
LEMMA PhoneAside ==
  ASSUME NEW c \in Conn, PhoneStep(c)
  PROVE  \/ /\ UNCHANGED <<boot, tx_msgq, node_out, cacheVars>>
            /\ UNCHANGED <<s_state, s_nonce, s_keepalive_armed>>
         \/ \E kind \in {"packet", "malformed"} : Forward(c, kind)
<1> DEFINE Same == /\ UNCHANGED <<boot, tx_msgq, node_out, cacheVars>>
                   /\ UNCHANGED <<s_state, s_nonce, s_keepalive_armed>>
<1>1. CASE \/ on_connected(c) \/ on_disconnected(c) \/ fromnum_ccc_changed(c)
           \/ Heartbeat(c) \/ fromradio_read(c)
  BY <1>1 DEF on_connected, on_disconnected, fromnum_ccc_changed, Heartbeat,
    fromradio_read, upstreamVars
<1>2. ASSUME NEW n \in Nonce, WantConfigReplay(c, n) \/ WantConfigPark(c, n) PROVE Same
  BY <1>2 DEF WantConfigReplay, WantConfigPark, upstreamVars
<1>3. ASSUME NEW id \in ProxyId, node_reg_write(c, id) PROVE Same
  BY <1>3 DEF node_reg_write, upstreamVars
<1>4. QED
  BY <1>1, <1>2, <1>3 DEF PhoneStep

\* A message of another kind, sent after the boot.
LEMMA PlainClean ==
  ASSUME TypeOK, CleanBoot, boot = "done", NEW m \in ToRadio, m.kind # "want_config",
         uart_meshtastic_tx(m),
         UNCHANGED <<boot, cacheVars, s_state, s_keepalive_armed>>
  PROVE  CleanBoot'
<1>1. tx_msgq \in Seq(ToRadio)
  BY DEF TypeOK
<1>2. tx_msgq' = tx_msgq \/ tx_msgq' = Append(tx_msgq, m)
  BY DEF uart_meshtastic_tx
<1>3. /\ NoneAsks(tx_msgq') <=> NoneAsks(tx_msgq)
      /\ tx_msgq # <<>> => tx_msgq' # <<>> /\ tx_msgq'[1] = tx_msgq[1]
  BY <1>1, <1>2, AppendAsks
<1>4. s_state' = "BOOT" => s_index' = <<>> /\ s_used' = 0
  BY DEF CleanBoot, cacheVars
<1>5. s_keepalive_armed' => boot' = "done"
  OBVIOUS
<1>6. QED
  BY <1>3, <1>4, <1>5 DEF CleanBoot, Requested

\* Every step keeps the boot undisturbed.
LEMMA CleanBootStep ==
  ASSUME ~BootRaces, TypeOK, Control, BurstLine, CleanBoot, [Next]_vars
  PROVE  CleanBoot'
<1>0. tx_msgq \in Seq(ToRadio)
  BY DEF TypeOK
<1>1. ASSUME UNCHANGED <<boot, tx_msgq, cacheVars, s_keepalive_armed>>,
             s_state' = "BOOT" => s_state = "BOOT"
      PROVE  CleanBoot'
  BY <1>1 DEF CleanBoot, Requested, cacheVars, NoneAsks
<1>2. CASE SetServeCb \/ ResetPending
  <2>1. /\ UNCHANGED <<tx_msgq, cacheVars, s_keepalive_armed, s_state>>
        /\ boot \in {"uart", "pending"} /\ boot' \in {"cache", "want_config"}
    BY <1>2 DEF SetServeCb, ResetPending, MainAt
  <2>2. tx_msgq = <<>> /\ ~s_keepalive_armed
    BY <2>1 DEF CleanBoot, Requested
  <2>3. NoneAsks(tx_msgq)
    BY <2>2 DEF NoneAsks
  <2>4. QED
    BY <2>1, <2>2, <2>3 DEF CleanBoot, Requested, cacheVars, NoneAsks
<1>3. CASE BeginCache
  <2>1. /\ UNCHANGED <<tx_msgq, s_keepalive_armed, s_state>>
        /\ boot = "cache" /\ boot' = "pending" /\ s_index' = <<>> /\ s_used' = 0
    BY <1>3 DEF BeginCache, MainAt, cache_begin
  <2>2. tx_msgq = <<>> /\ ~s_keepalive_armed
    BY <2>1 DEF CleanBoot, Requested
  <2>3. NoneAsks(tx_msgq)
    BY <2>2 DEF NoneAsks
  <2>4. QED
    BY <2>1, <2>2, <2>3 DEF CleanBoot, Requested, NoneAsks
<1>4. CASE SendWantConfig
  <2> DEFINE m == [kind |-> "want_config", nonce |-> s_nonce]
  <2>1. boot = "want_config" /\ UNCHANGED <<cacheVars, s_state, s_keepalive_armed>>
    BY <1>4 DEF SendWantConfig, MainAt, upstreamVars
  <2>2. tx_msgq = <<>> /\ ~s_keepalive_armed
    BY <2>1 DEF CleanBoot, Requested
  <2>3. TxFits
    BY <2>2, ProxyAssumption DEF TxFits
  <2>4. boot' = "fetching" /\ tx_msgq' = <<m>>
    BY <1>4, <2>2, <2>3 DEF SendWantConfig, MainAt, uart_meshtastic_tx
  <2>5. tx_msgq' # <<>> /\ tx_msgq'[1].kind = "want_config"
    BY <2>4
  <2>6. ~NoneAsks(tx_msgq')
    BY <2>4 DEF NoneAsks
  <2>7. QED
    BY <2>1, <2>2, <2>4, <2>5, <2>6 DEF CleanBoot, Requested, cacheVars
<1>5. CASE StartFetching
  <2>1. /\ UNCHANGED <<tx_msgq, cacheVars, s_keepalive_armed>>
        /\ boot = "fetching" /\ boot' = "arm" /\ s_state' = "FETCHING"
    BY <1>5 DEF StartFetching, MainAt
  <2>2. QED
    BY <2>1 DEF CleanBoot, Requested, NoneAsks
<1>6. CASE ArmKeepalive
  <2>1. /\ UNCHANGED <<tx_msgq, cacheVars, s_state>>
        /\ boot = "arm" /\ boot' = "done"
    BY <1>6 DEF ArmKeepalive, MainAt
  <2>2. QED
    BY <2>1 DEF CleanBoot, Requested, NoneAsks, cacheVars
<1>7. ASSUME NEW c \in Conn, PhoneStep(c) PROVE CleanBoot'
  <2>1. ASSUME NEW kind \in {"packet", "malformed"}, Forward(c, kind) PROVE CleanBoot'
    <3>1. Plain(kind) \in ToRadio /\ Plain(kind).kind # "want_config"
      BY DEF Plain, ToRadio
    <3>2. boot = "done"
      BY <2>1 DEF Forward, PhoneActs, PhoneMayAct, Booted, CleanBoot
    <3>3. /\ uart_meshtastic_tx(Plain(kind))
          /\ UNCHANGED <<boot, cacheVars, s_state, s_keepalive_armed>>
      BY <2>1 DEF Forward, upstreamVars
    <3>4. QED
      BY <3>1, <3>2, <3>3, PlainClean
  <2>2. QED
    BY <1>1, <1>7, <2>1, PhoneAside
<1>8. CASE ServeOnePending \/ GoLive \/ UNCHANGED vars
  <2>1. /\ UNCHANGED <<boot, tx_msgq, cacheVars, s_keepalive_armed>>
        /\ s_state' = "BOOT" => s_state = "BOOT"
    BY <1>8 DEF ServeOnePending, GoLive, vars, upstreamVars
  <2>2. QED
    BY <1>1, <2>1
<1>9. CASE keepalive_work_handler
  <2>1. Plain("heartbeat") \in ToRadio /\ Plain("heartbeat").kind # "want_config"
    BY DEF Plain, ToRadio
  <2>2. boot = "done" /\ uart_meshtastic_tx(Plain("heartbeat"))
        /\ UNCHANGED <<boot, cacheVars, s_state, s_keepalive_armed>>
    BY <1>9 DEF keepalive_work_handler, CleanBoot
  <2>3. QED
    BY <2>1, <2>2, PlainClean
<1>10. CASE NodeConsumes
  <2>1. /\ tx_msgq # <<>> /\ tx_msgq' = Tail(tx_msgq) /\ boot = "done"
        /\ UNCHANGED <<boot, cacheVars, s_state, s_keepalive_armed>>
    BY <1>10 DEF NodeConsumes, Booted, CleanBoot, upstreamVars
  <2>2. NoneAsks(tx_msgq')
    BY <1>0, <2>1, TailAsks DEF BurstLine, LineOK, CleanBoot
  <2>3. QED
    BY <2>1, <2>2 DEF CleanBoot, Requested, cacheVars
<1>11. CASE FrameLost
  BY <1>1, <1>11 DEF FrameLost, upstreamVars
<1>12. CASE NodeFrameArrives \/ LiveFrameArrives
  <2>1. PICK f : on_fromradio_uart(f)
    BY <1>12 DEF NodeFrameArrives, LiveFrameArrives
  <2>2. CASE s_state = "BOOT"
    BY <1>1, <2>1, <2>2, FrameInBoot
  <2>3. CASE s_state # "BOOT"
    <3>1. UNCHANGED <<boot, tx_msgq, s_keepalive_armed>> /\ s_state' # "BOOT"
      BY <2>1, <2>3, FrameInBoot
    <3>2. QED
      BY <3>1 DEF CleanBoot, Requested, NoneAsks
  <2>4. QED
    BY <2>2, <2>3
<1>13. QED
  BY <1>2, <1>3, <1>4, <1>5, <1>6, <1>7, <1>8, <1>9, <1>10, <1>11, <1>12
  DEF Next, Main, WorkQueue, Node

\* The next frame of Line goes into the cache ...
LEMMA StoredNext ==
  ASSUME NodeKeepsProtocol, BurstIsConfig,
         NEW index \in Seq(Frame), NEW k \in Nat, NEW used \in Nat,
         Stored(k, index, used), k + Len(index) < Len(Line)
  PROVE  Stored(k, Append(index, Line[k + Len(index) + 1]),
                used + Line[k + Len(index) + 1].len)
<1> DEFINE n == Len(index)
           f == Line[k + n + 1]
           new == Append(index, f)
<1>1. n \in Nat /\ Len(Line) \in Nat /\ k + n + 1 \in 1..Len(Line)
      /\ k + n \in 0..Len(Line) /\ k \in 0..Len(Line) /\ k + n + 1 \in 0..Len(Line)
  BY LineFacts DEF Stored
<1>2. f \in Frame
  <2>1. Line \in Seq(Frame)
    BY LineFacts
  <2>2. QED
    BY <1>1, <2>1
<1>3. /\ Len(new) = n + 1 /\ new[n + 1] = f
      /\ \A i \in 1..n : new[i] = index[i]
  <2> HIDE DEF f
  <2>1. QED
    BY <1>1, <1>2
<1>4. f.len \in Nat
  BY <1>2 DEF Frame
<1>5. ASSUME NEW i \in 1..Len(new) PROVE new[i] = Line[k + i]
  <2>1. CASE i \in 1..n
    <3>1. index[i] = Line[k + i]
      BY <2>1 DEF Stored
    <3> HIDE DEF new
    <3>2. QED
      BY <1>3, <2>1, <3>1
  <2>2. CASE i = n + 1
    <3>1. k + i = k + n + 1
      BY <1>1, <2>2
    <3> HIDE DEF new
    <3>2. QED
      BY <1>3, <2>2, <3>1 DEF f
  <2>3. i \in 1..n \/ i = n + 1
    <3> HIDE DEF new
    <3>1. QED
      BY <1>1, <1>3
  <2>4. QED
    BY <2>1, <2>2, <2>3
<1>6. ASSUME NEW size \in Sizes PROVE used + f.len = size[k + Len(new)] - size[k]
  <2>1. /\ size \in [0..Len(Line) -> Nat]
        /\ \A i \in 1..Len(Line) : size[i] = size[i - 1] + Line[i].len
    BY DEF Sizes
  <2>2. k + n + 1 - 1 = k + n
    BY <1>1
  <2>3. size[k + n + 1] = size[k + n] + f.len
    BY <1>1, <2>1, <2>2
  <2>4. used = size[k + n] - size[k]
    BY DEF Stored
  <2>5. size[k + n + 1] \in Nat /\ size[k + n] \in Nat /\ size[k] \in Nat
    BY <1>1, <2>1
  <2>6. k + Len(new) = k + n + 1
    <3> HIDE DEF new
    <3>1. QED
      BY <1>1, <1>3
  <2>7. size[k + Len(new)] = size[k + n + 1]
    BY <2>6
  <2> HIDE DEF new, f
  <2>8. QED
    BY <1>4, <2>3, <2>4, <2>5, <2>7
<1>7. k \in 0..Len(StaleTail) /\ k + Len(new) <= Len(Line)
  <2> HIDE DEF new
  <2>1. QED
    BY <1>1, <1>3 DEF Stored
<1> HIDE DEF new
<1>8. Stored(k, new, used + f.len)
  BY <1>5, <1>6, <1>7 DEF Stored
<1>9. QED
  BY <1>8 DEF new

\* ... or, before the fetch, is dropped.
LEMMA StoredNone ==
  ASSUME NodeKeepsProtocol, BurstIsConfig, NEW k \in Nat, k <= Len(StaleTail)
  PROVE  Stored(k, <<>>, 0)
<1>1. /\ Len(StaleTail) \in Nat /\ Len(Line) \in Nat /\ Len(StaleTail) <= Len(Line)
  BY LineFacts
<1>2. Len(<<>>) = 0 /\ k + 0 = k
  OBVIOUS
<1>3. ASSUME NEW size \in Sizes PROVE 0 = size[k + Len(<<>>)] - size[k]
  <2>1. size[k] \in Nat
    BY <1>1 DEF Sizes
  <2>2. size[k + Len(<<>>)] = size[k]
    BY <1>2
  <2>3. QED
    BY <2>1, <2>2
<1>4. k \in 0..Len(StaleTail) /\ k + Len(<<>>) <= Len(Line)
  BY <1>1
<1>5. QED
  BY <1>3, <1>4 DEF Stored

\* What comes next on the line is the next frame of Line, or the terminator.
LEMMA NextUnderWay ==
  ASSUME NodeKeepsProtocol, BurstIsConfig,
         NEW j \in Nat, j <= Len(Line), NEW out \in Seq(Frame), out # <<>>,
         NEW answered \in BOOLEAN, NEW nonce,
         UnderWay(j, out, answered, FALSE, nonce)
  PROVE  \/ j < Len(Line) /\ Head(out) = Line[j + 1]
         \/ answered /\ j = Len(Line) /\ Head(out) = ConfigComplete(nonce)
<1>1. /\ Len(StaleTail) \in Nat /\ Len(Line) \in Nat /\ Len(StaleTail) <= Len(Line)
  BY LineFacts
<1>2. Len(out) \in Nat /\ 1 \in 1..Len(out) /\ Head(out) = out[1]
  OBVIOUS
<1>3. CASE ~answered
  <2>1. Len(out) = Len(StaleTail) - j /\ out[1] = Line[j + 1]
    BY <1>2, <1>3 DEF UnderWay
  <2>2. QED
    BY <1>1, <1>2, <2>1
<1>4. CASE answered
  <2>1. CASE j < Len(Line)
    <3>1. 1 \in 1..(Len(Line) - j)
      BY <1>1, <2>1
    <3>2. out[1] = Line[j + 1]
      BY <1>4, <3>1 DEF UnderWay
    <3>3. QED
      BY <1>2, <2>1, <3>2
  <2>2. CASE j = Len(Line)
    <3>1. Len(Line) - j + 1 = 1
      BY <1>1, <2>2
    <3>2. out[1] = ConfigComplete(nonce)
      BY <1>4, <3>1 DEF UnderWay
    <3>3. QED
      BY <1>2, <1>4, <2>2, <3>2
  <2>3. QED
    BY <1>1, <2>1, <2>2
<1>5. QED
  BY <1>3, <1>4

\* Its arrival leaves the rest.
LEMMA RestUnderWay ==
  ASSUME NodeKeepsProtocol, BurstIsConfig,
         NEW j \in Nat, j < Len(Line), NEW out \in Seq(Frame), out # <<>>,
         NEW answered \in BOOLEAN, NEW nonce,
         UnderWay(j, out, answered, FALSE, nonce)
  PROVE  UnderWay(j + 1, Tail(out), answered, FALSE, nonce)
<1> DEFINE rest == Tail(out)
<1>1. /\ Len(StaleTail) \in Nat /\ Len(Line) \in Nat /\ Len(StaleTail) <= Len(Line)
  BY LineFacts
<1>2. /\ Len(out) \in Nat /\ Len(rest) = Len(out) - 1
      /\ \A i \in 1..Len(rest) : i + 1 \in 1..Len(out) /\ rest[i] = out[i + 1]
  OBVIOUS
<1> HIDE DEF rest
<1>3. CASE ~answered
  <2>1. /\ Len(out) = Len(StaleTail) - j
        /\ \A i \in 1..Len(out) : out[i] = Line[j + i]
    BY <1>3 DEF UnderWay
  <2>2. Len(rest) = Len(StaleTail) - (j + 1)
    BY <1>1, <1>2, <2>1
  <2>3. ASSUME NEW i \in 1..Len(rest) PROVE rest[i] = Line[j + 1 + i]
    <3>1. out[i + 1] = Line[j + (i + 1)]
      BY <1>2, <2>1
    <3>2. j + (i + 1) = j + 1 + i
      OBVIOUS
    <3>3. QED
      BY <1>2, <3>1, <3>2
  <2>4. QED
    BY <1>3, <2>2, <2>3 DEF UnderWay, rest
<1>4. CASE answered
  <2>1. /\ Len(out) >= Len(Line) - j + 1
        /\ \A i \in 1..(Len(Line) - j) : out[i] = Line[j + i]
        /\ out[Len(Line) - j + 1] = ConfigComplete(nonce)
    BY <1>4 DEF UnderWay
  <2>2. Len(rest) >= Len(Line) - (j + 1) + 1
    BY <1>1, <1>2, <2>1
  <2>3. ASSUME NEW i \in 1..(Len(Line) - (j + 1)) PROVE rest[i] = Line[j + 1 + i]
    <3>1. i \in 1..Len(rest) /\ i + 1 \in 1..(Len(Line) - j) /\ j + (i + 1) = j + 1 + i
      BY <1>1, <1>2, <2>2
    <3>2. out[i + 1] = Line[j + (i + 1)]
      BY <2>1, <3>1
    <3>3. QED
      BY <1>2, <3>1, <3>2
  <2>4. rest[Len(Line) - (j + 1) + 1] = ConfigComplete(nonce)
    <3>1. PICK e \in 1..Len(rest) : e = Len(Line) - (j + 1) + 1 /\ e + 1 = Len(Line) - j + 1
      <4>1. Len(Line) - j \in 1..Len(rest)
        BY <1>1, <1>2, <2>2
      <4>2. Len(Line) - j = Len(Line) - (j + 1) + 1
        BY <1>1
      <4>3. QED
        BY <4>1, <4>2
    <3>2. rest[e] = out[e + 1]
      BY <1>2
    <3>3. QED
      BY <2>1, <3>1, <3>2
  <2>5. QED
    BY <1>4, <2>2, <2>3, <2>4 DEF UnderWay, rest
<1>5. QED
  BY <1>3, <1>4

\* The node's answer completes the line, and what follows it changes nothing.
LEMMA AnswerUnderWay ==
  ASSUME NodeKeepsProtocol, BurstIsConfig,
         NEW j \in Nat, j <= Len(Line), NEW out \in Seq(Frame), NEW add \in Seq(Frame),
         NEW answered \in BOOLEAN, NEW ready \in BOOLEAN, NEW nonce,
         UnderWay(j, out, answered, ready, nonce),
         ~answered => add = Burst \o <<ConfigComplete(nonce)>>
  PROVE  UnderWay(j, out \o add, TRUE, ready, nonce)
<1> DEFINE new == out \o add
<1>1. /\ Len(StaleTail) \in Nat /\ Len(Burst) \in Nat
      /\ Len(Line) = Len(StaleTail) + Len(Burst)
      /\ \A i \in 1..Len(Burst) : Line[Len(StaleTail) + i] = Burst[i]
  BY LineFacts
<1>2. /\ Len(out) \in Nat /\ Len(add) \in Nat /\ Len(new) = Len(out) + Len(add)
      /\ \A i \in 1..Len(out) : new[i] = out[i]
      /\ \A i \in 1..Len(add) : new[Len(out) + i] = add[i]
  OBVIOUS
<1> HIDE DEF new
<1>3. CASE answered /\ ~ready
  <2>1. /\ Len(out) >= Len(Line) - j + 1
        /\ \A i \in 1..(Len(Line) - j) : out[i] = Line[j + i]
        /\ out[Len(Line) - j + 1] = ConfigComplete(nonce)
    BY <1>3 DEF UnderWay
  <2>2. Len(new) >= Len(Line) - j + 1
    BY <1>1, <1>2, <2>1
  <2>3. ASSUME NEW i \in 1..(Len(Line) - j) PROVE new[i] = Line[j + i]
    <3>1. i \in 1..Len(out)
      BY <1>1, <1>2, <2>1
    <3>2. QED
      BY <1>2, <2>1, <3>1
  <2>4. Len(Line) - j + 1 \in 1..Len(out)
    BY <1>1, <1>2, <2>1
  <2>5. new[Len(Line) - j + 1] = ConfigComplete(nonce)
    BY <1>2, <2>1, <2>4
  <2>6. QED
    BY <1>3, <2>2, <2>3, <2>5 DEF UnderWay, new
<1>4. CASE ~answered /\ ~ready
  <2>1. /\ Len(out) = Len(StaleTail) - j
        /\ \A i \in 1..Len(out) : out[i] = Line[j + i]
    BY <1>4 DEF UnderWay
  <2>2. /\ Len(add) = Len(Burst) + 1
        /\ \A i \in 1..Len(Burst) : add[i] = Burst[i]
        /\ add[Len(Burst) + 1] = ConfigComplete(nonce)
    BY <1>4, ProxyAssumption
  <2>3. Len(new) = Len(Line) - j + 1
    BY <1>1, <1>2, <2>1, <2>2
  <2>4. ASSUME NEW i \in 1..(Len(Line) - j) PROVE new[i] = Line[j + i]
    <3>1. CASE i <= Len(out)
      BY <1>2, <2>1, <3>1
    <3>2. CASE i > Len(out)
      <4>1. PICK e \in 1..Len(Burst) : i = Len(out) + e /\ Len(StaleTail) + e = j + i
        <5>1. i - Len(out) \in 1..Len(Burst)
          BY <1>1, <1>2, <2>1, <3>2
        <5>2. i = Len(out) + (i - Len(out)) /\ Len(StaleTail) + (i - Len(out)) = j + i
          BY <1>1, <1>2, <2>1
        <5>3. QED
          BY <5>1, <5>2
      <4>2. e \in 1..Len(add)
        BY <1>1, <2>2
      <4>3. new[i] = add[e]
        BY <1>2, <4>1, <4>2
      <4>4. add[e] = Burst[e] /\ Line[Len(StaleTail) + e] = Burst[e]
        BY <1>1, <2>2
      <4>5. QED
        BY <4>1, <4>3, <4>4
    <3>3. QED
      BY <1>1, <1>2, <3>1, <3>2
  <2>5. new[Len(Line) - j + 1] = ConfigComplete(nonce)
    <3>1. Len(Burst) + 1 \in 1..Len(add)
      BY <1>1, <2>2
    <3>2. new[Len(out) + (Len(Burst) + 1)] = add[Len(Burst) + 1]
      BY <1>2, <3>1
    <3>3. Len(out) + (Len(Burst) + 1) = Len(Line) - j + 1
      BY <1>1, <1>2, <2>1
    <3>4. QED
      BY <2>2, <3>2, <3>3
  <2>6. QED
    BY <1>1, <1>4, <2>3, <2>4, <2>5 DEF UnderWay, new
<1>5. CASE ready
  BY <1>5 DEF UnderWay
<1>6. QED
  BY <1>3, <1>4, <1>5

\* There is room for the next frame of Line.
LEMMA LineFits ==
  ASSUME NodeKeepsProtocol, BurstIsConfig, CacheSuffices, TypeOK,
         NEW k \in Nat, Stored(k, s_index, s_used), k + Len(s_index) < Len(Line)
  PROVE  CacheFits(Line[k + Len(s_index) + 1])
<1> DEFINE n == Len(s_index)
           f == Line[k + n + 1]
<1>1. s_index \in Seq(Frame) /\ s_used \in Nat
  BY DEF TypeOK, CacheTypeOK
<1>2. n \in Nat /\ Len(Line) \in Nat /\ k + n + 1 \in 1..Len(Line) /\ k \in 0..Len(Line)
      /\ Len(Line) \in 0..Len(Line)
  BY <1>1, LineFacts
<1>3. Stored(k, Append(s_index, f), s_used + f.len)
  BY <1>1, StoredNext
<1>4. f \in Frame /\ \A i \in 1..Len(Line) : Line[i].len \in Nat
  <2>1. Line \in Seq(Frame)
    BY LineFacts
  <2>2. \A i \in 1..Len(Line) : Line[i] \in Frame
    BY <2>1
  <2> HIDE DEF n
  <2>3. QED
    BY <1>2, <2>2 DEF Frame
<1>5. Len(Append(s_index, f)) = n + 1
  BY <1>1, <1>4
<1>6. PICK size \in Sizes : size[Len(Line)] <= ArenaBytes
  BY DEF CacheSuffices
<1>7. size \in [0..Len(Line) -> Nat]
  BY DEF Sizes
<1>8. s_used + f.len = size[k + (n + 1)] - size[k]
  BY <1>3, <1>5 DEF Stored
<1> HIDE DEF n, f
<1>9. k + (n + 1) \in 0..Len(Line)
  BY <1>2
<1>10. size[k + (n + 1)] \in Nat /\ size[k] \in Nat /\ size[Len(Line)] \in Nat
  BY <1>2, <1>7, <1>9
<1>11. size[k + (n + 1)] <= size[Len(Line)]
  BY <1>2, <1>4, <1>9, SizesGrow
<1>12. s_used + f.len <= ArenaBytes
  BY <1>6, <1>8, <1>10, <1>11, CacheBoundsAssumption
<1>13. n < MaxFrames
  BY <1>2, CacheBoundsAssumption DEF CacheSuffices
<1>14. QED
  BY <1>12, <1>13 DEF CacheFits, n, f

\* The head of the line arrives in BOOT, while the burst is fetched, or after that.
LEMMA ArrivalLayout ==
  ASSUME NodeKeepsProtocol, BurstIsConfig, CacheSuffices,
         TypeOK, Control, BurstLine, CleanBoot, Layout, NodeFrameArrives
  PROVE  Layout'
<1> DEFINE f == Head(node_out)
           a == Answered(Requested, tx_msgq)
<1>0. /\ s_index \in Seq(Frame) /\ s_used \in Nat /\ s_ready \in BOOLEAN
      /\ node_out \in Seq(Frame) /\ s_nonce \in Nat
  BY DEF TypeOK, CacheTypeOK, UpstreamTypeOK
<1>1. /\ node_out # <<>> /\ node_out' = Tail(node_out) /\ on_fromradio_uart(f)
      /\ UNCHANGED <<boot, tx_msgq, s_nonce>>
  BY FrameInBoot DEF NodeFrameArrives
<1>2. Answered(Requested, tx_msgq)' = a /\ a \in BOOLEAN
  BY <1>1 DEF Answered, Requested, NoneAsks
<1>3. PICK k \in Nat : /\ Stored(k, s_index, s_used)
                       /\ UnderWay(k + Len(s_index), node_out, a, s_ready, s_nonce)
  BY DEF Layout
<1> DEFINE j == k + Len(s_index)
<1>4. /\ j \in Nat /\ j <= Len(Line) /\ Len(Line) \in Nat /\ Len(StaleTail) \in Nat
      /\ Len(s_index) \in Nat
  BY <1>0, <1>3, LineFacts DEF Stored
<1>5. ASSUME NEW m \in Nat, NEW index, NEW used, NEW ready,
             s_index' = index, s_used' = used, s_ready' = ready,
             Stored(m, index, used), UnderWay(m + Len(index), Tail(node_out), a, ready, s_nonce)
      PROVE  Layout'
  <2>1. /\ Stored(m, s_index', s_used')
        /\ UnderWay(m + Len(s_index'), node_out', Answered(Requested, tx_msgq)', s_ready', s_nonce')
    BY <1>1, <1>2, <1>5
  <2>2. QED
    BY <2>1 DEF Layout, Answered
<1>6. CASE s_ready
  <2>1. UNCHANGED cacheVars
    BY <1>6, FrozenStep DEF Next, Node
  <2>2. boot \in {"arm", "done"} /\ NoneAsks(tx_msgq)
    BY <1>6 DEF Control, BeforeFetch, BurstLine, LineOK, TypeOK, BootStep
  <2>3. a
    BY <2>2 DEF Answered, Requested
  <2>4. UnderWay(j, Tail(node_out), a, s_ready, s_nonce)
    BY <1>3, <1>6, <2>3 DEF UnderWay
  <2>5. QED
    BY <1>3, <1>5, <2>1, <2>4 DEF cacheVars
<1>7. CASE ~s_ready /\ s_state = "BOOT"
  <2>1. UNCHANGED cacheVars /\ s_index = <<>> /\ s_used = 0
    BY <1>1, <1>7, FrameInBoot DEF CleanBoot
  <2>2. ~a
    BY <1>7 DEF Control, BeforeFetch, CleanBoot, Answered, Requested
  <2>3. j = k
    BY <1>4, <2>1
  <2>4. UnderWay(k, node_out, a, FALSE, s_nonce)
    BY <1>3, <1>7, <2>3 DEF UnderWay
  <2>5. Len(node_out) = Len(StaleTail) - k
    BY <2>2, <2>4 DEF UnderWay
  <2>6. k + 1 <= Len(StaleTail) /\ k < Len(Line)
    <3>1. Len(node_out) \in Nat /\ Len(node_out) # 0
      BY <1>0, <1>1
    <3>2. Len(StaleTail) <= Len(Line)
      BY LineFacts
    <3>3. QED
      BY <1>4, <2>5, <3>1, <3>2
  <2>7. UnderWay(k + 1, Tail(node_out), a, FALSE, s_nonce)
    BY <1>0, <1>1, <1>2, <2>4, <2>6, RestUnderWay
  <2>8. k + 1 \in Nat /\ Stored(k + 1, <<>>, 0) /\ k + 1 + Len(<<>>) = k + 1
    BY <2>6, StoredNone
  <2>9. UnderWay(k + 1 + Len(<<>>), Tail(node_out), a, s_ready, s_nonce)
    BY <1>7, <2>7, <2>8 DEF UnderWay
  <2>10. QED
    BY <1>5, <2>1, <2>8, <2>9 DEF cacheVars
<1>8. CASE ~s_ready /\ s_state = "FETCHING"
  <2>0. s_nonce \in Fresh
    BY <1>8 DEF Control, BeforeFetch, BurstLine
  <2>1. UnderWay(j, node_out, a, FALSE, s_nonce)
    BY <1>3, <1>8 DEF UnderWay
  <2>2. \/ j < Len(Line) /\ f = Line[j + 1]
        \/ a /\ j = Len(Line) /\ f = ConfigComplete(s_nonce)
    <3>1. a \in BOOLEAN /\ j \in Nat /\ j <= Len(Line)
      BY <1>2, <1>4
    <3> HIDE DEF a, j
    <3>2. CASE a = TRUE
      BY <1>0, <1>1, <2>1, <3>1, <3>2, NextUnderWay
    <3>3. CASE a = FALSE
      BY <1>0, <1>1, <2>1, <3>1, <3>3, NextUnderWay
    <3>4. QED
      BY <3>1, <3>2, <3>3
  <2>3. CASE j < Len(Line) /\ f = Line[j + 1]
    <3>1. f.variant \notin {"packet", "undecodable"} /\ ~Closes(f)
      <4>1. j + 1 \in 1..Len(Line)
        BY <1>4, <2>3
      <4>2. QED
        BY <2>3, <4>1, LineFacts
    <3>2. Consumes(f) /\ ~Terminates(f)
      BY <1>8, <2>0, <3>1 DEF Consumes, Terminates, Closes
    <3>3. cache_add_frame(f)
      BY <1>1, <3>1, <3>2 DEF on_fromradio_uart, BroadcastRaw, CloseBurst, CacheFrame,
        SwallowQueueStatus, RouteFrame
    <3>4. CacheFits(f)
      BY <1>3, <2>3, LineFits
    <3>5. /\ s_index' = Append(s_index, f) /\ s_used' = s_used + f.len
          /\ s_ready' = s_ready
      BY <3>3, <3>4 DEF cache_add_frame
    <3>6. Stored(k, Append(s_index, f), s_used + f.len)
      BY <1>0, <1>3, <2>3, StoredNext
    <3>7. f \in Frame
      BY <1>0, <1>1
    <3>8. k + Len(Append(s_index, f)) = j + 1
      <4> HIDE DEF f
      <4>1. QED
        BY <1>0, <1>4, <3>7
    <3>9. UnderWay(j + 1, Tail(node_out), a, FALSE, s_nonce)
      BY <1>0, <1>1, <1>2, <1>4, <2>1, <2>3, RestUnderWay
    <3>10. UnderWay(k + Len(Append(s_index, f)), Tail(node_out), a, s_ready, s_nonce)
      BY <1>8, <3>8, <3>9 DEF UnderWay
    <3>11. QED
      BY <1>5, <3>5, <3>6, <3>10
  <2>4. CASE a /\ j = Len(Line) /\ f = ConfigComplete(s_nonce)
    <3>1. Consumes(f) /\ Terminates(f) /\ f.variant # "undecodable"
      BY <1>8, <2>4 DEF Consumes, Terminates, ConfigComplete
    <3>2. cache_mark_ready
      BY <1>1, <3>1 DEF on_fromradio_uart, BroadcastRaw, CloseBurst, CacheFrame,
        SwallowQueueStatus, RouteFrame
    <3>3. s_index' = s_index /\ s_used' = s_used
      BY <3>2 DEF cache_mark_ready
    <3>4. s_ready'
      BY <3>2, Zenon DEF cache_mark_ready
    <3>5. UnderWay(j, Tail(node_out), a, s_ready', s_nonce)
      BY <2>4, <3>4 DEF UnderWay
    <3>6. QED
      BY <1>3, <1>5, <3>3, <3>5
  <2>5. QED
    BY <2>2, <2>3, <2>4
<1>9. QED
  BY <1>6, <1>7, <1>8 DEF Control, TypeOK, UpstreamTypeOK, UpstreamState

\* Every step keeps the burst together.
LEMMA LayoutStep ==
  ASSUME NodeKeepsProtocol, BurstIsConfig, CacheSuffices, ~BootRaces, MaxLoss = 0,
         TypeOK, Control, BurstLine, CleanBoot, Layout, [Next]_vars
  PROVE  Layout'
<1> DEFINE a == Answered(Requested, tx_msgq)
<1>0. /\ s_index \in Seq(Frame) /\ s_used \in Nat /\ s_ready \in BOOLEAN
      /\ node_out \in Seq(Frame) /\ tx_msgq \in Seq(ToRadio) /\ s_nonce \in Nat
      /\ a \in BOOLEAN
  BY DEF TypeOK, CacheTypeOK, UpstreamTypeOK, Answered, Requested, NoneAsks
<1>1. PICK k \in Nat : /\ Stored(k, s_index, s_used)
                       /\ UnderWay(k + Len(s_index), node_out, a, s_ready, s_nonce)
  BY DEF Layout
<1>2. ASSUME UNCHANGED <<cacheVars, node_out, s_nonce>>, Answered(Requested, tx_msgq)' = a
      PROVE  Layout'
  <2>1. /\ Stored(k, s_index', s_used')
        /\ UnderWay(k + Len(s_index'), node_out', Answered(Requested, tx_msgq)', s_ready', s_nonce')
    BY <1>1, <1>2 DEF cacheVars
  <2>2. QED
    BY <2>1 DEF Layout, Answered
<1>3. ASSUME NEW m \in ToRadio, m.kind # "want_config", uart_meshtastic_tx(m),
             UNCHANGED <<boot, cacheVars, node_out, s_nonce>>
      PROVE  Layout'
  <2>1. tx_msgq' = tx_msgq \/ tx_msgq' = Append(tx_msgq, m)
    BY <1>3 DEF uart_meshtastic_tx
  <2>2. NoneAsks(tx_msgq)' <=> NoneAsks(tx_msgq)
    BY <1>0, <1>3, <2>1, AppendAsks
  <2>3. Requested' = Requested
    BY <1>3 DEF Requested
  <2>4. Answered(Requested, tx_msgq)' = a
    BY <2>2, <2>3 DEF Answered, NoneAsks
  <2>5. QED
    BY <1>2, <1>3, <2>4
<1>4. CASE SetServeCb \/ ResetPending \/ StartFetching \/ ArmKeepalive
  <2>1. UNCHANGED <<cacheVars, node_out, s_nonce, tx_msgq>> /\ Requested' = Requested
    BY <1>4 DEF SetServeCb, ResetPending, StartFetching, ArmKeepalive, MainAt, Requested
  <2>2. QED
    BY <1>2, <2>1 DEF Answered, NoneAsks
<1>5. CASE BeginCache
  <2>1. /\ UNCHANGED <<tx_msgq, node_out>> /\ boot = "cache" /\ boot' = "pending"
        /\ s_index' = <<>> /\ s_used' = 0 /\ s_state = "BOOT" /\ ~s_ready
    BY <1>5 DEF BeginCache, MainAt, cache_begin, Control, BeforeFetch
  <2>2. ~s_ready'
    BY <1>5, Zenon DEF BeginCache, cache_begin
  <2>3. ~a /\ ~Answered(Requested, tx_msgq)'
    BY <2>1 DEF Answered, Requested
  <2>4. s_index' = s_index /\ s_used' = s_used
    BY <2>1 DEF CleanBoot
  <2>5. /\ Stored(k, s_index', s_used')
        /\ UnderWay(k + Len(s_index'), node_out', Answered(Requested, tx_msgq)', s_ready', s_nonce')
    BY <1>1, <2>1, <2>2, <2>3, <2>4 DEF UnderWay
  <2>6. QED
    BY <2>5 DEF Layout, Answered
<1>6. CASE SendWantConfig
  <2>1. boot = "want_config" /\ UNCHANGED <<cacheVars, node_out, s_nonce>>
    BY <1>6 DEF SendWantConfig, MainAt, upstreamVars
  <2>2. tx_msgq = <<>>
    BY <2>1 DEF CleanBoot, Requested
  <2>3. tx_msgq' = <<[kind |-> "want_config", nonce |-> s_nonce]>>
    BY <1>6, <2>2, ProxyAssumption DEF SendWantConfig, uart_meshtastic_tx, TxFits
  <2>4. ~NoneAsks(tx_msgq')
    BY <2>3 DEF NoneAsks
  <2>5. ~a /\ ~Answered(Requested, tx_msgq)'
    BY <2>1, <2>4 DEF Answered, Requested, NoneAsks
  <2>6. Answered(Requested, tx_msgq)' = a
    BY <2>5 DEF Answered
  <2>7. QED
    BY <1>2, <2>1, <2>6
<1>7. ASSUME NEW c \in Conn, PhoneStep(c) PROVE Layout'
  <2>1. ASSUME NEW kind \in {"packet", "malformed"}, Forward(c, kind) PROVE Layout'
    <3>1. Plain(kind) \in ToRadio /\ Plain(kind).kind # "want_config"
      BY DEF Plain, ToRadio
    <3>2. /\ uart_meshtastic_tx(Plain(kind))
          /\ UNCHANGED <<boot, cacheVars, node_out, s_nonce>>
      BY <2>1 DEF Forward, upstreamVars
    <3>3. QED
      BY <1>3, <3>1, <3>2
  <2>2. ASSUME UNCHANGED <<boot, tx_msgq, node_out, cacheVars, s_nonce>> PROVE Layout'
    BY <1>2, <2>2 DEF Answered, Requested, NoneAsks
  <2>3. QED
    BY <1>7, <2>1, <2>2, PhoneAside
<1>8. CASE ServeOnePending \/ GoLive \/ UNCHANGED vars
  <2>1. UNCHANGED <<boot, tx_msgq, node_out, cacheVars, s_nonce>>
    BY <1>8 DEF ServeOnePending, GoLive, vars, upstreamVars
  <2>2. QED
    BY <1>2, <2>1 DEF Answered, Requested, NoneAsks
<1>9. CASE keepalive_work_handler
  <2>1. Plain("heartbeat") \in ToRadio /\ Plain("heartbeat").kind # "want_config"
    BY DEF Plain, ToRadio
  <2>2. /\ uart_meshtastic_tx(Plain("heartbeat"))
        /\ UNCHANGED <<boot, cacheVars, node_out, s_nonce>>
    BY <1>9 DEF keepalive_work_handler
  <2>3. QED
    BY <1>3, <2>1, <2>2
<1>10. CASE NodeConsumes
  <2> DEFINE m == Head(tx_msgq)
  <2>1. /\ tx_msgq # <<>> /\ tx_msgq' = Tail(tx_msgq) /\ boot = "done"
        /\ node_out' = node_out \o Reply(m)
        /\ UNCHANGED <<boot, cacheVars, s_nonce>>
    BY <1>10 DEF NodeConsumes, Booted, CleanBoot, upstreamVars
  <2>2. NoneAsks(tx_msgq')
    BY <1>0, <2>1, TailAsks DEF BurstLine, LineOK, CleanBoot
  <2>3. Answered(Requested, tx_msgq)' = TRUE
    BY <2>1, <2>2 DEF Answered, Requested, NoneAsks
  <2>4. m \in ToRadio /\ m = tx_msgq[1] /\ 1 \in 1..Len(tx_msgq)
    BY <1>0, <2>1
  <2>5. Reply(m) \in Seq(Frame)
    <3>1. ConfigComplete(m.nonce) \in Frame /\ QueueStatus \in Frame
      BY <2>4 DEF ToRadio, ConfigComplete, QueueStatus, Frame, Variant, Route
    <3>2. Burst \o <<ConfigComplete(m.nonce)>> \in Seq(Frame)
      BY <3>1, ProxyAssumption
    <3>3. QED
      BY <3>1, <3>2 DEF Reply
  <2>6. ~a => Reply(m) = Burst \o <<ConfigComplete(s_nonce)>>
    <3>1. SUFFICES ASSUME ~a PROVE Reply(m) = Burst \o <<ConfigComplete(s_nonce)>>
      OBVIOUS
    <3>2. ~NoneAsks(tx_msgq)
      BY <2>1, <3>1 DEF Answered, Requested
    <3>3. m.kind = "want_config"
      BY <2>4, <3>2 DEF CleanBoot
    <3>4. m.nonce = s_nonce
      BY <2>4, <3>3 DEF BurstLine, LineOK, AskedOnce
    <3>5. QED
      BY <3>3, <3>4 DEF Reply
  <2>7. k + Len(s_index) \in Nat /\ k + Len(s_index) <= Len(Line)
    BY <1>0, <1>1 DEF Stored
  <2>8. UnderWay(k + Len(s_index), node_out \o Reply(m), TRUE, s_ready, s_nonce)
    <3> DEFINE add == Reply(m)
               j == k + Len(s_index)
    <3>1. add \in Seq(Frame) /\ (~a => add = Burst \o <<ConfigComplete(s_nonce)>>)
      BY <2>5, <2>6
    <3>2. j \in Nat /\ j <= Len(Line) /\ UnderWay(j, node_out, a, s_ready, s_nonce)
      BY <1>1, <2>7
    <3> HIDE DEF add, j, a
    <3>3. UnderWay(j, node_out \o add, TRUE, s_ready, s_nonce)
      BY <1>0, <3>1, <3>2, AnswerUnderWay, Zenon
    <3>4. QED
      BY <3>3 DEF add, j
  <2>9. /\ Stored(k, s_index', s_used')
        /\ UnderWay(k + Len(s_index'), node_out', Answered(Requested, tx_msgq)', s_ready', s_nonce')
    BY <1>1, <2>1, <2>3, <2>8 DEF cacheVars
  <2>10. QED
    BY <2>9 DEF Layout, Answered
<1>11. CASE FrameLost
  BY <1>11 DEF FrameLost, TypeOK
<1>12. CASE NodeFrameArrives
  BY <1>12, ArrivalLayout
<1>13. CASE LiveFrameArrives
  <2>1. PICK f \in LiveFrames : on_fromradio_uart(f)
    BY <1>13 DEF LiveFrameArrives
  <2>2. f.variant \in {"packet", "undecodable"}
    BY DEF BurstIsConfig
  <2>3. UNCHANGED cacheVars
    BY <2>1, <2>2 DEF on_fromradio_uart, BroadcastRaw, CloseBurst, CacheFrame,
      SwallowQueueStatus, RouteFrame, Consumes, Terminates
  <2>4. UNCHANGED <<boot, tx_msgq, s_nonce, node_out>>
    BY <1>13, <2>1, FrameInBoot DEF LiveFrameArrives
  <2>5. QED
    BY <1>2, <2>3, <2>4 DEF Answered, Requested, NoneAsks
<1>14. QED
  BY <1>4, <1>5, <1>6, <1>7, <1>8, <1>9, <1>10, <1>11, <1>12, <1>13
  DEF Next, Main, WorkQueue, Node

\* Before main starts, the rest of an earlier burst is under way.
LEMMA InitLayout ==
  ASSUME NodeKeepsProtocol, BurstIsConfig, Init
  PROVE  CleanBoot /\ Layout
<1>1. /\ boot = "uart" /\ tx_msgq = <<>> /\ node_out = StaleTail
      /\ s_index = <<>> /\ s_used = 0
  BY DEF Init, CacheInit
<1>2. ~s_ready /\ ~s_keepalive_armed
  BY Zenon DEF Init, CacheInit, UpstreamInit
<1>3. ~Answered(Requested, tx_msgq)
  BY <1>1 DEF Answered, Requested
<1>4. /\ Len(StaleTail) \in Nat /\ \A i \in 1..Len(StaleTail) : Line[i] = StaleTail[i]
  BY LineFacts
<1>5. Stored(0, s_index, s_used)
  BY <1>1, <1>4, StoredNone
<1>6. 0 + Len(s_index) = 0
  BY <1>1
<1>7. UnderWay(0, node_out, Answered(Requested, tx_msgq), s_ready, s_nonce)
  <2>1. ASSUME NEW i \in 1..Len(StaleTail) PROVE StaleTail[i] = Line[0 + i]
    BY <1>4
  <2>2. QED
    BY <1>1, <1>2, <1>3, <1>4, <2>1 DEF UnderWay
<1>8. Layout
  BY <1>5, <1>6, <1>7 DEF Layout
<1>9. CleanBoot
  BY <1>1, <1>2 DEF CleanBoot, Requested, NoneAsks
<1>10. QED
  BY <1>8, <1>9

\* What is stored when the burst is complete.
LEMMA LayoutHoldsBurst ==
  ASSUME NodeKeepsProtocol, BurstIsConfig, TypeOK, Layout
  PROVE  ReadyCacheHoldsBurst
<1>1. SUFFICES ASSUME s_ready
               PROVE  \E k \in 0..Len(StaleTail) :
                        s_index = SubSeq(StaleTail, k + 1, Len(StaleTail)) \o Burst
  BY DEF ReadyCacheHoldsBurst
<1>2. PICK k \in Nat : /\ Stored(k, s_index, s_used)
                       /\ UnderWay(k + Len(s_index), node_out, Answered(Requested, tx_msgq),
                                   s_ready, s_nonce)
  BY DEF Layout
<1> DEFINE old == SubSeq(StaleTail, k + 1, Len(StaleTail))
           all == old \o Burst
<1>3. /\ Len(StaleTail) \in Nat /\ Len(Burst) \in Nat
      /\ Len(Line) = Len(StaleTail) + Len(Burst)
      /\ \A i \in 1..Len(StaleTail) : Line[i] = StaleTail[i]
      /\ \A i \in 1..Len(Burst) : Line[Len(StaleTail) + i] = Burst[i]
  BY LineFacts
<1>4. StaleTail \in Seq(Frame) /\ Burst \in Seq(Frame) /\ s_index \in Seq(Frame)
  BY ProxyAssumption DEF TypeOK, CacheTypeOK
<1>5. k \in 0..Len(StaleTail) /\ k + Len(s_index) = Len(Line) /\ Len(s_index) \in Nat
  BY <1>1, <1>2, <1>4 DEF Stored, UnderWay
<1>6. /\ old \in Seq(Frame) /\ Len(old) = Len(StaleTail) - k
      /\ \A i \in 1..Len(old) : old[i] = StaleTail[k + i]
  <2>1. k + 1 \in 1..Len(StaleTail) + 1 /\ Len(StaleTail) \in k..Len(StaleTail)
    BY <1>3, <1>5
  <2>2. \A i \in (k + 1)..Len(StaleTail) : StaleTail[i] \in Frame
    BY <1>3, <1>4
  <2>3. old \in Seq(Frame)
    BY <1>3, <1>4, <1>5, <2>2
  <2>4. Len(old) = Len(StaleTail) - k
    BY <1>3, <1>4, <1>5
  <2>5. ASSUME NEW i \in 1..Len(old) PROVE old[i] = StaleTail[k + i]
    <3>1. old[i] = StaleTail[(k + 1) + i - 1]
      BY <1>3, <1>4, <1>5, <2>4
    <3>2. (k + 1) + i - 1 = k + i
      BY <1>5, <2>4, <1>3
    <3>3. QED
      BY <3>1, <3>2
  <2>6. QED
    BY <2>3, <2>4, <2>5
<1> HIDE DEF old
<1>7. /\ all \in Seq(Frame) /\ Len(all) = Len(old) + Len(Burst)
      /\ \A i \in 1..Len(old) : all[i] = old[i]
      /\ \A i \in 1..Len(Burst) : all[Len(old) + i] = Burst[i]
  <2>1. old \in Seq(Frame)
    BY <1>6
  <2>2. QED
    BY <1>4, <2>1
<1> HIDE DEF all
<1>8. Len(all) = Len(s_index)
  BY <1>3, <1>5, <1>6, <1>7
<1>9. ASSUME NEW i \in 1..Len(s_index) PROVE s_index[i] = all[i]
  <2>1. s_index[i] = Line[k + i]
    BY <1>2 DEF Stored
  <2>2. CASE i <= Len(old)
    <3>1. i \in 1..Len(old) /\ k + i \in 1..Len(StaleTail)
      BY <1>3, <1>5, <1>6, <2>2
    <3>2. QED
      BY <1>3, <1>6, <1>7, <2>1, <3>1
  <2>3. CASE i > Len(old)
    <3>1. PICK e \in 1..Len(Burst) : i = Len(old) + e /\ k + i = Len(StaleTail) + e
      <4>1. i - Len(old) \in 1..Len(Burst)
        BY <1>3, <1>5, <1>6, <2>3
      <4>2. i = Len(old) + (i - Len(old)) /\ k + i = Len(StaleTail) + (i - Len(old))
        BY <1>3, <1>5, <1>6
      <4>3. QED
        BY <4>1, <4>2
    <3>2. QED
      BY <1>3, <1>7, <2>1, <3>1
  <2>4. QED
    BY <1>3, <1>5, <1>6, <2>2, <2>3
<1>10. s_index = all
  BY <1>4, <1>7, <1>8, <1>9, SeqEqual
<1>11. QED
  BY <1>5, <1>10 DEF all, old

\* Nothing is lost, nothing but the boot runs before the boot is over, and the cache is
\* large enough: then the cache that upstream_on_fromradio publishes holds the node's
\* burst frame by frame, whatever packets and damaged frames arrive meanwhile and however
\* many phones and keepalives talk to the node.
THEOREM CacheHoldsBurst ==
  ASSUME NodeKeepsProtocol, BurstIsConfig, CacheSuffices, ~BootRaces, MaxLoss = 0
  PROVE  Spec => []ReadyCacheHoldsBurst
<1>1. Init => CleanBoot /\ Layout
  BY InitLayout
<1>2. LineInv /\ CleanBoot /\ Layout /\ [Next]_vars => (CleanBoot /\ Layout)'
  BY CleanBootStep, LayoutStep DEF LineInv
<1>3. LineInv /\ Layout => ReadyCacheHoldsBurst
  BY LayoutHoldsBurst DEF LineInv
<1>4. QED
  BY <1>1, <1>2, <1>3, LineInvariance, PTL DEF Spec

--------------------------------------------------------------------------------
\* What the phones read is what the documents promise them.

\* The nodes of the burst are different nodes, and what the node still sends of an earlier
\* burst is past its nodes.
NodesKnown ==
  /\ \A i, j \in 1..Len(Burst) :
       /\ Burst[i].variant = "node_info" /\ Burst[j].variant = "node_info"
       /\ Burst[i].body = Burst[j].body
       => i = j
  /\ \A i \in 1..Len(StaleTail) : StaleTail[i].variant # "node_info"

\* The first node_info of a cache that holds the burst is the node's own.
LEMMA PromisedIsWanted ==
  ASSUME NodesKnown, ReadyCacheHoldsBurst, s_ready, NEW n
  PROVE  Promised(n) = Service!Wanted(s_index, n)
<1>1. PICK k \in 0..Len(StaleTail) :
        s_index = SubSeq(StaleTail, k + 1, Len(StaleTail)) \o Burst
  BY DEF ReadyCacheHoldsBurst
<1> DEFINE old == SubSeq(StaleTail, k + 1, Len(StaleTail))
           m   == Len(old)
           N   == {e \in 1..Len(Burst) : Burst[e].variant = "node_info"}
<1>2. Burst \in Seq(Frame) /\ StaleTail \in Seq(Frame)
  BY ProxyAssumption
<1>3. /\ old \in Seq(Frame) /\ m \in Nat /\ Len(Burst) \in Nat
      /\ s_index = old \o Burst
      /\ \A i \in 1..m : old[i] = StaleTail[k + i] /\ k + i \in 1..Len(StaleTail)
  BY <1>1, <1>2
<1> HIDE DEF old
<1>4. /\ Len(s_index) = m + Len(Burst)
      /\ \A i \in 1..m : s_index[i] = old[i]
      /\ \A e \in 1..Len(Burst) : s_index[m + e] = Burst[e]
  BY <1>2, <1>3
<1>5. ASSUME NEW i \in 1..Len(s_index), s_index[i].variant = "node_info"
      PROVE  i - m \in N /\ s_index[i] = Burst[i - m]
  <2>1. i \notin 1..m
    BY <1>3, <1>4, <1>5 DEF NodesKnown
  <2>2. i - m \in 1..Len(Burst) /\ m + (i - m) = i
    BY <1>3, <1>4, <2>1
  <2>3. QED
    BY <1>4, <1>5, <2>2
<1>6. ASSUME NEW i \in 1..Len(s_index), s_index[i].variant = "node_info"
      PROVE  s_index[i].body = OwnNode <=>
               \A j \in 1..(i - 1) : s_index[j].variant # "node_info"
  <2> DEFINE e == i - m
             a == Least(N)
  <2>1. e \in N /\ s_index[i] = Burst[e] /\ i = m + e
    <3>1. i = m + e
      BY <1>3
    <3>2. QED
      BY <1>5, <1>6, <3>1
  <2>2. a \in N /\ \A j \in N : a <= j
    <3>1. N \in SUBSET Nat /\ N # {}
      BY <2>1
    <3>2. QED
      BY <3>1, LeastIsIn
  <2>3. OwnNode = Burst[a].body
    BY <2>1 DEF OwnNode
  <2> HIDE DEF a, e
  <2>4. s_index[i].body = OwnNode <=> e = a
    BY <2>1, <2>2, <2>3 DEF NodesKnown
  <2>5. ASSUME e = a, NEW j \in 1..(i - 1) PROVE s_index[j].variant # "node_info"
    <3>1. SUFFICES ASSUME s_index[j].variant = "node_info" PROVE FALSE
      OBVIOUS
    <3>2. j \in 1..Len(s_index)
      BY <1>3, <1>4
    <3>3. j - m \in N
      BY <1>5, <3>1, <3>2
    <3>4. a <= j - m
      BY <2>2, <3>3
    <3>5. QED
      BY <1>3, <2>1, <2>5, <3>2, <3>4
  <2>6. ASSUME e # a PROVE \E j \in 1..(i - 1) : s_index[j].variant = "node_info"
    <3>1. a <= e /\ a \in 1..Len(Burst) /\ e \in 1..Len(Burst)
      BY <2>1, <2>2
    <3>2. m + a \in 1..(i - 1)
      BY <1>3, <2>1, <2>6, <3>1
    <3>3. s_index[m + a].variant = "node_info"
      BY <1>4, <2>2, <3>1
    <3>4. QED
      BY <3>2, <3>3
  <2>7. QED
    BY <2>4, <2>5, <2>6
<1>7. QED
  BY <1>6 DEF Promised, Service!Wanted, Service!IsNode

\* Sessions in order, from a cache that holds the burst, deliver what is promised.
LEMMA SessionsDeliver ==
  ASSUME NodesKnown, SessionInv, ReadyCacheHoldsBurst
  PROVE  ReplayDelivers
<1> SUFFICES ASSUME NEW s \in InUse
             PROVE  LET rx == phone[conns[s].conn].rx
                        answer == Answer(conns[s].nonce)
                    IN  /\ conns[s].state = "REPLAYING" =>
                             Len(rx) <= Len(answer) /\ rx = SubSeq(answer, 1, Len(rx))
                        /\ conns[s].state = "ACTIVE" => rx = answer
  BY DEF ReplayDelivers
<1> DEFINE pc == conns[s]
           rx == phone[pc.conn].rx
           n  == pc.nonce
           l  == s_index
           answer == Service!Answer(l, n)
           Q == Passed(l, n, pc.replay_cursor)
<1>0. /\ pc \in SlotRec /\ n \in Nat /\ l \in Seq(Frame) /\ Delivered(pc, rx, l)
      /\ pc.replay_cursor \in Nat /\ s \in Slot
  BY DEF SessionInv, TableInv, TypeOK, GattTypeOK, CacheTypeOK, Deliveries, InUse, SlotRec
<1>1. CASE pc.state \notin {"REPLAYING", "ACTIVE"}
  BY <1>1
<1>2. CASE pc.state \in {"REPLAYING", "ACTIVE"}
  <2>1. s_ready
    BY <1>0, <1>2 DEF SessionInv, ReplayFromReadyCache
  <2>2. Answer(n) = answer
    BY <2>1, PromisedIsWanted DEF Answer, Service!Answer
  <2>3. Q \in SUBSET Service!Wanted(l, n) /\ \A q \in Q : \A p \in Service!Wanted(l, n) \ Q : q < p
    <3>1. \A q \in Service!Wanted(l, n) : q \in Nat
      BY <1>0 DEF Service!Wanted
    <3>2. QED
      BY <1>0, <3>1 DEF Passed
  <2>4. LET rz == Service!InOrder(l, Q)
            az == Service!Answer(l, n)
        IN  /\ rz \in Seq(Frame) /\ az \in Seq(Frame) /\ Len(rz) < Len(az)
            /\ \A k \in 1..Len(rz) : az[k] = rz[k]
    <3> HIDE DEF Q
    <3>1. QED
      BY <1>0, <2>3, AnswerBegins, Zenon
  <2>5. pc.state = "ACTIVE" => rx = answer
    BY <1>0 DEF Delivered
  <2>6. pc.state = "REPLAYING" => rx = Service!InOrder(l, Q) \/ rx = answer
    BY <1>0 DEF Delivered
  <2> DEFINE rz == Service!InOrder(l, Q)
  <2>7. /\ rz \in Seq(Frame) /\ answer \in Seq(Frame) /\ Len(rz) < Len(answer)
        /\ \A k \in 1..Len(rz) : answer[k] = rz[k]
    BY <2>4
  <2> HIDE DEF answer, rz, rx
  <2>8. /\ Len(rz) <= Len(answer) /\ rz = SubSeq(answer, 1, Len(rz))
        /\ Len(answer) <= Len(answer) /\ answer = SubSeq(answer, 1, Len(answer))
    BY <2>7
  <2>9. pc.state = "REPLAYING" => Len(rx) <= Len(answer) /\ rx = SubSeq(answer, 1, Len(rx))
    BY <2>6, <2>8 DEF rz
  <2>10. QED
    BY <2>2, <2>5, <2>9 DEF rx
<1>3. QED
  BY <1>1, <1>2

\* With nothing lost, an undisturbed boot and a cache that is large enough, what a phone
\* reads during its replay is the segment of the node's burst that its nonce stands for, in
\* order, each frame once, then the terminator with its nonce; and it is ACTIVE only when it
\* has read all of it.  Phones, packets and damaged frames may come in any number and order.
THEOREM DeliveryCorrect ==
  ASSUME FewSlots, NodeKeepsProtocol, BurstIsConfig, CacheSuffices, NodesKnown,
         ~BootRaces, MaxLoss = 0
  PROVE  Spec => []ReplayDelivers
<1>1. SessionInv /\ ReadyCacheHoldsBurst => ReplayDelivers
  BY SessionsDeliver
<1>2. QED
  BY <1>1, SessionInvariance, CacheHoldsBurst, PTL
==============================================================================
