--------------------------- MODULE ProxyProtocol ---------------------------
(***************************************************************************)
(* proxy_protocol byte by byte: the header a phone puts before its message, *)
(* how the proxy reads it back and finds the phone it is addressed to.     *)
(* Memory is a function from offsets to bytes; what lies past dst_buf_size *)
(* belongs to somebody else.                                               *)
(***************************************************************************)
EXTENDS Integers, Sequences

CONSTANTS
  Slots,          \* the connection slots, 1..MAX_BLE_CONNECTIONS
  Byte,           \* the values of a uint8_t
  Text,           \* strings: no zero byte, some longer than an identifier
  Message,        \* what phones send each other
  PROXY_ID_SIZE, PROXY_PRACTICAL_MAX,
  LenMod,         \* the values of a uint16_t (2^16)
  MemorySize      \* bound: bytes of memory from dst_buf on

ASSUME ProxyProtocolAssumption ==
  /\ Slots \subseteq Nat \ {0} /\ PROXY_ID_SIZE \in Nat \ {0}
  /\ {0, 1} \subseteq Byte /\ Byte \subseteq Nat
  /\ Text \subseteq Seq(Byte \ {0}) /\ Message \subseteq Seq(Byte)
  /\ PROXY_PRACTICAL_MAX \in Nat /\ PROXY_PRACTICAL_MAX >= 1 + 2 * PROXY_ID_SIZE
  /\ LenMod \in Nat /\ LenMod > PROXY_PRACTICAL_MAX
  /\ MemorySize \in Nat

VARIABLES
  dst_buf,        \* memory from dst_buf on
  dst_buf_size,   \* how much of it is the sender's
  total,          \* the length of the payload in it
  conns,          \* slot |-> the registered proxy_id, or Free
  stage,          \* "idle", "sent" or "routed"
  asked,          \* what the sender asked for, or None
  header,         \* what the proxy read, or None
  target          \* the slot it chose, or Everyone

vars == <<dst_buf, dst_buf_size, total, conns, stage, asked, header, target>>

--------------------------------------------------------------------------------
PROXY_VERSION     == 1
PROXY_HEADER_SIZE == 1 + PROXY_ID_SIZE + PROXY_ID_SIZE
PROXY_CONTENT_MAX == PROXY_PRACTICAL_MAX - PROXY_HEADER_SIZE
PROXY_OFF_VERSION == 0
PROXY_OFF_SRC     == 1
PROXY_OFF_CONTENT == PROXY_HEADER_SIZE
PROXY_OFF_DST     == PROXY_OFF_SRC + PROXY_ID_SIZE

None == [none |-> TRUE]
Free == <<>>
NULL == <<-1>>
Everyone == 0

\* proxy_id_t
ProxyId == [1..PROXY_ID_SIZE -> Byte]
ZeroId  == [i \in 1..PROXY_ID_SIZE |-> 0]

\* A message of len bytes, or no message but a length.
Content(len) == {NULL} \cup {m \in Message : Len(m) = len}

--------------------------------------------------------------------------------
\* Fault: an identifier that is too short is filled up with its last byte.
FromStrFault(str) ==
  IF str = NULL THEN ZeroId
  ELSE [i \in 1..PROXY_ID_SIZE |-> IF Len(str) = 0 THEN 0
                                   ELSE IF i <= Len(str) THEN str[i] ELSE str[Len(str)]]

proxy_id_from_str(str) ==
  IF str = NULL THEN ZeroId
  ELSE [i \in 1..PROXY_ID_SIZE |-> IF i <= Len(str) THEN str[i] ELSE 0]

\* Fault: no identifier counts as zero.
IsZeroFault(id) == FALSE

proxy_id_is_zero(id) == \A i \in 1..PROXY_ID_SIZE : id[i] = 0

proxy_id_equal(a, b) == \A i \in 1..PROXY_ID_SIZE : a[i] = b[i]

\* The bytes from off on, and memory with bytes put there.
At(off, len) == [i \in 1..len |-> dst_buf[off + i - 1]]

memcpy(mem, off, bytes) ==
  [a \in DOMAIN mem |-> IF a - off + 1 \in DOMAIN bytes THEN bytes[a - off + 1] ELSE mem[a]]

--------------------------------------------------------------------------------
\* The connections of the proxy.

Init ==
  /\ dst_buf_size \in 0..MemorySize
  /\ dst_buf = [a \in 0..(MemorySize - 1) |-> 0]
  /\ total = 0
  /\ conns = [s \in Slots |-> Free]
  /\ stage = "idle" /\ asked = None /\ header = None /\ target = Everyone

Connected(s) ==
  /\ stage # "routed" /\ conns[s] = Free
  /\ conns' = [conns EXCEPT ![s] = ZeroId]
  /\ UNCHANGED <<dst_buf, dst_buf_size, total, stage, asked, header, target>>

Disconnected(s) ==
  /\ stage # "routed" /\ conns[s] # Free
  /\ conns' = [conns EXCEPT ![s] = Free]
  /\ UNCHANGED <<dst_buf, dst_buf_size, total, stage, asked, header, target>>

\* Fault: a longer write is taken.
NotAnIdFault(bytes, offset) == offset # 0 \/ Len(bytes) < PROXY_ID_SIZE

NotAnId(bytes, offset) == offset # 0 \/ Len(bytes) # PROXY_ID_SIZE

\* A write of any length at any offset; only a whole identifier registers.
node_reg_write(s, bytes, offset) ==
  /\ stage # "routed" /\ conns[s] # Free
  /\ conns' = IF NotAnId(bytes, offset) THEN conns ELSE [conns EXCEPT ![s] = bytes]
  /\ UNCHANGED <<dst_buf, dst_buf_size, total, stage, asked, header, target>>

--------------------------------------------------------------------------------
\* The sender.

\* Fault: only the sum is checked, and that wraps around.
TooLongFault(content_len) == (PROXY_HEADER_SIZE + content_len) % LenMod > dst_buf_size

TooLong(content_len) ==
  \/ content_len > PROXY_CONTENT_MAX
  \/ (PROXY_HEADER_SIZE + content_len) % LenMod > dst_buf_size

\* Fault: the version is left as it was in the buffer.
BuildFault(src, dst, content, content_len) ==
  LET front == memcpy(memcpy(dst_buf, PROXY_OFF_SRC, src), PROXY_OFF_DST, dst)
  IN  dst_buf' = IF content_len > 0 /\ content # NULL
                 THEN memcpy(front, PROXY_OFF_CONTENT, content)
                 ELSE front

\* Without content the bytes in the buffer are sent as they are.
proxy_header_build(src, dst, content, content_len) ==
  LET front == memcpy(memcpy(memcpy(dst_buf, PROXY_OFF_VERSION, <<PROXY_VERSION>>),
                             PROXY_OFF_SRC, src),
                      PROXY_OFF_DST, dst)
  IN  dst_buf' = IF content_len > 0 /\ content # NULL
                 THEN memcpy(front, PROXY_OFF_CONTENT, content)
                 ELSE front

\* A phone builds a message from an identifier to a name; what is refused is not sent.
Send(src, to, content, content_len) ==
  /\ stage = "idle"
  /\ ~TooLong(content_len)
  /\ proxy_header_build(src, proxy_id_from_str(to), content, content_len)
  /\ total' = (PROXY_HEADER_SIZE + content_len) % LenMod
  /\ asked' = [src |-> src, to |-> to, content |-> content, content_len |-> content_len]
  /\ stage' = "sent"
  /\ UNCHANGED <<dst_buf_size, conns, header, target>>

\* A payload on the proxy's portnum that no proxy_header_build made.
SendForeign(payload) ==
  /\ stage = "idle"
  /\ Len(payload) <= dst_buf_size
  /\ dst_buf' = memcpy(dst_buf, 0, payload)
  /\ total' = Len(payload)
  /\ asked' = None
  /\ stage' = "sent"
  /\ UNCHANGED <<dst_buf_size, conns, header, target>>

--------------------------------------------------------------------------------
\* The proxy: router_dispatch of a decoded packet on the proxy's portnum.

\* Fault: the version is not looked at.
ParsesFault(len) == len >= PROXY_HEADER_SIZE

Parses(len) == len >= PROXY_HEADER_SIZE /\ dst_buf[PROXY_OFF_VERSION] = PROXY_VERSION

proxy_header_parse(len) ==
  [src |-> At(PROXY_OFF_SRC, PROXY_ID_SIZE), dst |-> At(PROXY_OFF_DST, PROXY_ID_SIZE),
   content |-> At(PROXY_OFF_CONTENT, len - PROXY_HEADER_SIZE)]

\* The first slot that registered the identifier.
ble_gatt_get_conn_by_proxy_id(id) ==
  LET found == {s \in Slots : conns[s] # Free /\ proxy_id_equal(conns[s], id)}
  IN  IF proxy_id_is_zero(id) \/ found = {} THEN Everyone
      ELSE CHOOSE s \in found : \A t \in found : s <= t

router_dispatch ==
  /\ stage = "sent"
  /\ header' = IF Parses(total) THEN proxy_header_parse(total) ELSE None
  /\ target' = IF Parses(total)
               THEN ble_gatt_get_conn_by_proxy_id(proxy_header_parse(total).dst)
               ELSE Everyone
  /\ stage' = "routed"
  /\ UNCHANGED <<dst_buf, dst_buf_size, total, conns, asked>>

Done ==
  /\ stage = "routed"
  /\ stage' = "idle" /\ total' = 0 /\ asked' = None /\ header' = None /\ target' = Everyone
  /\ UNCHANGED <<dst_buf, dst_buf_size, conns>>

--------------------------------------------------------------------------------
Next ==
  \/ \E s \in Slots :
       \/ Connected(s) \/ Disconnected(s)
       \/ \E n \in 0..(PROXY_ID_SIZE + 1), offset \in {0, 1} :
            \E bytes \in [1..n -> Byte] : node_reg_write(s, bytes, offset)
  \/ \E src \in ProxyId, to \in Text \cup {NULL}, len \in 0..(LenMod - 1) :
       \E content \in Content(len) : Send(src, to, content, len)
  \/ \E n \in 0..MemorySize : \E payload \in [1..n -> Byte] : SendForeign(payload)
  \/ router_dispatch
  \/ Done

Spec == Init /\ [][Next]_vars

--------------------------------------------------------------------------------
\* Every variable has its type.
TypeOK ==
  /\ dst_buf \in [0..(MemorySize - 1) -> Byte] /\ dst_buf_size \in 0..MemorySize
  /\ total \in 0..dst_buf_size
  /\ conns \in [Slots -> ProxyId \cup {Free}]
  /\ stage \in {"idle", "sent", "routed"}
  /\ target \in Slots \cup {Everyone}
  /\ header # None => header.src \in ProxyId /\ header.dst \in ProxyId

\* proxy_header_build writes nothing past the caller's buffer, whatever length it is
\* given: not even one for which the sum of header and content wraps around.
BuildStaysInside == \A a \in DOMAIN dst_buf : a >= dst_buf_size => dst_buf[a] = 0

\* A header that proxy_header_parse accepts accounts for every byte of the payload, in
\* order: nothing is skipped, read twice or taken from behind the end.
HeaderIsWholePayload ==
  header # None => <<PROXY_VERSION>> \o header.src \o header.dst \o header.content = At(0, total)

\* Whatever the phones register and whatever was in the buffer before, what a phone
\* builds the proxy accepts, and reads back the sender and the content that were meant.
BuiltIsUnderstood ==
  stage = "routed" /\ asked # None =>
    /\ header # None
    /\ header.src = asked.src
    /\ Len(header.content) = asked.content_len
    /\ asked.content # NULL => header.content = asked.content

\* A message for a name goes to the phone that registered that name, null-padded, and to
\* all phones only if there is none: a phone that registered nothing is never taken for
\* the addressee of a nameless message. Names that fill an identifier or exceed it are
\* left out: proxy_id_from_str and its comment in the header cut them differently.
ReachesAddressee ==
  stage = "routed" /\ asked # None /\ (asked.to # NULL => Len(asked.to) < PROXY_ID_SIZE) =>
    LET name    == IF asked.to = NULL THEN <<>> ELSE asked.to
        bearers == {s \in Slots : /\ conns[s] # Free /\ name # <<>>
                                  /\ SubSeq(conns[s], 1, Len(name)) = name
                                  /\ \A i \in (Len(name) + 1)..PROXY_ID_SIZE : conns[s][i] = 0}
    IN  IF bearers = {} THEN target = Everyone ELSE target \in bearers
============================================================================
