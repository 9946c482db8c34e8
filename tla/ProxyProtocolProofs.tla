------------------------- MODULE ProxyProtocolProofs -------------------------
(***************************************************************************)
(* Proofs about ProxyProtocol, for identifiers, buffers and lengths of any *)
(* size: headers are built inside their buffer, account for every byte of  *)
(* the payload, say what the sender meant and reach whom he meant.         *)
(***************************************************************************)
EXTENDS ProxyProtocol, SequenceTheorems, WellFoundedInduction, TLAPS

Memory == [0..(MemorySize - 1) -> Byte]

\* A function on 1..n is a sequence of length n, and vice versa.
LEMMA SeqOf ==
  ASSUME NEW S, NEW n \in Nat, NEW f \in [1..n -> S]
  PROVE  f \in Seq(S) /\ Len(f) = n
<1>1. f \in Seq(S)
  BY SeqDef
<1>2. DOMAIN f = 1..Len(f) /\ DOMAIN f = 1..n /\ Len(f) \in Nat
  BY <1>1, LenProperties
<1>3. QED
  BY <1>1, <1>2

\* Two of them are equal if they agree everywhere.
LEMMA SameFunction ==
  ASSUME NEW S, NEW n \in Nat, NEW f \in [1..n -> S], NEW g \in [1..n -> S],
         \A i \in 1..n : f[i] = g[i]
  PROVE  f = g
<1>1. f \in Seq(S) /\ Len(f) = n /\ g \in Seq(S) /\ Len(g) = n
  BY SeqOf
<1>2. QED
  BY <1>1, SeqEqual

\* A set of naturals has a least element.
LEMMA LeastElement ==
  ASSUME NEW S \in SUBSET Nat, S # {}
  PROVE  \E s \in S : \A t \in S : s <= t
<1> DEFINE less == OpToRel(<, Nat)
<1>1. PICK s \in S : \A t \in S : ~(<<t, s>> \in less)
  <2>1. IsWellFoundedOn(less, Nat)
    BY NatLessThanWellFounded, Zenon
  <2> HIDE DEF less
  <2>2. QED
    BY <2>1, WFMin, Zenon
<1>2. \A t \in S : ~(t < s)
  BY <1>1 DEF OpToRel
<1>3. QED
  BY <1>2

\* The offsets of the header's fields.
LEMMA Offsets ==
  /\ PROXY_ID_SIZE \in Nat \ {0}
  /\ PROXY_HEADER_SIZE = 1 + PROXY_ID_SIZE + PROXY_ID_SIZE
  /\ PROXY_OFF_VERSION = 0 /\ PROXY_OFF_SRC = 1 /\ PROXY_OFF_DST = 1 + PROXY_ID_SIZE
  /\ PROXY_OFF_CONTENT = 1 + PROXY_ID_SIZE + PROXY_ID_SIZE
  /\ PROXY_HEADER_SIZE \in Nat /\ PROXY_VERSION \in Byte /\ MemorySize \in Nat
  BY ProxyProtocolAssumption
  DEF PROXY_HEADER_SIZE, PROXY_OFF_VERSION, PROXY_OFF_SRC, PROXY_OFF_DST,
    PROXY_OFF_CONTENT, PROXY_VERSION

\* new is mem with n bytes at off, and nothing else changed.
Copy(new, mem, off, bytes, n) ==
  /\ new \in Memory
  /\ \A i \in 1..n : new[off + i - 1] = bytes[i]
  /\ \A a \in 0..(MemorySize - 1) : a < off \/ a >= off + n => new[a] = mem[a]

\* memcpy writes the bytes it is given to their place and leaves everything else alone.
LEMMA Memcpy ==
  ASSUME NEW mem \in Memory, NEW off \in Nat, NEW n \in Nat, NEW bytes \in [1..n -> Byte],
         off + n <= MemorySize
  PROVE  Copy(memcpy(mem, off, bytes), mem, off, bytes, n)
<1>0. DOMAIN mem = 0..(MemorySize - 1) /\ DOMAIN bytes = 1..n /\ MemorySize \in Nat
  BY Offsets DEF Memory
<1>1. memcpy(mem, off, bytes) \in Memory
  BY <1>0 DEF memcpy, Memory
<1>2. ASSUME NEW i \in 1..n PROVE memcpy(mem, off, bytes)[off + i - 1] = bytes[i]
  <2>1. off + i - 1 \in 0..(MemorySize - 1) /\ (off + i - 1) - off + 1 = i
    BY <1>0
  <2>2. QED
    BY <1>0, <2>1 DEF memcpy
<1>3. ASSUME NEW a \in 0..(MemorySize - 1), a < off \/ a >= off + n
      PROVE  memcpy(mem, off, bytes)[a] = mem[a]
  <2>1. a - off + 1 \notin 1..n
    BY <1>3
  <2>2. QED
    BY <1>0, <2>1 DEF memcpy
<1>4. QED
  BY <1>1, <1>2, <1>3 DEF Copy

\* proxy_id_from_str gives an identifier.
LEMMA FromStr ==
  ASSUME NEW str \in Text \cup {NULL}
  PROVE  proxy_id_from_str(str) \in ProxyId
<1>1. CASE str = NULL
  BY <1>1, ProxyProtocolAssumption DEF proxy_id_from_str, ProxyId, ZeroId
<1>2. CASE str # NULL
  <2>1. str \in Seq(Byte \ {0})
    BY <1>2, ProxyProtocolAssumption
  <2>2. \A i \in 1..PROXY_ID_SIZE : i <= Len(str) => str[i] \in Byte
    BY <2>1, LenProperties
  <2>3. QED
    BY <1>2, <2>2, ProxyProtocolAssumption DEF proxy_id_from_str, ProxyId
<1>3. QED
  BY <1>1, <1>2

--------------------------------------------------------------------------------
\* What proxy_header_build leaves in the buffer.

Built(mem, src, dst, content, content_len) ==
  /\ mem[0] = PROXY_VERSION
  /\ \A i \in 1..PROXY_ID_SIZE : mem[PROXY_OFF_SRC + i - 1] = src[i]
  /\ \A i \in 1..PROXY_ID_SIZE : mem[PROXY_OFF_DST + i - 1] = dst[i]
  /\ content # NULL => \A i \in 1..content_len : mem[PROXY_OFF_CONTENT + i - 1] = content[i]

\* The guard of proxy_header_build rules out that the sum wraps around, so that header and
\* content fit the caller's buffer.
LEMMA NoWrap ==
  ASSUME NEW len \in Nat, ~TooLong(len), dst_buf_size \in 0..MemorySize
  PROVE  /\ (PROXY_HEADER_SIZE + len) % LenMod = PROXY_HEADER_SIZE + len
         /\ PROXY_HEADER_SIZE + len <= dst_buf_size
         /\ PROXY_HEADER_SIZE + len <= MemorySize
<1>1. len <= PROXY_PRACTICAL_MAX - PROXY_HEADER_SIZE
  BY Offsets, ProxyProtocolAssumption DEF TooLong, PROXY_CONTENT_MAX
<1>2. PROXY_HEADER_SIZE + len \in 0..(LenMod - 1) /\ LenMod \in Nat \ {0}
  BY <1>1, Offsets, ProxyProtocolAssumption
<1>3. (PROXY_HEADER_SIZE + len) % LenMod = PROXY_HEADER_SIZE + len
  BY <1>2
<1>4. QED
  BY <1>2, <1>3, Offsets, ProxyProtocolAssumption DEF TooLong

\* The three or four memcpy of a build do not overlap, and stay inside the buffer.
LEMMA BuildOK ==
  ASSUME TypeOK, NEW src \in ProxyId, NEW dst \in ProxyId, NEW len \in Nat,
         NEW content \in Content(len), ~TooLong(len),
         proxy_header_build(src, dst, content, len)
  PROVE  /\ dst_buf' \in Memory
         /\ Built(dst_buf', src, dst, content, len)
         /\ \A a \in DOMAIN dst_buf : a >= dst_buf_size => dst_buf'[a] = dst_buf[a]
<1> DEFINE P == PROXY_ID_SIZE
           m1 == memcpy(dst_buf, PROXY_OFF_VERSION, <<PROXY_VERSION>>)
           m2 == memcpy(m1, PROXY_OFF_SRC, src)
           m3 == memcpy(m2, PROXY_OFF_DST, dst)
           m4 == memcpy(m3, PROXY_OFF_CONTENT, content)
<1>1. /\ dst_buf \in Memory /\ dst_buf_size \in 0..MemorySize
      /\ DOMAIN dst_buf = 0..(MemorySize - 1)
  BY DEF TypeOK, Memory
<1>2. PROXY_HEADER_SIZE + len <= dst_buf_size /\ PROXY_HEADER_SIZE + len <= MemorySize
  BY <1>1, NoWrap
<1>3. src \in [1..P -> Byte] /\ dst \in [1..P -> Byte] /\ <<PROXY_VERSION>> \in [1..1 -> Byte]
  BY Offsets DEF ProxyId
<1>4. /\ m1 \in Memory /\ m1[0] = PROXY_VERSION
      /\ \A a \in 0..(MemorySize - 1) : a >= 1 => m1[a] = dst_buf[a]
  <2> DEFINE b == <<PROXY_VERSION>>
  <2>1. b \in [1..1 -> Byte] /\ b[1] = PROXY_VERSION /\ 0 + 1 <= MemorySize /\ 0 + 1 - 1 = 0
    BY <1>2, <1>3, Offsets
  <2> HIDE DEF b
  <2>2. Copy(memcpy(dst_buf, 0, b), dst_buf, 0, b, 1)
    BY <1>1, <2>1, Memcpy
  <2>3. m1 = memcpy(dst_buf, 0, b)
    BY Offsets DEF b
  <2> HIDE DEF m1
  <2>4. QED
    BY <2>1, <2>2, <2>3 DEF Copy
<1> HIDE DEF m1
<1>5. /\ m2 \in Memory
      /\ \A i \in 1..P : m2[1 + i - 1] = src[i]
      /\ \A a \in 0..(MemorySize - 1) : a < 1 \/ a >= 1 + P => m2[a] = m1[a]
  <2>1. 1 + P <= MemorySize /\ P \in Nat /\ PROXY_OFF_SRC \in Nat /\ PROXY_OFF_SRC = 1
    BY <1>2, Offsets
  <2>2. Copy(m2, m1, PROXY_OFF_SRC, src, P)
    BY <1>3, <1>4, <2>1, Memcpy
  <2> HIDE DEF m2
  <2>3. QED
    BY <2>1, <2>2 DEF Copy
<1> HIDE DEF m2
<1>6. /\ m3 \in Memory
      /\ \A i \in 1..P : m3[1 + P + i - 1] = dst[i]
      /\ \A a \in 0..(MemorySize - 1) : a < 1 + P \/ a >= 1 + P + P => m3[a] = m2[a]
  <2>1. /\ PROXY_OFF_DST + P <= MemorySize /\ P \in Nat
        /\ PROXY_OFF_DST \in Nat /\ PROXY_OFF_DST = 1 + P
    BY <1>2, Offsets
  <2>2. Copy(m3, m2, PROXY_OFF_DST, dst, P)
    BY <1>3, <1>5, <2>1, Memcpy
  <2> HIDE DEF m3
  <2>3. QED
    BY <2>1, <2>2 DEF Copy
<1> HIDE DEF m3
<1>7. /\ m3[0] = PROXY_VERSION
      /\ \A i \in 1..P : m3[1 + i - 1] = src[i]
      /\ \A a \in 0..(MemorySize - 1) : a >= dst_buf_size => m3[a] = dst_buf[a]
  <2>1. 0 \in 0..(MemorySize - 1) /\ 0 < 1 /\ 0 < 1 + P
    BY <1>2, Offsets
  <2>2. m3[0] = PROXY_VERSION
    BY <1>4, <1>5, <1>6, <2>1
  <2>3. ASSUME NEW i \in 1..P PROVE m3[1 + i - 1] = src[i]
    <3>1. 1 + i - 1 \in 0..(MemorySize - 1) /\ 1 + i - 1 < 1 + P
      BY <1>2, Offsets
    <3>2. QED
      BY <1>5, <1>6, <3>1
  <2>4. ASSUME NEW a \in 0..(MemorySize - 1), a >= dst_buf_size PROVE m3[a] = dst_buf[a]
    <3>1. a >= 1 /\ a >= 1 + P /\ a >= 1 + P + P
      BY <1>1, <1>2, <2>4, Offsets
    <3>2. QED
      BY <1>4, <1>5, <1>6, <3>1
  <2>5. QED
    BY <2>2, <2>3, <2>4
<1>8. CASE ~(len > 0 /\ content # NULL)
  <2>1. dst_buf' = m3
    BY <1>8 DEF proxy_header_build, m1, m2, m3
  <2>2. content = NULL \/ 1..len = {}
    BY <1>8
  <2>3. Built(m3, src, dst, content, len)
    BY <1>6, <1>7, <2>2, Offsets DEF Built
  <2>4. QED
    BY <1>1, <1>6, <1>7, <2>1, <2>3
<1>9. CASE len > 0 /\ content # NULL
  <2>1. dst_buf' = m4
    BY <1>9 DEF proxy_header_build, m1, m2, m3
  <2>2. content \in [1..len -> Byte]
    <3>1. content \in Seq(Byte) /\ Len(content) = len
      BY <1>9, ProxyProtocolAssumption DEF Content
    <3>2. QED
      BY <3>1, LenProperties
  <2>3. /\ m4 \in Memory
        /\ \A i \in 1..len : m4[1 + P + P + i - 1] = content[i]
        /\ \A a \in 0..(MemorySize - 1) : a < 1 + P + P \/ a >= 1 + P + P + len => m4[a] = m3[a]
    <3>1. /\ PROXY_OFF_CONTENT + len <= MemorySize
          /\ PROXY_OFF_CONTENT \in Nat /\ PROXY_OFF_CONTENT = 1 + P + P
      BY <1>2, Offsets
    <3>2. Copy(m4, m3, PROXY_OFF_CONTENT, content, len)
      BY <1>6, <2>2, <3>1, Memcpy
    <3> HIDE DEF m4
    <3>3. QED
      BY <3>1, <3>2 DEF Copy
  <2> HIDE DEF m4
  <2>4. \A a \in 0..(MemorySize - 1) : a >= dst_buf_size => m4[a] = dst_buf[a]
    <3>1. ASSUME NEW a \in 0..(MemorySize - 1), a >= dst_buf_size PROVE m4[a] = dst_buf[a]
      <4>1. a >= 1 + P + P + len
        BY <1>1, <1>2, <3>1, Offsets
      <4>2. QED
        BY <1>7, <2>3, <3>1, <4>1
    <3>2. QED
      BY <3>1
  <2>5. m4[0] = PROXY_VERSION
    <3>1. 0 \in 0..(MemorySize - 1) /\ 0 < 1 + P + P
      BY <1>2, Offsets
    <3>2. QED
      BY <1>7, <2>3, <3>1
  <2>6. ASSUME NEW i \in 1..P PROVE m4[1 + i - 1] = src[i] /\ m4[1 + P + i - 1] = dst[i]
    <3>1. /\ 1 + i - 1 \in 0..(MemorySize - 1) /\ 1 + i - 1 < 1 + P + P
          /\ 1 + P + i - 1 \in 0..(MemorySize - 1) /\ 1 + P + i - 1 < 1 + P + P
      BY <1>2, Offsets
    <3>2. m4[1 + i - 1] = m3[1 + i - 1] /\ m4[1 + P + i - 1] = m3[1 + P + i - 1]
      BY <2>3, <3>1
    <3>3. QED
      BY <1>6, <1>7, <3>2
  <2>7. Built(m4, src, dst, content, len)
    BY <2>3, <2>5, <2>6, Offsets DEF Built
  <2>8. QED
    BY <1>1, <2>1, <2>3, <2>4, <2>7
<1>10. QED
  BY <1>8, <1>9

--------------------------------------------------------------------------------
\* The invariant: what is in the buffer is what was asked for, and what the proxy made of
\* it is what is in the buffer.

AskedOK(a) ==
  /\ a.src \in ProxyId /\ a.to \in Text \cup {NULL}
  /\ a.content_len \in Nat /\ a.content \in Content(a.content_len)

Sent ==
  /\ stage = "idle" => asked = None
  /\ asked # None =>
       /\ AskedOK(asked)
       /\ Built(dst_buf, asked.src, proxy_id_from_str(asked.to), asked.content, asked.content_len)
       /\ total = PROXY_HEADER_SIZE + asked.content_len

Routed ==
  IF stage = "routed"
  THEN /\ header = IF Parses(total) THEN proxy_header_parse(total) ELSE None
       /\ target = IF Parses(total)
                   THEN ble_gatt_get_conn_by_proxy_id(proxy_header_parse(total).dst)
                   ELSE Everyone
  ELSE header = None /\ target = Everyone

Inv == TypeOK /\ BuildStaysInside /\ Sent /\ Routed

\* A field read inside the buffer has the bytes of the buffer.
LEMMA AtOK ==
  ASSUME dst_buf \in Memory, NEW off \in Nat, NEW len \in Nat, off + len <= MemorySize
  PROVE  /\ At(off, len) \in [1..len -> Byte]
         /\ \A i \in 1..len : At(off, len)[i] = dst_buf[off + i - 1]
<1>1. MemorySize \in Nat
  BY Offsets
<1>2. ASSUME NEW i \in 1..len PROVE dst_buf[off + i - 1] \in Byte
  <2>1. off + i - 1 \in 0..(MemorySize - 1)
    BY <1>1
  <2>2. QED
    BY <2>1 DEF Memory
<1>3. QED
  BY <1>2 DEF At

\* The fields of a payload that is accepted lie inside the buffer.
LEMMA ParseOK ==
  ASSUME TypeOK, Parses(total)
  PROVE  /\ total \in Nat /\ total <= MemorySize /\ total >= PROXY_HEADER_SIZE
         /\ dst_buf \in Memory /\ dst_buf[0] = PROXY_VERSION
         /\ proxy_header_parse(total).src = At(PROXY_OFF_SRC, PROXY_ID_SIZE)
         /\ proxy_header_parse(total).dst = At(PROXY_OFF_DST, PROXY_ID_SIZE)
         /\ proxy_header_parse(total).content =
              At(PROXY_OFF_CONTENT, total - PROXY_HEADER_SIZE)
         /\ At(PROXY_OFF_SRC, PROXY_ID_SIZE) \in ProxyId
         /\ At(PROXY_OFF_DST, PROXY_ID_SIZE) \in ProxyId
<1>1. /\ total \in Nat /\ total <= MemorySize /\ total >= PROXY_HEADER_SIZE
      /\ dst_buf \in Memory /\ dst_buf[0] = PROXY_VERSION
  BY Offsets DEF TypeOK, Parses, Memory
<1>2. At(PROXY_OFF_SRC, PROXY_ID_SIZE) \in ProxyId /\ At(PROXY_OFF_DST, PROXY_ID_SIZE) \in ProxyId
  <2>1. /\ PROXY_OFF_SRC \in Nat /\ PROXY_OFF_SRC + PROXY_ID_SIZE <= MemorySize
        /\ PROXY_OFF_DST \in Nat /\ PROXY_OFF_DST + PROXY_ID_SIZE <= MemorySize
        /\ PROXY_ID_SIZE \in Nat
    BY <1>1, Offsets
  <2>2. QED
    BY <1>1, <2>1, AtOK DEF ProxyId
<1>3. QED
  BY <1>1, <1>2 DEF proxy_header_parse

\* The slot that is found is one that registered the identifier.
LEMMA FoundSlot ==
  ASSUME NEW id
  PROVE  LET found == {s \in Slots : conns[s] # Free /\ proxy_id_equal(conns[s], id)}
         IN  IF proxy_id_is_zero(id) \/ found = {}
             THEN ble_gatt_get_conn_by_proxy_id(id) = Everyone
             ELSE ble_gatt_get_conn_by_proxy_id(id) \in found
<1> DEFINE found == {s \in Slots : conns[s] # Free /\ proxy_id_equal(conns[s], id)}
<1>1. CASE proxy_id_is_zero(id) \/ found = {}
  BY <1>1 DEF ble_gatt_get_conn_by_proxy_id
<1>2. CASE ~(proxy_id_is_zero(id) \/ found = {})
  <2>1. found \subseteq Nat
    BY ProxyProtocolAssumption
  <2>2. ble_gatt_get_conn_by_proxy_id(id) = CHOOSE s \in found : \A t \in found : s <= t
    BY <1>2 DEF ble_gatt_get_conn_by_proxy_id
  <2>3. found # {}
    BY <1>2
  <2> HIDE DEF found
  <2>4. \E s \in found : \A t \in found : s <= t
    BY <2>1, <2>3, LeastElement
  <2>5. ble_gatt_get_conn_by_proxy_id(id) \in found
    BY <2>2, <2>4
  <2>6. QED
    BY <1>2, <2>5 DEF found
<1>3. QED
  BY <1>1, <1>2

\* Slots come and go, and phones register, while no packet is being routed.
LEMMA ConnsStep ==
  ASSUME Inv, stage # "routed", conns' \in [Slots -> ProxyId \cup {Free}],
         UNCHANGED <<dst_buf, dst_buf_size, total, stage, asked, header, target>>
  PROVE  Inv'
<1>1. TypeOK'
  BY DEF Inv, TypeOK
<1>2. BuildStaysInside'
  BY DEF Inv, BuildStaysInside
<1>3. Sent'
  BY DEF Inv, Sent
<1>4. Routed'
  BY DEF Inv, Routed
<1>5. QED
  BY <1>1, <1>2, <1>3, <1>4 DEF Inv

\* A message is built.
LEMMA SendStep ==
  ASSUME Inv, NEW src \in ProxyId, NEW to \in Text \cup {NULL}, NEW len \in Nat,
         NEW content \in Content(len), Send(src, to, content, len)
  PROVE  Inv'
<1>1. /\ stage = "idle" /\ ~TooLong(len) /\ stage' = "sent"
      /\ proxy_header_build(src, proxy_id_from_str(to), content, len)
      /\ total' = (PROXY_HEADER_SIZE + len) % LenMod
      /\ asked' = [src |-> src, to |-> to, content |-> content, content_len |-> len]
      /\ UNCHANGED <<dst_buf_size, conns, header, target>>
  BY DEF Send
<1>2. /\ dst_buf' \in Memory
      /\ Built(dst_buf', src, proxy_id_from_str(to), content, len)
      /\ \A a \in DOMAIN dst_buf : a >= dst_buf_size => dst_buf'[a] = dst_buf[a]
  BY <1>1, FromStr, BuildOK DEF Inv
<1>3. total' = PROXY_HEADER_SIZE + len /\ total' <= dst_buf_size /\ dst_buf_size \in 0..MemorySize
  BY <1>1, NoWrap DEF Inv, TypeOK
<1>4. header' = None /\ target' = Everyone
  BY <1>1 DEF Inv, Routed
<1>5. TypeOK'
  <2>1. total' \in 0..dst_buf_size'
    BY <1>1, <1>3, Offsets
  <2>2. QED
    BY <1>1, <1>2, <1>4, <2>1 DEF Inv, TypeOK, Memory
<1>6. BuildStaysInside'
  <2>1. DOMAIN dst_buf = DOMAIN dst_buf'
    BY <1>2 DEF Inv, TypeOK, Memory
  <2>2. QED
    BY <1>1, <1>2, <2>1 DEF Inv, BuildStaysInside
<1>7. Sent'
  <2>1. AskedOK(asked')
    BY <1>1 DEF AskedOK
  <2>2. Built(dst_buf', asked'.src, proxy_id_from_str(asked'.to), asked'.content, asked'.content_len)
    BY <1>1, <1>2
  <2>3. total' = PROXY_HEADER_SIZE + asked'.content_len /\ stage' # "idle"
    BY <1>1, <1>3
  <2>4. QED
    BY <2>1, <2>2, <2>3 DEF Sent
<1>8. Routed'
  BY <1>1, <1>4 DEF Routed
<1>9. QED
  BY <1>5, <1>6, <1>7, <1>8 DEF Inv

\* A payload comes from somebody else.
LEMMA ForeignStep ==
  ASSUME Inv, NEW n \in 0..MemorySize, NEW payload \in [1..n -> Byte], SendForeign(payload)
  PROVE  Inv'
<1>1. n \in Nat /\ Len(payload) = n
  BY Offsets, SeqOf
<1>2. /\ n <= dst_buf_size /\ dst_buf' = memcpy(dst_buf, 0, payload) /\ total' = n
      /\ asked' = None /\ stage = "idle" /\ stage' = "sent"
      /\ UNCHANGED <<dst_buf_size, conns, header, target>>
  BY <1>1 DEF SendForeign
<1>3. dst_buf \in Memory /\ 0 + n <= MemorySize /\ dst_buf_size \in 0..MemorySize
  BY <1>1, Offsets DEF Inv, TypeOK, Memory
<1>4. Copy(memcpy(dst_buf, 0, payload), dst_buf, 0, payload, n)
  BY <1>1, <1>3, Memcpy
<1>5. /\ dst_buf' \in Memory
      /\ \A a \in 0..(MemorySize - 1) : a >= n => dst_buf'[a] = dst_buf[a]
  BY <1>1, <1>2, <1>4 DEF Copy
<1>6. header' = None /\ target' = Everyone
  BY <1>2 DEF Inv, Routed
<1>7. TypeOK'
  BY <1>1, <1>2, <1>3, <1>5, <1>6 DEF Inv, TypeOK, Memory
<1>8. BuildStaysInside'
  <2>1. DOMAIN dst_buf = 0..(MemorySize - 1) /\ DOMAIN dst_buf' = 0..(MemorySize - 1)
    BY <1>3, <1>5 DEF Memory
  <2>2. \A a \in 0..(MemorySize - 1) : a >= dst_buf_size => a >= n
    BY <1>1, <1>2, <1>3
  <2>3. QED
    BY <1>2, <1>5, <2>1, <2>2 DEF Inv, BuildStaysInside
<1>9. Sent' /\ Routed'
  BY <1>2, <1>6 DEF Sent, Routed
<1>10. QED
  BY <1>7, <1>8, <1>9 DEF Inv

\* The proxy routes what was sent.
LEMMA RouteStep == ASSUME Inv, router_dispatch PROVE Inv'
<1>1. /\ stage' = "routed" /\ UNCHANGED <<dst_buf, dst_buf_size, total, conns, asked>>
      /\ header' = IF Parses(total) THEN proxy_header_parse(total) ELSE None
      /\ target' = IF Parses(total)
                   THEN ble_gatt_get_conn_by_proxy_id(proxy_header_parse(total).dst)
                   ELSE Everyone
  BY DEF router_dispatch
<1>2. Routed'
  BY <1>1 DEF Routed, Parses, proxy_header_parse, At, ble_gatt_get_conn_by_proxy_id
<1>3. target' \in Slots \cup {Everyone}
  BY <1>1, FoundSlot
<1>4. header' # None => header'.src \in ProxyId /\ header'.dst \in ProxyId
  BY <1>1, ParseOK DEF Inv
<1>5. TypeOK'
  BY <1>1, <1>3, <1>4 DEF Inv, TypeOK
<1>6. BuildStaysInside' /\ Sent'
  BY <1>1 DEF Inv, BuildStaysInside, Sent
<1>7. QED
  BY <1>2, <1>5, <1>6 DEF Inv

\* Every step keeps the invariant.
LEMMA InvStep == Inv /\ [Next]_vars => Inv'
<1> SUFFICES ASSUME Inv, [Next]_vars PROVE Inv'
  OBVIOUS
<1>1. conns \in [Slots -> ProxyId \cup {Free}]
  BY DEF Inv, TypeOK
<1>2. ASSUME NEW s \in Slots, Connected(s) PROVE Inv'
  <2>1. ZeroId \in ProxyId
    BY ProxyProtocolAssumption DEF ZeroId, ProxyId
  <2>2. conns' \in [Slots -> ProxyId \cup {Free}]
    BY <1>1, <1>2, <2>1 DEF Connected
  <2>3. QED
    BY <1>2, <2>2, ConnsStep DEF Connected
<1>3. ASSUME NEW s \in Slots, Disconnected(s) PROVE Inv'
  <2>1. conns' \in [Slots -> ProxyId \cup {Free}]
    BY <1>1, <1>3 DEF Disconnected
  <2>2. QED
    BY <1>3, <2>1, ConnsStep DEF Disconnected
<1>4. ASSUME NEW s \in Slots, NEW n \in 0..(PROXY_ID_SIZE + 1), NEW offset,
             NEW bytes \in [1..n -> Byte], node_reg_write(s, bytes, offset)
      PROVE  Inv'
  <2>1. n \in Nat
    BY Offsets
  <2>2. Len(bytes) = n
    BY <2>1, SeqOf
  <2>3. ~NotAnId(bytes, offset) => bytes \in ProxyId
    BY <2>2 DEF NotAnId, ProxyId
  <2>4. conns' \in [Slots -> ProxyId \cup {Free}]
    BY <1>1, <1>4, <2>3 DEF node_reg_write
  <2>5. QED
    BY <1>4, <2>4, ConnsStep DEF node_reg_write
<1>5. ASSUME NEW src \in ProxyId, NEW to \in Text \cup {NULL}, NEW len \in 0..(LenMod - 1),
             NEW content \in Content(len), Send(src, to, content, len)
      PROVE  Inv'
  <2>1. len \in Nat
    BY ProxyProtocolAssumption
  <2>2. QED
    BY <1>5, <2>1, SendStep
<1>6. ASSUME NEW n \in 0..MemorySize, NEW payload \in [1..n -> Byte], SendForeign(payload)
      PROVE  Inv'
  BY <1>6, ForeignStep
<1>7. CASE Done
  <2>1. TypeOK'
    <3>1. 0 \in 0..dst_buf_size
      BY Offsets DEF Inv, TypeOK
    <3>2. QED
      BY <1>7, <3>1 DEF Done, Inv, TypeOK
  <2>2. BuildStaysInside' /\ Sent' /\ Routed'
    BY <1>7 DEF Done, Inv, BuildStaysInside, Sent, Routed
  <2>3. QED
    BY <2>1, <2>2 DEF Inv
<1>8. CASE UNCHANGED vars
  <2>1. UNCHANGED <<dst_buf, dst_buf_size, total, conns, stage, asked, header, target>>
    BY <1>8 DEF vars
  <2>2. TypeOK' /\ BuildStaysInside' /\ Sent'
    BY <2>1 DEF Inv, TypeOK, BuildStaysInside, Sent
  <2>3. Routed'
    BY <2>1 DEF Inv, Routed, Parses, proxy_header_parse, At, ble_gatt_get_conn_by_proxy_id
  <2>4. QED
    BY <2>2, <2>3 DEF Inv
<1>9. QED
  BY <1>2, <1>3, <1>4, <1>5, <1>6, <1>7, <1>8, RouteStep DEF Next

LEMMA InitInv == Init => Inv
<1> SUFFICES ASSUME Init PROVE Inv
  OBVIOUS
<1>1. TypeOK
  <2>1. 0 \in 0..dst_buf_size
    BY Offsets DEF Init
  <2>2. 0 \in Byte
    BY ProxyProtocolAssumption
  <2>3. QED
    BY <2>1, <2>2 DEF Init, TypeOK
<1>2. BuildStaysInside /\ Sent /\ Routed
  BY DEF Init, BuildStaysInside, Sent, Routed
<1>3. QED
  BY <1>1, <1>2 DEF Inv

LEMMA Invariance == Spec => []Inv
  BY InitInv, InvStep, PTL DEF Spec

--------------------------------------------------------------------------------
\* Adjacent parts of the buffer, laid end to end.
LEMMA AtJoin ==
  ASSUME dst_buf \in Memory, NEW m \in Nat, NEW k \in Nat, m + k <= MemorySize
  PROVE  At(0, m) \o At(m, k) = At(0, m + k)
<1> DEFINE s == At(0, m)
           t == At(m, k)
           u == At(0, m + k)
<1>1. /\ s \in [1..m -> Byte] /\ \A i \in 1..m : s[i] = dst_buf[0 + i - 1]
      /\ t \in [1..k -> Byte] /\ \A i \in 1..k : t[i] = dst_buf[m + i - 1]
      /\ u \in [1..(m + k) -> Byte] /\ \A i \in 1..(m + k) : u[i] = dst_buf[0 + i - 1]
  <2>1. 0 + m <= MemorySize /\ 0 + (m + k) <= MemorySize /\ m + k \in Nat /\ 0 \in Nat
    BY Offsets
  <2>2. QED
    BY <2>1, AtOK
<1> HIDE DEF s, t, u
<1>2. /\ s \in Seq(Byte) /\ Len(s) = m /\ t \in Seq(Byte) /\ Len(t) = k
      /\ u \in Seq(Byte) /\ Len(u) = m + k
  BY <1>1, SeqOf
<1>3. /\ s \o t \in Seq(Byte) /\ Len(s \o t) = m + k
      /\ \A i \in 1..(m + k) : (s \o t)[i] = IF i <= m THEN s[i] ELSE t[i - m]
  <2>1. /\ s \o t \in Seq(Byte) /\ Len(s \o t) = Len(s) + Len(t)
        /\ \A i \in 1..(Len(s) + Len(t)) :
             (s \o t)[i] = IF i <= Len(s) THEN s[i] ELSE t[i - Len(s)]
    BY <1>2, ConcatProperties, Zenon
  <2>2. QED
    BY <1>2, <2>1
<1> DEFINE st == s \o t
<1> HIDE DEF st
<1>4. ASSUME NEW i \in 1..(m + k) PROVE st[i] = u[i]
  <2>1. CASE i <= m
    <3>1. i \in 1..m
      BY <2>1
    <3>2. QED
      BY <1>1, <1>3, <2>1, <3>1 DEF st
  <2>2. CASE i > m
    <3>1. i - m \in 1..k /\ m + (i - m) - 1 = 0 + i - 1 /\ ~(i <= m)
      BY <2>2
    <3>2. t[i - m] = dst_buf[m + (i - m) - 1]
      BY <1>1, <3>1
    <3>3. QED
      BY <1>1, <1>3, <3>1, <3>2 DEF st
  <2>3. QED
    BY <2>1, <2>2
<1>5. st \in Seq(Byte) /\ Len(st) = m + k
  BY <1>3 DEF st
<1>6. st = u
  BY <1>2, <1>4, <1>5, SeqEqual
<1>7. QED
  BY <1>6 DEF st, s, t, u

\* The fields of an accepted payload, laid end to end, are the payload.
LEMMA WholePayload == ASSUME Inv PROVE HeaderIsWholePayload
<1>1. SUFFICES ASSUME header # None
               PROVE  <<PROXY_VERSION>> \o header.src \o header.dst \o header.content = At(0, total)
  BY DEF HeaderIsWholePayload
<1>2. Parses(total) /\ header = proxy_header_parse(total)
  BY <1>1 DEF Inv, Routed
<1> DEFINE P == PROXY_ID_SIZE
           n == total - PROXY_HEADER_SIZE
<1>3. /\ total \in Nat /\ total <= MemorySize /\ n \in Nat /\ P \in Nat
      /\ dst_buf \in Memory /\ dst_buf[0] = PROXY_VERSION
      /\ header.src = At(1, P) /\ header.dst = At(1 + P, P)
      /\ header.content = At(1 + P + P, n)
  BY <1>2, ParseOK, Offsets DEF Inv
<1>4. total = 1 + P + P + n
  BY <1>3, Offsets
<1>5. At(0, 1) = <<PROXY_VERSION>>
  <2>1. At(0, 1) = [i \in 1..1 |-> dst_buf[0 + i - 1]]
    BY DEF At
  <2>2. \A i \in 1..1 : dst_buf[0 + i - 1] = PROXY_VERSION
    BY <1>3
  <2>3. QED
    BY <2>1, <2>2
<1> HIDE DEF P, n
<1>6. /\ 1 \in Nat /\ 1 + P \in Nat /\ 1 + P + P \in Nat
       /\ 1 + P <= MemorySize /\ 1 + P + P <= MemorySize /\ 1 + P + P + n <= MemorySize
  BY <1>3, <1>4, Offsets
<1>7. At(0, 1) \o At(1, P) = At(0, 1 + P)
  BY <1>3, <1>6, AtJoin, Zenon
<1>8. At(0, 1 + P) \o At(1 + P, P) = At(0, 1 + P + P)
  BY <1>3, <1>6, AtJoin, Zenon
<1>9. At(0, 1 + P + P) \o At(1 + P + P, n) = At(0, 1 + P + P + n)
  BY <1>3, <1>6, AtJoin, Zenon
<1>10. QED
  BY <1>3, <1>4, <1>5, <1>7, <1>8, <1>9

\* The proxy reads back what the sender meant.
LEMMA Understood ==
  ASSUME Inv, stage = "routed", asked # None
  PROVE  /\ Parses(total)
         /\ header = proxy_header_parse(total)
         /\ header.src = asked.src
         /\ header.dst = proxy_id_from_str(asked.to)
         /\ Len(header.content) = asked.content_len
         /\ asked.content # NULL => header.content = asked.content
<1> DEFINE P == PROXY_ID_SIZE
           n == asked.content_len
           src == At(PROXY_OFF_SRC, P)
           dst == At(PROXY_OFF_DST, P)
           rest == At(PROXY_OFF_CONTENT, n)
<1>1. /\ AskedOK(asked) /\ total = PROXY_HEADER_SIZE + n
      /\ Built(dst_buf, asked.src, proxy_id_from_str(asked.to), asked.content, n)
  BY DEF Inv, Sent
<1>2. n \in Nat /\ asked.src \in ProxyId /\ proxy_id_from_str(asked.to) \in ProxyId
      /\ asked.content \in Content(n)
  BY <1>1, FromStr DEF AskedOK
<1>3. Parses(total)
  BY <1>1, <1>2, Offsets DEF Parses, Built
<1>4. header = proxy_header_parse(total)
  BY <1>3 DEF Inv, Routed
<1>5. total - PROXY_HEADER_SIZE = n
  BY <1>1, <1>2, Offsets
<1>6. /\ header.src = src /\ header.dst = dst /\ header.content = rest
      /\ dst_buf \in Memory /\ total <= MemorySize
  BY <1>3, <1>4, <1>5, ParseOK DEF Inv
<1>7. header.src = asked.src
  <2>1. src \in ProxyId /\ \A i \in 1..P : src[i] = dst_buf[PROXY_OFF_SRC + i - 1]
    <3>1. PROXY_OFF_SRC \in Nat /\ PROXY_OFF_SRC + P <= MemorySize /\ P \in Nat
      BY <1>1, <1>2, <1>6, Offsets
    <3>2. QED
      BY <1>6, <3>1, AtOK DEF ProxyId
  <2>2. \A i \in 1..P : src[i] = asked.src[i]
    BY <1>1, <2>1 DEF Built
  <2> HIDE DEF src
  <2>3. QED
    BY <1>2, <1>6, <2>1, <2>2, SameFunction, Offsets DEF ProxyId
<1>8. header.dst = proxy_id_from_str(asked.to)
  <2>1. dst \in ProxyId /\ \A i \in 1..P : dst[i] = dst_buf[PROXY_OFF_DST + i - 1]
    <3>1. PROXY_OFF_DST \in Nat /\ PROXY_OFF_DST + P <= MemorySize /\ P \in Nat
      BY <1>1, <1>2, <1>6, Offsets
    <3>2. QED
      BY <1>6, <3>1, AtOK DEF ProxyId
  <2>2. \A i \in 1..P : dst[i] = proxy_id_from_str(asked.to)[i]
    BY <1>1, <2>1 DEF Built
  <2> HIDE DEF dst
  <2>3. QED
    BY <1>2, <1>6, <2>1, <2>2, SameFunction, Offsets DEF ProxyId
<1>9. rest \in [1..n -> Byte] /\ \A i \in 1..n : rest[i] = dst_buf[PROXY_OFF_CONTENT + i - 1]
  <2>1. PROXY_OFF_CONTENT \in Nat /\ PROXY_OFF_CONTENT + n <= MemorySize
    BY <1>1, <1>2, <1>6, Offsets
  <2>2. QED
    BY <1>2, <1>6, <2>1, AtOK
<1> HIDE DEF rest
<1>10. Len(header.content) = n
  BY <1>2, <1>6, <1>9, SeqOf
<1>11. asked.content # NULL => header.content = asked.content
  <2>1. SUFFICES ASSUME asked.content # NULL PROVE rest = asked.content
    BY <1>6
  <2>2. asked.content \in Seq(Byte) /\ Len(asked.content) = n
    BY <1>2, <2>1, ProxyProtocolAssumption DEF Content
  <2>3. asked.content \in [1..n -> Byte]
    BY <2>2, LenProperties
  <2>4. \A i \in 1..n : rest[i] = asked.content[i]
    BY <1>1, <1>9, <2>1 DEF Built
  <2>5. QED
    BY <1>2, <1>9, <2>3, <2>4, SameFunction
<1>12. QED
  BY <1>3, <1>4, <1>7, <1>8, <1>10, <1>11

\* An identifier was registered for a short name iff it is the name, padded.
LEMMA BearsName ==
  ASSUME NEW to \in Text, NEW id \in ProxyId, Len(to) < PROXY_ID_SIZE
  PROVE  /\ to = <<>> <=> proxy_id_is_zero(proxy_id_from_str(to))
         /\ proxy_id_equal(id, proxy_id_from_str(to)) <=>
              /\ SubSeq(id, 1, Len(to)) = to
              /\ \A i \in (Len(to) + 1)..PROXY_ID_SIZE : id[i] = 0
<1> DEFINE P == PROXY_ID_SIZE
           k == Len(to)
           str == proxy_id_from_str(to)
           part == SubSeq(id, 1, k)
<1>1. to \in Seq(Byte \ {0}) /\ to # NULL /\ P \in Nat \ {0}
  <2>1. to \in Seq(Byte \ {0})
    BY ProxyProtocolAssumption
  <2>2. to # NULL
    <3>1. SUFFICES ASSUME to = NULL PROVE FALSE
      OBVIOUS
    <3>2. Len(to) = 1 /\ to[1] = -1
      BY <3>1 DEF NULL
    <3>3. to[1] \in Byte
      BY <2>1, <3>2
    <3>4. QED
      BY <3>2, <3>3, ProxyProtocolAssumption
  <2>3. QED
    BY <2>1, <2>2, ProxyProtocolAssumption
<1>2. Len(to) \in Nat /\ k \in 0..P /\ k <= Len(to)
      /\ \A i \in 1..Len(to) : to[i] \in Byte /\ to[i] # 0
  BY <1>1
<1>3. /\ \A i \in 1..k : str[i] = to[i]
      /\ \A i \in (k + 1)..P : str[i] = 0
  BY <1>1, <1>2 DEF proxy_id_from_str
<1>4. to \in Seq(Byte)
  BY <1>1
<1> HIDE DEF k, str
<1>5. /\ part \in Seq(Byte) /\ Len(part) = k
      /\ \A i \in 1..k : part[i] = id[i]
  <2>0. k \in Int /\ 1 \in Int
    BY <1>1, <1>2
  <2>1. \A i \in 1..k : id[i] \in Byte
    BY <1>1, <1>2 DEF ProxyId
  <2>2. /\ part \in Seq(Byte) /\ Len(part) = IF 1 <= k THEN k - 1 + 1 ELSE 0
        /\ \A i \in 1..(k - 1 + 1) : part[i] = id[1 + i - 1]
    BY <2>0, <2>1, SubSeqProperties
  <2>3. QED
    BY <1>1, <1>2, <2>2
<1> HIDE DEF part
<1>6. to = <<>> <=> k = 0
  BY <1>4, EmptySeq DEF k
<1>7. k = 0 <=> proxy_id_is_zero(str)
  <2>1. k = 0 => proxy_id_is_zero(str)
    BY <1>1, <1>3 DEF proxy_id_is_zero
  <2>2. k # 0 => ~proxy_id_is_zero(str)
    <3>1. SUFFICES ASSUME k # 0 PROVE ~proxy_id_is_zero(str)
      OBVIOUS
    <3>2. 1 \in 1..k /\ 1 \in 1..P /\ 1 \in 1..Len(to)
      BY <1>1, <1>2, <3>1
    <3>3. str[1] # 0
      BY <1>2, <1>3, <3>2
    <3>4. QED
      BY <3>2, <3>3 DEF proxy_id_is_zero
  <2>3. QED
    BY <2>1, <2>2
<1>8. part = to <=> \A i \in 1..k : id[i] = to[i]
  <2>1. part = to => \A i \in 1..k : id[i] = to[i]
    BY <1>5
  <2>2. ASSUME \A i \in 1..k : id[i] = to[i] PROVE part = to
    BY <1>4, <1>5, <2>2, SeqEqual DEF k
  <2>3. QED
    BY <2>1, <2>2
<1>9. proxy_id_equal(id, str) <=>
        (\A i \in 1..k : id[i] = to[i]) /\ (\A i \in (k + 1)..P : id[i] = 0)
  <2>1. \A i \in 1..P : i \in 1..k \/ i \in (k + 1)..P
    BY <1>1, <1>2
  <2>2. \A i \in 1..k : i \in 1..P
    BY <1>1, <1>2
  <2>3. \A i \in (k + 1)..P : i \in 1..P
    BY <1>1, <1>2
  <2>4. QED
    BY <1>3, <2>1, <2>2, <2>3 DEF proxy_id_equal
<1>10. QED
  BY <1>6, <1>7, <1>8, <1>9 DEF k, part, str

\* The phone that is chosen is the one that is meant.
LEMMA Reaches == ASSUME Inv PROVE ReachesAddressee
<1>1. SUFFICES ASSUME stage = "routed", asked # None,
                    asked.to # NULL => Len(asked.to) < PROXY_ID_SIZE
             PROVE  ReachesAddressee
  BY DEF ReachesAddressee
<1> DEFINE to == asked.to
           str == proxy_id_from_str(to)
           name == IF to = NULL THEN <<>> ELSE to
           bearers == {s \in Slots : /\ conns[s] # Free /\ name # <<>>
                                     /\ SubSeq(conns[s], 1, Len(name)) = name
                                     /\ \A i \in (Len(name) + 1)..PROXY_ID_SIZE : conns[s][i] = 0}
           found == {s \in Slots : conns[s] # Free /\ proxy_id_equal(conns[s], str)}
<1>2. /\ Parses(total) /\ header = proxy_header_parse(total) /\ header.dst = str
      /\ to \in Text \cup {NULL}
  BY <1>1, Understood DEF Inv, Sent, AskedOK
<1>3. target = ble_gatt_get_conn_by_proxy_id(str)
  BY <1>1, <1>2 DEF Inv, Routed
<1>4. IF proxy_id_is_zero(str) \/ found = {} THEN target = Everyone ELSE target \in found
  BY <1>3, FoundSlot
<1>5. \A s \in Slots : conns[s] # Free => conns[s] \in ProxyId
  BY DEF Inv, TypeOK
<1>6. name = <<>> <=> proxy_id_is_zero(str)
  <2>1. CASE to = NULL
    BY <2>1 DEF proxy_id_from_str, proxy_id_is_zero, ZeroId
  <2>2. CASE to # NULL
    <3>1. to \in Text
      BY <1>2, <2>2
    <3>2. ZeroId \in ProxyId
      BY ProxyProtocolAssumption DEF ZeroId, ProxyId
    <3>3. QED
      BY <1>1, <2>2, <3>1, <3>2, BearsName
  <2>3. QED
    BY <2>1, <2>2
<1>7. name # <<>> => bearers = found
  <2>1. SUFFICES ASSUME name # <<>> PROVE bearers = found
    OBVIOUS
  <2>2. to \in Text /\ to # NULL
    BY <1>2, <2>1
  <2>3. name = to /\ Len(to) < PROXY_ID_SIZE
    BY <1>1, <2>2
  <2>4. ASSUME NEW s \in Slots, conns[s] # Free
        PROVE  proxy_id_equal(conns[s], str) <=>
                 /\ SubSeq(conns[s], 1, Len(name)) = name
                 /\ \A i \in (Len(name) + 1)..PROXY_ID_SIZE : conns[s][i] = 0
    <3>1. conns[s] \in ProxyId
      BY <1>5, <2>4
    <3> HIDE DEF name, to
    <3>2. QED
      BY <2>2, <2>3, <3>1, BearsName, Zenon
  <2> HIDE DEF name, str
  <2>5. QED
    BY <2>1, <2>4
<1>8. name = <<>> => bearers = {}
  <2> HIDE DEF name
  <2>1. QED
    OBVIOUS
<1>9. IF bearers = {} THEN target = Everyone ELSE target \in bearers
  <2> HIDE DEF name, str, found, bearers
  <2>1. QED
    BY <1>4, <1>6, <1>7, <1>8
<1>10. QED
  BY <1>9 DEF ReachesAddressee

--------------------------------------------------------------------------------
\* All variables keep their types; in particular a header that was accepted has whole
\* identifiers.
THEOREM TypeCorrect == Spec => []TypeOK
  BY Invariance, PTL DEF Inv

\* proxy_header_build never writes behind the caller's buffer, for any content_len that
\* a uint16_t can hold: its two checks rule out the wrap-around of their sum.
THEOREM BuildCorrect == Spec => []BuildStaysInside
  BY Invariance, PTL DEF Inv

\* proxy_header_parse accounts for every byte of the payload it accepts, in order.
THEOREM ParseCorrect == Spec => []HeaderIsWholePayload
<1>1. Inv => HeaderIsWholePayload
  BY WholePayload
<1>2. QED
  BY <1>1, Invariance, PTL

\* proxy_header_parse undoes proxy_header_build, whatever was in the buffer before.
THEOREM RoundTripCorrect == Spec => []BuiltIsUnderstood
<1>1. Inv => BuiltIsUnderstood
  <2>1. SUFFICES ASSUME Inv, stage = "routed", asked # None PROVE BuiltIsUnderstood
    BY DEF BuiltIsUnderstood
  <2>2. header = proxy_header_parse(total)
    BY <2>1, Understood
  <2>3. header # None
    BY <2>2 DEF proxy_header_parse, None
  <2>4. QED
    BY <2>1, <2>3, Understood DEF BuiltIsUnderstood
<1>2. QED
  BY <1>1, Invariance, PTL

\* ble_gatt_get_conn_by_proxy_id finds the phone that registered the name a message was
\* addressed to, and none for a message without a name; names are shorter than an
\* identifier.
THEOREM AddresseeCorrect == Spec => []ReachesAddressee
<1>1. Inv => ReachesAddressee
  BY Reaches
<1>2. QED
  BY <1>1, Invariance, PTL
===============================================================================
