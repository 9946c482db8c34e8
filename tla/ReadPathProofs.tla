---------------------------- MODULE ReadPathProofs ----------------------------
(***************************************************************************)
(* Proofs about ReadPath: arena, circular queue and staging buffer stay    *)
(* inside their bounds and implement the sequences of frames of            *)
(* FrameStream, and an idle phone has been told of every packet that       *)
(* waits, as far as notifications do not fail.                             *)
(***************************************************************************)
EXTENDS ReadPath, SequenceTheorems, WellFoundedInduction, TLAPS

--------------------------------------------------------------------------------
\* Arithmetic of the circular queue, and the least element of a set.

\* Indices of the circular queue run around once at most.
LEMMA Wrap ==
  ASSUME NEW h \in 0..(QueueDepth - 1), NEW j \in 0..QueueDepth
  PROVE  (h + j) % QueueDepth = IF h + j < QueueDepth THEN h + j ELSE h + j - QueueDepth
<1>1. QueueDepth \in Nat \ {0}
  BY PathAssumption
<1>2. CASE h + j < QueueDepth
  BY <1>1, <1>2
<1>3. CASE ~(h + j < QueueDepth)
  BY <1>1, <1>3
<1>4. QED
  BY <1>2, <1>3

\* A set of naturals has a least element, and Least picks it.
LEMMA LeastPick ==
  ASSUME NEW S \in SUBSET Nat, S # {}
  PROVE  Least(S) \in S /\ \A j \in S : Least(S) <= j
<1> DEFINE less == OpToRel(<, Nat)
<1>1. PICK s \in S : \A t \in S : ~(<<t, s>> \in less)
  <2>1. IsWellFoundedOn(less, Nat)
    BY NatLessThanWellFounded, Zenon
  <2> HIDE DEF less
  <2>2. QED
    BY <2>1, WFMin, Zenon
<1>2. \A t \in S : ~(t < s)
  BY <1>1 DEF OpToRel
<1>3. \E i \in S : \A j \in S : i <= j
  BY <1>2
<1>4. QED
  BY <1>3, Zenon DEF Least

--------------------------------------------------------------------------------
\* Bytes in memory.

\* An array of n bytes.
Bytes(n) == [1..n -> Nat]

\* The bytes m + 1 to n of an array.
LEMMA Part ==
  ASSUME NEW N \in Nat, NEW a \in Bytes(N), NEW m \in Nat, NEW n \in Nat, m <= n, n <= N
  PROVE  /\ SubSeq(a, m + 1, n) \in Seq(Nat)
         /\ Len(SubSeq(a, m + 1, n)) = n - m
         /\ \A i \in 1..(n - m) : SubSeq(a, m + 1, n)[i] = a[m + i]
<1> DEFINE s == SubSeq(a, m + 1, n)
<1>1. \A i \in (m + 1)..n : a[i] \in Nat
  BY DEF Bytes
<1>2. /\ s \in Seq(Nat) /\ Len(s) = IF m + 1 <= n THEN n - (m + 1) + 1 ELSE 0
      /\ \A i \in 1..(n - (m + 1) + 1) : s[i] = a[(m + 1) + i - 1]
  <2>1. m + 1 \in Int /\ n \in Int
    OBVIOUS
  <2>2. QED
    BY <1>1, <2>1, SubSeqProperties
<1> HIDE DEF s
<1>3. Len(s) = n - m
  BY <1>2
<1>4. ASSUME NEW i \in 1..(n - m) PROVE s[i] = a[m + i]
  <2>1. i \in 1..(n - (m + 1) + 1) /\ (m + 1) + i - 1 = m + i
    OBVIOUS
  <2>2. QED
    BY <1>2, <2>1
<1>5. QED
  BY <1>2, <1>3, <1>4 DEF s

\* The first n bytes.
LEMMA Prefix ==
  ASSUME NEW N \in Nat, NEW a \in Bytes(N), NEW n \in Nat, n <= N
  PROVE  /\ SubSeq(a, 1, n) \in Seq(Nat)
         /\ Len(SubSeq(a, 1, n)) = n
         /\ \A i \in 1..n : SubSeq(a, 1, n)[i] = a[i]
<1> DEFINE s == SubSeq(a, 1, n)
<1>1. \A i \in 1..n : a[i] \in Nat
  BY DEF Bytes
<1>2. /\ s \in Seq(Nat) /\ Len(s) = IF 1 <= n THEN n - 1 + 1 ELSE 0
      /\ \A i \in 1..(n - 1 + 1) : s[i] = a[1 + i - 1]
  <2>1. 1 \in Int /\ n \in Int
    OBVIOUS
  <2>2. QED
    BY <1>1, <2>1, SubSeqProperties
<1> HIDE DEF s
<1>3. ASSUME NEW i \in 1..n PROVE s[i] = a[i]
  <2>1. i \in 1..(n - 1 + 1) /\ 1 + i - 1 = i
    OBVIOUS
  <2>2. QED
    BY <1>2, <2>1
<1>4. QED
  BY <1>2, <1>3 DEF s

\* Equal bytes give equal parts.
LEMMA SamePart ==
  ASSUME NEW N \in Nat, NEW a \in Bytes(N), NEW b \in Bytes(N),
         NEW m \in Nat, NEW n \in Nat, m <= n, n <= N,
         \A i \in (m + 1)..n : a[i] = b[i]
  PROVE  SubSeq(a, m + 1, n) = SubSeq(b, m + 1, n)
<1> DEFINE s == SubSeq(a, m + 1, n)
           t == SubSeq(b, m + 1, n)
<1>1. /\ s \in Seq(Nat) /\ Len(s) = n - m /\ \A i \in 1..(n - m) : s[i] = a[m + i]
      /\ t \in Seq(Nat) /\ Len(t) = n - m /\ \A i \in 1..(n - m) : t[i] = b[m + i]
  BY Part
<1>2. \A i \in 1..(n - m) : m + i \in (m + 1)..n
  OBVIOUS
<1> HIDE DEF s, t
<1>3. \A i \in 1..Len(s) : s[i] = t[i]
  BY <1>1, <1>2
<1>4. s = t
  BY <1>1, <1>3, SeqEqual
<1>5. QED
  BY <1>4 DEF s, t

\* Two adjacent parts.
LEMMA JoinParts ==
  ASSUME NEW N \in Nat, NEW a \in Bytes(N), NEW m \in Nat, NEW n \in Nat, m <= n, n <= N
  PROVE  SubSeq(a, 1, m) \o SubSeq(a, m + 1, n) = SubSeq(a, 1, n)
<1> DEFINE s == SubSeq(a, 1, m)
           t == SubSeq(a, m + 1, n)
           u == SubSeq(a, 1, n)
           st == s \o t
<1>1. /\ s \in Seq(Nat) /\ Len(s) = m /\ \A i \in 1..m : s[i] = a[i]
      /\ u \in Seq(Nat) /\ Len(u) = n /\ \A i \in 1..n : u[i] = a[i]
  <2>1. m <= N
    OBVIOUS
  <2>2. QED
    BY <2>1, Prefix
<1>2. t \in Seq(Nat) /\ Len(t) = n - m /\ \A i \in 1..(n - m) : t[i] = a[m + i]
  BY Part
<1> HIDE DEF s, t, u
<1>3. /\ st \in Seq(Nat) /\ Len(st) = n
      /\ \A i \in 1..n : st[i] = IF i <= m THEN s[i] ELSE t[i - m]
  <2>1. /\ s \o t \in Seq(Nat) /\ Len(s \o t) = Len(s) + Len(t)
        /\ \A i \in 1..(Len(s) + Len(t)) :
             (s \o t)[i] = IF i <= Len(s) THEN s[i] ELSE t[i - Len(s)]
    BY <1>1, <1>2, ConcatProperties, Zenon
  <2>2. Len(s) + Len(t) = n
    BY <1>1, <1>2
  <2>3. QED
    BY <1>1, <2>1, <2>2
<1> HIDE DEF st
<1>4. ASSUME NEW i \in 1..n PROVE st[i] = u[i]
  <2>1. CASE i <= m
    <3>1. i \in 1..m
      BY <2>1
    <3>2. QED
      BY <1>1, <1>3, <2>1, <3>1
  <2>2. CASE ~(i <= m)
    <3>1. i - m \in 1..(n - m) /\ m + (i - m) = i
      BY <2>2
    <3>2. QED
      BY <1>1, <1>2, <1>3, <2>2, <3>1
  <2>3. QED
    BY <2>1, <2>2
<1>5. st = u
  BY <1>1, <1>3, <1>4, SeqEqual
<1>6. QED
  BY <1>5 DEF st, s, t, u

\* memcpy puts the bytes where they belong and keeps those before them.
LEMMA CopiedOK ==
  ASSUME NEW N \in Nat, NEW a \in Bytes(N), NEW n \in Nat, NEW s \in Seq(Nat),
         n + Len(s) <= N
  PROVE  /\ Copied(a, n, s) \in Bytes(N)
         /\ SubSeq(Copied(a, n, s), n + 1, n + Len(s)) = s
         /\ \A i \in 1..n : Copied(a, n, s)[i] = a[i]
<1> DEFINE c == Copied(a, n, s)
           p == SubSeq(c, n + 1, n + Len(s))
<1>1. Len(s) \in Nat /\ DOMAIN a = 1..N /\ \A i \in 1..Len(s) : s[i] \in Nat
  BY DEF Bytes
<1>2. c = [i \in 1..N |-> IF i \in (n + 1)..(n + Len(s)) THEN s[i - n] ELSE a[i]]
  BY <1>1 DEF Copied
<1>3. ASSUME NEW i \in 1..N
      PROVE  (IF i \in (n + 1)..(n + Len(s)) THEN s[i - n] ELSE a[i]) \in Nat
  <2>1. i \in (n + 1)..(n + Len(s)) => i - n \in 1..Len(s)
    BY <1>1
  <2>2. QED
    BY <1>1, <2>1 DEF Bytes
<1>4. c \in Bytes(N)
  BY <1>2, <1>3 DEF Bytes
<1>5. ASSUME NEW i \in 1..n PROVE c[i] = a[i]
  <2>1. i \in 1..N /\ i \notin (n + 1)..(n + Len(s))
    BY <1>1
  <2>2. QED
    BY <1>2, <2>1
<1>6. ASSUME NEW i \in 1..Len(s) PROVE c[n + i] = s[i]
  <2>1. n + i \in 1..N /\ n + i \in (n + 1)..(n + Len(s)) /\ (n + i) - n = i
    BY <1>1
  <2>2. QED
    BY <1>2, <2>1
<1> HIDE DEF c
<1>7. /\ p \in Seq(Nat) /\ Len(p) = Len(s)
      /\ \A i \in 1..Len(s) : p[i] = c[n + i]
  <2>1. n + Len(s) \in Nat /\ n <= n + Len(s) /\ (n + Len(s)) - n = Len(s)
    BY <1>1
  <2>2. /\ p \in Seq(Nat) /\ Len(p) = (n + Len(s)) - n
        /\ \A i \in 1..((n + Len(s)) - n) : p[i] = c[n + i]
    BY <1>4, <2>1, Part
  <2>3. QED
    BY <2>1, <2>2
<1> HIDE DEF p
<1>8. p = s
  BY <1>6, <1>7, SeqEqual
<1>9. QED
  BY <1>4, <1>5, <1>8 DEF c, p

--------------------------------------------------------------------------------
\* The circular queue holds a sequence of packets.

Packet == [data : Bytes(MaxPacket), len : 0..MaxPacket]

\* n packets from slot h on, the next one goes to slot t.
Ring(q, h, t, n) ==
  /\ q \in [0..(QueueDepth - 1) -> Packet]
  /\ h \in 0..(QueueDepth - 1) /\ t \in 0..(QueueDepth - 1) /\ n \in 0..QueueDepth
  /\ t = (h + n) % QueueDepth
  /\ \A i \in 1..n : q[(h + i - 1) % QueueDepth].len >= 1

Content(e) == SubSeq(e.data, 1, e.len)

Packets(q, h, n) == [i \in 1..n |-> Content(q[(h + i - 1) % QueueDepth])]

\* The i-th slot from h on.
LEMMA Around ==
  ASSUME NEW h \in 0..(QueueDepth - 1), NEW n \in 0..QueueDepth, NEW i \in 1..n
  PROVE  /\ (h + i - 1) % QueueDepth = IF h + i - 1 < QueueDepth THEN h + i - 1
                                       ELSE h + i - 1 - QueueDepth
         /\ (h + i - 1) % QueueDepth \in 0..(QueueDepth - 1)
<1>1. QueueDepth \in Nat \ {0}
  BY PathAssumption
<1>2. i - 1 \in 0..QueueDepth /\ h + (i - 1) = h + i - 1 /\ i - 1 < QueueDepth
  BY <1>1
<1>3. (h + (i - 1)) % QueueDepth = IF h + (i - 1) < QueueDepth THEN h + (i - 1)
                                   ELSE h + (i - 1) - QueueDepth
  BY <1>2, Wrap
<1>4. (h + i - 1) % QueueDepth = IF h + i - 1 < QueueDepth THEN h + i - 1
                                 ELSE h + i - 1 - QueueDepth
  BY <1>1, <1>2, <1>3
<1>5. QED
  BY <1>1, <1>2, <1>4

\* What a slot holds.
LEMMA ContentOK ==
  ASSUME NEW e \in Packet
  PROVE  Content(e) \in Seq(Nat) /\ Len(Content(e)) = e.len /\ e.len \in 0..MaxPacket
<1>1. e.data \in Bytes(MaxPacket) /\ e.len \in Nat /\ e.len <= MaxPacket /\ MaxPacket \in Nat
  BY PathAssumption DEF Packet
<1>2. QED
  BY <1>1, Prefix DEF Content

LEMMA PacketsOK ==
  ASSUME NEW q, NEW h, NEW t, NEW n, Ring(q, h, t, n)
  PROVE  /\ Packets(q, h, n) \in Seq(Seq(Nat)) /\ Len(Packets(q, h, n)) = n
         /\ \A i \in 1..n : /\ (h + i - 1) % QueueDepth \in 0..(QueueDepth - 1)
                            /\ q[(h + i - 1) % QueueDepth] \in Packet
                            /\ Packets(q, h, n)[i] = Content(q[(h + i - 1) % QueueDepth])
<1>1. n \in Nat
  BY PathAssumption DEF Ring
<1>2. ASSUME NEW i \in 1..n
      PROVE  /\ (h + i - 1) % QueueDepth \in 0..(QueueDepth - 1)
             /\ q[(h + i - 1) % QueueDepth] \in Packet
             /\ Content(q[(h + i - 1) % QueueDepth]) \in Seq(Nat)
  <2>1. (h + i - 1) % QueueDepth \in 0..(QueueDepth - 1)
    BY Around DEF Ring
  <2>2. q[(h + i - 1) % QueueDepth] \in Packet
    BY <2>1 DEF Ring
  <2>3. QED
    BY <2>1, <2>2, ContentOK
<1>3. Packets(q, h, n) \in [1..n -> Seq(Nat)]
  BY <1>2 DEF Packets
<1>4. Packets(q, h, n) \in Seq(Seq(Nat)) /\ Len(Packets(q, h, n)) = n
  <2>1. Packets(q, h, n) \in Seq(Seq(Nat))
    BY <1>1, <1>3, SeqDef
  <2>2. DOMAIN Packets(q, h, n) = 1..Len(Packets(q, h, n)) /\ Len(Packets(q, h, n)) \in Nat
    BY <2>1, LenProperties
  <2>3. QED
    BY <1>1, <1>3, <2>1, <2>2
<1>5. QED
  BY <1>2, <1>4 DEF Packets

\* The same, as a relation between the sequence p and the slots.
Lists(p, q, h, n) ==
  /\ p \in Seq(Seq(Nat)) /\ Len(p) = n
  /\ \A i \in 1..n : p[i] = Content(q[(h + i - 1) % QueueDepth])

LEMMA PacketsListed ==
  ASSUME NEW q, NEW h, NEW t, NEW n, Ring(q, h, t, n)
  PROVE  Lists(Packets(q, h, n), q, h, n)
BY PacketsOK DEF Lists

\* ble_gatt_enqueue_fromradio: the packet goes behind those that wait.
Room(q, h, t, n, f) ==
  Ring(q, h, t, n) /\ n < QueueDepth /\ f \in Seq(Nat) /\ Len(f) \in 1..MaxPacket

Put(q, t, f) == [q EXCEPT ![t] = [data |-> Copied(@.data, 0, f), len |-> Len(f)]]

LEMMA RingAppend ==
  ASSUME NEW q, NEW h, NEW t, NEW n, NEW f, Room(q, h, t, n, f)
  PROVE  /\ Ring(Put(q, t, f), h, (t + 1) % QueueDepth, n + 1)
         /\ Packets(Put(q, t, f), h, n + 1) = Append(Packets(q, h, n), f)
<1> DEFINE D == QueueDepth
           new == Put(q, t, f)
           e == [data |-> Copied(q[t].data, 0, f), len |-> Len(f)]
           old == Packets(q, h, n)
           fresh == Packets(new, h, n + 1)
<1>1. /\ D \in Nat \ {0} /\ MaxPacket \in Nat /\ h \in 0..(D - 1) /\ t \in 0..(D - 1)
      /\ n \in 0..D /\ n + 1 \in 0..D /\ t = (h + n) % D
      /\ q \in [0..(D - 1) -> Packet] /\ f \in Seq(Nat) /\ Len(f) \in 1..MaxPacket
      /\ Ring(q, h, t, n)
  BY PathAssumption DEF Ring, Room
<1>2. q[t].data \in Bytes(MaxPacket) /\ Len(f) \in Nat /\ 0 + Len(f) <= MaxPacket
  BY <1>1 DEF Packet
<1>3. /\ Copied(q[t].data, 0, f) \in Bytes(MaxPacket)
      /\ SubSeq(Copied(q[t].data, 0, f), 0 + 1, 0 + Len(f)) = f
  BY <1>1, <1>2, CopiedOK
<1>4. e \in Packet /\ Content(e) = f /\ e.len = Len(f)
  <2>1. 0 + 1 = 1 /\ 0 + Len(f) = Len(f)
    BY <1>2
  <2>2. QED
    BY <1>1, <1>3, <2>1 DEF Packet, Content
<1> HIDE DEF e
<1>5. new = [q EXCEPT ![t] = e]
  BY DEF e, Put
<1> HIDE DEF new
<1>6. /\ new \in [0..(D - 1) -> Packet] /\ new[t] = e
      /\ \A i \in 0..(D - 1) : i # t => new[i] = q[i]
  BY <1>1, <1>4, <1>5
<1>7. t = IF h + n < D THEN h + n ELSE h + n - D
  BY <1>1, Wrap
<1>8. (t + 1) % D = (h + (n + 1)) % D /\ (t + 1) % D \in 0..(D - 1)
  <2> DEFINE x == (t + 1) % D
             y == (h + (n + 1)) % D
  <2>0. 1 \in 0..D
    BY <1>1
  <2>1. x = IF t + 1 < D THEN t + 1 ELSE t + 1 - D
    BY <1>1, <2>0, Wrap
  <2>2. y = IF h + (n + 1) < D THEN h + (n + 1) ELSE h + (n + 1) - D
    BY <1>1, Wrap
  <2> HIDE DEF x, y, D
  <2>3. x = y /\ x \in 0..(D - 1)
    <3>1. /\ D \in Nat \ {0} /\ h \in 0..(D - 1) /\ t \in 0..(D - 1) /\ n \in Nat
          /\ n + 1 \in 0..D
      BY <1>1
    <3>2. QED
      BY <1>7, <2>1, <2>2, <3>1
  <2>4. QED
    BY <2>3 DEF x, y
<1>9. ASSUME NEW i \in 1..n
      PROVE  (h + i - 1) % D \in 0..(D - 1) /\ new[(h + i - 1) % D] = q[(h + i - 1) % D]
  <2>1. /\ (h + i - 1) % D = IF h + i - 1 < D THEN h + i - 1 ELSE h + i - 1 - D
        /\ (h + i - 1) % D \in 0..(D - 1)
    BY <1>1, Around
  <2> DEFINE w == (h + i - 1) % D
  <2> HIDE DEF w, D
  <2>2. w # t
    <3>1. w = IF h + i - 1 < D THEN h + i - 1 ELSE h + i - 1 - D
      BY <2>1 DEF w
    <3>2. /\ D \in Nat \ {0} /\ h \in 0..(D - 1) /\ n \in Nat /\ n + 1 \in 0..D
      BY <1>1
    <3>3. QED
      BY <1>7, <3>1, <3>2
  <2>3. QED
    BY <1>6, <2>1, <2>2 DEF w
<1>10. new[(h + (n + 1) - 1) % D] = e
  <2>1. h + (n + 1) - 1 = h + n
    BY <1>1
  <2>2. QED
    BY <1>1, <1>6, <2>1
<1>11. ASSUME NEW i \in 1..(n + 1) PROVE i \in 1..n \/ i = n + 1
  BY <1>1
<1>12. Ring(new, h, (t + 1) % D, n + 1)
  <2>1. ASSUME NEW i \in 1..(n + 1) PROVE new[(h + i - 1) % D].len >= 1
    <3>1. CASE i \in 1..n
      BY <1>1, <1>9, <3>1 DEF Ring
    <3>2. CASE i = n + 1
      BY <1>1, <1>4, <1>10, <3>2
    <3>3. QED
      BY <1>11, <3>1, <3>2
  <2>2. QED
    BY <1>1, <1>6, <1>8, <2>1 DEF Ring
<1>13. /\ old \in Seq(Seq(Nat)) /\ Len(old) = n
       /\ \A i \in 1..n : old[i] = Content(q[(h + i - 1) % D])
  <2>1. Lists(old, q, h, n)
    BY <1>1, PacketsListed
  <2>2. QED
    BY <2>1 DEF Lists
<1>14. /\ fresh \in Seq(Seq(Nat)) /\ Len(fresh) = n + 1
       /\ \A i \in 1..(n + 1) : fresh[i] = Content(new[(h + i - 1) % D])
  <2>1. Lists(fresh, new, h, n + 1)
    BY <1>12, PacketsListed
  <2>2. QED
    BY <2>1 DEF Lists
<1> HIDE DEF old, fresh
<1>15. /\ Append(old, f) \in Seq(Seq(Nat)) /\ Len(Append(old, f)) = n + 1
       /\ Append(old, f)[n + 1] = f /\ \A i \in 1..n : Append(old, f)[i] = old[i]
  <2>1. f \in Seq(Nat) /\ old \in Seq(Seq(Nat)) /\ Len(old) = n /\ n \in Nat
    BY <1>1, <1>13
  <2>2. QED
    BY <2>1, AppendProperties
<1>16. ASSUME NEW i \in 1..(n + 1) PROVE fresh[i] = Append(old, f)[i]
  <2>1. CASE i \in 1..n
    BY <1>9, <1>13, <1>14, <1>15, <2>1
  <2>2. CASE i = n + 1
    BY <1>4, <1>10, <1>14, <1>15, <2>2
  <2>3. QED
    BY <1>11, <2>1, <2>2
<1>17. fresh = Append(old, f)
  BY <1>14, <1>15, <1>16, SeqEqual
<1>18. QED
  BY <1>12, <1>17 DEF old, fresh, new

\* fromradio_read: the first packet leaves the queue.
LEMMA RingTail ==
  ASSUME NEW q, NEW h, NEW t, NEW n, Ring(q, h, t, n), n > 0
  PROVE  /\ Ring(q, (h + 1) % QueueDepth, t, n - 1)
         /\ q[h] \in Packet /\ q[h].len >= 1
         /\ Packets(q, h, n) # <<>>
         /\ Head(Packets(q, h, n)) = Content(q[h])
         /\ Packets(q, (h + 1) % QueueDepth, n - 1) = Tail(Packets(q, h, n))
<1> DEFINE D == QueueDepth
           g == (h + 1) % D
           old == Packets(q, h, n)
           rest == Packets(q, g, n - 1)
<1>1. /\ D \in Nat \ {0} /\ h \in 0..(D - 1) /\ t \in 0..(D - 1)
      /\ n \in 1..D /\ n - 1 \in 0..D /\ t = (h + n) % D
      /\ q \in [0..(D - 1) -> Packet]
  BY PathAssumption DEF Ring
<1>2. g = IF h + 1 < D THEN h + 1 ELSE h + 1 - D
  BY <1>1, Wrap
<1>3. g \in 0..(D - 1)
  BY <1>1, <1>2
<1> HIDE DEF g
<1>4. t = (g + (n - 1)) % D
  <2>1. t = IF h + n < D THEN h + n ELSE h + n - D
    <3>1. n \in 0..D
      BY <1>1
    <3>2. QED
      BY <1>1, <3>1, Wrap
  <2>2. (g + (n - 1)) % D = IF g + (n - 1) < D THEN g + (n - 1) ELSE g + (n - 1) - D
    BY <1>1, <1>3, Wrap
  <2>3. QED
    BY <1>1, <1>2, <2>1, <2>2
<1>5. ASSUME NEW i \in 1..(n - 1)
      PROVE  i + 1 \in 1..n /\ (g + i - 1) % D = (h + (i + 1) - 1) % D
  <2>1. i + 1 \in 1..n
    BY <1>1
  <2>2. (g + i - 1) % D = IF g + i - 1 < D THEN g + i - 1 ELSE g + i - 1 - D
    BY <1>1, <1>3, Around
  <2>3. (h + (i + 1) - 1) % D = IF h + (i + 1) - 1 < D THEN h + (i + 1) - 1
                                ELSE h + (i + 1) - 1 - D
    BY <1>1, <2>1, Around
  <2>4. QED
    BY <1>1, <1>2, <2>1, <2>2, <2>3
<1>6. Ring(q, g, t, n - 1)
  <2>1. ASSUME NEW i \in 1..(n - 1) PROVE q[(g + i - 1) % D].len >= 1
    BY <1>5 DEF Ring
  <2>2. QED
    BY <1>1, <1>3, <1>4, <2>1 DEF Ring
<1>7. 1 \in 1..n /\ (h + 1 - 1) % D = h
  <2>1. (h + 1 - 1) % D = IF h + 1 - 1 < D THEN h + 1 - 1 ELSE h + 1 - 1 - D
    BY <1>1, Around
  <2>2. QED
    BY <1>1, <2>1
<1>8. q[h] \in Packet /\ q[h].len >= 1
  <2>1. q[(h + 1 - 1) % D].len >= 1
    BY <1>7 DEF Ring
  <2>2. QED
    BY <1>1, <1>7, <2>1
<1>9. /\ old \in Seq(Seq(Nat)) /\ Len(old) = n
      /\ \A i \in 1..n : old[i] = Content(q[(h + i - 1) % D])
  BY PacketsOK
<1>10. /\ rest \in Seq(Seq(Nat)) /\ Len(rest) = n - 1
       /\ \A i \in 1..(n - 1) : rest[i] = Content(q[(g + i - 1) % D])
  BY <1>6, PacketsOK
<1> HIDE DEF old, rest
<1>11. old # <<>> /\ Head(old) = old[1]
  BY <1>1, <1>9
<1>12. /\ Tail(old) \in Seq(Seq(Nat)) /\ Len(Tail(old)) = n - 1
       /\ \A i \in 1..(n - 1) : Tail(old)[i] = old[i + 1]
  BY <1>9, <1>11, HeadTailProperties
<1>13. Head(old) = Content(q[h])
  BY <1>7, <1>9, <1>11
<1>14. ASSUME NEW i \in 1..(n - 1) PROVE rest[i] = Tail(old)[i]
  <2>1. old[i + 1] = Content(q[(h + (i + 1) - 1) % D])
    BY <1>5, <1>9
  <2>2. QED
    BY <1>5, <1>10, <1>12, <2>1
<1>15. rest = Tail(old)
  BY <1>10, <1>12, <1>14, SeqEqual
<1>16. QED
  BY <1>6, <1>8, <1>11, <1>13, <1>15 DEF old, rest, g

--------------------------------------------------------------------------------
\* The arena holds the cached frames one behind the other.

IndexEntry == [offset : Nat, len : 1..MaxPacket, wanted : BOOLEAN]

LogEntry == [bytes : Seq(Nat), wanted : BOOLEAN]

Shape(arena, index, used) ==
  /\ arena \in Bytes(ArenaBytes) /\ used \in 0..ArenaBytes
  /\ index \in Seq(IndexEntry) /\ Len(index) <= MaxFrames
  /\ \A i \in 1..Len(index) : index[i].offset + index[i].len <= used

\* The frame that an entry of the index stands for.
Frame(arena, e) ==
  [bytes |-> SubSeq(arena, e.offset + 1, e.offset + e.len), wanted |-> e.wanted]

\* l is the sequence of the cached frames.
IsLog(l, arena, index) ==
  /\ l \in Seq(LogEntry) /\ Len(l) = Len(index)
  /\ \A i \in 1..Len(index) : l[i] = Frame(arena, index[i])

\* What an entry of the index stands for.
LEMMA FrameOK ==
  ASSUME NEW arena, NEW used, arena \in Bytes(ArenaBytes), used \in 0..ArenaBytes,
         NEW e \in IndexEntry, e.offset + e.len <= used
  PROVE  /\ Frame(arena, e) \in LogEntry
         /\ Len(Frame(arena, e).bytes) = e.len
         /\ e.len \in 1..MaxPacket
<1> DEFINE m == e.offset
           n == e.offset + e.len
           s == SubSeq(arena, m + 1, n)
<1>1. /\ ArenaBytes \in Nat /\ m \in Nat /\ n \in Nat /\ m <= n /\ n <= ArenaBytes
      /\ n - m = e.len /\ e.len \in 1..MaxPacket /\ e.wanted \in BOOLEAN
  BY PathAssumption DEF IndexEntry
<1>2. s \in Seq(Nat) /\ Len(s) = n - m
  <2> HIDE DEF m, n
  <2>1. QED
    BY <1>1, Part
<1>3. Frame(arena, e) = [bytes |-> s, wanted |-> e.wanted]
  BY DEF Frame
<1> HIDE DEF s
<1>4. Frame(arena, e) \in LogEntry /\ Frame(arena, e).bytes = s
  BY <1>1, <1>2, <1>3 DEF LogEntry
<1>5. QED
  BY <1>1, <1>2, <1>4

LEMMA CachedIsLog ==
  ASSUME NEW arena, NEW index, NEW used, Shape(arena, index, used)
  PROVE  IsLog([i \in 1..Len(index) |-> Frame(arena, index[i])], arena, index)
<1> DEFINE l == [i \in 1..Len(index) |-> Frame(arena, index[i])]
<1>1. Len(index) \in Nat /\ \A i \in 1..Len(index) : index[i] \in IndexEntry
  BY DEF Shape
<1>2. ASSUME NEW i \in 1..Len(index) PROVE Frame(arena, index[i]) \in LogEntry
  BY <1>1, FrameOK DEF Shape
<1>3. l \in [1..Len(index) -> LogEntry]
  BY <1>2
<1>4. l \in Seq(LogEntry)
  BY <1>1, <1>3, SeqDef
<1>5. Len(l) = Len(index)
  <2>1. DOMAIN l = 1..Len(l) /\ Len(l) \in Nat
    BY <1>4, LenProperties
  <2>2. DOMAIN l = 1..Len(index)
    OBVIOUS
  <2> HIDE DEF l
  <2>3. QED
    BY <1>1, <2>1, <2>2
<1>6. QED
  BY <1>4, <1>5 DEF IsLog

\* A log is determined by arena and index.
LEMMA OneLog ==
  ASSUME NEW arena, NEW index, index \in Seq(IndexEntry), NEW l, IsLog(l, arena, index),
         NEW k, IsLog(k, arena, index)
  PROVE  k = l
<1>1. /\ k \in Seq(LogEntry) /\ l \in Seq(LogEntry) /\ Len(k) = Len(l)
      /\ \A i \in 1..Len(k) : k[i] = l[i]
  BY DEF IsLog
<1>2. QED
  BY <1>1, SeqEqual

\* cache_add_frame: the frame goes behind those that are cached.
Adds(arena, index, used, l, f, e, g) ==
  /\ Shape(arena, index, used) /\ IsLog(l, arena, index)
  /\ f \in Seq(Nat) /\ Len(f) \in 1..MaxPacket
  /\ Len(index) < MaxFrames /\ used + Len(f) <= ArenaBytes
  /\ e \in IndexEntry /\ e.offset = used /\ e.len = Len(f)
  /\ g \in LogEntry /\ g = [bytes |-> f, wanted |-> e.wanted]

LEMMA ShapeAppend ==
  ASSUME NEW arena, NEW index, NEW used, NEW l, NEW f, NEW e, NEW g,
         Adds(arena, index, used, l, f, e, g)
  PROVE  /\ Shape(Copied(arena, used, f), Append(index, e), used + Len(f))
         /\ IsLog(Append(l, g), Copied(arena, used, f), Append(index, e))
<1> DEFINE N == Len(index)
           k == Append(l, g)
           full == Copied(arena, used, f)
           more == Append(index, e)
<1>1. /\ ArenaBytes \in Nat /\ MaxFrames \in Nat /\ used \in Nat /\ Len(f) \in Nat
      /\ arena \in Bytes(ArenaBytes) /\ index \in Seq(IndexEntry) /\ N \in Nat
      /\ f \in Seq(Nat) /\ used + Len(f) <= ArenaBytes /\ N < MaxFrames
      /\ e \in IndexEntry /\ e.offset = used /\ e.len = Len(f)
      /\ g \in LogEntry /\ g = [bytes |-> f, wanted |-> e.wanted]
      /\ \A i \in 1..N : index[i] \in IndexEntry
  BY PathAssumption DEF Adds, Shape
<1>2. Frame(full, e) = [bytes |-> SubSeq(full, used + 1, used + Len(f)), wanted |-> e.wanted]
  BY <1>1 DEF Frame
<1>3. /\ full \in Bytes(ArenaBytes)
      /\ SubSeq(full, used + 1, used + Len(f)) = f
      /\ \A i \in 1..used : full[i] = arena[i]
  <2>1. /\ ArenaBytes \in Nat /\ used \in Nat /\ arena \in Bytes(ArenaBytes)
        /\ f \in Seq(Nat) /\ used + Len(f) <= ArenaBytes
    BY <1>1
  <2>2. QED
    BY <2>1, CopiedOK
<1>4. Frame(full, e) = g
  BY <1>1, <1>2, <1>3
<1> HIDE DEF full
<1>5. /\ more \in Seq(IndexEntry) /\ Len(more) = N + 1 /\ more[N + 1] = e
      /\ \A i \in 1..N : more[i] = index[i]
  BY <1>1, AppendProperties
<1>6. /\ k \in Seq(LogEntry) /\ Len(k) = N + 1 /\ k[N + 1] = g
      /\ \A i \in 1..N : k[i] = l[i] /\ l[i] = Frame(arena, index[i])
  <2>1. /\ l \in Seq(LogEntry) /\ Len(l) = N
        /\ \A i \in 1..N : l[i] = Frame(arena, index[i])
    BY DEF IsLog, Adds
  <2>2. /\ Append(l, g) \in Seq(LogEntry) /\ Len(Append(l, g)) = Len(l) + 1
        /\ \A i \in 1..Len(l) : Append(l, g)[i] = l[i]
        /\ Append(l, g)[Len(l) + 1] = g
    BY <1>1, <2>1, AppendProperties
  <2> HIDE DEF k
  <2>3. QED
    BY <2>1, <2>2 DEF k
<1> HIDE DEF k, more
<1>7. ASSUME NEW i \in 1..N PROVE Frame(full, index[i]) = Frame(arena, index[i])
  <2> DEFINE x == index[i].offset
             y == index[i].offset + index[i].len
  <2>1. x \in Nat /\ y \in Nat /\ x <= y /\ y <= used /\ y <= ArenaBytes
    <3>1. index[i] \in IndexEntry /\ index[i].offset + index[i].len <= used /\ used <= ArenaBytes
      BY <1>1 DEF Adds, Shape
    <3>2. index[i].offset \in Nat /\ index[i].len \in Nat
      BY <3>1, PathAssumption DEF IndexEntry
    <3>3. QED
      BY <1>1, <3>1, <3>2
  <2> HIDE DEF x, y
  <2>2. \A j \in (x + 1)..y : j \in 1..used
    BY <1>1, <2>1
  <2>3. SubSeq(full, x + 1, y) = SubSeq(arena, x + 1, y)
    BY <1>1, <1>3, <2>1, <2>2, SamePart
  <2>4. QED
    BY <2>3 DEF Frame, x, y
<1>8. ASSUME NEW i \in 1..(N + 1) PROVE i \in 1..N \/ i = N + 1
  BY <1>1
<1>9. Shape(full, more, used + Len(f))
  <2>1. ASSUME NEW i \in 1..(N + 1) PROVE more[i].offset + more[i].len <= used + Len(f)
    <3>1. CASE i \in 1..N
      <4>1. index[i].offset + index[i].len <= used /\ index[i] \in IndexEntry
        BY <1>1, <3>1 DEF Adds, Shape
      <4>2. QED
        <5>1. index[i].offset \in Nat /\ index[i].len \in Nat
          BY <4>1, PathAssumption DEF IndexEntry
        <5>2. more[i] = index[i] /\ used \in Nat /\ Len(f) \in Nat
          BY <1>1, <1>5, <3>1
        <5>3. QED
          BY <4>1, <5>1, <5>2
    <3>2. CASE i = N + 1
      BY <1>1, <1>5, <3>2
    <3>3. QED
      BY <1>8, <3>1, <3>2
  <2>2. used + Len(f) \in 0..ArenaBytes /\ N + 1 <= MaxFrames
    BY <1>1
  <2>3. QED
    BY <1>3, <1>5, <2>1, <2>2 DEF Shape
<1>10. IsLog(k, full, more)
  <2>1. ASSUME NEW i \in 1..(N + 1) PROVE k[i] = Frame(full, more[i])
    <3>1. CASE i \in 1..N
      BY <1>5, <1>6, <1>7, <3>1
    <3>2. CASE i = N + 1
      BY <1>4, <1>5, <1>6, <3>2
    <3>3. QED
      BY <1>8, <3>1, <3>2
  <2>2. QED
    BY <1>5, <1>6, <2>1 DEF IsLog
<1>11. QED
  BY <1>9, <1>10 DEF k, full, more

--------------------------------------------------------------------------------
\* The inductive invariant.

Reader == [draining : BOOLEAN, buffer : Seq(Nat), whole : BOOLEAN, rx : Seq(Nat)]

\* What the staging buffer holds, and how much of it the phone has read: a long read is
\* always the front of the packet it began with.
Staging(s, n, p) ==
  /\ s \in Bytes(MaxPacket) /\ n \in 0..MaxPacket
  /\ p \in Reader
  /\ Len(p.buffer) <= n /\ p.buffer = SubSeq(s, 1, Len(p.buffer))
  /\ p.whole => n > 0 /\ Len(p.buffer) = n

Session ==
  /\ s_ready \in BOOLEAN
  /\ state \in {"CONNECTED", "REPLAYING", "ACTIVE"}
  /\ replay_cursor \in 0..(Len(s_index) + 1)
  /\ due \in Nat /\ untold \in Nat /\ inputs \in Nat

Inv ==
  /\ Shape(s_arena, s_index, s_used)
  /\ Ring(queue, head, tail, count)
  /\ Staging(staged, staged_len, phone)
  /\ Session
  /\ IdleOnlyIfUntold

--------------------------------------------------------------------------------
\* Staging and reading.

\* A packet is copied to the staging buffer.
LEMMA StageOK ==
  ASSUME NEW a \in Bytes(MaxPacket), NEW s \in Seq(Nat), Len(s) \in 1..MaxPacket,
         NEW b, b = Copied(a, 0, s)
  PROVE  b \in Bytes(MaxPacket) /\ SubSeq(b, 1, Len(s)) = s
<1>1. MaxPacket \in Nat /\ Len(s) \in Nat /\ 0 + Len(s) <= MaxPacket
  BY PathAssumption
<1>2. b \in Bytes(MaxPacket) /\ SubSeq(b, 0 + 1, 0 + Len(s)) = s
  BY <1>1, CopiedOK
<1>3. 0 + 1 = 1 /\ 0 + Len(s) = Len(s)
  BY <1>1
<1>4. QED
  BY <1>2, <1>3

\* A phone that has nothing of a packet yet may find any packet staged.
LEMMA AnyStaged ==
  ASSUME NEW p \in Reader, p.buffer = <<>>, p.whole = FALSE,
         NEW s \in Bytes(MaxPacket), NEW n \in 0..MaxPacket
  PROVE  Staging(s, n, p)
<1>1. MaxPacket \in Nat /\ 0 \in Nat /\ 0 <= MaxPacket
  BY PathAssumption
<1>2. SubSeq(s, 1, 0) \in Seq(Nat) /\ Len(SubSeq(s, 1, 0)) = 0
  BY <1>1, Prefix
<1>3. SubSeq(s, 1, 0) = <<>>
  BY <1>2, EmptySeq
<1>4. Len(<<>>) = 0
  OBVIOUS
<1>5. Len(p.buffer) = 0 /\ 0 <= n
  BY <1>4
<1>6. QED
  BY <1>3, <1>5 DEF Staging

\* What a response to a read at offset o holds.
Answer(s, n, o) == SubSeq(s, o + 1, IF o + Chunk <= n THEN o + Chunk ELSE n)

Continues(s, n, o, r) ==
  /\ r \in Seq(Nat)
  /\ SubSeq(s, 1, o) \o r = SubSeq(s, 1, o + Len(r))
  /\ o + Len(r) <= n
  /\ Len(r) < Chunk => o + Len(r) = n
  /\ o < n => Len(r) > 0

\* The response is the next part of what is staged, and only the last one is short.
LEMMA AnswerOK ==
  ASSUME NEW s \in Bytes(MaxPacket), NEW n \in 0..MaxPacket, NEW o \in Nat, o <= n,
         NEW r, r = Answer(s, n, o)
  PROVE  Continues(s, n, o, r)
<1> DEFINE m == IF o + Chunk <= n THEN o + Chunk ELSE n
<1>1. MaxPacket \in Nat /\ Chunk \in Nat \ {0} /\ n \in Nat /\ n <= MaxPacket
  BY PathAssumption
<1>2. m \in Nat /\ o <= m /\ m <= n /\ m <= MaxPacket /\ (o < n => o < m)
  BY <1>1
<1>3. m - o < Chunk => m = n
  BY <1>1
<1>4. r = SubSeq(s, o + 1, m)
  BY DEF Answer
<1> HIDE DEF m
<1>5. r \in Seq(Nat) /\ Len(r) \in Nat /\ m = o + Len(r)
  <2>1. Len(SubSeq(s, o + 1, m)) = m - o
    BY <1>1, <1>2, Part
  <2>2. SubSeq(s, o + 1, m) \in Seq(Nat)
    BY <1>1, <1>2, Part
  <2>3. r \in Seq(Nat) /\ Len(r) = m - o
    BY <1>4, <2>1, <2>2
  <2>4. QED
    BY <1>2, <2>3
<1>6. SubSeq(s, 1, o) \o r = SubSeq(s, 1, m)
  BY <1>1, <1>2, <1>4, JoinParts
<1>7. QED
  BY <1>1, <1>2, <1>3, <1>5, <1>6 DEF Continues

LEMMA ReaderFields ==
  ASSUME NEW p \in Reader, NEW d \in BOOLEAN, NEW b \in Seq(Nat), NEW w \in BOOLEAN,
         NEW q, q = [p EXCEPT !.draining = d, !.buffer = b, !.whole = w]
  PROVE  /\ q \in Reader /\ q.draining = d /\ q.buffer = b /\ q.whole = w /\ q.rx = p.rx
BY DEF Reader

\* fromradio_read, seen from the phone: it goes on with the packet it has begun, and it
\* goes on draining if there is one.
LEMMA ReadOK ==
  ASSUME NEW s, NEW n, NEW p, Staging(s, n, p), p.whole = FALSE,
         NEW r, r = Answer(s, n, Len(p.buffer)),
         NEW q \in Reader, q.buffer = p.buffer \o r,
         q.draining <=> Len(p.buffer) > 0 \/ r # <<>>,
         q.whole <=> Len(r) < Chunk /\ (Len(p.buffer) > 0 \/ r # <<>>)
  PROVE  Staging(s, n, q) /\ (n > 0 => q.draining)
<1> DEFINE o == Len(p.buffer)
<1>1. /\ MaxPacket \in Nat /\ s \in Bytes(MaxPacket) /\ n \in 0..MaxPacket /\ n \in Nat
      /\ p \in Reader /\ p.buffer \in Seq(Nat) /\ p.rx \in Seq(Nat)
      /\ o \in Nat /\ o <= n /\ p.buffer = SubSeq(s, 1, o)
  BY PathAssumption DEF Staging, Reader
<1>2. /\ r \in Seq(Nat) /\ Len(r) \in Nat
      /\ SubSeq(s, 1, o) \o r = SubSeq(s, 1, o + Len(r))
      /\ o + Len(r) <= n
      /\ Len(r) < Chunk => o + Len(r) = n
      /\ o < n => Len(r) > 0
  <2>1. Continues(s, n, o, r)
    BY <1>1, AnswerOK
  <2>2. r \in Seq(Nat)
    BY <2>1, Zenon DEF Continues
  <2>3. Len(r) \in Nat
    BY <2>2, LenProperties
  <2>4. QED
    BY <2>1, <2>2, <2>3, Zenon DEF Continues
<1>3. p.buffer \o r \in Seq(Nat) /\ Len(p.buffer \o r) = o + Len(r)
  BY <1>1, <1>2, ConcatProperties
<1>4. r = <<>> <=> Len(r) = 0
  BY <1>2, EmptySeq
<1>5. n > 0 => q.draining
  BY <1>1, <1>2, <1>4
<1>6. ASSUME q.whole PROVE n > 0 /\ o + Len(r) = n
  <2>1. Len(r) < Chunk /\ (o > 0 \/ r # <<>>)
    BY <1>6
  <2>2. o + Len(r) = n
    BY <1>2, <2>1
  <2>3. o > 0 \/ Len(r) > 0
    BY <1>2, <1>4, <2>1
  <2> HIDE DEF o
  <2>4. QED
    BY <1>1, <1>2, <2>2, <2>3
<1>7. q.buffer = SubSeq(s, 1, Len(q.buffer))
  BY <1>1, <1>2, <1>3
<1>8. Len(q.buffer) <= n /\ (q.whole => n > 0 /\ Len(q.buffer) = n)
  BY <1>2, <1>3, <1>6
<1>9. QED
  BY <1>1, <1>5, <1>7, <1>8 DEF Staging

--------------------------------------------------------------------------------
\* What a read at offset 0 stages.

LEMMA StageReady ==
  ASSUME Inv, NEW s \in Seq(Nat), Len(s) \in 1..MaxPacket, Stage(s)
  PROVE  staged' \in Bytes(MaxPacket) /\ staged_len' \in 1..MaxPacket /\ InHand' = s
<1>1. staged \in Bytes(MaxPacket) /\ staged' = Copied(staged, 0, s) /\ staged_len' = Len(s)
  BY DEF Inv, Staging, Stage
<1>2. staged' \in Bytes(MaxPacket) /\ SubSeq(staged', 1, Len(s)) = s
  BY <1>1, StageOK
<1>3. QED
  BY <1>1, <1>2 DEF InHand

LEMMA CompleteStaged ==
  ASSUME Inv, StageComplete
  PROVE  staged' \in Bytes(MaxPacket) /\ staged_len' \in 1..MaxPacket /\ InHand' = Complete
BY StageReady, PathAssumption DEF StageComplete

LEMMA CachedStaged ==
  ASSUME Inv, StageCached
  PROVE  /\ staged' \in Bytes(MaxPacket) /\ staged_len' \in 1..MaxPacket
         /\ Least(Remaining) \in Remaining /\ Least(Remaining) \in 1..Len(s_index)
         /\ \A j \in Remaining : Least(Remaining) <= j
         /\ InHand' = CachedBytes(Least(Remaining))
<1> DEFINE k == Least(Remaining)
<1>1. Shape(s_arena, s_index, s_used) /\ Len(s_index) \in Nat /\ replay_cursor \in Nat
  BY DEF Inv, Session, Shape
<1>2. Remaining \in SUBSET Nat /\ Remaining # {} /\ \A j \in Remaining : j \in 1..Len(s_index)
  BY <1>1 DEF Remaining, StageCached
<1>3. k \in Remaining /\ \A j \in Remaining : k <= j
  BY <1>2, LeastPick
<1> HIDE DEF k
<1>4. k \in 1..Len(s_index)
  BY <1>2, <1>3
<1>5. /\ s_arena \in Bytes(ArenaBytes) /\ s_used \in 0..ArenaBytes
      /\ s_index[k] \in IndexEntry /\ s_index[k].offset + s_index[k].len <= s_used
  BY <1>1, <1>4 DEF Shape
<1>6. CachedBytes(k) = Frame(s_arena, s_index[k]).bytes
  BY DEF CachedBytes, Frame
<1>7. CachedBytes(k) \in Seq(Nat) /\ Len(CachedBytes(k)) \in 1..MaxPacket
  <2>1. /\ Frame(s_arena, s_index[k]) \in LogEntry
        /\ Len(Frame(s_arena, s_index[k]).bytes) = s_index[k].len
        /\ s_index[k].len \in 1..MaxPacket
    BY <1>5, FrameOK
  <2>2. Frame(s_arena, s_index[k]).bytes \in Seq(Nat)
    BY <2>1 DEF LogEntry
  <2>3. QED
    BY <1>6, <2>1, <2>2
<1>8. Stage(CachedBytes(k))
  BY DEF StageCached, k
<1>9. QED
  BY <1>3, <1>4, <1>7, <1>8, StageReady DEF k

LEMMA QueuedStaged ==
  ASSUME Inv, StageQueued
  PROVE  /\ staged' \in Bytes(MaxPacket) /\ staged_len' \in 1..MaxPacket
         /\ InHand' = Content(queue[head])
         /\ Ring(queue, head', tail, count')
<1>1. Ring(queue, head, tail, count) /\ count > 0
  BY DEF Inv, StageQueued
<1>2. /\ Ring(queue, (head + 1) % QueueDepth, tail, count - 1)
      /\ queue[head] \in Packet /\ queue[head].len >= 1
  BY <1>1, RingTail
<1>3. Content(queue[head]) \in Seq(Nat) /\ Len(Content(queue[head])) \in 1..MaxPacket
  BY <1>2, ContentOK, PathAssumption
<1>4. Stage(Content(queue[head]))
  BY DEF StageQueued, Content
<1>5. QED
  BY <1>2, <1>3, <1>4, StageReady DEF StageQueued

\* At the end of a replay or of the queue nothing is staged.
LEMMA NothingStaged ==
  ASSUME Inv, GoActive \/ StageNothing
  PROVE  /\ staged' \in Bytes(MaxPacket) /\ staged_len' = 0
         /\ InHand' = <<>>
<1>1. staged' = staged /\ staged_len' = 0 /\ staged \in Bytes(MaxPacket)
  BY DEF Inv, Staging, GoActive, StageNothing
<1>2. MaxPacket \in Nat /\ 0 \in Nat /\ 0 <= MaxPacket
  BY PathAssumption
<1>3. SubSeq(staged, 1, 0) \in Seq(Nat) /\ Len(SubSeq(staged, 1, 0)) = 0
  BY <1>1, <1>2, Prefix
<1>4. SubSeq(staged, 1, 0) = <<>>
  BY <1>3, EmptySeq
<1>5. QED
  BY <1>1, <1>4 DEF InHand

\* The packet that is staged is not empty, unless there is none.
LEMMA StageForOK ==
  ASSUME Inv, StageFor(0)
  PROVE  /\ staged' \in Bytes(MaxPacket) /\ staged_len' \in 0..MaxPacket
         /\ Ring(queue, head', tail, count')
         /\ state' \in {"CONNECTED", "REPLAYING", "ACTIVE"}
         /\ replay_cursor' \in 0..(Len(s_index) + 1)
         /\ staged_len' = 0 => IF state = "REPLAYING" THEN count' = count ELSE count' = 0
<1>1. /\ MaxPacket \in Nat /\ Len(s_index) \in Nat /\ Ring(queue, head, tail, count)
      /\ state \in {"CONNECTED", "REPLAYING", "ACTIVE"}
      /\ replay_cursor \in 0..(Len(s_index) + 1)
  BY PathAssumption DEF Inv, Session, Shape
<1>2. CASE StageCached
  <2>1. head' = head /\ count' = count /\ state' = state /\ replay_cursor' = Least(Remaining)
    BY <1>2 DEF StageCached
  <2>2. /\ staged' \in Bytes(MaxPacket) /\ staged_len' \in 1..MaxPacket
        /\ Least(Remaining) \in 1..Len(s_index)
    BY <1>2, CachedStaged
  <2>3. QED
    BY <1>1, <2>1, <2>2
<1>3. CASE StageComplete
  <2>1. head' = head /\ count' = count /\ state' = state /\ replay_cursor' = Len(s_index) + 1
    BY <1>3 DEF StageComplete
  <2>2. staged' \in Bytes(MaxPacket) /\ staged_len' \in 1..MaxPacket
    BY <1>3, CompleteStaged
  <2>3. QED
    BY <1>1, <2>1, <2>2
<1>4. CASE GoActive
  <2>1. /\ head' = head /\ count' = count /\ state = "REPLAYING" /\ state' = "ACTIVE"
        /\ replay_cursor' = replay_cursor
    BY <1>4 DEF GoActive
  <2>2. staged' \in Bytes(MaxPacket) /\ staged_len' = 0
    BY <1>4, NothingStaged
  <2>3. QED
    BY <1>1, <2>1, <2>2
<1>5. CASE StageQueued
  <2>1. state' = state /\ replay_cursor' = replay_cursor
    BY <1>5 DEF StageQueued
  <2>2. /\ staged' \in Bytes(MaxPacket) /\ staged_len' \in 1..MaxPacket
        /\ Ring(queue, head', tail, count')
    BY <1>5, QueuedStaged
  <2>3. QED
    BY <1>1, <2>1, <2>2
<1>6. CASE StageNothing
  <2>1. /\ head' = head /\ count' = count /\ count = 0 /\ state # "REPLAYING"
        /\ state' = state /\ replay_cursor' = replay_cursor
    BY <1>6 DEF StageNothing
  <2>2. staged' \in Bytes(MaxPacket) /\ staged_len' = 0
    BY <1>6, NothingStaged
  <2>3. QED
    BY <1>1, <2>1, <2>2
<1>7. QED
  BY <1>2, <1>3, <1>4, <1>5, <1>6 DEF StageFor

--------------------------------------------------------------------------------
\* The invariant holds.

LEMMA BlankOK ==
  ASSUME NEW n \in Nat
  PROVE  Blank(n) \in Bytes(n)
BY DEF Blank, Bytes

LEMMA InitInv == Init => Inv
<1> SUFFICES ASSUME Init PROVE Inv
  OBVIOUS
<1>1. /\ ArenaBytes \in Nat /\ MaxFrames \in Nat /\ MaxPacket \in Nat /\ QueueDepth \in Nat \ {0}
  BY PathAssumption
<1>2. Shape(s_arena, s_index, s_used)
  <2>1. s_arena \in Bytes(ArenaBytes) /\ s_index = <<>> /\ s_used = 0
    BY <1>1, BlankOK DEF Init
  <2>2. s_index \in Seq(IndexEntry) /\ Len(s_index) = 0
    BY <2>1
  <2>3. QED
    BY <1>1, <2>1, <2>2 DEF Shape
<1>3. Ring(queue, head, tail, count)
  <2>1. head = 0 /\ tail = 0 /\ count = 0
    BY DEF Init
  <2>2. [data |-> Blank(MaxPacket), len |-> 0] \in Packet
    BY <1>1, BlankOK DEF Packet
  <2>3. queue \in [0..(QueueDepth - 1) -> Packet]
    BY <2>2 DEF Init
  <2>4. (0 + 0) % QueueDepth = 0
    BY <1>1
  <2>5. QED
    BY <1>1, <2>1, <2>3, <2>4 DEF Ring
<1>4. Staging(staged, staged_len, phone)
  <2>1. phone \in Reader /\ phone.buffer = <<>> /\ phone.whole = FALSE
    BY DEF Init, IdlePhone, Reader
  <2>2. staged \in Bytes(MaxPacket) /\ staged_len \in 0..MaxPacket
    BY <1>1, BlankOK DEF Init
  <2>3. QED
    BY <2>1, <2>2, AnyStaged
<1>5. Session
  <2>1. Len(s_index) = 0
    BY DEF Init
  <2>2. s_ready \in BOOLEAN
    BY DEF Init
  <2>3. state \in {"CONNECTED", "REPLAYING", "ACTIVE"} /\ replay_cursor \in 0..(Len(s_index) + 1)
    BY <2>1 DEF Init
  <2>4. due \in Nat /\ untold \in Nat /\ inputs \in Nat
    BY DEF Init
  <2>5. QED
    BY <2>2, <2>3, <2>4 DEF Session
<1>6. IdleOnlyIfUntold
  BY DEF Init, IdleOnlyIfUntold
<1>7. QED
  BY <1>2, <1>3, <1>4, <1>5, <1>6 DEF Inv

\* The frames of the node are packets.
LEMMA FrameIsPacket ==
  ASSUME NEW f \in Frames
  PROVE  f \in Seq(Nat) /\ Len(f) \in 1..MaxPacket
BY PathAssumption

LEMMA AddInv ==
  ASSUME Inv, NEW f \in Frames, NEW wanted \in BOOLEAN, cache_add_frame(f, wanted)
  PROVE  Inv'
<1>1. /\ s_ready' = s_ready /\ inputs' = inputs + 1 /\ UNCHANGED <<queueVars, stageVars>>
      /\ UNCHANGED sessionVars /\ due' = due /\ phone' = phone /\ untold' = untold
  BY DEF cache_add_frame, Input
<1>2. /\ Len(s_index) < MaxFrames /\ s_used + Len(f) <= ArenaBytes
      /\ s_arena' = Copied(s_arena, s_used, f) /\ s_used' = s_used + Len(f)
      /\ s_index' = Append(s_index, [offset |-> s_used, len |-> Len(f), wanted |-> wanted])
  BY DEF cache_add_frame, Fits
<1>3. f \in Seq(Nat) /\ Len(f) \in 1..MaxPacket
  BY FrameIsPacket
<1>4. Shape(s_arena, s_index, s_used) /\ s_index \in Seq(IndexEntry)
  BY DEF Inv, Shape
<1>5. PICK l : IsLog(l, s_arena, s_index)
  BY <1>4, CachedIsLog
<1>6. Shape(s_arena', s_index', s_used')
  <2>1. PICK e, g : /\ e = [offset |-> s_used, len |-> Len(f), wanted |-> wanted]
                    /\ g = [bytes |-> f, wanted |-> wanted]
    OBVIOUS
  <2>2. e \in IndexEntry /\ e.offset = s_used /\ e.len = Len(f) /\ s_index' = Append(s_index, e)
    BY <1>2, <1>3, <1>4, <2>1, PathAssumption DEF IndexEntry, Shape
  <2>3. g \in LogEntry /\ g = [bytes |-> f, wanted |-> e.wanted]
    BY <1>3, <2>1 DEF LogEntry
  <2>4. Adds(s_arena, s_index, s_used, l, f, e, g)
    BY <1>2, <1>3, <1>4, <1>5, <2>2, <2>3 DEF Adds
  <2>5. Shape(Copied(s_arena, s_used, f), Append(s_index, e), s_used + Len(f))
    BY <2>4, ShapeAppend
  <2>6. QED
    BY <1>2, <2>2, <2>5
<1>7. Len(s_index') = Len(s_index) + 1 /\ Len(s_index) \in Nat
  BY <1>2, <1>4
<1>8. Session'
  BY <1>1, <1>7 DEF Inv, Session, sessionVars
<1>9. QED
  BY <1>1, <1>6, <1>8 DEF Inv, IdleOnlyIfUntold, queueVars, stageVars

LEMMA EnqueueInv ==
  ASSUME Inv, NEW f \in Frames, ble_gatt_enqueue_fromradio(f)
  PROVE  Inv'
<1>1. /\ UNCHANGED <<cacheVars, head, stageVars, sessionVars, phone, untold>>
      /\ inputs' = inputs + 1 /\ due' = due + 1 /\ count' = count + 1
      /\ tail' = (tail + 1) % QueueDepth /\ count < QueueDepth
      /\ queue' = [queue EXCEPT ![tail] = [data |-> Copied(@.data, 0, f), len |-> Len(f)]]
  BY DEF ble_gatt_enqueue_fromradio, Input
<1>2. f \in Seq(Nat) /\ Len(f) \in 1..MaxPacket
  BY FrameIsPacket
<1>3. Ring(queue, head, tail, count) /\ count \in Nat
  BY PathAssumption DEF Inv, Ring
<1>4. Ring(Put(queue, tail, f), head, (tail + 1) % QueueDepth, count + 1)
  <2>1. Room(queue, head, tail, count, f)
    BY <1>1, <1>2, <1>3 DEF Room
  <2>2. QED
    BY <2>1, RingAppend
<1>5. Ring(queue', head', tail', count')
  BY <1>1, <1>4 DEF Put
<1>6. IdleOnlyIfUntold'
  BY <1>1, <1>3 DEF Inv, Session, IdleOnlyIfUntold
<1>7. Session'
  BY <1>1 DEF Inv, Session, sessionVars, cacheVars
<1>8. QED
  BY <1>1, <1>5, <1>6, <1>7 DEF Inv, cacheVars, stageVars

LEMMA ReconnectInv ==
  ASSUME Inv, Reconnect
  PROVE  Inv'
<1>1. /\ UNCHANGED <<cacheVars, queue, staged>> /\ inputs' = inputs + 1
      /\ head' = 0 /\ tail' = 0 /\ count' = 0 /\ staged_len' = 0
      /\ state' = "CONNECTED" /\ replay_cursor' = 0
      /\ due' = 0 /\ phone' = IdlePhone /\ untold' = 0
  BY DEF Reconnect, Input
<1>2. /\ MaxPacket \in Nat /\ QueueDepth \in Nat \ {0} /\ Len(s_index) \in Nat
      /\ queue \in [0..(QueueDepth - 1) -> Packet] /\ staged \in Bytes(MaxPacket)
  BY PathAssumption DEF Inv, Ring, Staging, Shape
<1>3. Ring(queue', head', tail', count')
  <2>1. (0 + 0) % QueueDepth = 0
    BY <1>2
  <2>2. QED
    BY <1>1, <1>2, <2>1 DEF Ring
<1>4. Staging(staged', staged_len', phone')
  <2>1. IdlePhone \in Reader /\ IdlePhone.buffer = <<>> /\ IdlePhone.whole = FALSE
    BY DEF IdlePhone, Reader
  <2>2. QED
    BY <1>1, <1>2, <2>1, AnyStaged
<1>5. Session'
  BY <1>1, <1>2 DEF Inv, Session, cacheVars
<1>6. IdleOnlyIfUntold'
  BY <1>1 DEF IdleOnlyIfUntold
<1>7. QED
  BY <1>1, <1>3, <1>4, <1>5, <1>6 DEF Inv, cacheVars

LEMMA ReadInv ==
  ASSUME Inv, fromradio_read
  PROVE  Inv'
<1> DEFINE o == Len(phone.buffer)
           r == Answer(staged', staged_len', o)
           more == (o > 0 \/ r # <<>>)
           short == (Len(r) < Chunk /\ (o > 0 \/ r # <<>>))
<1>1. /\ phone.draining /\ ~phone.whole /\ StageFor(o)
      /\ UNCHANGED <<cacheVars, queue, tail, due, inputs>>
      /\ untold' = IF phone'.draining THEN untold ELSE IF state = "REPLAYING" THEN count ELSE 0
      /\ phone' = [phone EXCEPT !.draining = more, !.buffer = @ \o r, !.whole = short]
  BY DEF fromradio_read, Response, Answer
<1>2. /\ phone \in Reader /\ phone.buffer \in Seq(Nat) /\ o \in Nat
      /\ phone.whole = FALSE /\ Staging(staged, staged_len, phone)
  BY <1>1 DEF Inv, Staging, Reader
<1>3. /\ Staging(staged', staged_len', phone)
      /\ Ring(queue, head', tail, count')
      /\ state' \in {"CONNECTED", "REPLAYING", "ACTIVE"}
      /\ replay_cursor' \in 0..(Len(s_index) + 1)
      /\ o = 0 /\ staged_len' = 0 => IF state = "REPLAYING" THEN count' = count ELSE count' = 0
  <2>1. CASE o = 0
    <3>1. StageFor(0)
      BY <1>1, <2>1
    <3>2. phone.buffer = <<>>
      BY <1>2, <2>1, EmptySeq
    <3>3. /\ staged' \in Bytes(MaxPacket) /\ staged_len' \in 0..MaxPacket
          /\ Ring(queue, head', tail, count')
          /\ state' \in {"CONNECTED", "REPLAYING", "ACTIVE"}
          /\ replay_cursor' \in 0..(Len(s_index) + 1)
          /\ staged_len' = 0 => IF state = "REPLAYING" THEN count' = count ELSE count' = 0
      BY <3>1, StageForOK
    <3>4. Staging(staged', staged_len', phone)
      BY <1>2, <3>2, <3>3, AnyStaged
    <3>5. QED
      BY <3>3, <3>4
  <2>2. CASE o # 0
    <3>1. UNCHANGED <<stageVars, head, count, sessionVars>>
      BY <1>1, <2>2 DEF StageFor
    <3>2. QED
      BY <1>2, <2>2, <3>1 DEF Inv, Session, stageVars, sessionVars
  <2>3. QED
    BY <2>1, <2>2
<1>4. r \in Seq(Nat)
  <2>1. o <= staged_len' /\ staged' \in Bytes(MaxPacket) /\ staged_len' \in 0..MaxPacket
    BY <1>3 DEF Staging
  <2>2. Continues(staged', staged_len', o, r)
    BY <1>2, <2>1, AnswerOK
  <2>3. QED
    BY <2>2 DEF Continues
<1>5. /\ phone' \in Reader /\ phone'.buffer = phone.buffer \o r
      /\ (phone'.draining <=> more) /\ (phone'.whole <=> short)
  <2> DEFINE b == phone.buffer \o r
  <2>1. more \in BOOLEAN /\ short \in BOOLEAN
    OBVIOUS
  <2>2. b \in Seq(Nat)
    BY <1>2, <1>4, ConcatProperties
  <2>3. phone' = [phone EXCEPT !.draining = more, !.buffer = b, !.whole = short]
    BY <1>1
  <2>4. PICK d \in BOOLEAN, w \in BOOLEAN : d = more /\ w = short
    BY <2>1
  <2> HIDE DEF more, short, b
  <2>5. phone' = [phone EXCEPT !.draining = d, !.buffer = b, !.whole = w]
    BY <2>3, <2>4
  <2>6. phone' \in Reader /\ phone'.buffer = b /\ phone'.draining = d /\ phone'.whole = w
    BY <1>2, <2>2, <2>5 DEF Reader
  <2>7. QED
    BY <2>4, <2>6 DEF b
<1>6. Staging(staged', staged_len', phone') /\ (staged_len' > 0 => phone'.draining)
  BY <1>2, <1>3, <1>5, ReadOK
<1>7. Session'
  <2>1. untold' \in Nat
    BY <1>1, PathAssumption DEF Inv, Session, Ring
  <2>2. QED
    BY <1>1, <1>3, <2>1 DEF Inv, Session, cacheVars
<1>8. IdleOnlyIfUntold'
  <2>1. CASE phone'.draining
    BY <2>1 DEF IdleOnlyIfUntold
  <2>2. CASE ~phone'.draining
    <3>1. o = 0
      BY <1>2, <1>5, <2>2
    <3>2. staged_len' = 0
      BY <1>3, <1>6, <2>2, PathAssumption DEF Staging
    <3>3. count' = untold'
      BY <1>1, <1>3, <2>2, <3>1, <3>2
    <3>4. due' \in Nat /\ count' \in Nat /\ untold' \in Nat
      BY <1>7, <1>3, PathAssumption DEF Session, Ring
    <3>5. count' <= untold' + due'
      <4>1. PICK c \in Nat, d \in Nat : c = untold' /\ d = due'
        BY <3>4
      <4>2. c <= c + d
        OBVIOUS
      <4>3. QED
        BY <3>3, <4>1, <4>2
    <3>6. QED
      BY <3>5 DEF IdleOnlyIfUntold
  <2>3. QED
    BY <2>1, <2>2
<1>9. QED
  BY <1>1, <1>3, <1>6, <1>7, <1>8 DEF Inv, cacheVars

LEMMA NotifyInv ==
  ASSUME Inv, Notify
  PROVE  Inv'
<1>1. /\ UNCHANGED <<cacheVars, queueVars, stageVars, sessionVars, inputs>>
      /\ due > 0 /\ due' = due - 1
      /\ \/ phone' = [phone EXCEPT !.draining = TRUE] /\ untold' = untold
         \/ untold' = (IF phone.draining THEN untold ELSE untold + 1) /\ phone' = phone
  BY DEF Notify
<1>2. Staging(staged, staged_len, phone) /\ due \in Nat /\ untold \in Nat
  BY DEF Inv, Session
<1>3. due' \in Nat /\ untold' \in Nat
  BY <1>1, <1>2
<1>4. Staging(staged, staged_len, phone')
  BY <1>1, <1>2 DEF Staging, Reader
<1>5. IdleOnlyIfUntold'
  <2>1. CASE phone' = [phone EXCEPT !.draining = TRUE]
    BY <1>2, <2>1 DEF IdleOnlyIfUntold, Staging, Reader
  <2>2. CASE untold' = (IF phone.draining THEN untold ELSE untold + 1) /\ phone' = phone
    BY <1>1, <1>2, <2>2, PathAssumption DEF IdleOnlyIfUntold, Inv, Ring, queueVars
  <2>3. QED
    BY <1>1, <2>1, <2>2
<1>6. Session'
  BY <1>1, <1>3 DEF Inv, Session, sessionVars, cacheVars
<1>7. QED
  BY <1>1, <1>4, <1>5, <1>6 DEF Inv, cacheVars, queueVars, stageVars

LEMMA NextInv == Inv /\ [Next]_vars => Inv'
<1> SUFFICES ASSUME Inv, [Next]_vars PROVE Inv'
  OBVIOUS
<1>1. ASSUME NEW f \in Frames, NEW wanted \in BOOLEAN, cache_add_frame(f, wanted) PROVE Inv'
  BY <1>1, AddInv
<1>2. CASE cache_mark_ready
  BY <1>2 DEF cache_mark_ready, Inv, Session, IdleOnlyIfUntold, queueVars, stageVars, sessionVars
<1>3. ASSUME NEW f \in Frames, ble_gatt_enqueue_fromradio(f) PROVE Inv'
  BY <1>3, EnqueueInv
<1>4. CASE ble_gatt_replay_cached_burst
  <2>1. /\ UNCHANGED <<cacheVars, queueVars, stageVars, phone, untold>>
        /\ inputs' = inputs + 1 /\ replay_cursor' = 0 /\ state' = "REPLAYING" /\ due' = due + 1
    BY <1>4 DEF ble_gatt_replay_cached_burst, Input
  <2>2. Session'
    <3>1. Len(s_index) \in Nat
      BY DEF Inv, Shape
    <3>2. QED
      BY <2>1, <3>1 DEF Inv, Session, cacheVars
  <2>3. IdleOnlyIfUntold'
    BY <2>1, PathAssumption DEF Inv, Session, Ring, IdleOnlyIfUntold, queueVars
  <2>4. QED
    BY <2>1, <2>2, <2>3 DEF Inv, cacheVars, queueVars, stageVars
<1>5. CASE Reconnect
  BY <1>5, ReconnectInv
<1>6. CASE fromradio_read
  BY <1>6, ReadInv
<1>7. CASE FrameFinished
  <2>1. /\ UNCHANGED <<cacheVars, queueVars, stageVars, sessionVars, due, untold, inputs>>
        /\ phone' = [phone EXCEPT !.buffer = <<>>, !.whole = FALSE, !.rx = phone.buffer]
    BY <1>7 DEF FrameFinished
  <2>2. phone \in Reader /\ staged \in Bytes(MaxPacket) /\ staged_len \in 0..MaxPacket
    BY DEF Inv, Staging
  <2>3. /\ phone' \in Reader /\ phone'.buffer = <<>> /\ phone'.whole = FALSE
        /\ phone'.draining = phone.draining
    <3>1. phone' \in Reader
      <4>1. phone.buffer \in Seq(Nat) /\ <<>> \in Seq(Nat) /\ FALSE \in BOOLEAN
        BY <2>2 DEF Reader
      <4>2. QED
        BY <2>1, <2>2, <4>1, Zenon DEF Reader
    <3>2. phone'.buffer = <<>>
      BY <2>1, <2>2 DEF Reader
    <3>3. phone'.whole = FALSE
      BY <2>1, <2>2 DEF Reader
    <3>4. phone'.draining = phone.draining
      BY <2>1, <2>2 DEF Reader
    <3>5. QED
      BY <3>1, <3>2, <3>3, <3>4
  <2>4. Staging(staged, staged_len, phone')
    BY <2>2, <2>3, AnyStaged
  <2>5. QED
    BY <2>1, <2>3, <2>4 DEF Inv, Session, IdleOnlyIfUntold, cacheVars, queueVars, stageVars,
                            sessionVars
<1>8. CASE Notify
  BY <1>8, NotifyInv
<1>9. CASE Poll
  <2>1. /\ UNCHANGED <<cacheVars, queueVars, stageVars, sessionVars, due, untold>>
        /\ inputs' = inputs + 1 /\ phone' = [phone EXCEPT !.draining = TRUE]
    BY <1>9 DEF Poll, Input
  <2>2. Staging(staged, staged_len, phone') /\ phone'.draining = TRUE
    BY <2>1 DEF Inv, Staging, Reader
  <2>3. QED
    BY <2>1, <2>2 DEF Inv, Session, IdleOnlyIfUntold, cacheVars, queueVars, stageVars, sessionVars
<1>10. CASE UNCHANGED vars
  BY <1>10 DEF vars, Inv, Session, IdleOnlyIfUntold, cacheVars, queueVars, stageVars, sessionVars
<1>11. QED
  BY <1>1, <1>2, <1>3, <1>4, <1>5, <1>6, <1>7, <1>8, <1>9, <1>10 DEF Next

\* Arena, queue and staging buffer keep their shape, and a long read keeps to the packet it
\* began with, through every interleaving of cache, queue, reads and notifications.
THEOREM Invariance == Spec => []Inv
BY InitInv, NextInv, PTL DEF Spec

\* TypeOK: no write goes past the end of the arena, of a queue entry or of the staging
\* buffer (config_cache's memcpy into s_arena, the memcpy of ble_gatt_enqueue_fromradio
\* and those of fromradio_read), and indices and counters stay inside their ranges, for
\* every arena, queue, packet and response size.
THEOREM TypeCorrect == Spec => []TypeOK
<1>1. Inv => TypeOK
  <2> SUFFICES ASSUME Inv PROVE TypeOK
    OBVIOUS
  <2>1. /\ DOMAIN s_arena = 1..ArenaBytes /\ s_used \in 0..ArenaBytes
        /\ Len(s_index) <= MaxFrames /\ Len(s_index) \in Nat
    BY DEF Inv, Shape, Bytes
  <2>2. /\ head \in 0..(QueueDepth - 1) /\ tail \in 0..(QueueDepth - 1)
        /\ count \in 0..QueueDepth
    BY DEF Inv, Ring
  <2>3. DOMAIN staged = 1..MaxPacket /\ staged_len \in 0..MaxPacket
    BY DEF Inv, Staging, Bytes
  <2>4. Session
    BY DEF Inv
  <2>5. replay_cursor \in 0..(MaxFrames + 1)
    BY <2>1, <2>4, PathAssumption DEF Session
  <2>6. QED
    BY <2>1, <2>2, <2>3, <2>4, <2>5 DEF Session, TypeOK
<1>2. QED
  BY <1>1, Invariance, PTL

\* IdleOnlyIfUntold: a phone that stopped reading FROMRADIO has been told of every packet
\* in its queue, but for those whose notification failed or is still to come and those it
\* passed by at the end of a replay (ble_gatt_enqueue_fromradio notifies for each packet,
\* fromradio_read answers empty only if the queue is empty or a replay ends).
THEOREM ToldCorrect == Spec => []IdleOnlyIfUntold
BY Invariance, PTL DEF Inv

--------------------------------------------------------------------------------
\* The bytes implement the stream of frames.

\* What the mapping sees stays the same when its variables do.
LEMMA SameCached ==
  ASSUME s_arena' = s_arena, s_index' = s_index
  PROVE  Cached' = Cached
BY DEF Cached, CachedBytes

LEMMA SameWaiting ==
  ASSUME queue' = queue, head' = head, count' = count
  PROVE  Waiting' = Waiting
BY DEF Waiting, Entry

LEMMA SameInHand ==
  ASSUME staged' = staged, staged_len' = staged_len
  PROVE  InHand' = InHand
BY DEF InHand

LEMMA CachedFrames ==
  ASSUME Inv
  PROVE  IsLog(Cached, s_arena, s_index)
<1>1. Cached = [i \in 1..Len(s_index) |-> Frame(s_arena, s_index[i])]
  BY DEF Cached, CachedBytes, Frame
<1>2. QED
  BY <1>1, CachedIsLog DEF Inv

LEMMA WaitingPackets ==
  ASSUME Inv
  PROVE  Waiting = Packets(queue, head, count) /\ Len(Waiting) = count
<1>1. Waiting = Packets(queue, head, count)
  BY DEF Waiting, Entry, Packets, Content
<1>2. Lists(Packets(queue, head, count), queue, head, count)
  BY PacketsListed DEF Inv
<1>3. QED
  BY <1>1, <1>2 DEF Lists

LEMMA InitStream == Init => Stream!StreamInit
<1> SUFFICES ASSUME Init PROVE Stream!StreamInit
  OBVIOUS
<1>1. Inv
  BY InitInv
<1>2. s_index = <<>> /\ count = 0 /\ staged_len = 0
  BY DEF Init
<1>3. Cached = <<>>
  <2>1. Cached \in Seq(LogEntry) /\ Len(Cached) = Len(s_index) /\ Len(s_index) = 0
    BY <1>1, <1>2, CachedFrames DEF IsLog
  <2>2. QED
    BY <2>1, EmptySeq
<1>4. Waiting = <<>>
  <2>1. Waiting \in Seq(Seq(Nat)) /\ Len(Waiting) = 0
    <3>1. Lists(Packets(queue, head, count), queue, head, count)
      BY <1>1, PacketsListed DEF Inv
    <3>2. QED
      BY <1>1, <1>2, <3>1, WaitingPackets DEF Lists
  <2>2. QED
    BY <2>1, EmptySeq
<1>5. InHand = <<>>
  <2>1. MaxPacket \in Nat /\ 0 \in Nat /\ 0 <= MaxPacket /\ staged \in Bytes(MaxPacket)
    BY <1>1, PathAssumption DEF Inv, Staging
  <2>2. SubSeq(staged, 1, 0) \in Seq(Nat) /\ Len(SubSeq(staged, 1, 0)) = 0
    BY <2>1, Prefix
  <2>3. QED
    BY <1>2, <2>2, EmptySeq DEF InHand
<1>6. /\ s_used = 0 /\ s_ready = FALSE /\ state # "REPLAYING" /\ replay_cursor = 0
      /\ phone.rx = <<>>
  BY DEF Init, IdlePhone
<1>7. QED
  BY <1>3, <1>4, <1>5, <1>6 DEF Stream!StreamInit

LEMMA AddStream ==
  ASSUME Inv, Inv', NEW f \in Frames, NEW wanted \in BOOLEAN, cache_add_frame(f, wanted)
  PROVE  Stream!Cache
<1>1. /\ ~s_ready /\ s_ready' = s_ready /\ UNCHANGED <<queueVars, stageVars>>
      /\ UNCHANGED sessionVars /\ phone' = phone
  BY DEF cache_add_frame
<1>2. /\ Len(s_index) < MaxFrames /\ s_used + Len(f) <= ArenaBytes
      /\ s_arena' = Copied(s_arena, s_used, f) /\ s_used' = s_used + Len(f)
      /\ s_index' = Append(s_index, [offset |-> s_used, len |-> Len(f), wanted |-> wanted])
  BY DEF cache_add_frame, Fits
<1>3. f \in Seq(Nat) /\ Len(f) \in 1..MaxPacket
  BY FrameIsPacket
<1>4. Shape(s_arena, s_index, s_used) /\ Shape(s_arena', s_index', s_used')
  BY DEF Inv
<1>5. IsLog(Cached, s_arena, s_index)
  BY CachedFrames
<1>6. IsLog(Cached', s_arena', s_index')
  <2>1. Cached' = [i \in 1..Len(s_index') |-> Frame(s_arena', s_index'[i])]
    BY DEF Cached, CachedBytes, Frame
  <2>2. QED
    BY <1>4, <2>1, CachedIsLog
<1>7. Cached' = Append(Cached, [bytes |-> f, wanted |-> wanted])
  <2>1. PICK e, g : /\ e = [offset |-> s_used, len |-> Len(f), wanted |-> wanted]
                    /\ g = [bytes |-> f, wanted |-> wanted]
    OBVIOUS
  <2>2. e \in IndexEntry /\ e.offset = s_used /\ e.len = Len(f) /\ s_index' = Append(s_index, e)
    BY <1>2, <1>3, <1>4, <2>1, PathAssumption DEF IndexEntry, Shape
  <2>3. g \in LogEntry /\ g = [bytes |-> f, wanted |-> e.wanted]
    BY <1>3, <2>1 DEF LogEntry
  <2>4. Adds(s_arena, s_index, s_used, Cached, f, e, g)
    BY <1>2, <1>3, <1>4, <1>5, <2>2, <2>3 DEF Adds
  <2>5. IsLog(Append(Cached, g), Copied(s_arena, s_used, f), Append(s_index, e))
    BY <2>4, ShapeAppend
  <2>6. IsLog(Append(Cached, g), s_arena', s_index')
    BY <1>2, <2>2, <2>5
  <2>7. s_index' \in Seq(IndexEntry)
    BY <1>4 DEF Shape
  <2>8. Cached' = Append(Cached, g)
    BY <1>6, <2>6, <2>7, OneLog
  <2>9. QED
    BY <2>1, <2>8
<1>8. Len(Cached) = Len(s_index)
  BY <1>5 DEF IsLog
<1>9. Waiting' = Waiting /\ InHand' = InHand
  BY <1>1, SameWaiting, SameInHand DEF queueVars, stageVars
<1>10. QED
  BY <1>1, <1>2, <1>7, <1>8, <1>9 DEF Stream!Cache, sessionVars

LEMMA EnqueueStream ==
  ASSUME Inv, Inv', NEW f \in Frames, ble_gatt_enqueue_fromradio(f)
  PROVE  Stream!Offer
<1>1. /\ UNCHANGED <<cacheVars, head, stageVars, sessionVars, phone>>
      /\ count' = count + 1 /\ count < QueueDepth
      /\ queue' = [queue EXCEPT ![tail] = [data |-> Copied(@.data, 0, f), len |-> Len(f)]]
  BY DEF ble_gatt_enqueue_fromradio
<1>2. f \in Seq(Nat) /\ Len(f) \in 1..MaxPacket
  BY FrameIsPacket
<1>3. Ring(queue, head, tail, count) /\ count \in Nat
  BY PathAssumption DEF Inv, Ring
<1>4. Packets(queue', head, count + 1) = Append(Packets(queue, head, count), f)
  <2>1. Room(queue, head, tail, count, f)
    BY <1>1, <1>2, <1>3 DEF Room
  <2>2. Packets(Put(queue, tail, f), head, count + 1) = Append(Packets(queue, head, count), f)
    BY <2>1, RingAppend
  <2>3. queue' = Put(queue, tail, f)
    BY <1>1 DEF Put
  <2>4. QED
    BY <2>2, <2>3
<1>5. Waiting = Packets(queue, head, count) /\ Len(Waiting) = count
  BY WaitingPackets
<1>6. Waiting' = Packets(queue', head', count')
  BY DEF Waiting, Entry, Packets, Content
<1>7. Waiting' = Append(Waiting, f)
  BY <1>1, <1>4, <1>5, <1>6
<1>8. Cached' = Cached /\ InHand' = InHand
  BY <1>1, SameCached, SameInHand DEF cacheVars, stageVars
<1>9. QED
  BY <1>1, <1>5, <1>7, <1>8 DEF Stream!Offer, cacheVars, sessionVars

\* The frames of the log that are left are those fromradio_read has still to stage.
LEMMA LeftIsRemaining ==
  ASSUME Inv
  PROVE  /\ Stream!Left = Remaining /\ Len(Cached) = Len(s_index)
         /\ \A i \in 1..Len(s_index) : Cached[i].bytes = CachedBytes(i)
<1>1. /\ Cached \in Seq(LogEntry) /\ Len(Cached) = Len(s_index)
      /\ \A i \in 1..Len(s_index) : Cached[i] = Frame(s_arena, s_index[i])
  BY CachedFrames DEF IsLog
<1>2. replay_cursor \in Nat /\ Len(s_index) \in Nat
  BY DEF Inv, Session, Shape
<1>3. ASSUME NEW i \in 1..Len(s_index)
      PROVE  Cached[i].bytes = CachedBytes(i) /\ Cached[i].wanted = s_index[i].wanted
  <2>1. Cached[i] = Frame(s_arena, s_index[i])
    BY <1>1
  <2>2. Frame(s_arena, s_index[i]).bytes = CachedBytes(i)
    BY DEF Frame, CachedBytes
  <2>3. Frame(s_arena, s_index[i]).wanted = s_index[i].wanted
    BY DEF Frame
  <2>4. QED
    BY <2>1, <2>2, <2>3
<1>4. \A i \in (replay_cursor + 1)..Len(s_index) : i \in 1..Len(s_index)
  BY <1>2
<1>5. Stream!Left = {i \in (replay_cursor + 1)..Len(s_index) : Cached[i].wanted}
  BY <1>1 DEF Stream!Left
<1>6. Stream!Left = Remaining
  BY <1>3, <1>4, <1>5, Zenon DEF Remaining
<1>7. QED
  BY <1>1, <1>3, <1>6

\* A read at offset 0 takes a frame, or learns that there is none.
LEMMA TakeStream ==
  ASSUME Inv, StageFor(0), UNCHANGED <<cacheVars, queue>>, phone'.rx = phone.rx
  PROVE  \/ Stream!TakeCached \/ Stream!TakeTerminator
         \/ Stream!TakeLive \/ Stream!TakeNothing
<1>1. Cached' = Cached /\ s_used' = s_used /\ s_ready' = s_ready
  BY SameCached DEF cacheVars
<1>2. /\ Stream!Left = Remaining /\ Len(Cached) = Len(s_index)
      /\ \A i \in 1..Len(s_index) : Cached[i].bytes = CachedBytes(i)
  BY LeftIsRemaining
<1>3. Waiting = Packets(queue, head, count) /\ Len(Waiting) = count /\ count \in Nat
  BY WaitingPackets, PathAssumption DEF Inv, Ring
<1>4. CASE StageCached
  <2>1. /\ state = "REPLAYING" /\ head' = head /\ count' = count /\ state' = state
        /\ replay_cursor' = Least(Remaining)
    BY <1>4 DEF StageCached
  <2>2. PICK k : k = Least(Remaining)
    OBVIOUS
  <2>3. /\ k \in Remaining /\ k \in 1..Len(s_index) /\ \A j \in Remaining : k <= j
        /\ InHand' = CachedBytes(k)
    BY <1>4, <2>2, CachedStaged
  <2>4. InHand' = Cached[k].bytes
    BY <1>2, <2>3
  <2>5. Waiting' = Waiting
    BY <2>1, SameWaiting
  <2>6. Stream!TakeCached
    BY <1>1, <1>2, <2>1, <2>2, <2>3, <2>4, <2>5 DEF Stream!TakeCached
  <2>7. QED
    BY <2>6
<1>5. CASE StageComplete
  <2>1. /\ state = "REPLAYING" /\ head' = head /\ count' = count /\ state' = state
        /\ Remaining = {} /\ replay_cursor <= Len(s_index) /\ replay_cursor' = Len(s_index) + 1
    BY <1>5 DEF StageComplete
  <2>2. InHand' = Complete
    BY <1>5, CompleteStaged
  <2>3. Waiting' = Waiting
    BY <2>1, SameWaiting
  <2>4. Stream!TakeTerminator
    BY <1>1, <1>2, <2>1, <2>2, <2>3 DEF Stream!TakeTerminator
  <2>5. QED
    BY <2>4
<1>6. CASE GoActive
  <2>1. /\ state = "REPLAYING" /\ head' = head /\ count' = count /\ state' = "ACTIVE"
        /\ Remaining = {} /\ replay_cursor > Len(s_index) /\ replay_cursor' = replay_cursor
    BY <1>6 DEF GoActive
  <2>2. InHand' = <<>>
    BY <1>6, NothingStaged
  <2>3. Waiting' = Waiting
    BY <2>1, SameWaiting
  <2>4. Stream!TakeNothing
    BY <1>1, <1>2, <2>1, <2>2, <2>3 DEF Stream!TakeNothing
  <2>5. QED
    BY <2>4
<1>7. CASE StageQueued
  <2>1. /\ state # "REPLAYING" /\ count > 0 /\ state' = state /\ replay_cursor' = replay_cursor
        /\ head' = (head + 1) % QueueDepth /\ count' = count - 1
    BY <1>7 DEF StageQueued
  <2>2. InHand' = Content(queue[head])
    BY <1>7, QueuedStaged
  <2>3. /\ Packets(queue, head, count) # <<>>
        /\ Head(Packets(queue, head, count)) = Content(queue[head])
        /\ Packets(queue, (head + 1) % QueueDepth, count - 1) = Tail(Packets(queue, head, count))
    BY <2>1, RingTail DEF Inv
  <2>4. Waiting' = Packets(queue', head', count')
    BY DEF Waiting, Entry, Packets, Content
  <2>5. Waiting # <<>> /\ InHand' = Head(Waiting) /\ Waiting' = Tail(Waiting)
    BY <1>3, <2>1, <2>2, <2>3, <2>4
  <2>6. Stream!TakeLive
    BY <1>1, <2>1, <2>5 DEF Stream!TakeLive
  <2>7. QED
    BY <2>6
<1>8. CASE StageNothing
  <2>1. /\ state # "REPLAYING" /\ count = 0 /\ head' = head /\ count' = count /\ state' = state
        /\ replay_cursor' = replay_cursor
    BY <1>8 DEF StageNothing
  <2>2. InHand' = <<>>
    BY <1>8, NothingStaged
  <2>3. Waiting' = Waiting
    BY <2>1, SameWaiting
  <2>4. Waiting = <<>>
    <3>1. Lists(Packets(queue, head, count), queue, head, count)
      BY PacketsListed DEF Inv
    <3>2. Waiting \in Seq(Seq(Nat)) /\ Len(Waiting) = 0
      BY <1>3, <2>1, <3>1 DEF Lists
    <3>3. QED
      BY <3>2, EmptySeq
  <2>5. Stream!TakeNothing
    BY <1>1, <2>1, <2>2, <2>3, <2>4 DEF Stream!TakeNothing
  <2>6. QED
    BY <2>5
<1>9. QED
  BY <1>4, <1>5, <1>6, <1>7, <1>8 DEF StageFor

LEMMA ReadStream ==
  ASSUME Inv, fromradio_read
  PROVE  Stream!StreamNext \/ UNCHANGED Stream!streamVars
<1>1. /\ StageFor(Len(phone.buffer)) /\ UNCHANGED <<cacheVars, queue>>
  BY DEF fromradio_read
<1>2. phone'.rx = phone.rx
  <2>1. phone \in Reader
    BY DEF Inv, Staging
  <2>2. QED
    BY <2>1 DEF fromradio_read, Reader
<1>3. CASE Len(phone.buffer) = 0
  <2>1. StageFor(0)
    BY <1>1, <1>3
  <2>2. \/ Stream!TakeCached \/ Stream!TakeTerminator
        \/ Stream!TakeLive \/ Stream!TakeNothing
    BY <1>1, <1>2, <2>1, TakeStream
  <2>3. QED
    BY <2>2 DEF Stream!StreamNext
<1>4. CASE Len(phone.buffer) # 0
  <2>1. UNCHANGED <<stageVars, head, count, sessionVars>>
    BY <1>1, <1>4 DEF StageFor
  <2>2. Cached' = Cached /\ Waiting' = Waiting /\ InHand' = InHand
    BY <1>1, <2>1, SameCached, SameWaiting, SameInHand DEF cacheVars, stageVars
  <2>3. QED
    BY <1>1, <1>2, <2>1, <2>2 DEF Stream!streamVars, cacheVars, sessionVars
<1>5. QED
  BY <1>3, <1>4

\* A frame that a phone has read to its end is the one that is staged.
LEMMA FinishStream ==
  ASSUME Inv, FrameFinished
  PROVE  Stream!Finish
<1>1. /\ UNCHANGED <<cacheVars, queueVars, stageVars, sessionVars>> /\ phone.whole
      /\ phone' = [phone EXCEPT !.buffer = <<>>, !.whole = FALSE, !.rx = phone.buffer]
  BY DEF FrameFinished
<1>2. /\ phone \in Reader /\ phone.buffer = SubSeq(staged, 1, staged_len)
      /\ staged_len > 0 /\ Len(phone.buffer) = staged_len
  BY <1>1 DEF Inv, Staging
<1>3. phone'.rx = InHand
  <2>1. phone'.rx = phone.buffer
    BY <1>1, <1>2 DEF Reader
  <2>2. QED
    BY <1>2, <2>1 DEF InHand
<1>4. InHand # <<>>
  <2>1. phone.buffer \in Seq(Nat) /\ Len(phone.buffer) # 0
    <3>1. phone.buffer \in Seq(Nat) /\ staged_len \in Nat
      BY <1>2, PathAssumption DEF Reader, Inv, Staging
    <3>2. staged_len # 0
      BY <1>2, <3>1
    <3>3. QED
      BY <1>2, <3>1, <3>2
  <2>2. phone.buffer # <<>>
    BY <2>1, EmptySeq
  <2>3. QED
    BY <1>2, <2>2 DEF InHand
<1>5. Cached' = Cached /\ Waiting' = Waiting /\ InHand' = InHand
  BY <1>1, SameCached, SameWaiting, SameInHand DEF cacheVars, queueVars, stageVars
<1>6. QED
  BY <1>1, <1>3, <1>4, <1>5 DEF Stream!Finish, cacheVars, sessionVars

\* ImplementsStream: arena, circular queue, staging buffer and long reads together behave
\* as the sequences of whole frames of FrameStream, which BleGatt and FrameCache use in
\* their place (cache_add_frame, ble_gatt_enqueue_fromradio, fromradio_read at every
\* offset, ble_gatt_replay_cached_burst), for every size of arena, index, queue, packet
\* and response.
THEOREM StreamCorrect == Spec => ImplementsStream
<1>1. ASSUME Inv, Inv', [Next]_vars PROVE Stream!StreamNext \/ UNCHANGED Stream!streamVars
  <2>1. ASSUME NEW f \in Frames, NEW wanted \in BOOLEAN, cache_add_frame(f, wanted)
        PROVE  Stream!StreamNext
    <3>1. Stream!Cache
      BY <1>1, <2>1, AddStream
    <3>2. QED
      BY <3>1 DEF Stream!StreamNext
  <2>2. CASE cache_mark_ready
    <3>1. /\ UNCHANGED <<s_arena, s_index, s_used, queueVars, stageVars, sessionVars, phone>>
          /\ s_ready' = TRUE
      BY <2>2 DEF cache_mark_ready
    <3>2. Cached' = Cached /\ Waiting' = Waiting /\ InHand' = InHand
      BY <3>1, SameCached, SameWaiting, SameInHand DEF queueVars, stageVars
    <3>3. Stream!Publish
      BY <3>1, <3>2 DEF Stream!Publish, sessionVars
    <3>4. QED
      BY <3>3 DEF Stream!StreamNext
  <2>3. ASSUME NEW f \in Frames, ble_gatt_enqueue_fromradio(f) PROVE Stream!StreamNext
    <3>1. Stream!Offer
      BY <1>1, <2>3, EnqueueStream
    <3>2. QED
      BY <3>1 DEF Stream!StreamNext
  <2>4. CASE ble_gatt_replay_cached_burst
    <3>1. /\ UNCHANGED <<cacheVars, queueVars, stageVars, phone>>
          /\ s_ready /\ replay_cursor' = 0 /\ state' = "REPLAYING"
      BY <2>4 DEF ble_gatt_replay_cached_burst
    <3>2. Cached' = Cached /\ Waiting' = Waiting /\ InHand' = InHand
      BY <3>1, SameCached, SameWaiting, SameInHand DEF cacheVars, queueVars, stageVars
    <3>3. Stream!StartReplay
      BY <3>1, <3>2 DEF Stream!StartReplay, cacheVars
    <3>4. QED
      BY <3>3 DEF Stream!StreamNext
  <2>5. CASE Reconnect
    <3>1. /\ UNCHANGED cacheVars /\ state' = "CONNECTED" /\ replay_cursor' = 0
          /\ count' = 0 /\ staged_len' = 0 /\ phone' = IdlePhone
      BY <2>5 DEF Reconnect
    <3>2. Cached' = Cached
      BY <3>1, SameCached DEF cacheVars
    <3>3. Waiting' = <<>>
      <4>1. Waiting' = Packets(queue', head', count')
        BY DEF Waiting, Entry, Packets, Content
      <4>2. Ring(queue', head', tail', count')
        BY <1>1 DEF Inv
      <4>3. Lists(Waiting', queue', head', count')
        BY <4>1, <4>2, PacketsListed
      <4>4. Waiting' \in Seq(Seq(Nat)) /\ Len(Waiting') = 0
        BY <3>1, <4>3 DEF Lists
      <4>5. QED
        BY <4>4, EmptySeq
    <3>4. InHand' = <<>>
      <4>1. MaxPacket \in Nat /\ 0 \in Nat /\ 0 <= MaxPacket /\ staged' \in Bytes(MaxPacket)
        BY <1>1, PathAssumption DEF Inv, Staging
      <4>2. SubSeq(staged', 1, 0) \in Seq(Nat) /\ Len(SubSeq(staged', 1, 0)) = 0
        BY <4>1, Prefix
      <4>3. SubSeq(staged', 1, 0) = <<>>
        BY <4>2, EmptySeq
      <4>4. QED
        BY <3>1, <4>3 DEF InHand
    <3>5. phone'.rx = <<>>
      BY <3>1 DEF IdlePhone
    <3>6. Stream!Reconnect
      BY <3>1, <3>2, <3>3, <3>4, <3>5 DEF Stream!Reconnect, cacheVars
    <3>7. QED
      BY <3>6 DEF Stream!StreamNext
  <2>6. CASE fromradio_read
    BY <1>1, <2>6, ReadStream
  <2>7. CASE FrameFinished
    <3>1. Stream!Finish
      BY <1>1, <2>7, FinishStream
    <3>2. QED
      BY <3>1 DEF Stream!StreamNext
  <2>8. ASSUME UNCHANGED <<cacheVars, queueVars, stageVars, sessionVars>>, phone'.rx = phone.rx
        PROVE  UNCHANGED Stream!streamVars
    <3>1. Cached' = Cached /\ Waiting' = Waiting /\ InHand' = InHand
      BY <2>8, SameCached, SameWaiting, SameInHand DEF cacheVars, queueVars, stageVars
    <3>2. QED
      BY <2>8, <3>1 DEF Stream!streamVars, cacheVars, sessionVars
  <2>9. phone \in Reader
    BY <1>1 DEF Inv, Staging
  <2>10. CASE Notify
    <3>1. UNCHANGED <<cacheVars, queueVars, stageVars, sessionVars>>
      BY <2>10 DEF Notify
    <3>2. phone'.rx = phone.rx
      BY <2>9, <2>10 DEF Notify, Reader
    <3>3. QED
      BY <2>8, <3>1, <3>2
  <2>11. CASE Poll
    <3>1. UNCHANGED <<cacheVars, queueVars, stageVars, sessionVars>>
      BY <2>11 DEF Poll
    <3>2. phone'.rx = phone.rx
      BY <2>9, <2>11 DEF Poll, Reader
    <3>3. QED
      BY <2>8, <3>1, <3>2
  <2>12. CASE UNCHANGED vars
    <3>1. UNCHANGED <<cacheVars, queueVars, stageVars, sessionVars, phone>>
      BY <2>12 DEF vars
    <3>2. QED
      BY <2>8, <3>1
  <2>13. QED
    BY <1>1, <2>1, <2>2, <2>3, <2>4, <2>5, <2>6, <2>7, <2>10, <2>11, <2>12 DEF Next
<1>2. Inv /\ Inv' /\ [Next]_vars => [Stream!StreamNext]_(Stream!streamVars)
  BY <1>1
<1>3. QED
  BY <1>2, InitStream, Invariance, PTL DEF Spec, ImplementsStream, Stream!StreamSpec
===============================================================================
