---------------------------- MODULE UartRxProofs ----------------------------
(***************************************************************************)
(* Proofs about UartRx.                                                    *)
(***************************************************************************)
EXTENDS UartRx, SequenceTheorems, TLAPS

--------------------------------------------------------------------------------
\* Frames on the wire.

\* The two bytes of the length: both are bytes, and together they are the length.
LEMMA LengthBytes ==
  ASSUME NEW n \in 0..MaxPayload
  PROVE  /\ n \div Base \in 0..(Base - 1)
         /\ n % Base \in 0..(Base - 1)
         /\ (n \div Base) * Base + (n % Base) = n
<1>1. Base \in Nat /\ Base > 0 /\ n \in Nat /\ n <= Base * Base - 1
  BY RxAssumption
<1> DEFINE q == n \div Base
           r == n % Base
<1>2. q \in Nat /\ r \in 0..(Base - 1) /\ n = Base * q + r
  BY <1>1
<1>3. q <= Base - 1
  <2>1. SUFFICES ASSUME q >= Base PROVE FALSE
    BY <1>1, <1>2
  <2>2. Base * q >= Base * Base
    BY <1>1, <1>2, <2>1
  <2>3. QED
    BY <1>1, <1>2, <2>2
<1>4. Base * q = q * Base
  BY <1>1, <1>2
<1> HIDE DEF q, r
<1>5. q \in 0..(Base - 1) /\ r \in 0..(Base - 1) /\ q * Base + r = n
  BY <1>1, <1>2, <1>3, <1>4
<1>6. QED
  BY <1>5 DEF q, r

\* A frame is four bytes of header and its payload.
LEMMA FramedBytes ==
  ASSUME NEW p \in Payload
  PROVE  /\ Len(p) \in 1..MaxPayload
         /\ Framed(p) \in Seq(0..(Base - 1)) /\ Len(Framed(p)) = Len(p) + 4
         /\ Framed(p)[1] = MAGIC1 /\ Framed(p)[2] = MAGIC2
         /\ Framed(p)[3] = Len(p) \div Base /\ Framed(p)[4] = Len(p) % Base
<1> DEFINE h == <<MAGIC1, MAGIC2, Len(p) \div Base, Len(p) % Base>>
<1>1. p \in Seq(0..(Base - 1)) /\ Len(p) \in 1..MaxPayload
  BY RxAssumption
<1>2. h \in Seq(0..(Base - 1)) /\ Len(h) = 4
  <2>1. Len(p) \in 0..MaxPayload /\ MAGIC1 \in 0..(Base - 1) /\ MAGIC2 \in 0..(Base - 1)
    BY <1>1, RxAssumption
  <2>2. Len(p) \div Base \in 0..(Base - 1) /\ Len(p) % Base \in 0..(Base - 1)
    BY <2>1, LengthBytes
  <2>3. \A a, b \in 0..(Base - 1) : <<MAGIC1, MAGIC2, a, b>> \in Seq(0..(Base - 1))
    BY <2>1
  <2>4. QED
    BY <2>2, <2>3
<1>3. Framed(p) = h \o p
  BY DEF Framed
<1>4. h[1] = MAGIC1 /\ h[2] = MAGIC2 /\ h[3] = Len(p) \div Base /\ h[4] = Len(p) % Base
  OBVIOUS
<1> HIDE DEF h
<1>5. /\ h \o p \in Seq(0..(Base - 1)) /\ Len(h \o p) = Len(h) + Len(p)
      /\ \A i \in 1..(Len(h) + Len(p)) :
           (h \o p)[i] = IF i <= Len(h) THEN h[i] ELSE p[i - Len(h)]
  BY <1>1, <1>2, ConcatProperties
<1>6. Len(p) \in Nat
  BY <1>1
<1>7. QED
  BY <1>1, <1>2, <1>3, <1>4, <1>5, <1>6

\* And so are its marked bytes.
LEMMA BytesOK ==
  ASSUME NEW p \in Payload, NEW f \in Nat
  PROVE  /\ Bytes(p, f) \in Seq(Byte) /\ Len(Bytes(p, f)) = Len(p) + 4
         /\ \A i \in 1..(Len(p) + 4) :
              Bytes(p, f)[i] = [val |-> Framed(p)[i], frame |-> f, pos |-> i]
<1>1. Framed(p) \in Seq(0..(Base - 1)) /\ Len(Framed(p)) = Len(p) + 4 /\ Len(p) \in Nat
  BY FramedBytes
<1>2. \A i \in 1..(Len(p) + 4) : Framed(p)[i] \in 0..(Base - 1)
  BY <1>1, ElementOfSeq
<1>3. \A i \in 1..(Len(p) + 4) : [val |-> Framed(p)[i], frame |-> f, pos |-> i] \in Byte
  BY <1>1, <1>2 DEF Byte
<1>4. Bytes(p, f) = [i \in 1..(Len(p) + 4) |-> [val |-> Framed(p)[i], frame |-> f, pos |-> i]]
  BY <1>1 DEF Bytes
<1>5. QED
  BY <1>1, <1>3, <1>4

--------------------------------------------------------------------------------
\* The frame machine.

Machine == [state : RxState, expected_len : Nat, payload : Seq(Byte)]

InBounds(sm) ==
  /\ sm.state = "PAYLOAD" =>
       Len(sm.payload) < sm.expected_len /\ sm.expected_len <= MaxPayload
  /\ Len(sm.payload) <= MaxPayload

\* Whatever byte comes, the machine keeps its type and writes inside its buffer.
LEMMA MachineStep ==
  ASSUME NEW sm \in Machine, InBounds(sm), NEW b \in Byte
  PROVE  rx_process_byte(sm, b) \in Machine /\ InBounds(rx_process_byte(sm, b))
<1> DEFINE next == rx_process_byte(sm, b)
<1>0. MaxPayload \in Nat /\ b.val \in Nat /\ sm.expected_len \in Nat /\ Len(sm.payload) \in Nat
  BY RxAssumption DEF Byte, Machine
<1>1. CASE sm.state = "MAGIC1"
  <2>1. next = Magic1(sm, b)
    BY <1>1 DEF rx_process_byte
  <2>2. QED
    BY <1>0, <2>1 DEF Magic1, Machine, RxState, InBounds
<1>2. CASE sm.state = "MAGIC2"
  <2>1. next = Magic2(sm, b)
    BY <1>2 DEF rx_process_byte
  <2>2. \E t \in {"MAGIC1", "MAGIC2", "LEN_HI"} : next = [sm EXCEPT !.state = t]
    BY <2>1, RxAssumption DEF Magic2
  <2>3. QED
    BY <1>0, <2>2 DEF Machine, RxState, InBounds
<1>3. CASE sm.state = "LEN_HI"
  <2>1. next = LenHi(sm, b)
    BY <1>3 DEF rx_process_byte
  <2>2. b.val * Base \in Nat
    BY <1>0, RxAssumption
  <2>3. QED
    BY <1>0, <2>1, <2>2 DEF LenHi, Machine, RxState, InBounds
<1>4. CASE sm.state = "LEN_LO"
  <2>1. next = LenLo(sm, b)
    BY <1>4 DEF rx_process_byte
  <2> DEFINE n == sm.expected_len + b.val
  <2>2. n \in Nat
    BY <1>0
  <2>3. CASE n = 0 \/ n > MaxPayload
    <3>1. next = [sm EXCEPT !.expected_len = n, !.state = "MAGIC1"]
      BY <2>1, <2>3 DEF LenLo
    <3> HIDE DEF n, next
    <3>2. QED
      BY <1>0, <2>2, <3>1 DEF Machine, RxState, InBounds, next
  <2>4. CASE ~(n = 0 \/ n > MaxPayload)
    <3>1. next = [state |-> "PAYLOAD", expected_len |-> n, payload |-> <<>>]
      BY <2>1, <2>4 DEF LenLo
    <3> HIDE DEF n, next
    <3>2. QED
      BY <1>0, <2>2, <2>4, <3>1 DEF Machine, RxState, InBounds, next
  <2>5. QED
    BY <2>3, <2>4
<1>5. CASE sm.state = "PAYLOAD"
  <2>1. next = PayloadByte(sm, b)
    BY <1>5 DEF rx_process_byte
  <2>2. Append(sm.payload, b) \in Seq(Byte) /\ Len(Append(sm.payload, b)) = Len(sm.payload) + 1
    BY DEF Machine
  <2> DEFINE q == Append(sm.payload, b)
             t == IF Ends(sm) THEN "MAGIC1" ELSE "PAYLOAD"
  <2>3. next = [sm EXCEPT !.payload = q, !.state = t] /\ t \in RxState
    BY <2>1 DEF PayloadByte, RxState
  <2> HIDE DEF next, q, t
  <2>4. /\ next \in Machine
        /\ next.payload = q /\ next.state = t /\ next.expected_len = sm.expected_len
    BY <2>2, <2>3 DEF Machine, q
  <2>5. QED
    BY <1>0, <1>5, <2>2, <2>4 DEF Ends, InBounds, q, t, next
<1>6. QED
  BY <1>1, <1>2, <1>3, <1>4, <1>5 DEF Machine, RxState

\* The number of a frame is a natural.
LEMMA OriginOK ==
  ASSUME sent \in Seq(Payload), NEW payload
  PROVE  Origin(payload) \in 0..Len(sent)
<1> DEFINE F == {f \in 1..Len(sent) : payload = SubSeq(Bytes(sent[f], f), 5, Len(sent[f]) + 4)}
<1>1. CASE F = {}
  BY <1>1 DEF Origin
<1>2. CASE F # {}
  <2>1. Origin(payload) = CHOOSE f \in F : TRUE
    BY <1>2 DEF Origin
  <2>2. Origin(payload) \in F
    BY <1>2, <2>1
  <2>3. QED
    BY <2>2
<1>3. QED
  BY <1>1, <1>2

--------------------------------------------------------------------------------
\* Types.

\* The node puts a frame or noise on the line.
LEMMA LineType == ASSUME TypeOK, Line PROVE TypeOK'
<1> USE RxAssumption DEF machineVars, driverVars, nodeVars
<1>1. CASE NodeSends
  <2>1. PICK p \in Payload : line' = Bytes(p, Len(sent) + 1) /\ sent' = Append(sent, p)
    BY <1>1 DEF NodeSends
  <2>2. sent \in Seq(Payload) /\ Len(sent) + 1 \in Nat
    BY DEF TypeOK
  <2>3. line' \in Seq(Byte) /\ sent' \in Seq(Payload)
    BY <2>1, <2>2, BytesOK
  <2>4. UNCHANGED <<machineVars, driverVars, rx_ring_buf, active_buf, queued, running, faults>>
    BY <1>1 DEF NodeSends
  <2>5. QED
    BY <2>3, <2>4 DEF TypeOK
<1>2. CASE NoiseOnLine
  <2>1. PICK s \in Noise : line' = [i \in 1..Len(s) |-> [val |-> s[i], frame |-> 0, pos |-> 0]]
    BY <1>2 DEF NoiseOnLine
  <2>2. s \in Seq(0..(Base - 1)) /\ Len(s) \in Nat
    OBVIOUS
  <2>3. \A i \in 1..Len(s) : [val |-> s[i], frame |-> 0, pos |-> 0] \in Byte
    BY <2>2, ElementOfSeq DEF Byte
  <2>4. line' \in Seq(Byte)
    BY <2>1, <2>2, <2>3
  <2>5. faults' \in Nat
    BY <1>2 DEF NoiseOnLine, Fault, TypeOK
  <2>6. UNCHANGED <<machineVars, driverVars, sent, rx_ring_buf, active_buf, queued, running>>
    BY <1>2 DEF NoiseOnLine
  <2>7. QED
    BY <2>4, <2>5, <2>6 DEF TypeOK
<1>3. CASE ByteArrives
  <2>1. line \in Seq(Byte) /\ line # <<>> /\ fresh \in Seq(Byte)
    BY <1>3 DEF ByteArrives, TypeOK
  <2>2. /\ Tail(line) \in Seq(Byte) /\ Append(fresh, Head(line)) \in Seq(Byte)
        /\ Len(Append(fresh, Head(line))) = Len(fresh) + 1
    BY <2>1
  <2>3. /\ line' \in Seq(Byte) /\ fresh' \in Seq(Byte) /\ fill' \in 0..DmaSize
        /\ Len(fresh') <= fill'
    <3>1. CASE mode = "on"
      <4>1. /\ line' = Tail(line) /\ fresh' = Append(fresh, Head(line))
            /\ fill < DmaSize /\ fill' = fill + 1
        BY <1>3, <3>1 DEF ByteArrives
      <4>2. fill \in 0..DmaSize /\ Len(fresh) <= fill /\ Len(fresh) \in Nat
        BY <2>1 DEF TypeOK
      <4>3. QED
        BY <2>2, <4>1, <4>2
    <3>2. CASE mode # "on"
      BY <1>3, <2>2, <3>2 DEF ByteArrives, TypeOK
    <3>3. QED
      BY <3>1, <3>2
  <2>4. UNCHANGED <<machineVars, mode, filling, spare, sent, rx_ring_buf, active_buf, queued,
                    running, faults>>
    BY <1>3 DEF ByteArrives
  <2>5. QED
    BY <2>3, <2>4 DEF TypeOK
<1>4. QED
  BY <1>1, <1>2, <1>3 DEF Line

\* ring_buf_put never stores more than there is room for.
LEMMA RingOK ==
  ASSUME TypeOK
  PROVE  /\ Kept \in 0..Len(fresh)
         /\ rx_ring_buf \o SubSeq(fresh, 1, Kept) \in Seq(Byte)
         /\ SubSeq(fresh, 1, Kept) \in Seq(Byte) /\ Len(SubSeq(fresh, 1, Kept)) = Kept
         /\ Len(rx_ring_buf \o SubSeq(fresh, 1, Kept)) <= RingSize
<1>1. /\ rx_ring_buf \in Seq(Byte) /\ Len(rx_ring_buf) <= RingSize /\ Len(rx_ring_buf) \in Nat
      /\ fresh \in Seq(Byte) /\ Len(fresh) \in Nat /\ RingSize \in Nat
  BY RxAssumption DEF TypeOK
<1>2. Kept \in 0..Len(fresh) /\ Len(rx_ring_buf) + Kept <= RingSize
  BY <1>1 DEF Kept
<1>3. SubSeq(fresh, 1, Kept) \in Seq(Byte) /\ Len(SubSeq(fresh, 1, Kept)) = Kept
  <2> HIDE DEF Kept
  <2>1. QED
    BY <1>1, <1>2
<1> DEFINE t == SubSeq(fresh, 1, Kept)
<1> HIDE DEF t
<1>4. rx_ring_buf \o t \in Seq(Byte) /\ Len(rx_ring_buf \o t) = Len(rx_ring_buf) + Len(t)
  BY <1>1, <1>3 DEF t
<1>5. QED
  BY <1>1, <1>2, <1>3, <1>4 DEF t

\* The interrupt and the driver.
LEMMA InterruptType == ASSUME TypeOK, Interrupt \/ BufferEnds PROVE TypeOK'
<1> USE RxAssumption DEF machineVars, driverVars, nodeVars
<1>1. CASE RxRdy
  <2>1. rx_ring_buf' \in Seq(Byte) /\ Len(rx_ring_buf') <= RingSize
    BY <1>1, RingOK DEF RxRdy
  <2>2. fresh' = <<>> /\ queued' \in BOOLEAN
    BY <1>1, Zenon DEF RxRdy
  <2>3. faults' \in Nat
    BY <1>1 DEF RxRdy, Fault, TypeOK
  <2>4. UNCHANGED <<machineVars, mode, filling, spare, fill, nodeVars, active_buf, running>>
    BY <1>1 DEF RxRdy
  <2>5. QED
    BY <2>1, <2>2, <2>3, <2>4 DEF TypeOK
<1>2. CASE RxBufRequest
  BY <1>2 DEF RxBufRequest, TypeOK
<1>3. CASE RxStopped
  BY <1>3 DEF RxStopped, Fault, TypeOK
<1>4. CASE RxDisabled
  BY <1>4 DEF RxDisabled, TypeOK
<1>5. CASE BufferEnds
  <2>1. /\ filling' \in {0, 1} /\ spare' \subseteq {0, 1} /\ fill' \in 0..DmaSize
        /\ mode' \in {"on", "stopped", "deaf"} /\ faults' \in Nat
    <3>1. /\ filling \in {0, 1} /\ spare \subseteq {0, 1} /\ fill \in 0..DmaSize
          /\ faults \in Nat /\ mode = "on" /\ 0 \in 0..DmaSize
      BY <1>5 DEF BufferEnds, TypeOK
    <3>2. CASE spare # {}
      BY <1>5, <3>1, <3>2 DEF BufferEnds
    <3>3. CASE spare = {}
      BY <1>5, <3>1, <3>3 DEF BufferEnds, Fault
    <3>4. QED
      BY <3>2, <3>3
  <2>2. /\ UNCHANGED <<machineVars, fresh, nodeVars, rx_ring_buf, active_buf, queued, running>>
        /\ fresh = <<>>
    BY <1>5 DEF BufferEnds
  <2>3. QED
    BY <2>1, <2>2 DEF TypeOK
<1>6. QED
  BY <1>1, <1>2, <1>3, <1>4, <1>5 DEF Interrupt

\* The work handler.
LEMMA HandlerType ==
  ASSUME TypeOK, PayloadInBounds, Handler
  PROVE  TypeOK' /\ PayloadInBounds'
<1> USE DEF machineVars, driverVars, nodeVars
<1>1. CASE Run \/ RingEmpty
  <2>1. running' \in BOOLEAN /\ queued' \in BOOLEAN
    BY <1>1, Zenon DEF Run, RingEmpty, TypeOK
  <2>2. UNCHANGED <<machineVars, driverVars, nodeVars, rx_ring_buf, active_buf, faults>>
    BY <1>1 DEF Run, RingEmpty
  <2>3. QED
    BY <2>1, <2>2 DEF TypeOK, PayloadInBounds
<1>2. CASE GetByte
  <2> DEFINE b == Head(rx_ring_buf)
  <2>1. rx_ring_buf \in Seq(Byte) /\ rx_ring_buf # <<>>
    BY <1>2 DEF GetByte, TypeOK
  <2>2. /\ b \in Byte /\ Tail(rx_ring_buf) \in Seq(Byte)
        /\ Len(Tail(rx_ring_buf)) = Len(rx_ring_buf) - 1 /\ Len(rx_ring_buf) \in Nat
    BY <2>1
  <2> HIDE DEF b
  <2>3. rx_sm' \in Machine /\ InBounds(rx_sm')
    BY <1>2, <2>2, MachineStep DEF GetByte, TypeOK, PayloadInBounds, InBounds, Machine, b
  <2>4. delivered' \in Seq(Nat)
    <3>1. delivered \in Seq(Nat) /\ sent \in Seq(Payload)
      BY DEF TypeOK
    <3>2. Origin(Append(rx_sm.payload, b)) \in Nat
      BY <3>1, OriginOK
    <3>3. delivered' \in {delivered, Append(delivered, Origin(Append(rx_sm.payload, b)))}
      BY <1>2 DEF GetByte, b
    <3>4. QED
      BY <3>1, <3>2, <3>3
  <2>5. intact' \in Nat \X Nat
    <3>1. intact' \in {<<b.frame, b.pos>>, <<0, 0>>}
      BY <1>2 DEF GetByte, b
    <3>2. QED
      BY <2>2, <3>1 DEF Byte
  <2>6. rx_ring_buf' = Tail(rx_ring_buf)
        /\ UNCHANGED <<driverVars, nodeVars, active_buf, queued, running, faults>>
    BY <1>2 DEF GetByte
  <2>7. QED
    BY <2>2, <2>3, <2>4, <2>5, <2>6, RxAssumption
    DEF TypeOK, Machine, PayloadInBounds, InBounds
<1>3. QED
  BY <1>1, <1>2 DEF Handler

\* The first byte of the wire has come to nobody: the machine starts empty.
LEMMA InitType == Init => TypeOK /\ PayloadInBounds
<1> SUFFICES ASSUME Init PROVE TypeOK /\ PayloadInBounds
  OBVIOUS
<1>1. queued \in BOOLEAN /\ running \in BOOLEAN
  BY Zenon DEF Init
<1>2. QED
  BY <1>1, RxAssumption DEF Init, TypeOK, PayloadInBounds, RxState

\* Every step keeps TypeOK and the bounds of the payload.
LEMMA TypeStep ==
  TypeOK /\ PayloadInBounds /\ [Next]_vars => TypeOK' /\ PayloadInBounds'
<1> SUFFICES ASSUME TypeOK, PayloadInBounds, [Next]_vars PROVE TypeOK' /\ PayloadInBounds'
  OBVIOUS
<1>1. CASE Line
  <2>1. UNCHANGED rx_sm
    BY <1>1 DEF Line, NodeSends, NoiseOnLine, ByteArrives, machineVars
  <2>2. QED
    BY <1>1, <2>1, LineType DEF PayloadInBounds
<1>2. CASE Interrupt \/ BufferEnds
  <2>1. UNCHANGED rx_sm
    BY <1>2 DEF Interrupt, BufferEnds, RxRdy, RxBufRequest, RxStopped, RxDisabled, machineVars
  <2>2. QED
    BY <1>2, <2>1, InterruptType DEF PayloadInBounds
<1>3. CASE Handler
  BY <1>3, HandlerType
<1>4. CASE UNCHANGED vars
  BY <1>4 DEF vars, machineVars, driverVars, nodeVars, TypeOK, PayloadInBounds
<1>5. QED
  BY <1>1, <1>2, <1>3, <1>4 DEF Next

\* For every size of the buffers, every byte stream and every interleaving of interrupt and
\* handler: ring buffer and DMA buffers stay within their sizes.
THEOREM TypeCorrect == Spec => []TypeOK
<1>1. Spec => [](TypeOK /\ PayloadInBounds)
  BY InitType, TypeStep, PTL DEF Spec
<1>2. QED
  BY <1>1, PTL

\* And whatever the bytes are, rx_process_byte writes its payload buffer below
\* MESHTASTIC_MAX_PAYLOAD and never past the announced length.
THEOREM PayloadCorrect == Spec => []PayloadInBounds
<1>1. Spec => [](TypeOK /\ PayloadInBounds)
  BY InitType, TypeStep, PTL DEF Spec
<1>2. QED
  BY <1>1, PTL

--------------------------------------------------------------------------------
\* The DMA buffers and the work item.

\* Where the two buffers are while the receiver is on: the one last given to the driver is
\* being filled, or is the spare one and the other is being filled.
BuffersInTurn ==
  mode = "on" => \/ spare = {} /\ filling = active_buf
                 \/ spare = {active_buf} /\ filling = 1 - active_buf

\* A buffer request hands out the other buffer, the end of a buffer swaps them, and a
\* restart begins with the first.
LEMMA BuffersStep == TypeOK /\ BuffersInTurn /\ [Next]_vars => BuffersInTurn'
<1> SUFFICES ASSUME TypeOK, BuffersInTurn, [Next]_vars PROVE BuffersInTurn'
  OBVIOUS
<1>0. active_buf \in {0, 1}
  BY DEF TypeOK
<1>1. CASE RxBufRequest
  BY <1>0, <1>1 DEF RxBufRequest, BuffersInTurn
<1>2. CASE BufferEnds
  BY <1>0, <1>2 DEF BufferEnds, BuffersInTurn
<1>3. CASE RxDisabled
  BY <1>3 DEF RxDisabled, BuffersInTurn
<1>4. CASE RxStopped
  BY <1>4 DEF RxStopped, BuffersInTurn
<1>5. CASE UNCHANGED <<mode, filling, spare, active_buf>>
  BY <1>5 DEF BuffersInTurn
<1>6. QED
  BY <1>1, <1>2, <1>3, <1>4, <1>5 DEF Next, Line, Interrupt, Handler, NodeSends, NoiseOnLine,
    ByteArrives, RxRdy, Run, GetByte, RingEmpty, driverVars, vars

\* The driver never gets the buffer it is filling, whatever the order of buffer requests, bus
\* errors and restarts.
THEOREM BuffersCorrect == Spec => []DmaBuffersDistinct
<1>1. Init => BuffersInTurn
  BY DEF Init, BuffersInTurn
<1>2. TypeOK /\ BuffersInTurn => DmaBuffersDistinct
  BY DEF TypeOK, BuffersInTurn, DmaBuffersDistinct
<1>3. QED
  BY <1>1, <1>2, BuffersStep, TypeCorrect, PTL DEF Spec

\* Bytes that the interrupt stores set the item, and the handler leaves its loop only with
\* the ring empty.
LEMMA WakeupStep == TypeOK /\ NoLostWakeup /\ [Next]_vars => NoLostWakeup'
<1> SUFFICES ASSUME TypeOK, NoLostWakeup, [Next]_vars PROVE NoLostWakeup'
  OBVIOUS
<1>1. CASE RxRdy
  BY <1>1, Zenon DEF RxRdy, NoLostWakeup
<1>2. CASE Run
  BY <1>2, Zenon DEF Run, NoLostWakeup
<1>3. CASE GetByte
  BY <1>3, Zenon DEF GetByte, NoLostWakeup
<1>4. CASE RingEmpty
  BY <1>4, Zenon DEF RingEmpty, NoLostWakeup
<1>5. CASE UNCHANGED <<rx_ring_buf, queued, running>>
  BY <1>5, Zenon DEF NoLostWakeup
<1>6. QED
  BY <1>1, <1>2, <1>3, <1>4, <1>5 DEF Next, Line, Interrupt, Handler, NodeSends, NoiseOnLine,
    ByteArrives, RxBufRequest, RxStopped, RxDisabled, BufferEnds, vars

\* Bytes in the ring buffer always have a handler that runs or will run.
THEOREM WakeupCorrect == Spec => []NoLostWakeup
<1>1. Init => NoLostWakeup
  BY DEF Init, NoLostWakeup
<1>2. QED
  BY <1>1, WakeupStep, TypeCorrect, PTL DEF Spec

--------------------------------------------------------------------------------
\* Resynchronisation.

\* The marks of a byte tell where it comes from: noise, or a byte of a frame the node sent.
Marked(b) ==
  \/ b.frame = 0 /\ b.pos = 0
  \/ /\ b.frame \in 1..Len(sent)
     /\ b.pos \in 1..(Len(sent[b.frame]) + 4)
     /\ b.val = Framed(sent[b.frame])[b.pos]

AllMarked ==
  /\ \A i \in 1..Len(rx_ring_buf) : Marked(rx_ring_buf[i])
  /\ \A i \in 1..Len(fresh) : Marked(fresh[i])
  /\ \A i \in 1..Len(line) : Marked(line[i])

(***************************************************************************)
(* What the machine has made of the first n bytes of frame f, if they came *)
(* without a gap and found it hunting.                                     *)
(***************************************************************************)
InStep(sm, f, n) ==
  LET len == Len(sent[f])
  IN  /\ f \in 1..Len(sent) /\ n \in 1..(len + 4)
      /\ n = 1 => sm.state = "MAGIC2"
      /\ n = 2 => sm.state = "LEN_HI"
      /\ n = 3 => sm.state = "LEN_LO" /\ sm.expected_len = (len \div Base) * Base
      /\ n >= 4 /\ n < len + 4 =>
           /\ sm.state = "PAYLOAD" /\ sm.expected_len = len
           /\ Len(sm.payload) = n - 4
           /\ \A i \in 1..(n - 4) : sm.payload[i] = Bytes(sent[f], f)[i + 4]
      /\ n = len + 4 => sm.state = "MAGIC1"

Tracks == intact[2] > 0 => InStep(rx_sm, intact[1], intact[2])

\* Marks stay true as the node sends on.
LEMMA MarkedStays ==
  ASSUME TypeOK, NEW b \in Byte, Marked(b), \/ UNCHANGED sent
                                            \/ \E p \in Payload : sent' = Append(sent, p)
  PROVE  Marked(b)'
<1>1. CASE UNCHANGED sent
  BY <1>1 DEF Marked
<1>2. CASE \E p \in Payload : sent' = Append(sent, p)
  <2>1. PICK p \in Payload : sent' = Append(sent, p)
    BY <1>2
  <2>2. sent \in Seq(Payload)
    BY DEF TypeOK
  <2>3. /\ Len(sent') = Len(sent) + 1 /\ Len(sent) \in Nat
        /\ \A f \in 1..Len(sent) : sent'[f] = sent[f]
    BY <2>1, <2>2
  <2>4. CASE b.frame = 0 /\ b.pos = 0
    BY <2>4 DEF Marked
  <2>5. CASE b.frame \in 1..Len(sent)
    <3>1. b.frame \in 1..Len(sent') /\ sent'[b.frame] = sent[b.frame]
      BY <2>3, <2>5
    <3>2. QED
      BY <2>3, <2>5, <3>1 DEF Marked
  <2>6. QED
    BY <2>4, <2>5 DEF Marked
<1>3. QED
  BY <1>1, <1>2

\* What a step does to the bytes on their way: the node fills an empty line, the first byte
\* of the line goes into the DMA buffer or is lost, the DMA buffer goes into the ring but
\* for an end that does not fit, the first byte of the ring goes to the machine.
LEMMA Flow ==
  ASSUME TypeOK, [Next]_vars
  PROVE  \/ NodeSends
         \/ NoiseOnLine
         \/ ByteArrives
         \/ RxRdy
         \/ GetByte
         \/ UNCHANGED <<rx_ring_buf, fresh, line, sent, delivered, intact, rx_sm>>
  BY DEF Next, Line, Interrupt, Handler, BufferEnds, RxBufRequest, RxStopped, RxDisabled, Run,
    RingEmpty, vars, machineVars, driverVars, nodeVars

\* The first byte of the line goes to the end of the DMA buffer, or is lost.
LEMMA ArrivesFlow ==
  ASSUME TypeOK, ByteArrives
  PROVE  /\ line \in Seq(Byte) /\ line # <<>> /\ Len(line) \in Nat \ {0}
         /\ Len(line') = Len(line) - 1 /\ \A i \in 1..Len(line') : line'[i] = line[i + 1]
         /\ fresh \in Seq(Byte) /\ Len(fresh) \in Nat
         /\ \/ UNCHANGED fresh /\ mode # "on"
            \/ /\ Len(fresh') = Len(fresh) + 1
               /\ \A i \in 1..Len(fresh) : fresh'[i] = fresh[i]
               /\ fresh'[Len(fresh) + 1] = line[1]
               /\ fresh' = Append(fresh, line[1])
         /\ UNCHANGED <<rx_ring_buf, sent, delivered, intact, rx_sm, mode, faults>>
<1>1. line \in Seq(Byte) /\ line # <<>> /\ fresh \in Seq(Byte)
  BY DEF ByteArrives, TypeOK
<1>2. /\ Len(line) \in Nat \ {0} /\ Head(line) = line[1]
      /\ Len(Tail(line)) = Len(line) - 1
      /\ \A i \in 1..Len(Tail(line)) : Tail(line)[i] = line[i + 1]
  BY <1>1
<1>3. /\ Len(fresh) \in Nat /\ Len(Append(fresh, line[1])) = Len(fresh) + 1
      /\ \A i \in 1..Len(fresh) : Append(fresh, line[1])[i] = fresh[i]
      /\ Append(fresh, line[1])[Len(fresh) + 1] = line[1]
  BY <1>1
<1>4. line' = Tail(line) /\ UNCHANGED <<rx_ring_buf, sent, delivered, intact, rx_sm, mode, faults>>
  BY DEF ByteArrives, machineVars
<1>5. (UNCHANGED fresh /\ mode # "on") \/ fresh' = Append(fresh, line[1])
  BY <1>2 DEF ByteArrives
<1>6. QED
  BY <1>1, <1>2, <1>3, <1>4, <1>5

\* The interrupt moves a beginning of the DMA buffer to the end of the ring.
LEMMA RdyFlow ==
  ASSUME TypeOK, RxRdy
  PROVE  /\ rx_ring_buf \in Seq(Byte) /\ fresh \in Seq(Byte)
         /\ Len(rx_ring_buf) \in Nat /\ Len(fresh) \in Nat
         /\ Kept \in 0..Len(fresh)
         /\ rx_ring_buf' = rx_ring_buf \o SubSeq(fresh, 1, Kept)
         /\ Len(rx_ring_buf') = Len(rx_ring_buf) + Kept
         /\ \A i \in 1..Len(rx_ring_buf) : rx_ring_buf'[i] = rx_ring_buf[i]
         /\ \A i \in (Len(rx_ring_buf) + 1)..(Len(rx_ring_buf) + Kept) :
              rx_ring_buf'[i] = fresh[i - Len(rx_ring_buf)]
         /\ fresh' = <<>>
         /\ UNCHANGED <<line, sent, delivered, intact, rx_sm, mode>>
<1>1. /\ rx_ring_buf \in Seq(Byte) /\ fresh \in Seq(Byte)
      /\ Len(rx_ring_buf) \in Nat /\ Len(fresh) \in Nat
  BY DEF TypeOK
<1>2. /\ rx_ring_buf' = rx_ring_buf \o SubSeq(fresh, 1, Kept) /\ fresh' = <<>>
      /\ UNCHANGED <<line, sent, delivered, intact, rx_sm, mode>>
  BY DEF RxRdy, machineVars, nodeVars
<1>3. /\ Kept \in 0..Len(fresh)
      /\ SubSeq(fresh, 1, Kept) \in Seq(Byte) /\ Len(SubSeq(fresh, 1, Kept)) = Kept
  BY RingOK
<1> HIDE DEF Kept
<1> DEFINE t == SubSeq(fresh, 1, Kept)
<1>4. \A i \in 1..Kept : t[i] = fresh[i]
  BY <1>1, <1>3
<1> HIDE DEF t
<1>5. /\ Len(rx_ring_buf \o t) = Len(rx_ring_buf) + Len(t)
      /\ \A i \in 1..(Len(rx_ring_buf) + Len(t)) :
           (rx_ring_buf \o t)[i] = IF i <= Len(rx_ring_buf) THEN rx_ring_buf[i]
                                   ELSE t[i - Len(rx_ring_buf)]
  BY <1>1, <1>3, ConcatProperties DEF t
<1>6. Len(t) = Kept /\ rx_ring_buf' = rx_ring_buf \o t
  BY <1>2, <1>3 DEF t
<1>7. Len(rx_ring_buf') = Len(rx_ring_buf) + Kept
  BY <1>5, <1>6
<1>8. \A i \in 1..Len(rx_ring_buf) : rx_ring_buf'[i] = rx_ring_buf[i]
  BY <1>1, <1>3, <1>5, <1>6
<1>9. ASSUME NEW i \in (Len(rx_ring_buf) + 1)..(Len(rx_ring_buf) + Kept)
      PROVE  rx_ring_buf'[i] = fresh[i - Len(rx_ring_buf)]
  <2>1. i \in 1..(Len(rx_ring_buf) + Kept) /\ ~(i <= Len(rx_ring_buf))
        /\ i - Len(rx_ring_buf) \in 1..Kept
    BY <1>1, <1>3
  <2>2. QED
    BY <1>4, <1>5, <1>6, <2>1
<1>10. QED
  BY <1>1, <1>2, <1>3, <1>7, <1>8, <1>9

\* A byte of the ring after the interrupt was there before, or comes from the DMA buffer in
\* its order.
LEMMA RingGrows ==
  ASSUME TypeOK, RxRdy, NEW i \in 1..Len(rx_ring_buf')
  PROVE  \/ i \in 1..Len(rx_ring_buf) /\ rx_ring_buf'[i] = rx_ring_buf[i]
         \/ /\ i \notin 1..Len(rx_ring_buf) /\ i - Len(rx_ring_buf) \in 1..Len(fresh)
            /\ rx_ring_buf'[i] = fresh[i - Len(rx_ring_buf)]
<1>1. CASE i <= Len(rx_ring_buf)
  BY <1>1, RdyFlow
<1>2. CASE i > Len(rx_ring_buf)
  <2>1. i - Len(rx_ring_buf) \in 1..Len(fresh) /\ i \notin 1..Len(rx_ring_buf)
    BY <1>2, RdyFlow
  <2>2. i \in (Len(rx_ring_buf) + 1)..(Len(rx_ring_buf) + Kept)
    BY <1>2, RdyFlow
  <2>3. QED
    BY <2>1, <2>2, RdyFlow
<1>3. QED
  BY <1>1, <1>2, RdyFlow

\* The handler takes the first byte of the ring.
LEMMA GetFlow ==
  ASSUME TypeOK, GetByte
  PROVE  /\ rx_ring_buf \in Seq(Byte) /\ Len(rx_ring_buf) \in Nat \ {0}
         /\ rx_ring_buf[1] \in Byte /\ rx_ring_buf[1] = Head(rx_ring_buf)
         /\ Len(rx_ring_buf') = Len(rx_ring_buf) - 1
         /\ \A i \in 1..Len(rx_ring_buf') : rx_ring_buf'[i] = rx_ring_buf[i + 1]
         /\ rx_ring_buf' = Tail(rx_ring_buf) /\ rx_ring_buf # <<>>
         /\ UNCHANGED <<fresh, line, sent, mode, faults>>
<1>1. rx_ring_buf \in Seq(Byte) /\ rx_ring_buf # <<>>
  BY DEF GetByte, TypeOK
<1>2. rx_ring_buf' = Tail(rx_ring_buf) /\ UNCHANGED <<fresh, line, sent, mode, faults>>
  BY DEF GetByte, driverVars, nodeVars
<1>3. QED
  BY <1>1, <1>2

\* The node puts the bytes of a new frame on the line.
LEMMA SendFlow ==
  ASSUME TypeOK, NodeSends
  PROVE  \E p \in Payload :
           /\ sent' = Append(sent, p) /\ line = <<>> /\ line' = Bytes(p, Len(sent) + 1)
           /\ Len(sent') = Len(sent) + 1 /\ Len(sent) \in Nat
           /\ \A f \in 1..Len(sent) : sent'[f] = sent[f]
           /\ sent'[Len(sent) + 1] = p
           /\ Len(line') = Len(p) + 4 /\ Len(p) \in Nat \ {0}
           /\ \A i \in 1..Len(line') :
                line'[i] = [val |-> Framed(p)[i], frame |-> Len(sent) + 1, pos |-> i]
           /\ UNCHANGED <<rx_ring_buf, fresh, delivered, intact, rx_sm, mode, faults>>
<1>1. PICK p \in Payload : line' = Bytes(p, Len(sent) + 1) /\ sent' = Append(sent, p)
  BY DEF NodeSends
<1>2. sent \in Seq(Payload) /\ Len(sent) \in Nat
  BY DEF TypeOK
<1>3. /\ Len(sent') = Len(sent) + 1 /\ sent'[Len(sent) + 1] = p
      /\ \A f \in 1..Len(sent) : sent'[f] = sent[f]
  BY <1>1, <1>2
<1>4. Len(p) \in Nat \ {0}
  BY FramedBytes
<1>5. /\ Len(line') = Len(p) + 4
      /\ \A i \in 1..Len(line') :
           line'[i] = [val |-> Framed(p)[i], frame |-> Len(sent) + 1, pos |-> i]
  BY <1>1, <1>2, <1>4, BytesOK
<1>6. line = <<>> /\ UNCHANGED <<rx_ring_buf, fresh, delivered, intact, rx_sm, mode, faults>>
  BY DEF NodeSends, machineVars, driverVars
<1>7. QED
  BY <1>1, <1>2, <1>3, <1>4, <1>5, <1>6

\* Noise puts bytes on the line that belong to no frame.
LEMMA NoiseFlow ==
  ASSUME TypeOK, NoiseOnLine
  PROVE  /\ \A i \in 1..Len(line') : line'[i].frame = 0 /\ line'[i].pos = 0
         /\ UNCHANGED <<rx_ring_buf, fresh, sent, delivered, intact, rx_sm>>
         /\ faults' = faults + 1
<1>1. PICK s \in Noise : line' = [i \in 1..Len(s) |-> [val |-> s[i], frame |-> 0, pos |-> 0]]
  BY DEF NoiseOnLine
<1>2. Len(s) \in Nat
  BY RxAssumption
<1>3. QED
  BY <1>1, <1>2 DEF NoiseOnLine, Fault, machineVars, driverVars

\* The marks stay true over every step.
LEMMA MarkedStep == TypeOK /\ AllMarked /\ [Next]_vars => AllMarked'
<1> SUFFICES ASSUME TypeOK, AllMarked, [Next]_vars PROVE AllMarked'
  OBVIOUS
<1>0. rx_ring_buf \in Seq(Byte) /\ fresh \in Seq(Byte) /\ line \in Seq(Byte)
  BY DEF TypeOK
<1>1. CASE NodeSends
  <2>1. PICK p \in Payload :
           /\ sent' = Append(sent, p)
           /\ Len(sent') = Len(sent) + 1 /\ Len(sent) \in Nat
           /\ sent'[Len(sent) + 1] = p
           /\ Len(line') = Len(p) + 4 /\ Len(p) \in Nat
           /\ \A i \in 1..Len(line') :
                line'[i] = [val |-> Framed(p)[i], frame |-> Len(sent) + 1, pos |-> i]
           /\ UNCHANGED <<rx_ring_buf, fresh>>
    BY <1>1, SendFlow
  <2>2. ASSUME NEW b \in Byte, Marked(b) PROVE Marked(b)'
    BY <2>1, <2>2, MarkedStays
  <2>3. ASSUME NEW i \in 1..Len(line') PROVE Marked(line[i])'
    BY <2>1 DEF Marked
  <2>4. \A i \in 1..Len(rx_ring_buf) : Marked(rx_ring_buf[i])'
    BY <1>0, <2>1, <2>2, ElementOfSeq DEF AllMarked
  <2>5. \A i \in 1..Len(fresh) : Marked(fresh[i])'
    BY <1>0, <2>1, <2>2, ElementOfSeq DEF AllMarked
  <2>6. QED
    BY <2>1, <2>3, <2>4, <2>5 DEF AllMarked
<1>2. CASE NoiseOnLine
  BY <1>2, NoiseFlow DEF AllMarked, Marked
<1>3. CASE ByteArrives
  <2>1. UNCHANGED <<rx_ring_buf, sent>>
    BY <1>3, ArrivesFlow
  <2>2. \A i \in 1..Len(line') : line'[i] = line[i + 1] /\ i + 1 \in 1..Len(line)
    BY <1>3, ArrivesFlow
  <2>3. \A i \in 1..Len(fresh') :
          (i \in 1..Len(fresh) /\ fresh'[i] = fresh[i]) \/ (fresh'[i] = line[1] /\ 1 \in 1..Len(line))
    BY <1>3, ArrivesFlow
  <2>4. QED
    BY <2>1, <2>2, <2>3 DEF AllMarked, Marked
<1>4. CASE RxRdy
  <2>1. UNCHANGED <<line, sent>> /\ fresh' = <<>>
    BY <1>4, RdyFlow
  <2>2. ASSUME NEW i \in 1..Len(rx_ring_buf')
        PROVE  \/ i \in 1..Len(rx_ring_buf) /\ rx_ring_buf'[i] = rx_ring_buf[i]
               \/ \E j \in 1..Len(fresh) : rx_ring_buf'[i] = fresh[j]
    BY <1>4, RingGrows
  <2>3. \A i \in 1..Len(rx_ring_buf') : Marked(rx_ring_buf[i])'
    BY <2>1, <2>2 DEF AllMarked, Marked
  <2>4. \A i \in 1..Len(line') : Marked(line[i])'
    BY <2>1 DEF AllMarked, Marked
  <2>5. \A i \in 1..Len(fresh') : Marked(fresh[i])'
    BY <2>1
  <2>6. QED
    BY <2>3, <2>4, <2>5 DEF AllMarked
<1>5. CASE GetByte
  <2>1. UNCHANGED <<line, sent, fresh>>
    BY <1>5, GetFlow
  <2>2. \A i \in 1..Len(rx_ring_buf') :
          rx_ring_buf'[i] = rx_ring_buf[i + 1] /\ i + 1 \in 1..Len(rx_ring_buf)
    BY <1>5, GetFlow
  <2>3. QED
    BY <2>1, <2>2 DEF AllMarked, Marked
<1>6. CASE UNCHANGED <<rx_ring_buf, fresh, line, sent, delivered, intact, rx_sm>>
  BY <1>6 DEF AllMarked, Marked
<1>7. QED
  BY <1>1, <1>2, <1>3, <1>4, <1>5, <1>6, Flow

\* The payload part of a frame's bytes, and it belongs to no other frame.
LEMMA PayloadPart ==
  ASSUME NEW p \in Payload, NEW f \in Nat
  PROVE  LET t == SubSeq(Bytes(p, f), 5, Len(p) + 4)
         IN  /\ t \in Seq(Byte) /\ Len(t) = Len(p) /\ Len(p) \in Nat \ {0}
             /\ \A i \in 1..Len(p) : t[i] = Bytes(p, f)[i + 4]
             /\ t[1].frame = f
<1>1. /\ Bytes(p, f) \in Seq(Byte) /\ Len(Bytes(p, f)) = Len(p) + 4
      /\ \A i \in 1..(Len(p) + 4) :
           Bytes(p, f)[i] = [val |-> Framed(p)[i], frame |-> f, pos |-> i]
  BY BytesOK
<1>2. Len(p) \in Nat \ {0}
  BY FramedBytes
<1> DEFINE b == Bytes(p, f)
           t == SubSeq(b, 5, Len(p) + 4)
<1>3. b[5].frame = f
  BY <1>1, <1>2
<1>4. b \in Seq(Byte) /\ Len(b) = Len(p) + 4
  BY <1>1
<1> HIDE DEF b
<1>5. t \in Seq(Byte) /\ Len(t) = Len(p) /\ \A i \in 1..Len(p) : t[i] = b[i + 4]
  BY <1>2, <1>4
<1>6. t[1] = b[5]
  BY <1>2, <1>5
<1>7. QED
  BY <1>2, <1>3, <1>5, <1>6 DEF b

\* A payload that is byte for byte that of frame f is taken for that of frame f.
LEMMA OriginOf ==
  ASSUME TypeOK, NEW f \in 1..Len(sent), NEW q \in Seq(Byte), Len(q) = Len(sent[f]),
         \A i \in 1..Len(q) : q[i] = Bytes(sent[f], f)[i + 4]
  PROVE  Origin(q) = f
<1> DEFINE Of(g) == SubSeq(Bytes(sent[g], g), 5, Len(sent[g]) + 4)
           F == {g \in 1..Len(sent) : q = Of(g)}
<1>1. \A g \in 1..Len(sent) : sent[g] \in Payload /\ g \in Nat
  BY ElementOfSeq DEF TypeOK
<1>2. \A g \in 1..Len(sent) :
        /\ Of(g) \in Seq(Byte) /\ Len(Of(g)) = Len(sent[g])
        /\ \A i \in 1..Len(sent[g]) : Of(g)[i] = Bytes(sent[g], g)[i + 4]
        /\ Of(g)[1].frame = g
  BY <1>1, PayloadPart
<1>3. Origin(q) = IF F = {} THEN 0 ELSE CHOOSE g \in F : TRUE
  BY DEF Origin
<1> HIDE DEF Of
<1>4. q = Of(f)
  BY <1>2, SeqEqual
<1>5. F = {f}
  BY <1>2, <1>4
<1>6. QED
  BY <1>3, <1>5

\* A machine that follows frame f byte by byte goes on following it with its next byte, and
\* delivers it with the last one.
LEMMA InStepNext ==
  ASSUME TypeOK, NEW b \in Byte, Marked(b),
         \/ b.pos = 1 /\ Hunting(rx_sm)
         \/ b.pos > 1 /\ InStep(rx_sm, b.frame, b.pos - 1)
  PROVE  /\ InStep(rx_process_byte(rx_sm, b), b.frame, b.pos)
         /\ b.pos < Len(sent[b.frame]) + 4 => ~Ends(rx_sm)
         /\ b.pos = Len(sent[b.frame]) + 4 =>
              Ends(rx_sm) /\ Origin(Append(rx_sm.payload, b)) = b.frame
<1> DEFINE f == b.frame
           n == b.pos
           len == Len(sent[f])
           sm == rx_sm
           next == rx_process_byte(sm, b)
<1>1. b.pos \in Nat \ {0}
  BY DEF Byte
<1>2. /\ f \in 1..Len(sent) /\ n \in 1..(len + 4)
      /\ b.val = Framed(sent[f])[n] /\ sent[f] \in Payload
  BY <1>1, ElementOfSeq DEF Marked, TypeOK
<1>3. /\ len \in 1..MaxPayload
      /\ Framed(sent[f])[1] = MAGIC1 /\ Framed(sent[f])[2] = MAGIC2
      /\ Framed(sent[f])[3] = len \div Base /\ Framed(sent[f])[4] = len % Base
  BY <1>2, FramedBytes
<1>4. /\ sm \in Machine /\ MaxPayload \in Nat /\ MAGIC1 # MAGIC2
  BY RxAssumption DEF TypeOK, Machine
<1>5. /\ len \div Base \in 0..(Base - 1) /\ len % Base \in 0..(Base - 1)
      /\ (len \div Base) * Base + (len % Base) = len
  BY <1>3, <1>4, LengthBytes
<1>6. b = Bytes(sent[f], f)[n]
  <2>1. Bytes(sent[f], f)[n] = [val |-> Framed(sent[f])[n], frame |-> f, pos |-> n]
    BY <1>2, BytesOK
  <2>2. QED
    BY <1>2, <2>1 DEF Byte
<1>7. CASE n = 1
  <2>1. b.val = MAGIC1 /\ sm.state \in {"MAGIC1", "MAGIC2"}
    BY <1>2, <1>3, <1>7 DEF Hunting
  <2>2. next.state = "MAGIC2"
    BY <1>4, <2>1 DEF rx_process_byte, Magic1, Magic2, Machine
  <2>3. ~Ends(sm)
    BY <2>1 DEF Ends
  <2>4. QED
    BY <1>2, <1>3, <1>4, <1>7, <2>2, <2>3 DEF InStep
<1>8. CASE n = 2
  <2>1. b.val = MAGIC2 /\ sm.state = "MAGIC2"
    BY <1>2, <1>3, <1>8 DEF InStep
  <2>2. next.state = "LEN_HI"
    BY <1>4, <2>1 DEF rx_process_byte, Magic2, Machine
  <2>3. ~Ends(sm)
    BY <2>1 DEF Ends
  <2>4. QED
    BY <1>2, <1>3, <1>4, <1>8, <2>2, <2>3 DEF InStep
<1>9. CASE n = 3
  <2>1. b.val = len \div Base /\ sm.state = "LEN_HI"
    BY <1>2, <1>3, <1>9 DEF InStep
  <2>2. next.state = "LEN_LO" /\ next.expected_len = (len \div Base) * Base
    BY <1>4, <2>1 DEF rx_process_byte, LenHi, Machine
  <2>3. ~Ends(sm)
    BY <2>1 DEF Ends
  <2>4. QED
    BY <1>2, <1>3, <1>4, <1>9, <2>2, <2>3 DEF InStep
<1>10. CASE n = 4
  <2>1. b.val = len % Base /\ sm.state = "LEN_LO" /\ sm.expected_len = (len \div Base) * Base
    BY <1>2, <1>3, <1>10 DEF InStep
  <2>2. next = LenLo(sm, b)
    BY <2>1 DEF rx_process_byte
  <2>3. sm.expected_len + b.val = len
    BY <1>5, <2>1
  <2>4. next = [state |-> "PAYLOAD", expected_len |-> len, payload |-> <<>>]
    BY <1>3, <1>4, <2>2, <2>3 DEF LenLo
  <2>5. ~Ends(sm)
    BY <2>1 DEF Ends
  <2>6. /\ next.state = "PAYLOAD" /\ next.expected_len = len /\ Len(next.payload) = 0
    BY <2>4
  <2>7. QED
    BY <1>2, <1>3, <1>4, <1>10, <2>6, <2>5 DEF InStep
<1>11. CASE n > 4
  <2>1. /\ sm.state = "PAYLOAD" /\ sm.expected_len = len
        /\ Len(sm.payload) = n - 5
        /\ \A i \in 1..(n - 5) : sm.payload[i] = Bytes(sent[f], f)[i + 4]
    <3>1. InStep(sm, f, n - 1)
      BY <1>11
    <3>2. n - 1 >= 4 /\ n - 1 < len + 4 /\ (n - 1) - 4 = n - 5
      BY <1>1, <1>2, <1>3, <1>4, <1>11
    <3>3. QED
      BY <3>1, <3>2 DEF InStep
  <2> DEFINE q == Append(sm.payload, b)
  <2>2. sm.payload \in Seq(Byte)
    BY <1>4 DEF Machine
  <2>3. /\ q \in Seq(Byte) /\ Len(q) = n - 4
        /\ \A i \in 1..(n - 4) : q[i] = Bytes(sent[f], f)[i + 4]
    <3>1. /\ q \in Seq(Byte) /\ Len(q) = n - 4 /\ q[n - 4] = b
          /\ \A i \in 1..(n - 5) : q[i] = sm.payload[i]
      BY <1>1, <1>11, <2>1, <2>2
    <3>2. \A i \in 1..(n - 4) : i \in 1..(n - 5) \/ i = n - 4
      BY <1>1, <1>11
    <3>3. (n - 4) + 4 = n
      BY <1>1
    <3>4. QED
      BY <1>6, <2>1, <3>1, <3>2, <3>3
  <2>4. next = [sm EXCEPT !.payload = q, !.state = IF Ends(sm) THEN "MAGIC1" ELSE "PAYLOAD"]
    BY <2>1 DEF rx_process_byte, PayloadByte
  <2>5. Ends(sm) <=> n = len + 4
    <3>1. Ends(sm) <=> (n - 5) + 1 = len
      BY <2>1 DEF Ends
    <3>2. len \in Nat /\ n \in Nat
      BY <1>1, <1>3, <1>4
    <3> HIDE DEF n, len, sm
    <3>3. (n - 5) + 1 = len <=> n = len + 4
      BY <3>2
    <3>4. QED
      BY <3>1, <3>3
  <2> HIDE DEF q, next
  <2>6. /\ next.payload = q /\ next.expected_len = len
        /\ next.state = IF Ends(sm) THEN "MAGIC1" ELSE "PAYLOAD"
    BY <1>4, <2>1, <2>4 DEF Machine
  <2>7. InStep(next, f, n)
    BY <1>1, <1>2, <1>3, <1>4, <1>11, <2>3, <2>5, <2>6 DEF InStep
  <2>8. n = len + 4 => Origin(q) = f
    <3>1. SUFFICES ASSUME n = len + 4 PROVE Origin(q) = f
      OBVIOUS
    <3>2. Len(q) = len
      BY <1>3, <1>4, <2>3, <3>1
    <3>3. \A i \in 1..Len(q) : q[i] = Bytes(sent[f], f)[i + 4]
      BY <2>3
    <3>4. QED
      BY <1>2, <2>3, <3>2, <3>3, OriginOf
  <2>9. QED
    BY <1>1, <1>2, <1>3, <1>4, <2>5, <2>7, <2>8 DEF q, next
<1>12. QED
  BY <1>1, <1>7, <1>8, <1>9, <1>10, <1>11

\* What GetByte does to the machine, to what it delivers and to the history intact.
LEMMA GetEffect ==
  ASSUME TypeOK, AllMarked, Tracks, GetByte, NEW b, b = rx_ring_buf[1]
  PROVE  /\ b \in Byte /\ Marked(b)
         /\ rx_sm' = rx_process_byte(rx_sm, b)
         /\ delivered' = IF Ends(rx_sm)
                         THEN Append(delivered, Origin(Append(rx_sm.payload, b)))
                         ELSE delivered
         /\ \/ /\ intact' = <<b.frame, b.pos>> /\ b.frame \in 1..Len(sent) /\ b.pos > 0
               /\ InStep(rx_process_byte(rx_sm, b), b.frame, b.pos)
               /\ b.pos < Len(sent[b.frame]) + 4 => ~Ends(rx_sm)
               /\ b.pos = Len(sent[b.frame]) + 4 =>
                    Ends(rx_sm) /\ Origin(Append(rx_sm.payload, b)) = b.frame
            \/ /\ intact' = <<0, 0>>
               /\ ~(b.pos = 1 /\ Hunting(rx_sm))
               /\ ~(b.pos > 1 /\ intact = <<b.frame, b.pos - 1>>)
<1>1. b \in Byte /\ b = Head(rx_ring_buf) /\ 1 \in 1..Len(rx_ring_buf)
  BY GetFlow
<1>2. Marked(b)
  BY <1>1 DEF AllMarked
<1>3. /\ rx_sm' = rx_process_byte(rx_sm, b)
      /\ delivered' = IF Ends(rx_sm)
                      THEN Append(delivered, Origin(Append(rx_sm.payload, b)))
                      ELSE delivered
      /\ intact' = IF \/ b.pos = 1 /\ Hunting(rx_sm)
                      \/ b.pos > 1 /\ intact = <<b.frame, b.pos - 1>>
                   THEN <<b.frame, b.pos>>
                   ELSE <<0, 0>>
  BY <1>1 DEF GetByte
<1>4. CASE \/ b.pos = 1 /\ Hunting(rx_sm)
           \/ b.pos > 1 /\ intact = <<b.frame, b.pos - 1>>
  <2>1. b.pos \in Nat \ {0}
    BY <1>1, <1>4 DEF Byte
  <2>2. b.pos > 1 /\ intact = <<b.frame, b.pos - 1>> => InStep(rx_sm, b.frame, b.pos - 1)
    BY <2>1 DEF Tracks
  <2>3. /\ InStep(rx_process_byte(rx_sm, b), b.frame, b.pos)
        /\ b.pos < Len(sent[b.frame]) + 4 => ~Ends(rx_sm)
        /\ b.pos = Len(sent[b.frame]) + 4 =>
             Ends(rx_sm) /\ Origin(Append(rx_sm.payload, b)) = b.frame
    BY <1>1, <1>2, <1>4, <2>2, InStepNext
  <2>4. b.frame \in 1..Len(sent) /\ b.pos > 0
    BY <2>1, <1>2 DEF Marked
  <2>5. intact' = <<b.frame, b.pos>>
    BY <1>3, <1>4
  <2>6. QED
    BY <1>1, <1>2, <1>3, <2>3, <2>4, <2>5
<1>5. CASE ~(\/ b.pos = 1 /\ Hunting(rx_sm)
             \/ b.pos > 1 /\ intact = <<b.frame, b.pos - 1>>)
  BY <1>1, <1>2, <1>3, <1>5
<1>6. QED
  BY <1>4, <1>5

\* The machine stays in step with an intact frame.
LEMMA TracksStep == TypeOK /\ AllMarked /\ Tracks /\ [Next]_vars => Tracks'
<1> SUFFICES ASSUME TypeOK, AllMarked, Tracks, [Next]_vars PROVE Tracks'
  OBVIOUS
<1>1. CASE GetByte
  <2> DEFINE b == rx_ring_buf[1]
  <2>1. UNCHANGED sent
    BY <1>1, GetFlow
  <2>2. CASE intact' = <<0, 0>>
    BY <2>2 DEF Tracks
  <2>3. CASE intact' # <<0, 0>>
    <3>1. /\ rx_sm' = rx_process_byte(rx_sm, b) /\ intact' = <<b.frame, b.pos>>
          /\ InStep(rx_process_byte(rx_sm, b), b.frame, b.pos)
      BY <1>1, <2>3, GetEffect
    <3> HIDE DEF b
    <3>2. InStep(rx_sm', b.frame, b.pos)
      BY <3>1
    <3>3. QED
      BY <2>1, <3>1, <3>2 DEF Tracks, InStep
  <2>4. QED
    BY <2>2, <2>3
<1>2. CASE NodeSends
  <2>1. PICK p \in Payload : /\ sent' = Append(sent, p) /\ Len(sent') = Len(sent) + 1
                             /\ Len(sent) \in Nat
                             /\ \A f \in 1..Len(sent) : sent'[f] = sent[f]
                             /\ UNCHANGED <<intact, rx_sm>>
    BY <1>2, SendFlow
  <2>2. QED
    BY <2>1 DEF Tracks, InStep
<1>3. CASE UNCHANGED <<intact, rx_sm, sent>>
  BY <1>3 DEF Tracks, InStep
<1>4. QED
  BY <1>1, <1>2, <1>3, Flow, NoiseFlow, ArrivesFlow, RdyFlow

\* What resynchronisation rests on.
Resync == TypeOK /\ PayloadInBounds /\ AllMarked /\ Tracks

\* It holds initially and over every step.
LEMMA ResyncInductive == (Init => Resync) /\ (Resync /\ [Next]_vars => Resync')
<1>1. Init => Resync
  BY InitType DEF Init, Resync, AllMarked, Tracks
<1>2. Resync /\ [Next]_vars => Resync'
  BY TypeStep, MarkedStep, TracksStep DEF Resync
<1>3. QED
  BY <1>1, <1>2

\* A frame that begins while the machine hunts, and whose bytes then come without a gap, is
\* delivered with its last byte, whatever its length and its contents and whatever was lost
\* before.
THEOREM ResyncCorrect == Spec => IntactFrameDelivered
<1>1. ASSUME Resync, [Next]_vars, NEW f \in 1..Len(sent), intact' # intact,
             intact' = <<f, Len(sent[f]) + 4>>
      PROVE  delivered' = Append(delivered, f)
  <2> DEFINE b == rx_ring_buf[1]
  <2>1. GetByte
    BY <1>1, Flow, SendFlow, NoiseFlow, ArrivesFlow, RdyFlow DEF Resync
  <2>2. intact' # <<0, 0>>
    BY <1>1 DEF Resync, TypeOK
  <2>3. /\ intact' = <<b.frame, b.pos>>
        /\ b.pos = Len(sent[b.frame]) + 4 =>
             Ends(rx_sm) /\ Origin(Append(rx_sm.payload, b)) = b.frame
        /\ delivered' = IF Ends(rx_sm)
                        THEN Append(delivered, Origin(Append(rx_sm.payload, b)))
                        ELSE delivered
    BY <1>1, <2>1, <2>2, GetEffect DEF Resync
  <2> HIDE DEF b
  <2>4. b.frame = f /\ b.pos = Len(sent[f]) + 4
    BY <1>1, <2>3
  <2>5. QED
    BY <2>3, <2>4
<1>2. Resync /\ [Next]_vars =>
        [\A f \in 1..Len(sent) :
           intact' # intact /\ intact' = <<f, Len(sent[f]) + 4>> =>
             delivered' = Append(delivered, f)]_vars
  BY <1>1
<1>3. QED
  BY <1>2, ResyncInductive, PTL DEF Spec, IntactFrameDelivered

--------------------------------------------------------------------------------
\* Order.

\* Byte a was sent before byte b, as far as they belong to frames.
Before(a, b) ==
  \/ a.frame = 0 \/ b.frame = 0
  \/ a.frame < b.frame
  \/ a.frame = b.frame /\ a.pos < b.pos

\* Nothing overtakes between the node and the handler: line behind DMA buffer behind ring.
Ordered ==
  /\ \A i, j \in 1..Len(rx_ring_buf) : i < j => Before(rx_ring_buf[i], rx_ring_buf[j])
  /\ \A i, j \in 1..Len(fresh) : i < j => Before(fresh[i], fresh[j])
  /\ \A i, j \in 1..Len(line) : i < j => Before(line[i], line[j])
  /\ \A i \in 1..Len(rx_ring_buf), j \in 1..Len(fresh) : Before(rx_ring_buf[i], fresh[j])
  /\ \A i \in 1..Len(rx_ring_buf), j \in 1..Len(line) : Before(rx_ring_buf[i], line[j])
  /\ \A i \in 1..Len(fresh), j \in 1..Len(line) : Before(fresh[i], line[j])

\* A byte on its way belongs to no frame that was delivered, nor to an earlier one.
Later(b, d) == b.frame = 0 \/ \A k \in 1..Len(d) : d[k] < b.frame

AllLater ==
  /\ \A k \in 1..Len(delivered) : delivered[k] <= Len(sent)
  /\ \A i \in 1..Len(rx_ring_buf) : Later(rx_ring_buf[i], delivered)
  /\ \A i \in 1..Len(fresh) : Later(fresh[i], delivered)
  /\ \A i \in 1..Len(line) : Later(line[i], delivered)

\* Whole frames come in the order they were sent, none twice.
InOrder ==
  \A i, j \in 1..Len(delivered) :
    i < j /\ delivered[i] # 0 /\ delivered[j] # 0 => delivered[i] < delivered[j]

\* Nothing overtakes in any step.
LEMMA OrderedStep == TypeOK /\ AllMarked /\ Ordered /\ [Next]_vars => Ordered'
<1> SUFFICES ASSUME TypeOK, AllMarked, Ordered, [Next]_vars PROVE Ordered'
  OBVIOUS
<1> DEFINE R == 1..Len(rx_ring_buf)
           F == 1..Len(fresh)
           L == 1..Len(line)
<1>0. Len(rx_ring_buf) \in Nat /\ Len(fresh) \in Nat /\ Len(line) \in Nat
  BY DEF TypeOK
<1>1. CASE NodeSends
  <2>1. PICK p \in Payload :
           /\ Len(sent) \in Nat /\ Len(line') = Len(p) + 4 /\ Len(p) \in Nat
           /\ \A i \in 1..Len(line') :
                line'[i] = [val |-> Framed(p)[i], frame |-> Len(sent) + 1, pos |-> i]
           /\ UNCHANGED <<rx_ring_buf, fresh>>
    BY <1>1, SendFlow
  <2>2. \A i, j \in 1..Len(line') : i < j => Before(line'[i], line'[j])
    BY <2>1 DEF Before
  <2>3. \A i \in R : rx_ring_buf[i].frame = 0 \/ rx_ring_buf[i].frame \in 1..Len(sent)
    BY DEF AllMarked, Marked
  <2>4. \A i \in F : fresh[i].frame = 0 \/ fresh[i].frame \in 1..Len(sent)
    BY DEF AllMarked, Marked
  <2>5. \A i \in R, j \in 1..Len(line') : Before(rx_ring_buf[i], line'[j])
    BY <2>1, <2>3 DEF Before
  <2>6. \A i \in F, j \in 1..Len(line') : Before(fresh[i], line'[j])
    BY <2>1, <2>4 DEF Before
  <2>7. QED
    BY <2>1, <2>2, <2>5, <2>6 DEF Ordered, Before
<1>2. CASE NoiseOnLine
  <2>1. /\ \A i \in 1..Len(line') : line'[i].frame = 0
        /\ UNCHANGED <<rx_ring_buf, fresh>>
    BY <1>2, NoiseFlow
  <2>2. QED
    BY <2>1 DEF Ordered, Before
<1>3. CASE ByteArrives
  <2>1. /\ UNCHANGED rx_ring_buf /\ 1 \in L
        /\ \A i \in 1..Len(line') : line'[i] = line[i + 1] /\ i + 1 \in L /\ 1 < i + 1
        /\ \A i, j \in 1..Len(line') : i < j => i + 1 < j + 1
    BY <1>0, <1>3, ArrivesFlow
  <2>2. \/ UNCHANGED fresh
        \/ /\ Len(fresh') = Len(fresh) + 1
           /\ \A i \in F : fresh'[i] = fresh[i]
           /\ fresh'[Len(fresh) + 1] = line[1]
    BY <1>3, ArrivesFlow
  <2>3. \A i, j \in 1..Len(line') : i < j => Before(line'[i], line'[j])
    BY <2>1 DEF Ordered
  <2>4. \A i \in R, j \in 1..Len(line') : Before(rx_ring_buf[i], line'[j])
    BY <2>1 DEF Ordered
  <2>5. CASE UNCHANGED fresh
    <3>1. \A i \in F, j \in 1..Len(line') : Before(fresh[i], line'[j])
      BY <2>1 DEF Ordered
    <3>2. QED
      BY <2>1, <2>3, <2>4, <2>5, <3>1 DEF Ordered, Before
  <2>6. CASE /\ Len(fresh') = Len(fresh) + 1
             /\ \A i \in F : fresh'[i] = fresh[i]
             /\ fresh'[Len(fresh) + 1] = line[1]
    <3>1. \A i \in 1..Len(fresh') : \/ i \in F /\ fresh'[i] = fresh[i]
                                    \/ i = Len(fresh) + 1 /\ fresh'[i] = line[1]
      BY <1>0, <2>6
    <3>2. \A i, j \in 1..Len(fresh') : i < j => i \in F
      BY <1>0, <2>6
    <3>3. \A i, j \in 1..Len(fresh') : i < j => Before(fresh'[i], fresh'[j])
      BY <2>1, <3>1, <3>2 DEF Ordered
    <3>4. \A i \in R, j \in 1..Len(fresh') : Before(rx_ring_buf[i], fresh'[j])
      BY <2>1, <3>1 DEF Ordered
    <3>5. \A i \in 1..Len(fresh'), j \in 1..Len(line') : Before(fresh'[i], line'[j])
      BY <2>1, <3>1 DEF Ordered
    <3>6. QED
      BY <2>1, <2>3, <2>4, <3>3, <3>4, <3>5 DEF Ordered, Before
  <2>7. QED
    BY <2>2, <2>5, <2>6
<1>4. CASE RxRdy
  <2>1. UNCHANGED line /\ fresh' = <<>> /\ 1..Len(fresh') = {}
    BY <1>4, RdyFlow
  <2>2. ASSUME NEW i \in 1..Len(rx_ring_buf')
        PROVE  \/ i \in R /\ rx_ring_buf'[i] = rx_ring_buf[i]
               \/ /\ i \notin R /\ i - Len(rx_ring_buf) \in F
                  /\ rx_ring_buf'[i] = fresh[i - Len(rx_ring_buf)]
    BY <1>4, RingGrows
  <2>3. ASSUME NEW i \in 1..Len(rx_ring_buf'), NEW j \in 1..Len(rx_ring_buf'), i < j
        PROVE  Before(rx_ring_buf'[i], rx_ring_buf'[j])
    <3>1. CASE i \in R /\ j \in R
      BY <2>2, <2>3, <3>1 DEF Ordered
    <3>2. CASE i \in R /\ j \notin R
      BY <2>2, <3>2 DEF Ordered
    <3>3. CASE i \notin R
      <4>1. j \notin R /\ i - Len(rx_ring_buf) < j - Len(rx_ring_buf)
        BY <1>0, <2>3, <3>3
      <4>2. QED
        BY <2>2, <3>3, <4>1 DEF Ordered
    <3>4. QED
      BY <3>1, <3>2, <3>3
  <2>4. \A i \in 1..Len(rx_ring_buf'), j \in L : Before(rx_ring_buf'[i], line[j])
    BY <2>2 DEF Ordered
  <2>5. QED
    BY <2>1, <2>3, <2>4 DEF Ordered, Before
<1>5. CASE GetByte
  <2>1. /\ UNCHANGED <<line, fresh>>
        /\ \A i \in 1..Len(rx_ring_buf') : rx_ring_buf'[i] = rx_ring_buf[i + 1] /\ i + 1 \in R
        /\ \A i, j \in 1..Len(rx_ring_buf') : i < j => i + 1 < j + 1
    BY <1>0, <1>5, GetFlow
  <2>2. \A i, j \in 1..Len(rx_ring_buf') : i < j => Before(rx_ring_buf'[i], rx_ring_buf'[j])
    BY <2>1 DEF Ordered
  <2>3. \A i \in 1..Len(rx_ring_buf') : /\ \A j \in F : Before(rx_ring_buf'[i], fresh[j])
                                        /\ \A j \in L : Before(rx_ring_buf'[i], line[j])
    BY <2>1 DEF Ordered
  <2>4. QED
    BY <2>1, <2>2, <2>3 DEF Ordered, Before
<1>6. CASE UNCHANGED <<rx_ring_buf, fresh, line, sent, delivered, intact, rx_sm>>
  BY <1>6 DEF Ordered, Before
<1>7. QED
  BY <1>1, <1>2, <1>3, <1>4, <1>5, <1>6, Flow

\* What is delivered as frame g ends with the last byte of frame g.
LEMMA EndsOrigin ==
  ASSUME TypeOK, NEW q \in Seq(Byte), NEW b \in Byte, NEW g, g = Origin(Append(q, b)), g # 0
  PROVE  g \in 1..Len(sent) /\ b.frame = g /\ b.pos = Len(sent[g]) + 4
<1> DEFINE t == Append(q, b)
           Of(f) == SubSeq(Bytes(sent[f], f), 5, Len(sent[f]) + 4)
           F == {f \in 1..Len(sent) : t = Of(f)}
<1>1. F # {} /\ g = CHOOSE f \in F : TRUE
  BY DEF Origin
<1>2. g \in F
  BY <1>1
<1>3. g \in 1..Len(sent) /\ t = Of(g)
  BY <1>2
<1>4. sent[g] \in Payload /\ g \in Nat
  BY <1>3, ElementOfSeq DEF TypeOK
<1>5. /\ Len(Of(g)) = Len(sent[g]) /\ Len(sent[g]) \in Nat \ {0}
      /\ Of(g)[Len(sent[g])] = Bytes(sent[g], g)[Len(sent[g]) + 4]
  BY <1>4, PayloadPart
<1>6. t[Len(t)] = b
  OBVIOUS
<1> HIDE DEF t, Of
<1>7. b = Bytes(sent[g], g)[Len(sent[g]) + 4]
  BY <1>3, <1>5, <1>6
<1>8. Bytes(sent[g], g)[Len(sent[g]) + 4] =
        [val |-> Framed(sent[g])[Len(sent[g]) + 4], frame |-> g, pos |-> Len(sent[g]) + 4]
  BY <1>4, <1>5, BytesOK
<1>9. QED
  BY <1>3, <1>7, <1>8

\* Frames come out in order, and what is on its way belongs to later ones.
OrderInv == Resync /\ Ordered /\ AllLater /\ InOrder

\* A step that delivers nothing takes nothing from the order.
LEMMA LaterKept ==
  ASSUME Resync, AllLater, [Next]_vars, ~GetByte
  PROVE  AllLater' /\ UNCHANGED delivered
<1>0. /\ rx_ring_buf \in Seq(Byte) /\ fresh \in Seq(Byte) /\ line \in Seq(Byte)
      /\ sent \in Seq(Payload) /\ Len(sent) \in Nat /\ TypeOK
      /\ delivered \in Seq(Nat)
  BY DEF Resync, TypeOK
<1>1. CASE NodeSends
  <2>1. PICK p \in Payload :
           /\ Len(sent') = Len(sent) + 1
           /\ \A i \in 1..Len(line') :
                line'[i] = [val |-> Framed(p)[i], frame |-> Len(sent) + 1, pos |-> i]
           /\ UNCHANGED <<rx_ring_buf, fresh, delivered>>
    BY <1>0, <1>1, SendFlow
  <2>2. \A k \in 1..Len(delivered) : delivered[k] < Len(sent) + 1
    BY <1>0, ElementOfSeq DEF AllLater
  <2>3. \A i \in 1..Len(line') : Later(line'[i], delivered')
    <3>1. ASSUME NEW i \in 1..Len(line') PROVE line'[i].frame = Len(sent) + 1
      <4>1. line'[i] = [val |-> Framed(p)[i], frame |-> Len(sent) + 1, pos |-> i]
        BY <2>1
      <4>2. QED
        BY <4>1
    <3>2. QED
      BY <2>1, <2>2, <3>1 DEF Later
  <2>4. \A k \in 1..Len(delivered) : delivered[k] <= Len(sent')
    BY <1>0, <2>1, <2>2, ElementOfSeq
  <2>5. QED
    BY <2>1, <2>3, <2>4 DEF AllLater, Later
<1>2. CASE NoiseOnLine
  <2>1. /\ \A i \in 1..Len(line') : line'[i].frame = 0
        /\ UNCHANGED <<rx_ring_buf, fresh, sent, delivered>>
    BY <1>0, <1>2, NoiseFlow
  <2>2. QED
    BY <2>1 DEF AllLater, Later
<1>3. CASE ByteArrives
  <2>1. UNCHANGED <<rx_ring_buf, sent, delivered>>
    BY <1>0, <1>3, ArrivesFlow
  <2>2. \A i \in 1..Len(line') : line'[i] = line[i + 1] /\ i + 1 \in 1..Len(line)
    BY <1>0, <1>3, ArrivesFlow
  <2>3. \A i \in 1..Len(fresh') :
          (i \in 1..Len(fresh) /\ fresh'[i] = fresh[i]) \/ (fresh'[i] = line[1] /\ 1 \in 1..Len(line))
    BY <1>0, <1>3, ArrivesFlow
  <2>4. QED
    BY <2>1, <2>2, <2>3 DEF AllLater, Later
<1>4. CASE RxRdy
  <2>1. UNCHANGED <<line, sent, delivered>> /\ 1..Len(fresh') = {}
    BY <1>0, <1>4, RdyFlow
  <2>2. ASSUME NEW i \in 1..Len(rx_ring_buf')
        PROVE  \/ i \in 1..Len(rx_ring_buf) /\ rx_ring_buf'[i] = rx_ring_buf[i]
               \/ \E j \in 1..Len(fresh) : rx_ring_buf'[i] = fresh[j]
    BY <1>0, <1>4, RingGrows
  <2>3. \A i \in 1..Len(rx_ring_buf') : Later(rx_ring_buf'[i], delivered')
    BY <2>1, <2>2 DEF AllLater, Later
  <2>4. QED
    BY <2>1, <2>3 DEF AllLater, Later
<1>5. CASE UNCHANGED <<rx_ring_buf, fresh, line, sent, delivered, intact, rx_sm>>
  BY <1>5 DEF AllLater, Later
<1>6. QED
  BY <1>0, <1>1, <1>2, <1>3, <1>4, <1>5, Flow

\* The handler takes a byte: what it delivers, if anything, is later than all before and
\* earlier than all that is on its way.
LEMMA LaterGet ==
  ASSUME OrderInv, GetByte
  PROVE  AllLater' /\ InOrder'
<1> DEFINE b == rx_ring_buf[1]
           g == Origin(Append(rx_sm.payload, b))
<1>0. /\ TypeOK /\ AllMarked /\ Tracks /\ Ordered /\ AllLater /\ InOrder
      /\ delivered \in Seq(Nat) /\ Len(sent) \in Nat /\ rx_sm.payload \in Seq(Byte)
      /\ sent \in Seq(Payload)
  BY DEF OrderInv, Resync, TypeOK
<1>1. /\ UNCHANGED <<fresh, line, sent>> /\ 1 \in 1..Len(rx_ring_buf) /\ b \in Byte
      /\ \A i \in 1..Len(rx_ring_buf') :
           rx_ring_buf'[i] = rx_ring_buf[i + 1] /\ i + 1 \in 1..Len(rx_ring_buf) /\ 1 < i + 1
  BY <1>0, GetFlow
<1>2. delivered' = delivered \/ delivered' = Append(delivered, g)
  BY <1>0, GetEffect
<1>3. \A i \in 1..Len(rx_ring_buf) : Later(rx_ring_buf[i], delivered) /\ Marked(rx_ring_buf[i])
  BY <1>0 DEF AllLater, AllMarked
<1>4. CASE delivered' = delivered
  BY <1>0, <1>1, <1>4 DEF AllLater, Later, InOrder
<1>5. CASE delivered' = Append(delivered, g)
  <2>1. g \in 0..Len(sent)
    BY <1>0, OriginOK
  <2>2. g # 0 => g \in 1..Len(sent) /\ b.frame = g /\ b.pos = Len(sent[g]) + 4
    BY <1>0, <1>1, EndsOrigin
  <2> HIDE DEF g
  <2>3. g # 0 => \A k \in 1..Len(delivered) : delivered[k] < g
    BY <1>1, <1>3, <2>2 DEF Later
  <2> HIDE DEF b
  <2>4. /\ Len(delivered') = Len(delivered) + 1 /\ Len(delivered) \in Nat
        /\ \A k \in 1..Len(delivered) : delivered'[k] = delivered[k] /\ delivered[k] \in Nat
        /\ delivered'[Len(delivered) + 1] = g
    BY <1>0, <1>5
  <2>5. ASSUME NEW c \in Byte, Marked(c), Later(c, delivered), Before(b, c)
        PROVE  Later(c, delivered')
    <3>1. SUFFICES ASSUME c.frame # 0 PROVE g < c.frame
      BY <2>4, <2>5 DEF Later
    <3>2. c.frame \in 1..Len(sent) /\ c.pos \in 1..(Len(sent[c.frame]) + 4)
      BY <2>5, <3>1 DEF Marked
    <3>3. CASE g = 0
      BY <3>2, <3>3
    <3>4. CASE g # 0
      <4>1. b.frame < c.frame \/ (b.frame = c.frame /\ b.pos < c.pos)
        BY <2>1, <2>2, <2>5, <3>1, <3>4 DEF Before
      <4>2. sent[g] \in Payload
        BY <1>0, <2>2, <3>4, ElementOfSeq
      <4>3. Len(sent[g]) \in Nat
        BY <4>2, FramedBytes
      <4>4. CASE b.frame = c.frame /\ b.pos < c.pos
        BY <2>2, <3>2, <3>4, <4>3, <4>4
      <4>5. QED
        BY <2>2, <3>4, <4>1, <4>4
    <3>5. QED
      BY <3>3, <3>4
  <2>6. \A i \in 1..Len(rx_ring_buf') : Later(rx_ring_buf'[i], delivered')
    <3>1. SUFFICES ASSUME NEW i \in 1..Len(rx_ring_buf') PROVE Later(rx_ring_buf'[i], delivered')
      OBVIOUS
    <3>2. rx_ring_buf'[i] = rx_ring_buf[i + 1] /\ i + 1 \in 1..Len(rx_ring_buf) /\ 1 < i + 1
      BY <1>1
    <3> DEFINE c == rx_ring_buf[i + 1]
    <3>3. c \in Byte
      BY <1>0, <3>2, ElementOfSeq DEF TypeOK
    <3>4. Before(b, c) /\ Marked(c) /\ Later(c, delivered)
      BY <1>0, <1>1, <1>3, <3>2 DEF Ordered, b
    <3> HIDE DEF c
    <3>5. Later(c, delivered')
      BY <2>5, <3>3, <3>4
    <3>6. QED
      BY <3>2, <3>5 DEF c
  <2>7. \A i \in 1..Len(fresh) : Later(fresh'[i], delivered')
    <3>1. SUFFICES ASSUME NEW i \in 1..Len(fresh) PROVE Later(fresh'[i], delivered')
      OBVIOUS
    <3>2. fresh[i] \in Byte
      BY <1>0, ElementOfSeq DEF TypeOK
    <3>3. Before(b, fresh[i]) /\ Marked(fresh[i]) /\ Later(fresh[i], delivered)
      BY <1>0, <1>1 DEF Ordered, AllMarked, AllLater, b
    <3>4. QED
      BY <1>1, <2>5, <3>2, <3>3 DEF Later
  <2>8. \A i \in 1..Len(line) : Later(line'[i], delivered')
    <3>1. SUFFICES ASSUME NEW i \in 1..Len(line) PROVE Later(line'[i], delivered')
      OBVIOUS
    <3>2. line[i] \in Byte
      BY <1>0, ElementOfSeq DEF TypeOK
    <3>3. Before(b, line[i]) /\ Marked(line[i]) /\ Later(line[i], delivered)
      BY <1>0, <1>1 DEF Ordered, AllMarked, AllLater, b
    <3>4. QED
      BY <1>1, <2>5, <3>2, <3>3 DEF Later
  <2>9. \A k \in 1..Len(delivered') : delivered'[k] <= Len(sent)
    BY <1>0, <2>1, <2>4 DEF AllLater
  <2>10. AllLater'
    BY <1>1, <2>6, <2>7, <2>8, <2>9 DEF AllLater, Later
  <2>11. ASSUME NEW i \in 1..Len(delivered'), NEW j \in 1..Len(delivered'), i < j,
                delivered'[i] # 0, delivered'[j] # 0
         PROVE  delivered'[i] < delivered'[j]
    <3>1. i \in 1..Len(delivered)
      BY <2>4, <2>11
    <3>2. CASE j \in 1..Len(delivered)
      BY <1>0, <2>4, <2>11, <3>1, <3>2 DEF InOrder
    <3>3. CASE j = Len(delivered) + 1
      BY <2>3, <2>4, <2>11, <3>1, <3>3
    <3>4. QED
      BY <2>4, <3>2, <3>3
  <2>12. QED
    BY <2>10, <2>11 DEF InOrder
<1>6. QED
  BY <1>2, <1>4, <1>5

\* Whole frames reach fromradio_cb in the order the node sent them and none of them twice,
\* whatever is lost, damaged or inserted on the way.
THEOREM OrderCorrect == Spec => []InOrder
<1>1. Init => OrderInv
  BY ResyncInductive DEF Init, OrderInv, Ordered, AllLater, InOrder
<1>2. ASSUME OrderInv, [Next]_vars PROVE OrderInv'
  <2>1. Resync' /\ Ordered'
    BY <1>2, ResyncInductive, OrderedStep DEF OrderInv, Resync
  <2>2. CASE GetByte
    BY <1>2, <2>1, <2>2, LaterGet DEF OrderInv
  <2>3. CASE ~GetByte
    BY <1>2, <2>1, <2>3, LaterKept DEF OrderInv, InOrder
  <2>4. QED
    BY <2>2, <2>3
<1>3. OrderInv => InOrder
  BY DEF OrderInv
<1>4. QED
  BY <1>1, <1>2, <1>3, PTL DEF Spec

--------------------------------------------------------------------------------
\* Without faults.

\* The bytes on their way, first the ones that come out first.
Pipe == rx_ring_buf \o (fresh \o line)

\* The last byte of frame f of s (0 before the first frame).
LastPos(s, f) == IF f = 0 THEN 0 ELSE Len(s[f]) + 4

\* In the stream of the frames s, byte y = <<frame, pos>> comes after byte x.
Follows(s, x, y) ==
  \/ x[1] > 0 /\ y = <<x[1], x[2] + 1>> /\ x[2] < LastPos(s, x[1])
  \/ y = <<x[1] + 1, 1>> /\ x[2] = LastPos(s, x[1])

\* The place in the stream of the i-th byte of a pipe; the 0th is x, that came out last.
Place(pipe, x, i) == IF i = 0 THEN x ELSE <<pipe[i].frame, pipe[i].pos>>

\* The pipe is the rest of the stream, from the last byte that came out to the last that
\* was sent; what came out is whole frames and the beginning of the next.
Lossless ==
  /\ mode = "on"
  /\ intact[1] = 0 => intact[2] = 0 /\ Hunting(rx_sm)
  /\ intact[1] > 0 => intact[2] > 0
  /\ \A i \in 1..Len(Pipe) : Follows(sent, Place(Pipe, intact, i - 1), Place(Pipe, intact, i))
  /\ Place(Pipe, intact, Len(Pipe)) = <<Len(sent), LastPos(sent, Len(sent))>>
  /\ Len(delivered) = IF intact[2] = LastPos(sent, intact[1]) THEN intact[1] ELSE intact[1] - 1

LosslessIfFaultless == faults = 0 => Lossless

\* The bytes on their way, one by one.
LEMMA PipeShape ==
  ASSUME NEW r \in Seq(Byte), NEW f \in Seq(Byte), NEW l \in Seq(Byte)
  PROVE  /\ r \o (f \o l) \in Seq(Byte)
         /\ Len(r) \in Nat /\ Len(f) \in Nat /\ Len(l) \in Nat
         /\ Len(r \o (f \o l)) = Len(r) + Len(f) + Len(l)
         /\ \A i \in 1..Len(r) : (r \o (f \o l))[i] = r[i]
         /\ \A i \in 1..Len(f) : (r \o (f \o l))[Len(r) + i] = f[i]
         /\ \A i \in 1..Len(l) : (r \o (f \o l))[Len(r) + Len(f) + i] = l[i]
<1> DEFINE t == f \o l
<1>1. /\ t \in Seq(Byte) /\ Len(t) = Len(f) + Len(l)
      /\ \A i \in 1..(Len(f) + Len(l)) : t[i] = IF i <= Len(f) THEN f[i] ELSE l[i - Len(f)]
  BY ConcatProperties
<1>2. Len(r) \in Nat /\ Len(f) \in Nat /\ Len(l) \in Nat
  OBVIOUS
<1> HIDE DEF t
<1>3. /\ r \o t \in Seq(Byte) /\ Len(r \o t) = Len(r) + Len(t)
      /\ \A i \in 1..(Len(r) + Len(t)) : (r \o t)[i] = IF i <= Len(r) THEN r[i] ELSE t[i - Len(r)]
  <2>1. t \in Seq(Byte)
    BY <1>1
  <2>2. QED
    BY <2>1, ConcatProperties
<1>4. \A i \in 1..Len(r) : (r \o t)[i] = r[i]
  BY <1>1, <1>2, <1>3
<1>5. ASSUME NEW i \in 1..Len(f) PROVE (r \o t)[Len(r) + i] = f[i]
  <2>1. Len(r) + i \in 1..(Len(r) + Len(t)) /\ ~(Len(r) + i <= Len(r))
        /\ (Len(r) + i) - Len(r) = i /\ i \in 1..(Len(f) + Len(l)) /\ i <= Len(f)
    BY <1>1, <1>2
  <2>2. QED
    BY <1>1, <1>3, <2>1
<1>6. ASSUME NEW i \in 1..Len(l) PROVE (r \o t)[Len(r) + Len(f) + i] = l[i]
  <2>1. /\ Len(r) + Len(f) + i \in 1..(Len(r) + Len(t)) /\ ~(Len(r) + Len(f) + i <= Len(r))
        /\ (Len(r) + Len(f) + i) - Len(r) = Len(f) + i /\ Len(f) + i \in 1..(Len(f) + Len(l))
        /\ ~(Len(f) + i <= Len(f)) /\ (Len(f) + i) - Len(f) = i
    BY <1>1, <1>2
  <2>2. QED
    BY <1>1, <1>3, <2>1
<1>7. QED
  BY <1>1, <1>2, <1>3, <1>4, <1>5, <1>6 DEF t

\* Bytes that move on do not change the pipe: into the DMA buffer, and into the ring.
LEMMA PipeMoves ==
  ASSUME NEW r \in Seq(Byte), NEW f \in Seq(Byte), NEW l \in Seq(Byte)
  PROVE  /\ l # <<>> => r \o (Append(f, l[1]) \o Tail(l)) = r \o (f \o l)
         /\ (r \o f) \o (<<>> \o l) = r \o (f \o l)
         /\ r # <<>> => Tail(r) \o (f \o l) = Tail(r \o (f \o l))
<1>1. ASSUME l # <<>> PROVE Append(f, l[1]) \o Tail(l) = f \o l
  <2>1. /\ Append(f, l[1]) \in Seq(Byte) /\ Tail(l) \in Seq(Byte)
        /\ Len(Append(f, l[1])) = Len(f) + 1 /\ Len(Tail(l)) = Len(l) - 1
        /\ \A i \in 1..Len(f) : Append(f, l[1])[i] = f[i]
        /\ Append(f, l[1])[Len(f) + 1] = l[1]
        /\ \A i \in 1..(Len(l) - 1) : Tail(l)[i] = l[i + 1]
        /\ Len(f) \in Nat /\ Len(l) \in Nat \ {0}
    BY <1>1
  <2> DEFINE a == Append(f, l[1])
             t == Tail(l)
  <2>2. /\ a \o t \in Seq(Byte) /\ Len(a \o t) = Len(a) + Len(t)
        /\ \A i \in 1..(Len(a) + Len(t)) : (a \o t)[i] = IF i <= Len(a) THEN a[i] ELSE t[i - Len(a)]
    BY <2>1, ConcatProperties
  <2>3. /\ f \o l \in Seq(Byte) /\ Len(f \o l) = Len(f) + Len(l)
        /\ \A i \in 1..(Len(f) + Len(l)) : (f \o l)[i] = IF i <= Len(f) THEN f[i] ELSE l[i - Len(f)]
    BY ConcatProperties
  <2>4. Len(a \o t) = Len(f \o l)
    BY <2>1, <2>2, <2>3
  <2> HIDE DEF a, t
  <2>5. ASSUME NEW i \in 1..Len(a \o t) PROVE (a \o t)[i] = (f \o l)[i]
    <3>1. CASE i <= Len(f)
      BY <2>1, <2>2, <2>3, <3>1 DEF a, t
    <3>2. CASE i = Len(f) + 1
      BY <2>1, <2>2, <2>3, <3>2 DEF a, t
    <3>3. CASE i > Len(f) + 1
      <4>1. /\ i - Len(a) \in 1..(Len(l) - 1) /\ (i - Len(a)) + 1 = i - Len(f)
            /\ ~(i <= Len(a)) /\ ~(i <= Len(f))
            /\ i \in 1..(Len(a) + Len(t)) /\ i \in 1..(Len(f) + Len(l))
        BY <2>1, <2>2, <3>3 DEF a, t
      <4>2. (a \o t)[i] = t[i - Len(a)] /\ (f \o l)[i] = l[i - Len(f)]
        BY <2>2, <2>3, <4>1
      <4>3. t[i - Len(a)] = l[(i - Len(a)) + 1]
        BY <2>1, <4>1 DEF t
      <4>4. QED
        BY <4>1, <4>2, <4>3
    <3>4. QED
      <4>1. i \in Nat /\ Len(f) \in Nat
        BY <2>1, <2>2
      <4>2. i <= Len(f) \/ i = Len(f) + 1 \/ i > Len(f) + 1
        BY <4>1
      <4>3. QED
        BY <3>1, <3>2, <3>3, <4>2
  <2>6. a \o t = f \o l
    BY <2>2, <2>3, <2>4, <2>5, SeqEqual
  <2>7. QED
    BY <2>6 DEF a, t
<1>2. (r \o f) \o (<<>> \o l) = r \o (f \o l)
  <2>1. <<>> \o l = l
    BY ConcatEmptySeq
  <2>2. (r \o f) \o l = r \o (f \o l)
    BY ConcatAssociative
  <2>3. QED
    BY <2>1, <2>2
<1>3. ASSUME r # <<>> PROVE Tail(r) \o (f \o l) = Tail(r \o (f \o l))
  <2> DEFINE t == f \o l
  <2>1. t \in Seq(Byte)
    BY ConcatProperties
  <2> HIDE DEF t
  <2> DEFINE u == Tail(r)
             v == r \o t
  <2>2. /\ u \in Seq(Byte) /\ Len(u) = Len(r) - 1 /\ \A i \in 1..Len(u) : u[i] = r[i + 1]
        /\ Len(r) \in Nat \ {0} /\ Len(t) \in Nat
    BY <1>3, <2>1
  <2>3. /\ v \in Seq(Byte) /\ Len(v) = Len(r) + Len(t)
        /\ \A i \in 1..(Len(r) + Len(t)) : v[i] = IF i <= Len(r) THEN r[i] ELSE t[i - Len(r)]
    BY <2>1, ConcatProperties
  <2> HIDE DEF u, v
  <2>4. /\ u \o t \in Seq(Byte) /\ Len(u \o t) = Len(u) + Len(t)
        /\ \A i \in 1..(Len(u) + Len(t)) : (u \o t)[i] = IF i <= Len(u) THEN u[i] ELSE t[i - Len(u)]
    BY <2>1, <2>2, ConcatProperties
  <2>5. /\ Tail(v) \in Seq(Byte) /\ Len(Tail(v)) = Len(v) - 1
        /\ \A i \in 1..Len(Tail(v)) : Tail(v)[i] = v[i + 1]
    <3>1. Len(v) \in Nat \ {0} /\ v # <<>>
      BY <2>2, <2>3
    <3>2. QED
      BY <2>3, <3>1, HeadTailProperties
  <2>6. Len(u \o t) = Len(Tail(v))
    BY <2>2, <2>3, <2>4, <2>5
  <2>7. ASSUME NEW i \in 1..Len(u \o t) PROVE (u \o t)[i] = Tail(v)[i]
    <3>1. /\ i \in 1..(Len(u) + Len(t)) /\ i \in 1..Len(Tail(v)) /\ i + 1 \in 1..(Len(r) + Len(t))
          /\ (i <= Len(u) <=> i + 1 <= Len(r)) /\ (i + 1) - Len(r) = i - Len(u)
      BY <2>2, <2>3, <2>4, <2>5
    <3>2. CASE i <= Len(u)
      BY <2>2, <2>3, <2>4, <2>5, <3>1, <3>2
    <3>3. CASE ~(i <= Len(u))
      BY <2>2, <2>3, <2>4, <2>5, <3>1, <3>3
    <3>4. QED
      BY <3>2, <3>3
  <2>8. u \o t = Tail(v)
    BY <2>4, <2>5, <2>6, <2>7, SeqEqual
  <2>9. QED
    BY <2>8 DEF t, u, v
<1>4. QED
  BY <1>1, <1>2, <1>3

\* A step without a fault: the node sends a frame, or the handler takes the first byte, or
\* bytes move on and the pipe stays as it is.
LEMMA FaultlessFlow ==
  ASSUME TypeOK, [Next]_vars, mode = "on", faults' = 0
  PROVE  /\ faults = 0 /\ mode' = "on"
         /\ \/ /\ NodeSends
               /\ Len(Pipe') = Len(Pipe) + Len(line')
               /\ \A i \in 1..Len(Pipe) : Pipe'[i] = Pipe[i]
               /\ \A i \in 1..Len(line') : Pipe'[Len(Pipe) + i] = line'[i]
            \/ /\ GetByte /\ Len(Pipe) > 0 /\ Pipe[1] = rx_ring_buf[1]
               /\ Len(Pipe') = Len(Pipe) - 1
               /\ \A i \in 1..(Len(Pipe) - 1) : Pipe'[i] = Pipe[i + 1]
            \/ UNCHANGED <<Pipe, intact, rx_sm, sent, delivered>>
<1>0. /\ rx_ring_buf \in Seq(Byte) /\ fresh \in Seq(Byte) /\ line \in Seq(Byte) /\ faults \in Nat
      /\ fill \in Nat
  BY DEF TypeOK
<1>1. /\ Pipe \in Seq(Byte) /\ Len(Pipe) = Len(rx_ring_buf) + Len(fresh) + Len(line)
      /\ Len(rx_ring_buf) \in Nat /\ Len(fresh) \in Nat /\ Len(line) \in Nat
  BY <1>0, PipeShape DEF Pipe
<1>2. CASE NodeSends
  <2>1. line = <<>> /\ UNCHANGED <<rx_ring_buf, fresh, faults, mode>> /\ line' \in Seq(Byte)
    BY <1>2, SendFlow, LineType DEF Line, TypeOK
  <2>2. Len(line) = 0 /\ Len(line') \in Nat
    BY <2>1
  <2>3. /\ Pipe' = rx_ring_buf \o (fresh \o line') /\ Pipe = rx_ring_buf \o (fresh \o line)
    BY <2>1 DEF Pipe
  <2>4. /\ Len(Pipe') = Len(rx_ring_buf) + Len(fresh) + Len(line')
        /\ \A i \in 1..Len(rx_ring_buf) : Pipe'[i] = rx_ring_buf[i] /\ Pipe[i] = rx_ring_buf[i]
        /\ \A i \in 1..Len(fresh) : Pipe'[Len(rx_ring_buf) + i] = fresh[i]
                                    /\ Pipe[Len(rx_ring_buf) + i] = fresh[i]
        /\ \A i \in 1..Len(line') : Pipe'[Len(rx_ring_buf) + Len(fresh) + i] = line'[i]
    BY <1>0, <2>1, <2>3, PipeShape
  <2>5. Len(Pipe) = Len(rx_ring_buf) + Len(fresh)
    BY <1>1, <2>2
  <2>6. ASSUME NEW i \in 1..Len(Pipe) PROVE Pipe'[i] = Pipe[i]
    <3>1. CASE i <= Len(rx_ring_buf)
      BY <1>1, <2>4, <3>1
    <3>2. CASE i > Len(rx_ring_buf)
      <4>1. i - Len(rx_ring_buf) \in 1..Len(fresh)
            /\ Len(rx_ring_buf) + (i - Len(rx_ring_buf)) = i
        BY <1>1, <2>5, <3>2
      <4>2. QED
        BY <2>4, <4>1
    <3>3. QED
      BY <1>1, <2>5, <3>1, <3>2
  <2>7. QED
    BY <1>2, <2>1, <2>4, <2>5, <2>6
<1>3. CASE GetByte
  <2>1. /\ rx_ring_buf' = Tail(rx_ring_buf) /\ rx_ring_buf # <<>>
        /\ UNCHANGED <<fresh, line, faults, mode>> /\ Len(rx_ring_buf) \in Nat \ {0}
    BY <1>3, GetFlow
  <2>2. Pipe' = Tail(rx_ring_buf) \o (fresh \o line) /\ Pipe = rx_ring_buf \o (fresh \o line)
    BY <2>1 DEF Pipe
  <2>3. Pipe' = Tail(Pipe)
    BY <1>0, <2>1, <2>2, PipeMoves
  <2>4. Pipe[1] = rx_ring_buf[1]
    BY <1>0, <2>1, <2>2, PipeShape
  <2>5. Len(Pipe) \in Nat \ {0} /\ Pipe # <<>>
    BY <1>1, <2>1
  <2>6. /\ Len(Tail(Pipe)) = Len(Pipe) - 1
        /\ \A i \in 1..(Len(Pipe) - 1) : Tail(Pipe)[i] = Pipe[i + 1]
    BY <1>1, <2>5, HeadTailProperties
  <2>7. /\ Len(Pipe') = Len(Pipe) - 1
        /\ \A i \in 1..(Len(Pipe) - 1) : Pipe'[i] = Pipe[i + 1]
    BY <2>3, <2>6
  <2>8. faults = 0 /\ mode' = "on" /\ Len(Pipe) > 0
    BY <2>1, <2>5
  <2>9. QED
    BY <1>3, <2>4, <2>7, <2>8
<1>4. CASE NoiseOnLine
  BY <1>0, <1>4, NoiseFlow
<1>5. CASE ByteArrives
  <2>1. /\ fresh' = Append(fresh, line[1]) /\ line # <<>> /\ line' = Tail(line)
        /\ UNCHANGED <<rx_ring_buf, sent, delivered, intact, rx_sm, mode, faults>>
    BY <1>5, ArrivesFlow DEF ByteArrives
  <2>2. Pipe' = rx_ring_buf \o (Append(fresh, line[1]) \o Tail(line))
    BY <2>1 DEF Pipe
  <2>3. Pipe' = Pipe
    BY <1>0, <2>1, <2>2, PipeMoves DEF Pipe
  <2>4. QED
    BY <2>1, <2>3
<1>6. CASE RxRdy
  <2>1. /\ rx_ring_buf' = rx_ring_buf \o SubSeq(fresh, 1, Kept) /\ fresh' = <<>>
        /\ Kept \in 0..Len(fresh)
        /\ UNCHANGED <<line, sent, delivered, intact, rx_sm, mode>>
    BY <1>6, RdyFlow
  <2>2. Fault(Kept < Len(fresh))
    BY <1>6 DEF RxRdy
  <2> HIDE DEF Kept
  <2>3. Kept = Len(fresh) /\ faults = 0
    BY <1>0, <1>1, <2>1, <2>2 DEF Fault
  <2>4. SubSeq(fresh, 1, Kept) = fresh
    BY <1>0, <2>3
  <2>5. Pipe' = (rx_ring_buf \o fresh) \o (<<>> \o line)
    BY <2>1, <2>4 DEF Pipe
  <2>6. Pipe' = Pipe
    BY <1>0, <2>5, PipeMoves DEF Pipe
  <2>7. QED
    BY <2>1, <2>3, <2>6
<1>7. CASE UNCHANGED <<rx_ring_buf, fresh, line, sent, delivered, intact, rx_sm>>
           /\ faults = 0 /\ mode' = "on"
  BY <1>7 DEF Pipe
<1>8. CASE BufferEnds \/ RxBufRequest \/ RxStopped \/ RxDisabled \/ Run \/ RingEmpty \/ UNCHANGED vars
  <2>1. UNCHANGED <<rx_ring_buf, fresh, line, sent, delivered, intact, rx_sm>>
    BY <1>8 DEF BufferEnds, RxBufRequest, RxStopped, RxDisabled, Run,
      RingEmpty, vars, machineVars, driverVars, nodeVars
  <2>2. faults = 0 /\ mode' = "on"
    BY <1>0, <1>8 DEF BufferEnds, RxBufRequest, RxStopped, RxDisabled, Run,
      RingEmpty, vars, machineVars, driverVars, nodeVars, Fault
  <2>3. QED
    BY <1>7, <2>1, <2>2
<1>9. QED
  BY <1>2, <1>3, <1>4, <1>5, <1>6, <1>8 DEF Next, Line, Interrupt, Handler

\* A byte of the pipe has true marks, and the last one that came out had.
LEMMA PlaceOK ==
  ASSUME Resync, Lossless, NEW i \in 0..Len(Pipe)
  PROVE  LET x == Place(Pipe, intact, i)
         IN  x \in Nat \X Nat /\ x[1] \in 0..Len(sent) /\ LastPos(sent, x[1]) \in Nat
<1>0. /\ rx_ring_buf \in Seq(Byte) /\ fresh \in Seq(Byte) /\ line \in Seq(Byte)
      /\ sent \in Seq(Payload) /\ Len(sent) \in Nat /\ intact \in Nat \X Nat
  BY DEF Resync, TypeOK
<1>1. \A f \in 0..Len(sent) : LastPos(sent, f) \in Nat
  <2>1. \A f \in 1..Len(sent) : sent[f] \in Payload
    BY <1>0, ElementOfSeq
  <2>2. \A f \in 1..Len(sent) : Len(sent[f]) \in Nat
    BY <2>1, FramedBytes
  <2>3. QED
    BY <1>0, <2>2 DEF LastPos
<1> DEFINE x == Place(Pipe, intact, i)
<1>2. CASE i = 0
  <2>1. x = intact
    BY <1>2 DEF Place
  <2>2. intact[1] \in 0..Len(sent)
    BY <1>0 DEF Lossless, Resync, Tracks, InStep
  <2>3. QED
    BY <1>0, <1>1, <2>1, <2>2
<1>3. CASE i # 0
  <2>0. Len(Pipe) \in Nat /\ Pipe \in Seq(Byte)
    <3>1. Pipe \in Seq(Byte)
      BY <1>0, PipeShape DEF Pipe
    <3>2. QED
      BY <3>1
  <2>1. i \in 1..Len(Pipe) /\ x = <<Pipe[i].frame, Pipe[i].pos>>
    BY <1>3, <2>0 DEF Place
  <2>2. Pipe[i] \in Byte
    BY <2>0, <2>1, ElementOfSeq
  <2>3. Marked(Pipe[i])
    <3> DEFINE R == Len(rx_ring_buf)
               F == Len(fresh)
    <3>1. /\ Len(Pipe) = R + F + Len(line) /\ R \in Nat /\ F \in Nat /\ Len(line) \in Nat
          /\ \A k \in 1..R : Pipe[k] = rx_ring_buf[k]
          /\ \A k \in 1..F : Pipe[R + k] = fresh[k]
          /\ \A k \in 1..Len(line) : Pipe[R + F + k] = line[k]
      <4>1. Pipe = rx_ring_buf \o (fresh \o line)
        BY DEF Pipe
      <4>2. QED
        BY <1>0, <4>1, PipeShape
    <3>2. \/ i \in 1..R
          \/ i - R \in 1..F /\ R + (i - R) = i
          \/ i - (R + F) \in 1..Len(line) /\ R + F + (i - (R + F)) = i
      BY <2>1, <3>1
    <3> HIDE DEF R, F
    <3>3. \/ \E k \in 1..R : Pipe[i] = rx_ring_buf[k]
          \/ \E k \in 1..F : Pipe[i] = fresh[k]
          \/ \E k \in 1..Len(line) : Pipe[i] = line[k]
      <4>1. CASE i \in 1..R
        BY <3>1, <4>1
      <4>2. CASE i - R \in 1..F /\ R + (i - R) = i
        <5>1. Pipe[R + (i - R)] = fresh[i - R]
          BY <3>1, <4>2
        <5>2. QED
          BY <4>2, <5>1
      <4>3. CASE i - (R + F) \in 1..Len(line) /\ R + F + (i - (R + F)) = i
        <5>1. Pipe[R + F + (i - (R + F))] = line[i - (R + F)]
          BY <3>1, <4>3
        <5>2. QED
          BY <4>3, <5>1
      <4>4. QED
        BY <3>2, <4>1, <4>2, <4>3
    <3>4. QED
      BY <3>3 DEF Resync, AllMarked, R, F
  <2>4. x[1] \in 0..Len(sent) /\ x \in Nat \X Nat
    BY <1>0, <2>1, <2>2, <2>3 DEF Marked, Byte
  <2>5. QED
    BY <1>1, <2>4
<1>4. QED
  BY <1>2, <1>3

\* The node adds a frame to the end of the stream.
LEMMA LosslessSend ==
  ASSUME Resync, Lossless, NodeSends, mode' = "on",
         Len(Pipe') = Len(Pipe) + Len(line'),
         \A i \in 1..Len(Pipe) : Pipe'[i] = Pipe[i],
         \A i \in 1..Len(line') : Pipe'[Len(Pipe) + i] = line'[i]
  PROVE  Lossless'
<1>0. TypeOK /\ Len(Pipe) \in Nat /\ intact \in Nat \X Nat
  <2>1. Pipe \in Seq(Byte)
    BY PipeShape DEF Resync, TypeOK, Pipe
  <2>2. QED
    BY <2>1 DEF Resync, TypeOK
<1>1. PICK p \in Payload :
           /\ sent' = Append(sent, p) /\ Len(sent') = Len(sent) + 1 /\ Len(sent) \in Nat
           /\ \A f \in 1..Len(sent) : sent'[f] = sent[f]
           /\ sent'[Len(sent) + 1] = p
           /\ Len(line') = Len(p) + 4 /\ Len(p) \in Nat
           /\ \A i \in 1..Len(line') :
                line'[i] = [val |-> Framed(p)[i], frame |-> Len(sent) + 1, pos |-> i]
           /\ UNCHANGED <<intact, rx_sm, delivered>>
  BY <1>0, SendFlow
<1> DEFINE n == Len(Pipe)
           f == Len(sent) + 1
           m == Len(p) + 4
           old(i) == Place(Pipe, intact, i)
           new(i) == Place(Pipe', intact, i)
<1>2. /\ \A g \in 0..Len(sent) : LastPos(sent', g) = LastPos(sent, g)
      /\ LastPos(sent', f) = m
  <2>1. \A g \in 0..Len(sent) : g = 0 \/ g \in 1..Len(sent)
    BY <1>1
  <2>2. f # 0
    BY <1>1
  <2>3. QED
    BY <1>1, <2>1, <2>2 DEF LastPos
<1>3. \A i \in 0..n : new(i) = old(i)
  <2>1. \A i \in 0..n : i = 0 \/ i \in 1..n
    BY <1>0
  <2>2. QED
    BY <2>1 DEF Place
<1>4. \A i \in 1..m : new(n + i) = <<f, i>>
  <2>1. SUFFICES ASSUME NEW i \in 1..m PROVE new(n + i) = <<f, i>>
    OBVIOUS
  <2>2. line'[i] = [val |-> Framed(p)[i], frame |-> f, pos |-> i]
    BY <1>1
  <2>3. Pipe'[n + i] = line'[i] /\ n + i # 0
    BY <1>0, <1>1
  <2>4. new(n + i) = <<line'[i].frame, line'[i].pos>>
    BY <2>3 DEF Place
  <2>5. line'[i].frame = f /\ line'[i].pos = i
    BY <2>2
  <2>6. QED
    BY <2>4, <2>5
<1>5. \A i \in 0..n : old(i) \in Nat \X Nat /\ old(i)[1] \in 0..Len(sent)
  BY PlaceOK
<1>6. /\ old(n) = <<Len(sent), LastPos(sent, Len(sent))>>
      /\ \A i \in 1..n : Follows(sent, old(i - 1), old(i))
  BY DEF Lossless
<1>7. old(0) = intact /\ n \in Nat /\ m \in Nat /\ f \in Nat /\ f > 0 /\ m > 0
  BY <1>0, <1>1 DEF Place
<1>8. Len(Pipe') = n + m
  BY <1>1
<1>9. Len(sent') = f /\ intact' = intact /\ f = Len(sent) + 1 /\ Len(sent) \in Nat
  BY <1>1
<1> HIDE DEF n, f, m, old, new
<1>10. ASSUME NEW i \in 1..(n + m) PROVE Follows(sent', new(i - 1), new(i))
  <2>1. CASE i <= n
    <3>1. i - 1 \in 0..n /\ i \in 0..n /\ i \in 1..n
      BY <1>7, <2>1
    <3>2. Follows(sent, old(i - 1), old(i))
      BY <1>6, <3>1
    <3>3. LastPos(sent', old(i - 1)[1]) = LastPos(sent, old(i - 1)[1])
      BY <1>2, <1>5, <3>1
    <3>4. Follows(sent', old(i - 1), old(i))
      BY <3>2, <3>3 DEF Follows
    <3>5. QED
      BY <1>3, <3>1, <3>4
  <2>2. CASE i = n + 1
    <3>1. new(i) = <<f, 1>>
      BY <1>4, <1>7, <2>2
    <3>2. i - 1 = n /\ n \in 0..n
      BY <1>7, <2>2
    <3>3. new(i - 1) = <<Len(sent), LastPos(sent, Len(sent))>>
      BY <1>3, <1>6, <3>2
    <3>4. LastPos(sent', Len(sent)) = LastPos(sent, Len(sent))
      BY <1>2, <1>9
    <3>5. QED
      BY <1>9, <3>1, <3>3, <3>4 DEF Follows
  <2>3. CASE i > n + 1
    <3>1. /\ i - n \in 1..m /\ (i - n) - 1 \in 1..m /\ n + (i - n) = i
          /\ n + ((i - n) - 1) = i - 1 /\ (i - n) - 1 < m /\ ((i - n) - 1) + 1 = i - n
      BY <1>7, <2>3
    <3>2. new(n + (i - n)) = <<f, i - n>> /\ new(n + ((i - n) - 1)) = <<f, (i - n) - 1>>
      BY <1>4, <3>1
    <3>3. new(i) = <<f, i - n>> /\ new(i - 1) = <<f, (i - n) - 1>>
      BY <3>1, <3>2
    <3>4. QED
      BY <1>2, <1>7, <3>1, <3>3 DEF Follows
  <2>4. QED
    BY <1>7, <2>1, <2>2, <2>3
<1>11. new(n + m) = <<f, m>>
  BY <1>4, <1>7
<1>12. LastPos(sent', intact[1]) = LastPos(sent, intact[1])
  <2>1. 0 \in 0..n
    BY <1>7
  <2>2. QED
    BY <1>2, <1>5, <1>7, <2>1
<1>13. /\ \A i \in 1..Len(Pipe') :
             Follows(sent', Place(Pipe', intact', i - 1), Place(Pipe', intact', i))
       /\ Place(Pipe', intact', Len(Pipe')) = <<Len(sent'), LastPos(sent', Len(sent'))>>
  BY <1>2, <1>8, <1>9, <1>10, <1>11 DEF new
<1>14. QED
  BY <1>1, <1>12, <1>13 DEF Lossless, Hunting

\* The handler takes the next byte of the stream, and delivers a frame with its last one.
LEMMA LosslessGet ==
  ASSUME Resync, Lossless, GetByte, mode' = "on", Len(Pipe) > 0, Pipe[1] = rx_ring_buf[1],
         Len(Pipe') = Len(Pipe) - 1,
         \A i \in 1..(Len(Pipe) - 1) : Pipe'[i] = Pipe[i + 1]
  PROVE  Lossless'
<1>0. /\ TypeOK /\ AllMarked /\ Tracks /\ Len(Pipe) \in Nat /\ intact \in Nat \X Nat
      /\ sent \in Seq(Payload) /\ delivered \in Seq(Nat)
  <2>1. Pipe \in Seq(Byte)
    BY PipeShape DEF Resync, TypeOK, Pipe
  <2>2. QED
    BY <2>1 DEF Resync, TypeOK
<1> DEFINE b == rx_ring_buf[1]
           g == b.frame
           k == b.pos
           old(i) == Place(Pipe, intact, i)
           new(i) == Place(Pipe', intact', i)
<1>1. /\ b \in Byte /\ Marked(b)
      /\ UNCHANGED sent
  BY <1>0, GetEffect, GetFlow
<1>2. /\ old(0) = intact /\ old(1) = <<g, k>>
      /\ old(Len(Pipe)) = <<Len(sent), LastPos(sent, Len(sent))>>
      /\ \A i \in 1..Len(Pipe) : Follows(sent, old(i - 1), old(i))
  BY DEF Lossless, Place
<1>3. Follows(sent, intact, <<g, k>>)
  <2>1. 1 \in 1..Len(Pipe) /\ 1 - 1 = 0
    BY <1>0
  <2>2. QED
    BY <1>2, <2>1
<1>4. k \in Nat /\ g \in Nat /\ intact[1] \in Nat /\ intact[2] \in Nat
  BY <1>0, <1>1 DEF Byte
<1>5. /\ intact[1] > 0 => intact[2] > 0
      /\ intact[1] = 0 => intact[2] = 0 /\ Hunting(rx_sm)
      /\ Len(delivered) = IF intact[2] = LastPos(sent, intact[1]) THEN intact[1] ELSE intact[1] - 1
      /\ intact = <<intact[1], intact[2]>>
  BY <1>0 DEF Lossless
<1>6. g \in 1..Len(sent) /\ Len(sent[g]) \in Nat \ {0} /\ LastPos(sent, g) = Len(sent[g]) + 4
      /\ k \in 1..(Len(sent[g]) + 4)
  <2>1. g > 0
    BY <1>3, <1>4 DEF Follows
  <2>2. g \in 1..Len(sent) /\ k \in 1..(Len(sent[g]) + 4)
    BY <1>1, <2>1 DEF Marked
  <2>3. sent[g] \in Payload
    BY <1>0, <2>2, ElementOfSeq
  <2>4. QED
    BY <2>1, <2>2, <2>3, FramedBytes DEF LastPos
<1>7. \/ k = 1 /\ Hunting(rx_sm)
      \/ k > 1 /\ intact = <<g, k - 1>>
  <2>1. CASE intact[1] > 0 /\ <<g, k>> = <<intact[1], intact[2] + 1>>
    BY <1>4, <1>5, <2>1
  <2>2. CASE <<g, k>> = <<intact[1] + 1, 1>> /\ intact[2] = LastPos(sent, intact[1])
    <3>1. CASE intact[1] = 0
      BY <1>5, <2>2, <3>1
    <3>2. CASE intact[1] > 0
      <4>1. intact[2] > 0 /\ intact[2] = Len(sent[intact[1]]) + 4
        BY <1>5, <2>2, <3>2 DEF LastPos
      <4>2. InStep(rx_sm, intact[1], intact[2])
        BY <1>0, <4>1 DEF Tracks
      <4>3. rx_sm.state = "MAGIC1"
        BY <4>1, <4>2 DEF InStep
      <4>4. QED
        BY <2>2, <4>3 DEF Hunting
    <3>3. QED
      BY <1>4, <3>1, <3>2
  <2>3. QED
    BY <1>3, <2>1, <2>2 DEF Follows
<1>8. /\ intact' = <<g, k>>
      /\ k < Len(sent[g]) + 4 => ~Ends(rx_sm)
      /\ k = Len(sent[g]) + 4 => Ends(rx_sm) /\ Origin(Append(rx_sm.payload, b)) = g
      /\ delivered' = IF Ends(rx_sm)
                      THEN Append(delivered, Origin(Append(rx_sm.payload, b)))
                      ELSE delivered
  BY <1>0, <1>7, GetEffect
<1>9. ASSUME NEW i \in 0..Len(Pipe') PROVE new(i) = old(i + 1)
  <2>1. i + 1 # 0 /\ (i = 0 \/ i \in 1..(Len(Pipe) - 1))
    BY <1>0
  <2>2. CASE i = 0
    BY <1>2, <1>8, <2>2 DEF Place
  <2>3. CASE i # 0
    <3>1. new(i) = <<Pipe'[i].frame, Pipe'[i].pos>>
      BY <2>3 DEF Place
    <3>2. old(i + 1) = <<Pipe[i + 1].frame, Pipe[i + 1].pos>>
      BY <2>1 DEF Place
    <3>3. Pipe'[i] = Pipe[i + 1]
      BY <2>1, <2>3
    <3>4. QED
      BY <3>1, <3>2, <3>3
  <2>4. QED
    BY <2>2, <2>3
<1> HIDE DEF old, new
<1>10. ASSUME NEW i \in 1..Len(Pipe') PROVE Follows(sent, new(i - 1), new(i))
  <2>1. i - 1 \in 0..Len(Pipe') /\ i \in 0..Len(Pipe') /\ i + 1 \in 1..Len(Pipe)
        /\ (i - 1) + 1 = i /\ (i + 1) - 1 = i
    BY <1>0
  <2>2. new(i - 1) = old(i) /\ new(i) = old(i + 1)
    BY <1>9, <2>1
  <2>3. Follows(sent, old((i + 1) - 1), old(i + 1))
    BY <1>2, <2>1
  <2>4. QED
    BY <2>1, <2>2, <2>3
<1>11. new(Len(Pipe')) = <<Len(sent), LastPos(sent, Len(sent))>>
  <2>1. Len(Pipe') \in 0..Len(Pipe') /\ Len(Pipe') + 1 = Len(Pipe)
    BY <1>0
  <2>2. QED
    BY <1>2, <1>9, <2>1
<1>12. Len(delivered') = IF k = LastPos(sent, g) THEN g ELSE g - 1
  <2>0. Len(delivered) \in Nat
    BY <1>0
  <2>1. CASE k = Len(sent[g]) + 4
    <3>1. delivered' = Append(delivered, g)
      BY <1>8, <2>1
    <3>2. Len(delivered') = Len(delivered) + 1
      BY <1>0, <1>4, <3>1
    <3>3. k > 1 /\ intact = <<g, k - 1>>
      BY <1>6, <1>7, <2>1
    <3>4. intact[1] = g /\ intact[2] # LastPos(sent, g)
      BY <1>4, <1>6, <2>1, <3>3
    <3>5. Len(delivered) = g - 1
      BY <1>5, <3>4
    <3>6. QED
      BY <1>4, <1>6, <2>1, <3>2, <3>5
  <2>2. CASE k # Len(sent[g]) + 4
    <3>1. delivered' = delivered
      BY <1>6, <1>8, <2>2
    <3>2. CASE /\ intact[1] > 0 /\ <<g, k>> = <<intact[1], intact[2] + 1>>
               /\ intact[2] < LastPos(sent, intact[1])
      BY <1>4, <1>5, <1>6, <2>2, <3>1, <3>2
    <3>3. CASE <<g, k>> = <<intact[1] + 1, 1>> /\ intact[2] = LastPos(sent, intact[1])
      BY <1>4, <1>5, <1>6, <2>2, <3>1, <3>3
    <3>4. QED
      BY <1>3, <3>2, <3>3 DEF Follows
  <2>3. QED
    BY <2>1, <2>2
<1>13. intact'[1] = g /\ intact'[2] = k /\ g > 0 /\ k > 0 /\ g # 0
  BY <1>4, <1>6, <1>8
<1>14. QED
  BY <1>1, <1>10, <1>11, <1>12, <1>13 DEF Lossless, new

\* Without faults nothing is lost on the way.
LEMMA LosslessStep == Resync /\ LosslessIfFaultless /\ [Next]_vars => LosslessIfFaultless'
<1> SUFFICES ASSUME Resync, LosslessIfFaultless, [Next]_vars, faults' = 0 PROVE Lossless'
  BY DEF LosslessIfFaultless
<1>1. faults = 0
  <2>1. faults \in Nat
    BY DEF Resync, TypeOK
  <2>2. faults' = faults \/ faults' = faults + 1
    BY DEF Next, Line, Interrupt, Handler, NodeSends, NoiseOnLine, ByteArrives, BufferEnds, RxRdy,
      RxBufRequest, RxStopped, RxDisabled, Run, GetByte, RingEmpty, Fault, vars
  <2>3. QED
    BY <2>1, <2>2
<1>2. Lossless /\ TypeOK /\ mode = "on"
  BY <1>1 DEF LosslessIfFaultless, Lossless, Resync
<1>3. CASE UNCHANGED <<Pipe, intact, rx_sm, sent, delivered>> /\ mode' = "on"
  BY <1>2, <1>3 DEF Lossless, Hunting
<1>4. QED
  BY <1>2, <1>3, FaultlessFlow, LosslessSend, LosslessGet

\* When the receiver has come to rest and nothing went wrong, every frame the node sent has
\* reached fromradio_cb, however its bytes were spread over DMA buffers, interrupts and calls
\* of rx_work_handler.
THEOREM AllDelivered == Spec => []NothingLeftLying
<1>1. Init => Resync /\ NoLostWakeup /\ LosslessIfFaultless
  <2>1. SUFFICES ASSUME Init PROVE Lossless /\ NoLostWakeup
    BY ResyncInductive DEF LosslessIfFaultless
  <2>2. Len(Pipe) = 0
    BY <2>1 DEF Init, Pipe
  <2>3. intact = <<0, 0>> /\ sent = <<>> /\ delivered = <<>> /\ Hunting(rx_sm) /\ mode = "on"
    BY <2>1 DEF Init, Hunting
  <2>4. LastPos(sent, 0) = 0 /\ Place(Pipe, intact, 0) = <<0, 0>> /\ Len(sent) = 0
    BY <2>3 DEF LastPos, Place
  <2>5. Lossless
    BY <2>2, <2>3, <2>4 DEF Lossless
  <2>6. QED
    BY <2>1, <2>5 DEF Init, NoLostWakeup
<1>2. Resync /\ NoLostWakeup /\ LosslessIfFaultless => NothingLeftLying
  <2>1. SUFFICES ASSUME Resync, NoLostWakeup, LosslessIfFaultless, Quiet, faults = 0
                 PROVE  Len(delivered) = Len(sent)
    BY DEF NothingLeftLying
  <2>2. rx_ring_buf = <<>> /\ fresh = <<>> /\ line = <<>>
    BY <2>1, Zenon DEF Quiet, NoLostWakeup
  <2>3. Len(Pipe) = 0
    BY <2>2 DEF Pipe
  <2>4. intact = <<Len(sent), LastPos(sent, Len(sent))>>
    BY <2>1, <2>3 DEF LosslessIfFaultless, Lossless, Place
  <2>5. QED
    BY <2>1, <2>4 DEF LosslessIfFaultless, Lossless
<1>3. QED
  BY <1>1, <1>2, ResyncInductive, WakeupStep, LosslessStep, PTL DEF Spec, Resync
=============================================================================
