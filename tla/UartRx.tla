------------------------------- MODULE UartRx -------------------------------
(***************************************************************************)
(* The receive side of uart_meshtastic: the UART fills two DMA buffers in  *)
(* turn; its interrupt copies what arrived into the ring buffer and        *)
(* submits rx_work; the work handler takes the bytes out one by one and    *)
(* feeds the frame machine.  The interrupt may hit between any two bytes   *)
(* of the handler.                                                         *)
(*                                                                         *)
(* A byte is a record: val is its value, frame and pos tell from which     *)
(* byte of which frame of the node it comes (frame 0: noise).  The code    *)
(* looks at val only; frame and pos are there for the properties.          *)
(***************************************************************************)
EXTENDS Integers, Sequences, FiniteSets

CONSTANTS
  Base,         \* the number of values of a byte (256)
  MAGIC1,       \* MESHTASTIC_MAGIC1
  MAGIC2,       \* MESHTASTIC_MAGIC2
  MaxPayload,   \* MESHTASTIC_MAX_PAYLOAD
  DmaSize,      \* UART_DMA_BUF_SIZE
  RingSize,     \* RING_BUF_SIZE
  Payload,      \* what the node may send in a frame
  Noise,        \* what else may come over the line
  MaxFrames,    \* bound: frames sent
  MaxFaults     \* bound: bus errors, overflows and bursts of noise

ASSUME RxAssumption ==
  /\ Base \in Nat \ {0} /\ MAGIC1 \in 0..(Base - 1) /\ MAGIC2 \in 0..(Base - 1)
  /\ MAGIC1 # MAGIC2
  /\ MaxPayload \in 1..(Base * Base - 1)
  /\ DmaSize \in Nat \ {0} /\ RingSize \in Nat \ {0}
  /\ Payload \subseteq Seq(0..(Base - 1))
  /\ \A p \in Payload : Len(p) \in 1..MaxPayload
  /\ Noise \subseteq Seq(0..(Base - 1))
  /\ MaxFrames \in Nat /\ MaxFaults \in Nat

VARIABLES
  rx_sm,        \* the frame machine
  rx_ring_buf,  \* bytes from the interrupt to the handler
  active_buf,   \* the DMA buffer that was last given to the driver
  queued,       \* rx_work is queued (external: k_work)
  running,      \* rx_work_handler is in its loop
  mode,         \* the receiver: "on", "stopped" or "deaf" (external: UART driver)
  filling,      \* the DMA buffer being filled (external)
  spare,        \* the DMA buffers the driver may use next, at most one (external)
  fill,         \* bytes in the buffer being filled (external)
  fresh,        \* the last of them, not reported yet (external)
  line,         \* bytes the node is sending (external)
  sent,         \* the payloads it has sent (external)
  delivered,    \* frames handed to fromradio_cb, by number, 0 for a damaged one
  intact,       \* <<f, n>>: the first n bytes of frame f have come without a gap, and
                \* the first found the machine hunting for a frame
  faults        \* faults so far

machineVars == <<rx_sm, delivered, intact>>
driverVars  == <<mode, filling, spare, fill, fresh>>
nodeVars    == <<line, sent>>
vars == <<machineVars, driverVars, nodeVars, rx_ring_buf, active_buf, queued, running, faults>>

RxState == {"MAGIC1", "MAGIC2", "LEN_HI", "LEN_LO", "PAYLOAD"}

Byte == [val : 0..(Base - 1), frame : Nat, pos : Nat]

\* uart_meshtastic_init has enabled reception into the first buffer.
Init ==
  /\ rx_sm = [state |-> "MAGIC1", expected_len |-> 0, payload |-> <<>>]
  /\ rx_ring_buf = <<>>
  /\ active_buf = 0
  /\ queued = FALSE
  /\ running = FALSE
  /\ mode = "on"
  /\ filling = 0
  /\ spare = {}
  /\ fill = 0
  /\ fresh = <<>>
  /\ line = <<>>
  /\ sent = <<>>
  /\ delivered = <<>>
  /\ intact = <<0, 0>>
  /\ faults = 0

Fault(happens) ==
  /\ happens => faults < MaxFaults
  /\ faults' = IF happens THEN faults + 1 ELSE faults

--------------------------------------------------------------------------------
\* The node.

\* A frame on the wire: magic, length, payload (as tx_work_handler frames them).
Framed(p) == <<MAGIC1, MAGIC2, Len(p) \div Base, Len(p) % Base>> \o p

Bytes(p, f) == [i \in 1..Len(Framed(p)) |-> [val |-> Framed(p)[i], frame |-> f, pos |-> i]]

NodeSends ==
  /\ line = <<>> /\ Len(sent) < MaxFrames
  /\ \E p \in Payload :
       /\ line' = Bytes(p, Len(sent) + 1)
       /\ sent' = Append(sent, p)
  /\ UNCHANGED <<machineVars, driverVars, rx_ring_buf, active_buf, queued, running, faults>>

NoiseOnLine ==
  /\ line = <<>>
  /\ Fault(TRUE)
  /\ \E s \in Noise : line' = [i \in 1..Len(s) |-> [val |-> s[i], frame |-> 0, pos |-> 0]]
  /\ UNCHANGED <<machineVars, driverVars, sent, rx_ring_buf, active_buf, queued, running>>

\* A byte goes into the DMA buffer, or is lost when the receiver is off.
ByteArrives ==
  /\ line # <<>>
  /\ line' = Tail(line)
  /\ IF mode = "on"
     THEN /\ fill < DmaSize
          /\ fill' = fill + 1
          /\ fresh' = Append(fresh, Head(line))
     ELSE UNCHANGED <<fill, fresh>>
  /\ UNCHANGED <<machineVars, mode, filling, spare, sent, rx_ring_buf, active_buf, queued,
                 running, faults>>

\* The buffer is full and reported: the driver takes the spare one, or has to stop.
BufferEnds ==
  /\ mode = "on" /\ fill = DmaSize /\ fresh = <<>>
  /\ IF spare # {}
     THEN /\ filling' \in spare
          /\ spare' = {}
          /\ fill' = 0
          /\ UNCHANGED <<mode, faults>>
     ELSE /\ mode' = "stopped"
          /\ Fault(TRUE)
          /\ UNCHANGED <<filling, spare, fill>>
  /\ UNCHANGED <<machineVars, fresh, nodeVars, rx_ring_buf, active_buf, queued, running>>

--------------------------------------------------------------------------------
\* uart_cb, the interrupt.

\* What ring_buf_put stores of the fresh bytes (external): as many as there is room for.
Kept ==
  LET room == RingSize - Len(rx_ring_buf)
  IN  IF Len(fresh) <= room THEN Len(fresh) ELSE room

\* Fault: the bytes are stored although there is no room for them.
RxRdyFaultRoom ==
  /\ fresh # <<>>
  /\ rx_ring_buf' = rx_ring_buf \o fresh
  /\ fresh' = <<>>
  /\ queued' = TRUE
  /\ UNCHANGED <<machineVars, mode, filling, spare, fill, nodeVars, active_buf, running, faults>>

\* UART_RX_RDY, when the buffer is full or the line has gone idle: the result of
\* ring_buf_put is ignored.
RxRdy ==
  /\ fresh # <<>>
  /\ rx_ring_buf' = rx_ring_buf \o SubSeq(fresh, 1, Kept)
  /\ Fault(Kept < Len(fresh))
  /\ fresh' = <<>>
  /\ queued' = TRUE
  /\ UNCHANGED <<machineVars, mode, filling, spare, fill, nodeVars, active_buf, running>>

\* UART_RX_BUF_REQUEST.
RxBufRequest ==
  /\ mode = "on" /\ spare = {}
  /\ active_buf' = 1 - active_buf
  /\ spare' = {active_buf'}
  /\ UNCHANGED <<machineVars, mode, filling, fill, fresh, nodeVars, rx_ring_buf, queued,
                 running, faults>>

\* UART_RX_STOPPED: a framing, parity or overrun error; only logged.
RxStopped ==
  /\ mode = "on"
  /\ mode' = "stopped"
  /\ Fault(TRUE)
  /\ UNCHANGED <<machineVars, filling, spare, fill, fresh, nodeVars, rx_ring_buf, active_buf,
                 queued, running>>

\* Fault: reception starts in the first buffer, but active_buf is not reset.
RxDisabledFault ==
  /\ mode = "stopped" /\ fresh = <<>>
  /\ spare' = {}
  /\ fill' = 0
  /\ mode' = "on" /\ filling' = 0
  /\ UNCHANGED <<machineVars, fresh, nodeVars, rx_ring_buf, active_buf, queued, running, faults>>

\* UART_RX_DISABLED, once everything received is reported and the buffers are released:
\* reception starts again in the first buffer, unless the driver refuses.
RxDisabled ==
  /\ mode = "stopped" /\ fresh = <<>>
  /\ active_buf' = 0
  /\ spare' = {}
  /\ fill' = 0
  /\ \/ mode' = "on" /\ filling' = active_buf'
     \/ mode' = "deaf" /\ UNCHANGED filling
  /\ UNCHANGED <<machineVars, fresh, nodeVars, rx_ring_buf, queued, running, faults>>

--------------------------------------------------------------------------------
\* rx_process_byte: the frame machine, one operator per state of the switch.

Magic1(sm, b) == [sm EXCEPT !.state = IF b.val = MAGIC1 THEN "MAGIC2" ELSE "MAGIC1"]

\* Fault: a second MAGIC1 is not taken for the start of a frame.
Magic2Fault(sm, b) == [sm EXCEPT !.state = IF b.val = MAGIC2 THEN "LEN_HI" ELSE "MAGIC1"]

Magic2(sm, b) ==
  [sm EXCEPT !.state = CASE b.val = MAGIC2 -> "LEN_HI"
                         [] b.val = MAGIC1 -> "MAGIC2"
                         [] OTHER          -> "MAGIC1"]

LenHi(sm, b) == [sm EXCEPT !.expected_len = b.val * Base, !.state = "LEN_LO"]

\* Fault: a length above the maximum is accepted.
LenLoFault(sm, b) ==
  LET n == sm.expected_len + b.val
  IN  IF n = 0
      THEN [sm EXCEPT !.expected_len = n, !.state = "MAGIC1"]
      ELSE [state |-> "PAYLOAD", expected_len |-> n, payload |-> <<>>]

\* Fault: the greatest length is refused.
LenLoFaultMax(sm, b) ==
  LET n == sm.expected_len + b.val
  IN  IF n = 0 \/ n >= MaxPayload
      THEN [sm EXCEPT !.expected_len = n, !.state = "MAGIC1"]
      ELSE [state |-> "PAYLOAD", expected_len |-> n, payload |-> <<>>]

\* A length of 0 or above the maximum sends the machine back to hunting.
LenLo(sm, b) ==
  LET n == sm.expected_len + b.val
  IN  IF n = 0 \/ n > MaxPayload
      THEN [sm EXCEPT !.expected_len = n, !.state = "MAGIC1"]
      ELSE [state |-> "PAYLOAD", expected_len |-> n, payload |-> <<>>]

Ends(sm) == sm.state = "PAYLOAD" /\ Len(sm.payload) + 1 = sm.expected_len

\* Fault: after a frame the machine does not hunt for the next one.
PayloadByteFault(sm, b) ==
  [sm EXCEPT !.payload = IF Ends(sm) THEN <<>> ELSE Append(@, b)]

PayloadByte(sm, b) ==
  [sm EXCEPT !.payload = Append(@, b), !.state = IF Ends(sm) THEN "MAGIC1" ELSE "PAYLOAD"]

rx_process_byte(sm, b) ==
  CASE sm.state = "MAGIC1"  -> Magic1(sm, b)
    [] sm.state = "MAGIC2"  -> Magic2(sm, b)
    [] sm.state = "LEN_HI"  -> LenHi(sm, b)
    [] sm.state = "LEN_LO"  -> LenLo(sm, b)
    [] sm.state = "PAYLOAD" -> PayloadByte(sm, b)

\* The number of the frame that has this payload, 0 for none: a damaged one.
Origin(payload) ==
  LET F == {f \in 1..Len(sent) : payload = SubSeq(Bytes(sent[f], f), 5, Len(sent[f]) + 4)}
  IN  IF F = {} THEN 0 ELSE CHOOSE f \in F : TRUE

Hunting(sm) == sm.state \in {"MAGIC1", "MAGIC2"}

--------------------------------------------------------------------------------
\* rx_work_handler on the system work queue.

\* The work queue takes the item and calls the handler (external: k_work).
Run ==
  /\ queued /\ ~running
  /\ queued' = FALSE
  /\ running' = TRUE
  /\ UNCHANGED <<machineVars, driverVars, nodeVars, rx_ring_buf, active_buf, faults>>

\* One byte out of the ring buffer and through the machine; the last byte of a frame
\* calls fromradio_cb.
GetByte ==
  /\ running /\ rx_ring_buf # <<>>
  /\ rx_ring_buf' = Tail(rx_ring_buf)
  /\ LET b == Head(rx_ring_buf)
     IN  /\ rx_sm' = rx_process_byte(rx_sm, b)
         /\ delivered' = IF Ends(rx_sm)
                         THEN Append(delivered, Origin(Append(rx_sm.payload, b)))
                         ELSE delivered
         /\ intact' = IF \/ b.pos = 1 /\ Hunting(rx_sm)
                         \/ b.pos > 1 /\ intact = <<b.frame, b.pos - 1>>
                      THEN <<b.frame, b.pos>>
                      ELSE <<0, 0>>
  /\ UNCHANGED <<driverVars, nodeVars, active_buf, queued, running, faults>>

\* Fault: the handler takes one byte per call.
RingEmptyFault ==
  /\ running
  /\ running' = FALSE
  /\ UNCHANGED <<machineVars, driverVars, nodeVars, rx_ring_buf, active_buf, queued, faults>>

RingEmpty ==
  /\ running /\ rx_ring_buf = <<>>
  /\ running' = FALSE
  /\ UNCHANGED <<machineVars, driverVars, nodeVars, rx_ring_buf, active_buf, queued, faults>>

--------------------------------------------------------------------------------
Line == NodeSends \/ NoiseOnLine \/ ByteArrives

Interrupt == RxRdy \/ RxBufRequest \/ RxStopped \/ RxDisabled

Handler == Run \/ GetByte \/ RingEmpty

Next == Line \/ BufferEnds \/ Interrupt \/ Handler

Spec == Init /\ [][Next]_vars

--------------------------------------------------------------------------------
\* Every variable has its type, and the ring buffer and the DMA buffers stay within
\* their sizes.
TypeOK ==
  /\ rx_sm \in [state : RxState, expected_len : Nat, payload : Seq(Byte)]
  /\ rx_ring_buf \in Seq(Byte) /\ Len(rx_ring_buf) <= RingSize
  /\ active_buf \in {0, 1} /\ filling \in {0, 1} /\ spare \subseteq {0, 1}
  /\ queued \in BOOLEAN /\ running \in BOOLEAN
  /\ mode \in {"on", "stopped", "deaf"}
  /\ fill \in 0..DmaSize
  /\ fresh \in Seq(Byte) /\ Len(fresh) <= fill
  /\ line \in Seq(Byte)
  /\ sent \in Seq(Payload)
  /\ delivered \in Seq(Nat)
  /\ intact \in Nat \X Nat
  /\ faults \in Nat

\* Whatever bytes come in, in whatever state of the machine, rx_process_byte writes its
\* payload buffer below MESHTASTIC_MAX_PAYLOAD and never past the announced length.
PayloadInBounds ==
  /\ rx_sm.state = "PAYLOAD" =>
       Len(rx_sm.payload) < rx_sm.expected_len /\ rx_sm.expected_len <= MaxPayload
  /\ Len(rx_sm.payload) <= MaxPayload

\* The buffer that UART_RX_BUF_REQUEST hands to the driver is never the one it is
\* filling, across buffer changes, bus errors and restarts of the receiver.
DmaBuffersDistinct == mode = "on" => filling \notin spare

\* No wakeup is lost between the interrupt and rx_work_handler: bytes in the ring buffer
\* always have a handler that runs or will run.
NoLostWakeup == rx_ring_buf # <<>> => queued \/ running

\* The receiver implements the link that Proxy assumes: frames whole, in order and once;
\* all of them if nothing went wrong; and at most one damaged frame per fault, however
\* the machine has to find its way back into the byte stream.
Link == INSTANCE RxLink WITH frames <- Len(sent), output <- delivered, trouble <- faults

ImplementsRxLink == Link!LinkSpec

\* Resynchronisation: whatever was lost before, a frame that begins while the machine
\* hunts for one, and whose bytes then come without a gap, is delivered with its last
\* byte.
IntactFrameDelivered ==
  [][\A f \in 1..Len(sent) :
       intact' # intact /\ intact' = <<f, Len(sent[f]) + 4>> =>
         delivered' = Append(delivered, f)]_vars

\* Nothing on the line, in the DMA buffer or on the work queue.
Quiet == line = <<>> /\ fresh = <<>> /\ ~queued /\ ~running

\* No frame is left lying: when the receiver has come to rest after a time without
\* faults, every frame the node sent has reached fromradio_cb, however its bytes were
\* spread over DMA buffers, interrupts and calls of rx_work_handler.
NothingLeftLying == Quiet /\ faults = 0 => Len(delivered) = Len(sent)
=============================================================================
