------------------------------- MODULE UartTx -------------------------------
(***************************************************************************)
(* The transmit side of uart_meshtastic: callers on several threads put    *)
(* packets on tx_msgq and submit tx_work; the work handler moves one       *)
(* packet at a time into tx_frame_buf and starts the DMA; the UART         *)
(* interrupt ends a transfer and submits the work again.  An interrupt may *)
(* hit between any two statements of a thread, so the handler and          *)
(* uart_meshtastic_tx are split at every access to shared state.           *)
(* A packet is its number in the order of acceptance.                      *)
(***************************************************************************)
EXTENDS Integers, Sequences

CONSTANTS
  Caller,       \* threads that call uart_meshtastic_tx
  TxDepth,      \* TX_QUEUE_DEPTH
  MaxPackets    \* bound: packets accepted in one behaviour

ASSUME TxAssumption == TxDepth \in Nat \ {0} /\ MaxPackets \in Nat

VARIABLES
  tx_msgq,          \* accepted packets
  tx_in_progress,   \* uart_tx owns tx_frame_buf, as the code records it
  tx_frame_buf,     \* the packet framed in the buffer, 0 before the first
  caller,           \* callers between k_msgq_put and k_work_submit
  handler,          \* where tx_work_handler is
  entry,            \* the handler's local packet, 0 outside the handler
  queued,           \* tx_work is queued (external: k_work)
  dma,              \* the packet the UART is sending, 0 when idle (external)
  accepted          \* packets accepted so far

vars == <<tx_msgq, tx_in_progress, tx_frame_buf, caller, handler, entry, queued, dma, accepted>>

Step == {"idle", "check", "get", "build", "mark", "start", "failed", "resubmit"}

Init ==
  /\ tx_msgq = <<>>
  /\ tx_in_progress = FALSE
  /\ tx_frame_buf = 0
  /\ caller = {}
  /\ handler = "idle"
  /\ entry = 0
  /\ queued = FALSE
  /\ dma = 0
  /\ accepted = 0

--------------------------------------------------------------------------------
\* uart_meshtastic_tx.  A full queue refuses the packet, and nothing else happens.

\* Fault: one packet more than the queue holds.
PutFault(t) ==
  /\ t \notin caller
  /\ accepted < MaxPackets
  /\ Len(tx_msgq) <= TxDepth
  /\ tx_msgq' = Append(tx_msgq, accepted + 1)
  /\ accepted' = accepted + 1
  /\ caller' = caller \cup {t}
  /\ UNCHANGED <<tx_in_progress, tx_frame_buf, handler, entry, queued, dma>>

Put(t) ==
  /\ t \notin caller
  /\ accepted < MaxPackets
  /\ Len(tx_msgq) < TxDepth
  /\ tx_msgq' = Append(tx_msgq, accepted + 1)
  /\ accepted' = accepted + 1
  /\ caller' = caller \cup {t}
  /\ UNCHANGED <<tx_in_progress, tx_frame_buf, handler, entry, queued, dma>>

\* k_work_submit: the item is queued, also while its handler runs.
Submit(t) ==
  /\ t \in caller
  /\ caller' = caller \ {t}
  /\ queued' = TRUE
  /\ UNCHANGED <<tx_msgq, tx_in_progress, tx_frame_buf, handler, entry, dma, accepted>>

--------------------------------------------------------------------------------
\* tx_work_handler on the system work queue.

At(here, next) == handler = here /\ handler' = next

\* The work queue takes the item and calls the handler (external: k_work).
Run ==
  /\ At("idle", "check")
  /\ queued
  /\ queued' = FALSE
  /\ UNCHANGED <<tx_msgq, tx_in_progress, tx_frame_buf, caller, entry, dma, accepted>>

\* Fault: the guard against a transfer in progress is missing.
CheckFault ==
  /\ At("check", "get")
  /\ UNCHANGED <<tx_msgq, tx_in_progress, tx_frame_buf, caller, entry, queued, dma, accepted>>

Check ==
  /\ At("check", IF tx_in_progress THEN "idle" ELSE "get")
  /\ UNCHANGED <<tx_msgq, tx_in_progress, tx_frame_buf, caller, entry, queued, dma, accepted>>

\* Fault: the packet is peeked at, not taken.
GetFault ==
  /\ At("get", IF tx_msgq = <<>> THEN "idle" ELSE "build")
  /\ entry' = IF tx_msgq = <<>> THEN 0 ELSE Head(tx_msgq)
  /\ UNCHANGED <<tx_msgq, tx_in_progress, tx_frame_buf, caller, queued, dma, accepted>>

Get ==
  /\ At("get", IF tx_msgq = <<>> THEN "idle" ELSE "build")
  /\ entry' = IF tx_msgq = <<>> THEN 0 ELSE Head(tx_msgq)
  /\ tx_msgq' = IF tx_msgq = <<>> THEN tx_msgq ELSE Tail(tx_msgq)
  /\ UNCHANGED <<tx_in_progress, tx_frame_buf, caller, queued, dma, accepted>>

Build ==
  /\ At("build", "mark")
  /\ tx_frame_buf' = entry
  /\ UNCHANGED <<tx_msgq, tx_in_progress, caller, entry, queued, dma, accepted>>

Mark ==
  /\ At("mark", "start")
  /\ tx_in_progress' = TRUE
  /\ UNCHANGED <<tx_msgq, tx_frame_buf, caller, entry, queued, dma, accepted>>

\* uart_tx starts the transfer ...
Start ==
  /\ At("start", "idle")
  /\ dma = 0
  /\ dma' = entry
  /\ entry' = 0
  /\ UNCHANGED <<tx_msgq, tx_in_progress, tx_frame_buf, caller, queued, accepted>>

\* ... or fails: the packet is dropped, the flag cleared and the work submitted again.
StartFails ==
  /\ At("start", "failed")
  /\ entry' = 0
  /\ UNCHANGED <<tx_msgq, tx_in_progress, tx_frame_buf, caller, queued, dma, accepted>>

ClearMark ==
  /\ At("failed", "resubmit")
  /\ tx_in_progress' = FALSE
  /\ UNCHANGED <<tx_msgq, tx_frame_buf, caller, entry, queued, dma, accepted>>

\* Fault: the handler does not submit itself after a failed start.
ResubmitFault ==
  /\ At("resubmit", "idle")
  /\ UNCHANGED <<tx_msgq, tx_in_progress, tx_frame_buf, caller, entry, queued, dma, accepted>>

Resubmit ==
  /\ At("resubmit", "idle")
  /\ queued' = TRUE
  /\ UNCHANGED <<tx_msgq, tx_in_progress, tx_frame_buf, caller, entry, dma, accepted>>

Handler ==
  \/ Run
  \/ Check
  \/ Get
  \/ Build
  \/ Mark
  \/ Start
  \/ StartFails
  \/ ClearMark
  \/ Resubmit

--------------------------------------------------------------------------------
\* uart_cb, UART_TX_DONE and UART_TX_ABORTED: an aborted packet is not sent again.

\* Fault: the interrupt does not submit the work.
TxEndsFault ==
  /\ dma # 0
  /\ dma' = 0
  /\ tx_in_progress' = FALSE
  /\ UNCHANGED <<tx_msgq, tx_frame_buf, caller, handler, entry, queued, accepted>>

TxEnds ==
  /\ dma # 0
  /\ dma' = 0
  /\ tx_in_progress' = FALSE
  /\ queued' = TRUE
  /\ UNCHANGED <<tx_msgq, tx_frame_buf, caller, handler, entry, accepted>>

--------------------------------------------------------------------------------
Next ==
  \/ \E t \in Caller : Put(t) \/ Submit(t)
  \/ Handler
  \/ TxEnds

Spec == Init /\ [][Next]_vars

Fairness ==
  /\ WF_vars(Handler)
  /\ WF_vars(TxEnds)
  /\ \A t \in Caller : WF_vars(Submit(t))

FairSpec == Spec /\ Fairness

--------------------------------------------------------------------------------
\* Every variable has its type, and tx_msgq never holds more than TX_QUEUE_DEPTH
\* packets (uart_meshtastic_tx).
TypeOK ==
  /\ tx_msgq \in Seq(Nat \ {0}) /\ Len(tx_msgq) <= TxDepth
  /\ tx_in_progress \in BOOLEAN
  /\ tx_frame_buf \in Nat
  /\ caller \subseteq Caller
  /\ handler \in Step
  /\ entry \in Nat
  /\ queued \in BOOLEAN
  /\ dma \in Nat
  /\ accepted \in Nat

\* The flag is exactly the ownership of the buffer: it is set from just before uart_tx
\* to the interrupt that ends the transfer, so that uart_tx is never called while a
\* transfer runs and tx_work_handler never returns early when none does.
FlagIsOwnership ==
  /\ dma # 0 => handler \in {"idle", "check"}
  /\ tx_in_progress <=> dma # 0 \/ handler \in {"start", "failed"}

\* The UART reads tx_frame_buf by DMA: while it does, the buffer holds the packet the
\* transfer was started with, whatever the handler and the interrupt do.
FrameBufStable == dma # 0 => tx_frame_buf = dma

\* No wakeup is lost between uart_meshtastic_tx, tx_work_handler and the interrupt: a
\* waiting packet always has somebody who will submit or run the work.
NoLostWakeup ==
  tx_msgq # <<>> => queued \/ caller # {} \/ handler # "idle" \/ dma # 0

\* The packets a caller may still see delivered: the handler's own and the queue.
Waiting == IF entry = 0 THEN tx_msgq ELSE <<entry>> \o tx_msgq

Channel ==
  INSTANCE TxChannel
    WITH Capacity <- TxDepth + 1, waiting <- Waiting, wire <- dma, count <- accepted

\* The transmitter implements the channel: one packet on the wire at a time, in the
\* order of acceptance, none twice, none lost but the one uart_tx refused.
ImplementsChannel == Channel!ChanSpec

\* Every accepted packet leaves the queue, so that uart_meshtastic_tx does not refuse
\* packets for ever.
EveryPacketLeaves ==
  \A n \in 1..MaxPackets :
    (\E i \in 1..Len(tx_msgq) : tx_msgq[i] = n) ~> ~(\E i \in 1..Len(tx_msgq) : tx_msgq[i] = n)
=============================================================================
