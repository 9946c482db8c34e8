------------------------------ MODULE Keepalive ------------------------------
(***************************************************************************)
(* The upstream keepalive in discrete time: the delayable work item that   *)
(* sends a heartbeat after a period without traffic, its nonce, the flag   *)
(* by which the node's queueStatus is kept from the phones, and around it  *)
(* the phones' packets, the TX queue and the node with its serial timeout. *)
(* A tick is long against a transmission: UartTx empties the queue in      *)
(* between.                                                                *)
(***************************************************************************)
EXTENDS Integers, Sequences

CONSTANTS
  Period,       \* UPSTREAM_KEEPALIVE_MS, in ticks
  NonceMod,     \* the values of s_keepalive_nonce (2^32)
  TxDepth,      \* TX_QUEUE_DEPTH
  MaxTicks,     \* bound: ticks in one behaviour
  MaxPackets,   \* bound: ToRadio messages of the phones
  MaxLoss,      \* bound: messages and answers lost
  LateAnswers   \* whether the node may take ticks to answer

ASSUME KeepaliveAssumption ==
  /\ Period \in Nat \ {0} /\ NonceMod \in Nat /\ NonceMod > 2 /\ TxDepth \in Nat \ {0}
  /\ MaxTicks \in Nat /\ MaxPackets \in Nat /\ MaxLoss \in Nat
  /\ LateAnswers \in BOOLEAN

VARIABLES
  s_state,              \* the upstream state machine
  started,              \* upstream_session_start has run
  s_keepalive_armed,    \* the work item is initialised
  s_keepalive_nonce,    \* the nonce of the next heartbeat
  s_keepalive_pending,  \* a keepalive's queueStatus is ours to swallow
  timer,                \* ticks until the work item is due, or Unscheduled (external: k_work)
  expired,              \* it is on the work queue (external)
  tx_msgq,              \* messages to the node
  answers,              \* frames from the node: queueStatus, by what they answer, and the
                        \* "complete" that ends the burst (external)
  silence,              \* ticks since the node last heard from the proxy (external)
  missed,               \* messages lost since then (external)
  balance,              \* keepalives accepted for sending, less queueStatus swallowed
  misled,               \* what became of an answer: "stolen" from a phone or "leaked" to
                        \* the phones
  excuse,               \* a reason for that: an answer lost or late, or not the only one
  ticks, packets, losses

flagVars  == <<s_keepalive_armed, s_keepalive_nonce, s_keepalive_pending>>
timerVars == <<timer, expired>>
nodeVars  == <<answers, silence, missed>>
auxVars   == <<balance, misled, excuse>>
bounds    == <<ticks, packets, losses>>
vars == <<s_state, started, flagVars, timerVars, tx_msgq, nodeVars, auxVars, bounds>>

Message == [kind : {"want_config", "packet", "malformed", "heartbeat"}, nonce : 0..(NonceMod - 1)]

Unscheduled == -1

Plain(kind) == [kind |-> kind, nonce |-> 0]

Init ==
  /\ s_state = "BOOT" /\ started = FALSE
  /\ s_keepalive_armed = FALSE /\ s_keepalive_nonce = 2 /\ s_keepalive_pending = FALSE
  /\ timer = Unscheduled /\ expired = FALSE
  /\ tx_msgq = <<>>
  /\ answers = <<>> /\ silence = 0 /\ missed = 0
  /\ balance = 0 /\ misled = {} /\ excuse = FALSE
  /\ ticks = 0 /\ packets = 0 /\ losses = 0

TxFits == Len(tx_msgq) < TxDepth

uart_meshtastic_tx(m) == tx_msgq' = IF TxFits THEN Append(tx_msgq, m) ELSE tx_msgq

--------------------------------------------------------------------------------
\* Time and the work item.

\* A tick passes, unless a transmission or the work item is due; an answer that is still
\* out is late.
Tick ==
  /\ started /\ ticks < MaxTicks
  /\ tx_msgq = <<>> /\ ~expired /\ timer # 0
  /\ (LateAnswers \/ answers = <<>>)
  /\ ticks' = ticks + 1
  /\ silence' = silence + 1
  /\ timer' = IF timer = Unscheduled THEN timer ELSE timer - 1
  /\ excuse' = (excuse \/ answers # <<>>)
  /\ UNCHANGED <<s_state, started, flagVars, expired, tx_msgq, answers, missed, balance,
                 misled, packets, losses>>

\* The timeout puts the item on the work queue.
Expire ==
  /\ timer = 0
  /\ expired' = TRUE
  /\ timer' = Unscheduled
  /\ UNCHANGED <<s_state, started, flagVars, tx_msgq, nodeVars, auxVars, bounds>>

\* Fault: the wrapped nonce is not corrected.
NextNonceFault(n) == (n + 1) % NonceMod

\* The nonce wraps around, past 0 and 1.
NextNonce(n) == IF (n + 1) % NonceMod \in {0, 1} THEN 2 ELSE (n + 1) % NonceMod

\* Whether an answer for a phone is out or will be.
PhoneAnswerOut ==
  \/ \E i \in 1..Len(tx_msgq) : tx_msgq[i].kind = "packet"
  \/ \E i \in 1..Len(answers) : answers[i] = "packet"

\* Faults: the flag stays set when the transmission fails; it is never set.
PendingFaultKept(sent) == TRUE
PendingFaultUnset(sent) == FALSE

\* s_keepalive_pending is set before the transmission and cleared when that fails.
PendingAfterTx(sent) == sent

\* Fault: only a heartbeat that was sent reschedules the item.
TimerFault(sent) == IF sent THEN Period ELSE timer

\* The item is rescheduled in any case.
TimerAfterTx(sent) == Period

keepalive_work_handler ==
  /\ expired
  /\ expired' = FALSE
  /\ s_keepalive_nonce' = NextNonce(s_keepalive_nonce)
  /\ uart_meshtastic_tx([kind |-> "heartbeat", nonce |-> s_keepalive_nonce])
  /\ s_keepalive_pending' = PendingAfterTx(TxFits)
  /\ timer' = TimerAfterTx(TxFits)
  /\ balance' = IF TxFits THEN balance + 1 ELSE balance
  /\ excuse' = (excuse \/ (TxFits /\ PhoneAnswerOut))
  /\ UNCHANGED <<s_state, started, s_keepalive_armed, nodeVars, misled, bounds>>

--------------------------------------------------------------------------------
\* upstream_session_start and the end of the fetch.

SessionStart ==
  /\ ~started
  /\ started' = TRUE
  /\ uart_meshtastic_tx(Plain("want_config"))
  /\ IF TxFits
     THEN s_state' = "FETCHING" /\ s_keepalive_armed' = TRUE /\ timer' = Period
     ELSE UNCHANGED <<s_state, s_keepalive_armed, timer>>
  /\ UNCHANGED <<s_keepalive_nonce, s_keepalive_pending, expired, nodeVars, auxVars, bounds>>

FetchDone ==
  /\ answers # <<>> /\ Head(answers) = "complete"
  /\ answers' = Tail(answers)
  /\ s_state' = "LIVE"
  /\ UNCHANGED <<started, flagVars, timerVars, tx_msgq, silence, missed, auxVars, bounds>>

--------------------------------------------------------------------------------
\* on_toradio_ble: what goes to the node.

\* A packet that was accepted pushes the keepalive out.  An item that is already on the
\* work queue stays there.
ForwardPacket ==
  /\ packets < MaxPackets /\ packets' = packets + 1
  /\ uart_meshtastic_tx(Plain("packet"))
  /\ timer' = IF TxFits /\ s_keepalive_armed THEN Period ELSE timer
  /\ UNCHANGED <<s_state, started, flagVars, expired, nodeVars, auxVars, ticks, losses>>

\* A message that does not decode is forwarded and pushes nothing out.
ForwardMalformed ==
  /\ packets < MaxPackets /\ packets' = packets + 1
  /\ uart_meshtastic_tx(Plain("malformed"))
  /\ UNCHANGED <<s_state, started, flagVars, timerVars, nodeVars, auxVars, ticks, losses>>

--------------------------------------------------------------------------------
\* The node.

\* The node hears a message; it answers packets and heartbeats with a queueStatus, and
\* want_config with a burst.
Answer ==
  [want_config |-> <<"complete">>, packet |-> <<"packet">>, heartbeat |-> <<"heartbeat">>,
   malformed |-> <<>>]

NodeHears ==
  /\ tx_msgq # <<>>
  /\ tx_msgq' = Tail(tx_msgq)
  /\ silence' = 0
  /\ missed' = 0
  /\ answers' = answers \o Answer[Head(tx_msgq).kind]
  /\ UNCHANGED <<s_state, started, flagVars, timerVars, auxVars, bounds>>

Lost == losses < MaxLoss /\ losses' = losses + 1

MessageLost ==
  /\ tx_msgq # <<>> /\ Lost
  /\ tx_msgq' = Tail(tx_msgq)
  /\ missed' = missed + 1
  /\ excuse' = TRUE
  /\ UNCHANGED <<s_state, started, flagVars, timerVars, answers, silence, balance, misled,
                 ticks, packets>>

AnswerLost ==
  /\ answers # <<>> /\ Lost
  /\ answers' = Tail(answers)
  /\ excuse' = TRUE
  /\ UNCHANGED <<s_state, started, flagVars, timerVars, tx_msgq, silence, missed, balance,
                 misled, ticks, packets>>

--------------------------------------------------------------------------------
\* router_dispatch of a queueStatus.

\* In the fetch window the session takes the frame for a part of the burst, and the flag
\* stays as it is.
AnswerCached ==
  /\ answers # <<>> /\ Head(answers) # "complete" /\ s_state = "FETCHING"
  /\ answers' = Tail(answers)
  /\ excuse' = TRUE
  /\ UNCHANGED <<s_state, started, flagVars, timerVars, tx_msgq, silence, missed, balance,
                 misled, bounds>>

\* upstream_swallow_live_queuestatus.
Swallow ==
  /\ answers # <<>> /\ Head(answers) # "complete" /\ s_state # "FETCHING" /\ s_keepalive_pending
  /\ answers' = Tail(answers)
  /\ s_keepalive_pending' = FALSE
  /\ balance' = balance - 1
  /\ misled' = IF Head(answers) = "packet" THEN misled \cup {"stolen"} ELSE misled
  /\ UNCHANGED <<s_state, started, s_keepalive_armed, s_keepalive_nonce, timerVars, tx_msgq,
                 silence, missed, excuse, bounds>>

Broadcast ==
  /\ answers # <<>> /\ Head(answers) # "complete" /\ s_state # "FETCHING" /\ ~s_keepalive_pending
  /\ answers' = Tail(answers)
  /\ misled' = IF Head(answers) = "heartbeat" THEN misled \cup {"leaked"} ELSE misled
  /\ UNCHANGED <<s_state, started, flagVars, timerVars, tx_msgq, silence, missed, balance,
                 excuse, bounds>>

--------------------------------------------------------------------------------
Next ==
  \/ Tick \/ Expire \/ keepalive_work_handler
  \/ SessionStart \/ FetchDone
  \/ ForwardPacket \/ ForwardMalformed
  \/ NodeHears \/ MessageLost \/ AnswerLost
  \/ AnswerCached \/ Swallow \/ Broadcast

Spec == Init /\ [][Next]_vars

--------------------------------------------------------------------------------
\* Every variable has its type; the timer never exceeds the period, and no heartbeat on
\* its way carries the nonce 0 or 1, also when the counter wraps around
\* (keepalive_work_handler).
TypeOK ==
  /\ s_state \in {"BOOT", "FETCHING", "LIVE"} /\ started \in BOOLEAN
  /\ s_keepalive_armed \in BOOLEAN /\ s_keepalive_pending \in BOOLEAN
  /\ s_keepalive_nonce \in 2..(NonceMod - 1)
  /\ timer \in {Unscheduled} \cup 0..Period /\ expired \in BOOLEAN
  /\ tx_msgq \in Seq(Message) /\ Len(tx_msgq) <= TxDepth
  /\ \A i \in 1..Len(tx_msgq) : tx_msgq[i].kind = "heartbeat" => tx_msgq[i].nonce \notin {0, 1}
  /\ answers \in Seq({"packet", "heartbeat", "complete"})
  /\ silence \in Nat /\ missed \in Nat
  /\ balance \in Int /\ misled \subseteq {"stolen", "leaked"} /\ excuse \in BOOLEAN
  /\ ticks \in Nat /\ packets \in Nat /\ losses \in Nat

\* Once the keepalive is armed the node goes without a message for one period at most,
\* and for one more with every message lost in a row: with the node's timeout three
\* periods long, two losses in a row are needed to reach it.  Neither packets that push
\* the keepalive out nor a full TX queue add to that.
SilenceBounded == s_keepalive_armed => silence <= (missed + 1) * Period

\* The proxy never swallows more queueStatus frames than it had keepalives accepted:
\* phones do not lose answers without end, whatever is lost, late or refused.
SwallowBudget == balance >= IF s_keepalive_pending THEN 1 ELSE 0

\* A phone's queueStatus is swallowed, or the keepalive's broadcast, only after an answer
\* was lost, late or taken for a part of the burst, or when the keepalive was sent with a
\* phone's answer outstanding: in a quiet, lossless link the flag always meets its own
\* answer.
AnswersReachTheirOwner == misled # {} => excuse

\* router.c on what is not broadcast: "the queueStatus the node sends in reply to our own
\* upstream keepalive heartbeat".  A work item that has expired runs although a packet
\* pushes the keepalive out, and the answer to that packet comes first.
PhoneAnswersKept == "stolen" \notin misled
==============================================================================
