--------------------------- MODULE KeepaliveProofs ---------------------------
(***************************************************************************)
(* Proofs about Keepalive: how long the node is left in silence, how many  *)
(* answers the proxy may take for its own, and whose answers they are.     *)
(***************************************************************************)
EXTENDS Keepalive, TLAPS

(***************************************************************************)
(* SilenceBounded alone is not inductive: it rests on the timer.  An armed *)
(* work item is scheduled or on the work queue, and as long as nothing is  *)
(* waiting to be sent the time until it is due fits into the bound.        *)
(***************************************************************************)
TimerInv ==
  /\ ~started => silence = 0
  /\ s_keepalive_armed => expired \/ timer # Unscheduled
  /\ s_keepalive_armed /\ timer # Unscheduled /\ tx_msgq = <<>> =>
       silence + timer <= (missed + 1) * Period

\* The two products the bound is made of: it is a natural number, one loss adds a period,
\* and without a loss it is one period.
LEMMA Bound ==
  ASSUME NEW m \in Nat
  PROVE  /\ (m + 1) * Period \in Nat
         /\ ((m + 1) + 1) * Period = (m + 1) * Period + Period
         /\ (0 + 1) * Period = Period
BY KeepaliveAssumption

\* The nonce of the next heartbeat is in range again, also when the counter wraps around.
LEMMA NonceOK ==
  ASSUME NEW n \in 2..(NonceMod - 1)
  PROVE  NextNonce(n) \in 2..(NonceMod - 1)
BY KeepaliveAssumption DEF NextNonce

\* uart_meshtastic_tx keeps the queue's type and bound; a heartbeat needs a nonce other
\* than 0 and 1.  Afterwards something is waiting to be sent, accepted or not.
LEMMA TxOK ==
  ASSUME TypeOK, NEW m \in Message, m.kind = "heartbeat" => m.nonce \notin {0, 1},
         uart_meshtastic_tx(m)
  PROVE  /\ tx_msgq' \in Seq(Message) /\ Len(tx_msgq') <= TxDepth
         /\ \A i \in 1..Len(tx_msgq') :
              tx_msgq'[i].kind = "heartbeat" => tx_msgq'[i].nonce \notin {0, 1}
         /\ tx_msgq' # <<>>
<1> USE KeepaliveAssumption
<1>1. tx_msgq \in Seq(Message) /\ Len(tx_msgq) <= TxDepth
  BY DEF TypeOK
<1>2. CASE TxFits
  <2>1. tx_msgq' = Append(tx_msgq, m)
    BY <1>2 DEF uart_meshtastic_tx
  <2>2. /\ tx_msgq' \in Seq(Message) /\ Len(tx_msgq') = Len(tx_msgq) + 1
        /\ \A i \in 1..Len(tx_msgq) : tx_msgq'[i] = tx_msgq[i]
        /\ tx_msgq'[Len(tx_msgq) + 1] = m
    BY <1>1, <2>1
  <2>3. QED
    BY <1>1, <1>2, <2>2 DEF TxFits, TypeOK
<1>3. CASE ~TxFits
  BY <1>1, <1>3 DEF TxFits, TypeOK, uart_meshtastic_tx
<1>4. QED
  BY <1>2, <1>3

\* Taking the first message off the queue keeps its type and bound.
LEMMA TailOK ==
  ASSUME TypeOK, tx_msgq # <<>>
  PROVE  /\ Tail(tx_msgq) \in Seq(Message) /\ Len(Tail(tx_msgq)) <= TxDepth
         /\ \A i \in 1..Len(Tail(tx_msgq)) :
              Tail(tx_msgq)[i].kind = "heartbeat" => Tail(tx_msgq)[i].nonce \notin {0, 1}
<1>1. tx_msgq \in Seq(Message) /\ Len(tx_msgq) <= TxDepth
  BY DEF TypeOK
<1>2. /\ Tail(tx_msgq) \in Seq(Message) /\ Len(Tail(tx_msgq)) = Len(tx_msgq) - 1
      /\ \A i \in 1..Len(Tail(tx_msgq)) : Tail(tx_msgq)[i] = tx_msgq[i + 1]
  BY <1>1
<1>3. QED
  BY <1>1, <1>2, KeepaliveAssumption DEF TypeOK

\* Type correctness over every step.
LEMMA TypeStep == TypeOK /\ [Next]_vars => TypeOK'
<1> SUFFICES ASSUME TypeOK, [Next]_vars PROVE TypeOK'
  OBVIOUS
<1> USE KeepaliveAssumption DEF flagVars, timerVars, nodeVars, auxVars, bounds
<1>1. CASE Tick
  BY <1>1 DEF Tick, TypeOK, Unscheduled
<1>2. CASE Expire
  BY <1>2 DEF Expire, TypeOK, Unscheduled
<1>3. CASE keepalive_work_handler
  <2> DEFINE m == [kind |-> "heartbeat", nonce |-> s_keepalive_nonce]
  <2>1. m \in Message /\ m.kind = "heartbeat" /\ m.nonce \notin {0, 1}
    BY DEF TypeOK, Message
  <2>2. uart_meshtastic_tx(m)
    BY <1>3 DEF keepalive_work_handler
  <2>3. NextNonce(s_keepalive_nonce) \in 2..(NonceMod - 1)
    BY NonceOK DEF TypeOK
  <2>4. /\ tx_msgq' \in Seq(Message) /\ Len(tx_msgq') <= TxDepth
        /\ \A i \in 1..Len(tx_msgq') :
             tx_msgq'[i].kind = "heartbeat" => tx_msgq'[i].nonce \notin {0, 1}
    BY <2>1, <2>2, TxOK
  <2>5. TxFits \in BOOLEAN /\ (excuse \/ (TxFits /\ PhoneAnswerOut)) \in BOOLEAN
    <3>1. TxFits \in BOOLEAN
      BY DEF TxFits
    <3>2. QED
      BY <3>1, Zenon
  <2>6. s_keepalive_pending' = TxFits /\ expired' = FALSE
    BY <1>3, Zenon DEF keepalive_work_handler, PendingAfterTx
  <2>7. excuse' = (excuse \/ (TxFits /\ PhoneAnswerOut))
    BY <1>3, Zenon DEF keepalive_work_handler
  <2>8. s_keepalive_pending' \in BOOLEAN /\ excuse' \in BOOLEAN /\ expired' \in BOOLEAN
    BY <2>5, <2>6, <2>7, Zenon
  <2>9. /\ timer' = Period /\ s_keepalive_nonce' = NextNonce(s_keepalive_nonce)
        /\ balance' \in Int
        /\ UNCHANGED <<s_state, started, s_keepalive_armed, nodeVars, misled, bounds>>
    BY <1>3 DEF keepalive_work_handler, TimerAfterTx, TypeOK
  <2>10. QED
    BY <2>3, <2>4, <2>8, <2>9 DEF TypeOK
<1>4. CASE SessionStart
  <2>1. Plain("want_config") \in Message /\ Plain("want_config").kind # "heartbeat"
    BY DEF Plain, Message
  <2>2. /\ tx_msgq' \in Seq(Message) /\ Len(tx_msgq') <= TxDepth
        /\ \A i \in 1..Len(tx_msgq') :
             tx_msgq'[i].kind = "heartbeat" => tx_msgq'[i].nonce \notin {0, 1}
    BY <1>4, <2>1, TxOK DEF SessionStart
  <2>3. started' \in BOOLEAN /\ s_keepalive_armed' \in BOOLEAN
    BY <1>4, Zenon DEF SessionStart, TypeOK
  <2>4. s_state' \in {"BOOT", "FETCHING", "LIVE"} /\ timer' \in {Unscheduled} \cup 0..Period
    BY <1>4 DEF SessionStart, TypeOK
  <2>5. UNCHANGED <<s_keepalive_nonce, s_keepalive_pending, expired, nodeVars, auxVars, bounds>>
    BY <1>4, Zenon DEF SessionStart
  <2>6. QED
    BY <2>2, <2>3, <2>4, <2>5 DEF TypeOK
<1>5. CASE FetchDone
  BY <1>5 DEF FetchDone, TypeOK
<1>6. CASE ForwardPacket
  <2>1. Plain("packet") \in Message /\ Plain("packet").kind # "heartbeat"
    BY DEF Plain, Message
  <2>2. /\ tx_msgq' \in Seq(Message) /\ Len(tx_msgq') <= TxDepth
        /\ \A i \in 1..Len(tx_msgq') :
             tx_msgq'[i].kind = "heartbeat" => tx_msgq'[i].nonce \notin {0, 1}
    BY <1>6, <2>1, TxOK DEF ForwardPacket
  <2>3. QED
    BY <1>6, <2>2 DEF ForwardPacket, TypeOK
<1>7. CASE ForwardMalformed
  <2>1. Plain("malformed") \in Message /\ Plain("malformed").kind # "heartbeat"
    BY DEF Plain, Message
  <2>2. /\ tx_msgq' \in Seq(Message) /\ Len(tx_msgq') <= TxDepth
        /\ \A i \in 1..Len(tx_msgq') :
             tx_msgq'[i].kind = "heartbeat" => tx_msgq'[i].nonce \notin {0, 1}
    BY <1>7, <2>1, TxOK DEF ForwardMalformed
  <2>3. QED
    BY <1>7, <2>2 DEF ForwardMalformed, TypeOK
<1>8. CASE NodeHears
  <2>1. Head(tx_msgq).kind \in {"want_config", "packet", "malformed", "heartbeat"}
    <3>1. tx_msgq \in Seq(Message) /\ tx_msgq # <<>>
      BY <1>8 DEF NodeHears, TypeOK
    <3>2. Head(tx_msgq) \in Message
      BY <3>1
    <3>3. QED
      BY <3>2 DEF Message
  <2>2. Answer[Head(tx_msgq).kind] \in Seq({"packet", "heartbeat", "complete"})
    <3>1. /\ Answer["want_config"] = <<"complete">> /\ Answer["packet"] = <<"packet">>
          /\ Answer["heartbeat"] = <<"heartbeat">> /\ Answer["malformed"] = <<>>
      BY DEF Answer
    <3>2. /\ <<"complete">> \in Seq({"packet", "heartbeat", "complete"})
          /\ <<"packet">> \in Seq({"packet", "heartbeat", "complete"})
          /\ <<"heartbeat">> \in Seq({"packet", "heartbeat", "complete"})
          /\ <<>> \in Seq({"packet", "heartbeat", "complete"})
      OBVIOUS
    <3>3. QED
      BY <2>1, <3>1, <3>2, Zenon
  <2>3. answers' \in Seq({"packet", "heartbeat", "complete"})
    BY <1>8, <2>2 DEF NodeHears, TypeOK
  <2>4. QED
    BY <1>8, <2>3, TailOK DEF NodeHears, TypeOK
<1>9. CASE MessageLost
  BY <1>9, TailOK DEF MessageLost, Lost, TypeOK
<1>10. CASE AnswerLost
  BY <1>10 DEF AnswerLost, Lost, TypeOK
<1>11. CASE AnswerCached
  BY <1>11 DEF AnswerCached, TypeOK
<1>12. CASE Swallow
  <2>1. s_keepalive_pending' \in BOOLEAN
    BY <1>12, Zenon DEF Swallow
  <2>2. /\ answers' \in Seq({"packet", "heartbeat", "complete"}) /\ balance' \in Int
        /\ misled' \subseteq {"stolen", "leaked"}
    BY <1>12 DEF Swallow, TypeOK
  <2>3. UNCHANGED <<s_state, started, s_keepalive_armed, s_keepalive_nonce, timerVars,
                    tx_msgq, silence, missed, excuse, bounds>>
    BY <1>12, Zenon DEF Swallow
  <2>4. QED
    BY <2>1, <2>2, <2>3 DEF TypeOK
<1>13. CASE Broadcast
  BY <1>13 DEF Broadcast, TypeOK
<1>14. CASE UNCHANGED vars
  BY <1>14 DEF vars, TypeOK
<1>15. QED
  BY <1>1, <1>2, <1>3, <1>4, <1>5, <1>6, <1>7, <1>8, <1>9, <1>10, <1>11, <1>12, <1>13,
     <1>14 DEF Next

\* The initial state satisfies the invariants.
LEMMA InitOK == Init => TypeOK /\ TimerInv /\ SilenceBounded /\ SwallowBudget
<1> SUFFICES ASSUME Init PROVE TypeOK /\ TimerInv /\ SilenceBounded /\ SwallowBudget
  OBVIOUS
<1>1. TypeOK
  <2>1. /\ started \in BOOLEAN /\ s_keepalive_armed \in BOOLEAN /\ expired \in BOOLEAN
        /\ s_keepalive_pending \in BOOLEAN /\ excuse \in BOOLEAN
    BY Zenon DEF Init
  <2>2. QED
    BY <2>1, KeepaliveAssumption DEF Init, TypeOK
<1>2. TimerInv /\ SilenceBounded /\ SwallowBudget
  BY DEF Init, TimerInv, SilenceBounded, SwallowBudget
<1>3. QED
  BY <1>1, <1>2

(***************************************************************************)
(* The bound on silence over every step: ticks are paid for by the timer,  *)
(* the handler leaves something to send behind it, and a message either    *)
(* reaches the node or raises the bound.                                   *)
(***************************************************************************)
LEMMA SilenceStep ==
  TypeOK /\ TimerInv /\ SilenceBounded /\ [Next]_vars => TimerInv' /\ SilenceBounded'
<1> SUFFICES ASSUME TypeOK, TimerInv, SilenceBounded, [Next]_vars
             PROVE  TimerInv' /\ SilenceBounded'
  OBVIOUS
<1> DEFINE B == (missed + 1) * Period
<1>1. /\ B \in Nat /\ Period \in Nat \ {0}
      /\ silence \in Nat /\ missed \in Nat /\ timer \in {Unscheduled} \cup 0..Period
  BY KeepaliveAssumption, Bound DEF TypeOK
<1>2. /\ ~started => silence = 0
      /\ s_keepalive_armed => expired \/ timer # Unscheduled
      /\ s_keepalive_armed /\ timer # Unscheduled /\ tx_msgq = <<>> => silence + timer <= B
      /\ s_keepalive_armed => silence <= B
  BY DEF TimerInv, SilenceBounded
<1>3. B' = (missed' + 1) * Period
  OBVIOUS
<1>4. SUFFICES /\ ~started' => silence' = 0
               /\ s_keepalive_armed' => expired' \/ timer' # Unscheduled
               /\ s_keepalive_armed' /\ timer' # Unscheduled /\ tx_msgq' = <<>> =>
                    silence' + timer' <= B'
               /\ s_keepalive_armed' => silence' <= B'
  BY DEF TimerInv, SilenceBounded, Unscheduled
<1> HIDE DEF B
<1> USE DEF flagVars, timerVars, nodeVars, auxVars, bounds
<1>5. ASSUME missed' = missed PROVE B' = B
  BY <1>5 DEF B
<1>6. CASE Tick
  BY <1>1, <1>2, <1>5, <1>6 DEF Tick, Unscheduled
<1>7. CASE Expire
  BY <1>1, <1>2, <1>5, <1>7 DEF Expire, Unscheduled
<1>8. CASE keepalive_work_handler
  <2> DEFINE m == [kind |-> "heartbeat", nonce |-> s_keepalive_nonce]
  <2>1. m \in Message /\ m.nonce \notin {0, 1} /\ uart_meshtastic_tx(m)
    BY <1>8, KeepaliveAssumption DEF keepalive_work_handler, TypeOK, Message
  <2>2. tx_msgq' # <<>>
    BY <2>1, TxOK
  <2>3. QED
    BY <1>1, <1>2, <1>5, <1>8, <2>2 DEF keepalive_work_handler, TimerAfterTx, Unscheduled
<1>9. CASE SessionStart
  <2>1. Plain("want_config") \in Message /\ Plain("want_config").kind # "heartbeat"
    BY KeepaliveAssumption DEF Plain, Message
  <2>2. tx_msgq' # <<>>
    BY <1>9, <2>1, TxOK DEF SessionStart
  <2>3. QED
    BY <1>1, <1>2, <1>5, <1>9, <2>2 DEF SessionStart, Unscheduled
<1>10. CASE ForwardPacket
  <2>1. Plain("packet") \in Message /\ Plain("packet").kind # "heartbeat"
    BY KeepaliveAssumption DEF Plain, Message
  <2>2. tx_msgq' # <<>>
    BY <1>10, <2>1, TxOK DEF ForwardPacket
  <2>3. QED
    BY <1>1, <1>2, <1>5, <1>10, <2>2 DEF ForwardPacket, Unscheduled
<1>11. CASE ForwardMalformed
  <2>1. Plain("malformed") \in Message /\ Plain("malformed").kind # "heartbeat"
    BY KeepaliveAssumption DEF Plain, Message
  <2>2. tx_msgq' # <<>>
    BY <1>11, <2>1, TxOK DEF ForwardMalformed
  <2>3. QED
    BY <1>1, <1>2, <1>5, <1>11, <2>2 DEF ForwardMalformed, Unscheduled
<1>12. CASE NodeHears
  <2>1. missed' = 0 /\ silence' = 0
    BY <1>12 DEF NodeHears
  <2>2. B' = Period
    BY <1>1, <1>3, <2>1, Bound
  <2>3. QED
    BY <1>1, <1>2, <1>12, <2>1, <2>2 DEF NodeHears, Unscheduled
<1>13. CASE MessageLost
  <2>1. missed' = missed + 1
    BY <1>13 DEF MessageLost
  <2>2. B' = B + Period
    BY <1>1, <1>3, <2>1, Bound DEF B
  <2>3. QED
    BY <1>1, <1>2, <1>13, <2>2 DEF MessageLost, Unscheduled
<1>14. CASE FetchDone \/ AnswerLost \/ AnswerCached \/ Swallow \/ Broadcast
  BY <1>1, <1>2, <1>5, <1>14 DEF FetchDone, AnswerLost, AnswerCached, Swallow, Broadcast
<1>15. CASE UNCHANGED vars
  BY <1>1, <1>2, <1>5, <1>15 DEF vars
<1>16. QED
  BY <1>6, <1>7, <1>8, <1>9, <1>10, <1>11, <1>12, <1>13, <1>14, <1>15 DEF Next

\* The budget over every step: only the handler and the swallowing change it.
LEMMA BudgetStep == TypeOK /\ SwallowBudget /\ [Next]_vars => SwallowBudget'
<1> SUFFICES ASSUME TypeOK, SwallowBudget, [Next]_vars PROVE SwallowBudget'
  OBVIOUS
<1> USE DEF flagVars, timerVars, nodeVars, auxVars, bounds
<1>1. balance \in Int /\ balance >= IF s_keepalive_pending THEN 1 ELSE 0
  BY DEF TypeOK, SwallowBudget
<1>2. CASE keepalive_work_handler
  BY <1>1, <1>2 DEF keepalive_work_handler, PendingAfterTx, SwallowBudget
<1>3. CASE Swallow
  BY <1>1, <1>3 DEF Swallow, SwallowBudget
<1>4. ASSUME balance' = balance, s_keepalive_pending' = s_keepalive_pending
      PROVE  SwallowBudget'
  BY <1>1, <1>4 DEF SwallowBudget
<1>5. CASE Tick \/ Expire \/ SessionStart \/ FetchDone \/ ForwardPacket \/ ForwardMalformed
  BY <1>4, <1>5 DEF Tick, Expire, SessionStart, FetchDone, ForwardPacket, ForwardMalformed
<1>6. CASE NodeHears \/ MessageLost \/ AnswerLost \/ AnswerCached \/ Broadcast
  BY <1>4, <1>6 DEF NodeHears, MessageLost, AnswerLost, AnswerCached, Broadcast
<1>7. CASE UNCHANGED vars
  BY <1>4, <1>7 DEF vars
<1>8. QED
  BY <1>2, <1>3, <1>5, <1>6, <1>7 DEF Next

\* For every period, queue depth, width of the nonce, number of packets and losses: the
\* types hold, and no heartbeat of keepalive_work_handler carries the nonce 0 or 1.
THEOREM TypeCorrect == Spec => []TypeOK
<1>1. Init => TypeOK
  BY InitOK
<1>2. QED
  BY <1>1, TypeStep, PTL DEF Spec

\* For every instance the node is left in silence for at most one period more than the
\* messages lost in a row account for (keepalive_work_handler,
\* upstream_keepalive_reschedule).
THEOREM SilenceCorrect == Spec => []SilenceBounded
<1>1. Init => TypeOK /\ TimerInv /\ SilenceBounded
  BY InitOK
<1>2. TypeOK /\ TimerInv /\ SilenceBounded /\ [Next]_vars
        => (TypeOK /\ TimerInv /\ SilenceBounded)'
  BY TypeStep, SilenceStep
<1>3. QED
  BY <1>1, <1>2, PTL DEF Spec

\* For every instance the proxy swallows no more queueStatus frames than keepalives were
\* accepted for sending (upstream_swallow_live_queuestatus).
THEOREM BudgetCorrect == Spec => []SwallowBudget
<1>1. Init => TypeOK /\ SwallowBudget
  BY InitOK
<1>2. TypeOK /\ SwallowBudget /\ [Next]_vars => (TypeOK /\ SwallowBudget)'
  BY TypeStep, BudgetStep
<1>3. QED
  BY <1>1, <1>2, PTL DEF Spec

(***************************************************************************)
(* Where the answer to the keepalive is while nothing went wrong: nowhere, *)
(* among the answers with only the end of the burst before it, or still a  *)
(* message to the node with no packet before it.                           *)
(***************************************************************************)
NoneOut ==
  /\ \A i \in 1..Len(answers) : answers[i] # "heartbeat"
  /\ \A i \in 1..Len(tx_msgq) : tx_msgq[i].kind # "heartbeat"

AnswerAt(k) ==
  /\ answers[k] = "heartbeat"
  /\ \A i \in 1..Len(answers) : /\ i < k => answers[i] = "complete"
                                /\ i > k => answers[i] # "heartbeat"
  /\ \A i \in 1..Len(tx_msgq) : tx_msgq[i].kind # "heartbeat"

MessageAt(k) ==
  /\ \A i \in 1..Len(answers) : answers[i] = "complete"
  /\ tx_msgq[k].kind = "heartbeat"
  /\ \A i \in 1..Len(tx_msgq) : /\ i < k => tx_msgq[i].kind \notin {"packet", "heartbeat"}
                                /\ i > k => tx_msgq[i].kind # "heartbeat"

(***************************************************************************)
(* The flag is set exactly while that answer is out, and by then the next  *)
(* keepalive is not due: two are never out together.                       *)
(***************************************************************************)
OwnerInv ==
  ~excuse =>
    /\ misled = {}
    /\ ~s_keepalive_pending => NoneOut
    /\ s_keepalive_pending =>
         /\ ~expired /\ timer > 0
         /\ \/ \E k \in 1..Len(answers) : AnswerAt(k)
            \/ \E k \in 1..Len(tx_msgq) : MessageAt(k)

\* What uart_meshtastic_tx does to the queue, message by message.
LEMMA TxFlow ==
  ASSUME TypeOK, NEW m \in Message, uart_meshtastic_tx(m)
  PROVE  \/ ~TxFits /\ tx_msgq' = tx_msgq
         \/ /\ TxFits /\ Len(tx_msgq) \in Nat /\ Len(tx_msgq') = Len(tx_msgq) + 1
            /\ \A i \in 1..Len(tx_msgq) : tx_msgq'[i] = tx_msgq[i]
            /\ tx_msgq'[Len(tx_msgq) + 1] = m
<1>1. tx_msgq \in Seq(Message)
  BY DEF TypeOK
<1>2. CASE TxFits
  BY <1>1, <1>2 DEF uart_meshtastic_tx
<1>3. CASE ~TxFits
  BY <1>3 DEF uart_meshtastic_tx
<1>4. QED
  BY <1>2, <1>3

\* A message that is no heartbeat goes to the end of the queue and changes nothing of where
\* the keepalive's answer is.
LEMMA TxKeepsPlace ==
  ASSUME TypeOK, NEW m \in Message, m.kind # "heartbeat", uart_meshtastic_tx(m),
         UNCHANGED answers
  PROVE  /\ NoneOut => NoneOut'
         /\ (\E k \in 1..Len(answers) : AnswerAt(k)) => (\E k \in 1..Len(answers) : AnswerAt(k))'
         /\ (\E k \in 1..Len(tx_msgq) : MessageAt(k)) => (\E k \in 1..Len(tx_msgq) : MessageAt(k))'
<1>1. CASE tx_msgq' = tx_msgq
  BY <1>1 DEF NoneOut, AnswerAt, MessageAt
<1>2. CASE /\ Len(tx_msgq) \in Nat /\ Len(tx_msgq') = Len(tx_msgq) + 1
           /\ \A i \in 1..Len(tx_msgq) : tx_msgq'[i] = tx_msgq[i]
           /\ tx_msgq'[Len(tx_msgq) + 1] = m
  <2>1. \A i \in 1..Len(tx_msgq') : \/ i \in 1..Len(tx_msgq) /\ tx_msgq'[i] = tx_msgq[i]
                                    \/ i = Len(tx_msgq) + 1 /\ tx_msgq'[i] = m
    BY <1>2
  <2>2. NoneOut => NoneOut'
    BY <2>1 DEF NoneOut
  <2>3. ASSUME NEW k \in 1..Len(answers), AnswerAt(k)
        PROVE  AnswerAt(k)'
    BY <2>1, <2>3 DEF AnswerAt
  <2>4. ASSUME NEW k \in 1..Len(tx_msgq), MessageAt(k)
        PROVE  MessageAt(k)' /\ k \in 1..Len(tx_msgq')
    BY <1>2, <2>1, <2>4 DEF MessageAt
  <2>5. QED
    BY <2>2, <2>3, <2>4
<1>3. QED
  BY <1>1, <1>2, TxFlow

\* The owner of every answer over every step.
LEMMA OwnerStep == TypeOK /\ OwnerInv /\ [Next]_vars => OwnerInv'
<1> SUFFICES ASSUME TypeOK, OwnerInv, [Next]_vars, ~excuse'
             PROVE  /\ misled' = {}
                    /\ ~s_keepalive_pending' => NoneOut'
                    /\ s_keepalive_pending' =>
                         /\ ~expired' /\ timer' > 0
                         /\ \/ (\E k \in 1..Len(answers) : AnswerAt(k))'
                            \/ (\E k \in 1..Len(tx_msgq) : MessageAt(k))'
  BY DEF OwnerInv
<1> USE DEF flagVars, timerVars, nodeVars, auxVars, bounds
<1>0. /\ tx_msgq \in Seq(Message) /\ Len(tx_msgq) \in Nat
      /\ answers \in Seq({"packet", "heartbeat", "complete"}) /\ Len(answers) \in Nat
      /\ \A i \in 1..Len(answers) : answers[i] \in {"packet", "heartbeat", "complete"}
      /\ \A i \in 1..Len(tx_msgq) : tx_msgq[i] \in Message
      /\ timer \in {Unscheduled} \cup 0..Period /\ Period \in Nat \ {0}
  BY KeepaliveAssumption DEF TypeOK
<1>1. ~excuse
  <2>1. excuse => excuse'
    BY Zenon DEF Next, Tick, Expire, keepalive_work_handler, SessionStart, FetchDone, ForwardPacket,
      ForwardMalformed, NodeHears, MessageLost, AnswerLost, AnswerCached, Swallow, Broadcast, vars
  <2>2. QED
    BY <2>1
<1>2. /\ misled = {}
      /\ ~s_keepalive_pending => NoneOut
      /\ s_keepalive_pending =>
           /\ ~expired /\ timer > 0
           /\ \/ \E k \in 1..Len(answers) : AnswerAt(k)
              \/ \E k \in 1..Len(tx_msgq) : MessageAt(k)
  BY <1>1 DEF OwnerInv
<1>3. CASE Tick
  <2>1. answers = <<>> /\ tx_msgq = <<>>
    BY <1>3, Zenon DEF Tick
  <2>2. ~s_keepalive_pending
    BY <1>2, <2>1
  <2>3. UNCHANGED <<answers, tx_msgq, s_keepalive_pending, misled>>
    BY <1>3 DEF Tick
  <2>4. QED
    BY <1>2, <2>2, <2>3 DEF NoneOut
<1>4. CASE Expire
  <2>1. ~s_keepalive_pending
    BY <1>2, <1>4 DEF Expire
  <2>2. UNCHANGED <<answers, tx_msgq, s_keepalive_pending, misled>>
    BY <1>4 DEF Expire
  <2>3. QED
    BY <1>2, <2>1, <2>2 DEF NoneOut
<1>5. CASE keepalive_work_handler
  <2> DEFINE m == [kind |-> "heartbeat", nonce |-> s_keepalive_nonce]
  <2>1. /\ uart_meshtastic_tx(m) /\ expired /\ expired' = FALSE /\ timer' = Period
        /\ UNCHANGED <<answers, misled>>
    BY <1>5 DEF keepalive_work_handler, TimerAfterTx
  <2>2. m \in Message
    BY KeepaliveAssumption DEF TypeOK, Message
  <2>3. s_keepalive_pending' = TxFits /\ excuse' = (excuse \/ (TxFits /\ PhoneAnswerOut))
    BY <1>5, Zenon DEF keepalive_work_handler, PendingAfterTx
  <2>4. NoneOut
    BY <1>2, <2>1
  <2>5. CASE ~TxFits
    <3>1. tx_msgq' = tx_msgq
      BY <2>1, <2>2, <2>5, TxFlow
    <3>2. QED
      BY <1>2, <2>1, <2>3, <2>4, <2>5, <3>1 DEF NoneOut
  <2>6. CASE TxFits
    <3>1. /\ Len(tx_msgq') = Len(tx_msgq) + 1
          /\ \A i \in 1..Len(tx_msgq) : tx_msgq'[i] = tx_msgq[i]
          /\ tx_msgq'[Len(tx_msgq) + 1] = m
      BY <2>1, <2>2, <2>6, TxFlow
    <3>2. ~PhoneAnswerOut
      BY <2>3, <2>6, Zenon
    <3>3. /\ \A i \in 1..Len(tx_msgq) : tx_msgq[i].kind \notin {"packet", "heartbeat"}
          /\ \A i \in 1..Len(answers) : answers[i] = "complete"
      BY <1>0, <2>4, <3>2 DEF PhoneAnswerOut, NoneOut
    <3>4. PICK k : k = Len(tx_msgq) + 1
      OBVIOUS
    <3>5. tx_msgq'[k].kind = "heartbeat"
      BY <3>1, <3>4
    <3>6. k \in 1..Len(tx_msgq') /\ \A i \in 1..Len(tx_msgq') : ~(i > k) /\ (i < k => i \in 1..Len(tx_msgq))
      BY <1>0, <3>1, <3>4
    <3>7. MessageAt(k)'
      BY <2>1, <3>1, <3>3, <3>5, <3>6 DEF MessageAt
    <3>8. ~expired' /\ timer' > 0
      BY <1>0, <2>1
    <3>9. QED
      BY <1>2, <2>1, <2>3, <2>6, <3>6, <3>7, <3>8
  <2>7. QED
    BY <2>5, <2>6
<1>6. CASE SessionStart \/ ForwardPacket \/ ForwardMalformed
  <2>1. /\ UNCHANGED <<answers, misled, s_keepalive_pending, expired>>
        /\ timer' = timer \/ timer' = Period
    BY <1>6 DEF SessionStart, ForwardPacket, ForwardMalformed
  <2>2. PICK kind \in {"want_config", "packet", "malformed"} : uart_meshtastic_tx(Plain(kind))
    BY <1>6 DEF SessionStart, ForwardPacket, ForwardMalformed
  <2>3. Plain(kind) \in Message /\ Plain(kind).kind # "heartbeat"
    BY KeepaliveAssumption DEF Plain, Message
  <2>4. /\ NoneOut => NoneOut'
        /\ (\E k \in 1..Len(answers) : AnswerAt(k)) => (\E k \in 1..Len(answers) : AnswerAt(k))'
        /\ (\E k \in 1..Len(tx_msgq) : MessageAt(k)) => (\E k \in 1..Len(tx_msgq) : MessageAt(k))'
    BY <2>1, <2>2, <2>3, TxKeepsPlace
  <2>5. timer > 0 => timer' > 0
    BY <1>0, <2>1
  <2>6. QED
    BY <1>2, <2>1, <2>4, <2>5, Zenon
<1>7. CASE NodeHears
  <2> DEFINE a == Answer[Head(tx_msgq).kind]
  <2>1. /\ tx_msgq # <<>> /\ tx_msgq' = Tail(tx_msgq) /\ answers' = answers \o a
        /\ UNCHANGED <<misled, s_keepalive_pending, expired, timer>>
    BY <1>7 DEF NodeHears
  <2>2. /\ Len(tx_msgq) \in Nat \ {0} /\ Head(tx_msgq) = tx_msgq[1] /\ tx_msgq[1] \in Message
        /\ Len(tx_msgq') = Len(tx_msgq) - 1
        /\ \A i \in 1..Len(tx_msgq') : tx_msgq'[i] = tx_msgq[i + 1]
    BY <1>0, <2>1
  <2>3. \/ tx_msgq[1].kind = "heartbeat" /\ a = <<"heartbeat">>
        \/ tx_msgq[1].kind = "packet" /\ a = <<"packet">>
        \/ tx_msgq[1].kind = "want_config" /\ a = <<"complete">>
        \/ tx_msgq[1].kind = "malformed" /\ a = <<>>
    BY <2>2 DEF Answer, Message
  <2> HIDE DEF a
  <2>4. \/ tx_msgq[1].kind = "malformed" /\ answers' = answers
        \/ /\ tx_msgq[1].kind # "malformed"
           /\ Len(answers') = Len(answers) + 1
           /\ \A i \in 1..Len(answers) : answers'[i] = answers[i]
           /\ answers'[Len(answers) + 1] \in {"heartbeat", "packet", "complete"}
           /\ answers'[Len(answers) + 1] = "heartbeat" <=> tx_msgq[1].kind = "heartbeat"
           /\ answers'[Len(answers) + 1] = "packet" <=> tx_msgq[1].kind = "packet"
    <3>1. \A x : /\ Len(answers \o <<x>>) = Len(answers) + 1
                 /\ \A i \in 1..Len(answers) : (answers \o <<x>>)[i] = answers[i]
                 /\ (answers \o <<x>>)[Len(answers) + 1] = x
      BY <1>0
    <3>2. answers \o <<>> = answers
      BY <1>0
    <3>3. CASE a = <<>>
      BY <2>1, <2>3, <3>2, <3>3
    <3>4. CASE a # <<>>
      BY <2>1, <2>3, <3>1, <3>4
    <3>5. QED
      BY <3>3, <3>4
  <2>5. /\ \A i \in 1..Len(tx_msgq') : i + 1 \in 1..Len(tx_msgq) /\ i + 1 > 1
        /\ 1 \in 1..Len(tx_msgq)
        /\ \A i \in 1..Len(answers') :
             \/ i \in 1..Len(answers) /\ answers'[i] = answers[i]
             \/ /\ i = Len(answers) + 1 /\ tx_msgq[1].kind # "malformed"
                /\ answers'[i] \in {"heartbeat", "packet", "complete"}
                /\ answers'[i] = "heartbeat" <=> tx_msgq[1].kind = "heartbeat"
                /\ answers'[i] = "packet" <=> tx_msgq[1].kind = "packet"
    <3>1. /\ \A i \in 1..Len(tx_msgq') : i + 1 \in 1..Len(tx_msgq) /\ i + 1 > 1
          /\ 1 \in 1..Len(tx_msgq)
      BY <2>2
    <3>2. CASE answers' = answers
      BY <3>1, <3>2
    <3>3. CASE answers' # answers
      <4>1. \A i \in 1..Len(answers') : i \in 1..Len(answers) \/ i = Len(answers) + 1
        BY <1>0, <2>4, <3>3
      <4>2. QED
        BY <2>4, <3>1, <3>3, <4>1
    <3>4. QED
      BY <3>2, <3>3
  <2>6. NoneOut => NoneOut'
    BY <2>2, <2>5 DEF NoneOut
  <2>7. ASSUME NEW k \in 1..Len(answers), AnswerAt(k) PROVE AnswerAt(k)' /\ k \in 1..Len(answers')
    <3>1. k \in 1..Len(answers') /\ answers'[k] = answers[k]
      BY <1>0, <2>4, <2>7
    <3>2. \A i \in 1..Len(answers') : i < k => i \in 1..Len(answers)
      BY <1>0
    <3>3. tx_msgq[1].kind # "heartbeat"
      BY <2>5, <2>7 DEF AnswerAt
    <3>4. ASSUME NEW i \in 1..Len(answers')
          PROVE  (i < k => answers'[i] = "complete") /\ (i > k => answers'[i] # "heartbeat")
      <4>1. CASE i \in 1..Len(answers) /\ answers'[i] = answers[i]
        BY <2>7, <4>1 DEF AnswerAt
      <4>2. CASE i = Len(answers) + 1
        BY <1>0, <2>5, <3>3, <4>2
      <4>3. QED
        BY <2>5, <4>1, <4>2
    <3>5. \A i \in 1..Len(tx_msgq') : tx_msgq'[i].kind # "heartbeat"
      BY <2>2, <2>5, <2>7 DEF AnswerAt
    <3>6. QED
      BY <2>7, <3>1, <3>4, <3>5 DEF AnswerAt
  <2>8. ASSUME NEW k \in 1..Len(tx_msgq), MessageAt(k)
        PROVE  \/ (\E j \in 1..Len(answers) : AnswerAt(j))'
               \/ (\E j \in 1..Len(tx_msgq) : MessageAt(j))'
    <3>1. CASE k = 1
      <4>0. PICK j : j = Len(answers) + 1
        OBVIOUS
      <4>1. /\ Len(answers') = j /\ answers'[j] = "heartbeat"
            /\ \A i \in 1..Len(answers) : answers'[i] = answers[i]
        BY <1>0, <2>4, <2>8, <3>1, <4>0 DEF MessageAt
      <4>2. /\ \A i \in 1..Len(answers') : ~(i > j) /\ (i < j => i \in 1..Len(answers))
            /\ j \in 1..Len(answers')
        BY <1>0, <4>0, <4>1
      <4>3. \A i \in 1..Len(tx_msgq') : tx_msgq'[i].kind # "heartbeat"
        BY <2>2, <2>5, <2>8, <3>1 DEF MessageAt
      <4>4. AnswerAt(j)'
        BY <2>8, <4>1, <4>2, <4>3 DEF AnswerAt, MessageAt
      <4>5. QED
        BY <4>2, <4>4
    <3>2. CASE k # 1
      <4>0. PICK j : j = k - 1
        OBVIOUS
      <4>1. /\ j \in 1..Len(tx_msgq') /\ j + 1 = k /\ 1 < k
            /\ \A i \in 1..Len(tx_msgq') : (i < j => i + 1 < k) /\ (i > j => i + 1 > k)
        BY <2>2, <3>2, <4>0
      <4>2. tx_msgq[1].kind \notin {"packet", "heartbeat"}
        BY <2>5, <2>8, <4>1 DEF MessageAt
      <4>3. \A i \in 1..Len(answers') : answers'[i] = "complete"
        BY <2>5, <2>8, <4>2 DEF MessageAt
      <4>4. tx_msgq'[j].kind = "heartbeat"
        BY <2>2, <2>8, <4>1 DEF MessageAt
      <4>5. \A i \in 1..Len(tx_msgq') : /\ i < j => tx_msgq'[i].kind \notin {"packet", "heartbeat"}
                                        /\ i > j => tx_msgq'[i].kind # "heartbeat"
        BY <2>2, <2>5, <2>8, <4>1 DEF MessageAt
      <4>6. MessageAt(j)'
        BY <4>3, <4>4, <4>5 DEF MessageAt
      <4>7. QED
        BY <4>1, <4>6
    <3>3. QED
      BY <3>1, <3>2
  <2>9. QED
    BY <1>2, <2>1, <2>6, <2>7, <2>8
<1>8. CASE MessageLost \/ AnswerLost \/ AnswerCached
  <2>1. excuse' = TRUE
    BY <1>8, Zenon DEF MessageLost, AnswerLost, AnswerCached
  <2>2. QED
    BY <2>1
<1>9. ASSUME FetchDone \/ Swallow \/ Broadcast
      PROVE  /\ Len(answers) \in Nat \ {0} /\ Head(answers) = answers[1] /\ 1 \in 1..Len(answers)
             /\ Len(answers') = Len(answers) - 1
             /\ \A i \in 1..Len(answers') : answers'[i] = answers[i + 1] /\ i + 1 \in 1..Len(answers)
             /\ UNCHANGED <<tx_msgq, expired, timer>>
  <2>1. answers # <<>> /\ answers' = Tail(answers) /\ UNCHANGED <<tx_msgq, expired, timer>>
    BY <1>9 DEF FetchDone, Swallow, Broadcast
  <2>2. QED
    BY <1>0, <2>1
<1>10. CASE FetchDone
  <2>1. answers[1] = "complete" /\ UNCHANGED <<misled, s_keepalive_pending>>
    BY <1>9, <1>10 DEF FetchDone
  <2>2. NoneOut => NoneOut'
    BY <1>9, <1>10 DEF NoneOut
  <2>3. ASSUME NEW k \in 1..Len(answers), AnswerAt(k)
        PROVE  (\E j \in 1..Len(answers) : AnswerAt(j))'
    <3>0. PICK j : j = k - 1
      OBVIOUS
    <3>1. k # 1
      BY <2>1, <2>3 DEF AnswerAt
    <3>2. /\ j \in 1..Len(answers') /\ j + 1 = k
          /\ \A i \in 1..Len(answers') : (i < j => i + 1 < k) /\ (i > j => i + 1 > k)
      BY <1>9, <1>10, <3>0, <3>1
    <3>3. AnswerAt(j)'
      BY <1>9, <1>10, <2>3, <3>2 DEF AnswerAt
    <3>4. QED
      BY <3>2, <3>3
  <2>4. ASSUME NEW k \in 1..Len(tx_msgq), MessageAt(k) PROVE MessageAt(k)'
    BY <1>9, <1>10, <2>4 DEF MessageAt
  <2>5. QED
    BY <1>2, <1>9, <1>10, <2>1, <2>2, <2>3, <2>4
<1>11. CASE Swallow
  <2>1. /\ answers[1] # "complete" /\ s_keepalive_pending
        /\ misled' = IF answers[1] = "packet" THEN misled \cup {"stolen"} ELSE misled
    BY <1>9, <1>11 DEF Swallow
  <2>2. s_keepalive_pending' = FALSE
    BY <1>11, Zenon DEF Swallow
  <2>3. ~\E k \in 1..Len(tx_msgq) : MessageAt(k)
    BY <1>9, <1>11, <2>1 DEF MessageAt
  <2>4. PICK k \in 1..Len(answers) : AnswerAt(k)
    BY <1>2, <2>1, <2>3
  <2>5. k = 1
    <3>1. ~(1 < k)
      BY <1>9, <1>11, <2>1, <2>4 DEF AnswerAt
    <3>2. QED
      BY <1>0, <3>1
  <2>6. answers[1] = "heartbeat" /\ misled' = {}
    BY <1>2, <2>1, <2>4, <2>5 DEF AnswerAt
  <2>7. \A i \in 1..Len(answers') : i + 1 > 1
    BY <1>0, <1>9, <1>11
  <2>8. NoneOut'
    BY <1>9, <1>11, <2>4, <2>5, <2>7 DEF NoneOut, AnswerAt
  <2>9. QED
    BY <2>2, <2>6, <2>8
<1>12. CASE Broadcast
  <2>1. /\ ~s_keepalive_pending /\ UNCHANGED s_keepalive_pending
        /\ misled' = IF answers[1] = "heartbeat" THEN misled \cup {"leaked"} ELSE misled
    BY <1>9, <1>12 DEF Broadcast
  <2>2. NoneOut /\ answers[1] # "heartbeat"
    BY <1>2, <1>9, <1>12, <2>1 DEF NoneOut
  <2>3. NoneOut'
    BY <1>9, <1>12, <2>2 DEF NoneOut
  <2>4. QED
    BY <1>2, <2>1, <2>2, <2>3
<1>13. CASE UNCHANGED vars
  BY <1>2, <1>13 DEF vars, NoneOut, AnswerAt, MessageAt
<1>14. QED
  BY <1>3, <1>4, <1>5, <1>6, <1>7, <1>8, <1>10, <1>11, <1>12, <1>13 DEF Next

\* For every instance a phone loses its queueStatus, or the keepalive's reaches the phones,
\* only after a loss, a late answer, the fetch window or a keepalive sent with a phone's
\* answer outstanding (upstream_swallow_live_queuestatus, keepalive_work_handler).
THEOREM OwnerCorrect == Spec => []AnswersReachTheirOwner
<1>1. Init => TypeOK /\ OwnerInv
  <2>1. SUFFICES ASSUME Init PROVE OwnerInv
    BY InitOK
  <2>2. misled = {} /\ answers = <<>> /\ tx_msgq = <<>>
    BY <2>1 DEF Init
  <2>3. ~s_keepalive_pending
    BY <2>1, Zenon DEF Init
  <2>4. QED
    BY <2>2, <2>3 DEF OwnerInv, NoneOut
<1>2. OwnerInv => AnswersReachTheirOwner
  BY DEF OwnerInv, AnswersReachTheirOwner
<1>3. QED
  BY <1>1, <1>2, TypeStep, OwnerStep, PTL DEF Spec
==============================================================================
