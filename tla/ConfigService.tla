---------------------------- MODULE ConfigService ----------------------------
(***************************************************************************)
(* What the proxy promises its phones: one log of config frames, published *)
(* once and fixed from then on, and to every phone that asks an answer of  *)
(* its own: the frames of the log that its nonce selects, in order, each   *)
(* once, then the terminator with that nonce.  A phone that asks before    *)
(* the log is published waits and is owed an answer; phones that the list  *)
(* of answers owed has no room for are not remembered.                     *)
(***************************************************************************)
EXTENDS Integers, Sequences, FiniteSets

CONSTANTS
  Client,         \* the phones
  LogFrame,       \* the frames of the log
  ClientNonce,    \* the nonces of requests and answers; 0 is "none"
  OnlyConfig,     \* the nonce that leaves out all nodes but the node itself
  OnlyNodes,      \* the nonce that leaves out all but the nodes
  Complete(_),    \* the terminator with a nonce
  OwedLimit       \* phones that can be remembered

VARIABLES
  log,        \* the frames of the log, empty until it is published
  published,  \* the log is complete
  owed,       \* phones to be answered once it is
  session     \* the session of each phone

serviceVars == <<log, published, owed, session>>

--------------------------------------------------------------------------------
\* The answer to a nonce.

Rank(P, i) == Cardinality({j \in P : j <= i})

\* The elements of l at the positions P, in order.
InOrder(l, P) == [k \in 1..Cardinality(P) |-> l[CHOOSE i \in P : Rank(P, i) = k]]

IsNode(f) == f.variant = "node_info"

\* The node is the first of the nodes in the log.
Wanted(l, n) ==
  {i \in 1..Len(l) :
     /\ l[i].variant # "config_complete_id"
     /\ n = OnlyNodes => IsNode(l[i])
     /\ n = OnlyConfig /\ IsNode(l[i]) => \A j \in 1..(i - 1) : ~IsNode(l[j])}

Answer(l, n) == InOrder(l, Wanted(l, n)) \o <<Complete(n)>>

\* The nonces an answer to a request may carry: that of the request, unless it is "none".
Echo(want) == IF want \subseteq {0} THEN ClientNonce ELSE want

--------------------------------------------------------------------------------
\* want: the nonce of the phone's last request, if any; nonce: that of the answer it
\* gets; got: what it has of that answer.
Session(state, want, nonce, got) ==
  [state |-> state, want |-> want, nonce |-> nonce, got |-> got]

Gone == Session("gone", {}, 0, <<>>)

In(c, state) == session[c].state = state

ServiceInit ==
  /\ log = <<>>
  /\ published = FALSE
  /\ owed = {}
  /\ session = [c \in Client |-> Gone]

Publish ==
  /\ ~published
  /\ published' = TRUE
  /\ log' \in Seq(LogFrame)
  /\ UNCHANGED <<owed, session>>

\* The requests of phones that came too early are forgotten.
Forget ==
  /\ ~published
  /\ owed' = {}
  /\ UNCHANGED <<log, published, session>>

Join(c) ==
  /\ In(c, "gone")
  /\ session' = [session EXCEPT ![c] = Session("idle", {}, 0, <<>>)]
  /\ UNCHANGED <<log, published, owed>>

\* An answer that is owed stays owed: to the next phone on the connection.
Leave(c) ==
  /\ ~In(c, "gone")
  /\ session' = [session EXCEPT ![c] = Gone]
  /\ UNCHANGED <<log, published, owed>>

\* A request begins the session anew: at once ...
AskPublished(c, n) ==
  /\ ~In(c, "gone") /\ published
  /\ \E m \in Echo({n}) : session' = [session EXCEPT ![c] = Session("replaying", {n}, m, <<>>)]
  /\ UNCHANGED <<log, published, owed>>

\* ... or when the log is there.
AskEarly(c, n) ==
  /\ ~In(c, "gone") /\ ~published
  /\ session' = [session EXCEPT ![c] = Session("waiting", {n}, 0, <<>>)]
  /\ owed' = IF Cardinality(owed) < OwedLimit THEN owed \cup {c} ELSE owed
  /\ UNCHANGED <<log, published>>

\* An answer that is owed is begun once, if there is a phone to have it.
Serve(c) ==
  /\ published /\ c \in owed
  /\ owed' = owed \ {c}
  /\ IF In(c, "gone")
     THEN UNCHANGED session
     ELSE \E m \in Echo(session[c].want) :
            session' = [session EXCEPT ![c] = Session("replaying", @.want, m, <<>>)]
  /\ UNCHANGED <<log, published>>

\* The phone reads the next frame of its answer ...
Read(c) ==
  /\ In(c, "replaying")
  /\ LET answer == Answer(log, session[c].nonce)
         got    == session[c].got
     IN  /\ Len(got) < Len(answer)
         /\ session' = [session EXCEPT ![c].got = Append(got, answer[Len(got) + 1])]
  /\ UNCHANGED <<log, published, owed>>

\* ... or learns that it has all of it.
Finish(c) ==
  /\ In(c, "replaying")
  /\ session[c].got = Answer(log, session[c].nonce)
  /\ session' = [session EXCEPT ![c].state = "active"]
  /\ UNCHANGED <<log, published, owed>>

ServiceNext ==
  \/ Publish \/ Forget
  \/ \E c \in Client :
       \/ Join(c) \/ Leave(c) \/ Serve(c) \/ Read(c) \/ Finish(c)
       \/ \E n \in ClientNonce : AskPublished(c, n) \/ AskEarly(c, n)

ServiceSpec == ServiceInit /\ [][ServiceNext]_serviceVars
==============================================================================
