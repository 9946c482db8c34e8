----------------------------- MODULE FrameStream -----------------------------
(***************************************************************************)
(* What a phone sees of FROMRADIO, and what BleGatt and FrameCache assume: *)
(* whole frames, taken one at a time from the published log while a replay *)
(* is on, then the terminator, then an empty read, and after that from a   *)
(* bounded queue of live frames.  A frame in hand is read to its end       *)
(* whatever happens to queue, log and replay meanwhile.                    *)
(***************************************************************************)
EXTENDS Integers, Sequences

CONSTANTS
  StreamFrame,     \* frames, as byte strings
  Terminator,      \* the config_complete_id
  Depth,           \* live frames that can wait
  LogBytes,        \* bytes of the log
  LogFrames        \* frames of the log

VARIABLES
  log,        \* the cached frames, each with whether it is in the phone's segment
  logged,     \* the bytes of the log
  published,  \* the log is complete
  waiting,    \* live frames
  replaying,  \* the phone is in its replay
  cursor,     \* frames of the log it is past; one more for the terminator
  inhand,     \* the frame of the phone's current read, empty for none
  got         \* the frame it has read last

streamVars == <<log, logged, published, waiting, replaying, cursor, inhand, got>>

StreamInit ==
  /\ log = <<>> /\ logged = 0 /\ published = FALSE
  /\ waiting = <<>> /\ replaying = FALSE /\ cursor = 0
  /\ inhand = <<>> /\ got = <<>>

Cache ==
  /\ ~published
  /\ \E f \in StreamFrame, wanted \in BOOLEAN :
       /\ Len(log) < LogFrames
       /\ logged + Len(f) <= LogBytes
       /\ log' = Append(log, [bytes |-> f, wanted |-> wanted])
       /\ logged' = logged + Len(f)
  /\ UNCHANGED <<published, waiting, replaying, cursor, inhand, got>>

Publish ==
  /\ published' = TRUE
  /\ UNCHANGED <<log, logged, waiting, replaying, cursor, inhand, got>>

Offer ==
  /\ Len(waiting) < Depth
  /\ \E f \in StreamFrame : waiting' = Append(waiting, f)
  /\ UNCHANGED <<log, logged, published, replaying, cursor, inhand, got>>

StartReplay ==
  /\ published
  /\ replaying' = TRUE
  /\ cursor' = 0
  /\ UNCHANGED <<log, logged, published, waiting, inhand, got>>

Left == {i \in (cursor + 1)..Len(log) : log[i].wanted}

\* The phone takes the next frame in hand ...
TakeCached ==
  /\ replaying
  /\ \E i \in Left :
       /\ \A j \in Left : i <= j
       /\ inhand' = log[i].bytes
       /\ cursor' = i
  /\ UNCHANGED <<log, logged, published, waiting, replaying, got>>

TakeTerminator ==
  /\ replaying /\ Left = {} /\ cursor <= Len(log)
  /\ inhand' = Terminator
  /\ cursor' = Len(log) + 1
  /\ UNCHANGED <<log, logged, published, waiting, replaying, got>>

TakeLive ==
  /\ ~replaying /\ waiting # <<>>
  /\ inhand' = Head(waiting)
  /\ waiting' = Tail(waiting)
  /\ UNCHANGED <<log, logged, published, replaying, cursor, got>>

\* ... or learns that there is none, at the end of the replay or of the queue ...
TakeNothing ==
  /\ IF replaying THEN Left = {} /\ cursor > Len(log) ELSE waiting = <<>>
  /\ replaying' = FALSE
  /\ inhand' = <<>>
  /\ UNCHANGED <<log, logged, published, waiting, cursor, got>>

\* ... and has read the frame in hand to its end.
Finish ==
  /\ inhand # <<>>
  /\ got' = inhand
  /\ UNCHANGED <<log, logged, published, waiting, replaying, cursor, inhand>>

Reconnect ==
  /\ waiting' = <<>> /\ replaying' = FALSE /\ cursor' = 0 /\ inhand' = <<>> /\ got' = <<>>
  /\ UNCHANGED <<log, logged, published>>

StreamNext ==
  \/ Cache \/ Publish \/ Offer \/ StartReplay
  \/ TakeCached \/ TakeTerminator \/ TakeLive \/ TakeNothing
  \/ Finish \/ Reconnect

StreamSpec == StreamInit /\ [][StreamNext]_streamVars
==============================================================================
