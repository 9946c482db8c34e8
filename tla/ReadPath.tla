------------------------------ MODULE ReadPath ------------------------------
(***************************************************************************)
(* FROMRADIO byte by byte, for one connection: the packed arena of         *)
(* config_cache, the circular queue of the slot with its indices, the      *)
(* staging buffer, ATT long reads at growing offsets, and FROMNUM          *)
(* notifications that may fail.  BleGatt and FrameCache use sequences of   *)
(* frames in their place.  Frames are byte strings; wanted says whether    *)
(* cache_frame_in_segment (FrameCache) accepts a cached frame for this     *)
(* phone.  Arrays are indexed from 1, the slots of the queue from 0.       *)
(***************************************************************************)
EXTENDS Integers, Sequences

CONSTANTS
  Frames,       \* the frames the node may send
  Complete,     \* the phone's config_complete_id
  ArenaBytes,   \* CONFIG_CACHE_ARENA_BYTES
  MaxFrames,    \* CONFIG_CACHE_MAX_FRAMES
  QueueDepth,   \* FROMRADIO_QUEUE_DEPTH
  MaxPacket,    \* FROMRADIO_MAX_PKT_SIZE
  Chunk,        \* bytes in one ATT response, MTU - 1
  MaxInputs     \* bound: frames, replays, reconnects and polls in one behaviour

ASSUME PathAssumption ==
  /\ Frames \subseteq Seq(Nat) /\ Complete \in Seq(Nat)
  /\ \A f \in Frames \cup {Complete} : Len(f) \in 1..MaxPacket
  /\ ArenaBytes \in Nat /\ MaxFrames \in Nat /\ MaxInputs \in Nat
  /\ QueueDepth \in Nat \ {0} /\ MaxPacket \in Nat \ {0} /\ Chunk \in Nat \ {0}

VARIABLES
  s_arena, s_index, s_used, s_ready,   \* config_cache
  queue, head, tail, count,            \* the slot's circular queue
  staged, staged_len,                  \* the slot's staging buffer
  state, replay_cursor,                \* the slot's session
  due,        \* notifications the stack has yet to send (external)
  phone,      \* the phone's reader (external)
  untold,     \* packets queued since the phone last went idle that it was not told of
  inputs      \* events so far

cacheVars   == <<s_arena, s_index, s_used, s_ready>>
queueVars   == <<queue, head, tail, count>>
stageVars   == <<staged, staged_len>>
sessionVars == <<state, replay_cursor>>
vars == <<cacheVars, queueVars, stageVars, sessionVars, due, phone, untold, inputs>>

Blank(n) == [i \in 1..n |-> 0]

\* memcpy of the bytes s to array a behind its first n bytes.
Copied(a, n, s) == [i \in DOMAIN a |-> IF i \in (n + 1)..(n + Len(s)) THEN s[i - n] ELSE a[i]]

\* draining: reads FROMRADIO until a read is empty; buffer: the bytes of the current
\* frame; whole: the last response was short, the frame is complete.
IdlePhone == [draining |-> FALSE, buffer |-> <<>>, whole |-> FALSE, rx |-> <<>>]

Init ==
  /\ s_arena = Blank(ArenaBytes) /\ s_index = <<>> /\ s_used = 0 /\ s_ready = FALSE
  /\ queue = [i \in 0..(QueueDepth - 1) |-> [data |-> Blank(MaxPacket), len |-> 0]]
  /\ head = 0 /\ tail = 0 /\ count = 0
  /\ staged = Blank(MaxPacket) /\ staged_len = 0
  /\ state = "CONNECTED" /\ replay_cursor = 0
  /\ due = 0
  /\ phone = IdlePhone
  /\ untold = 0
  /\ inputs = 0

Input == inputs < MaxInputs /\ inputs' = inputs + 1

--------------------------------------------------------------------------------
\* config_cache: frames are packed back to back until the arena or the index is full.

\* Fault: one byte more than the arena holds.
FitsFault(f) == Len(s_index) < MaxFrames /\ s_used + Len(f) <= ArenaBytes + 1

Fits(f) == Len(s_index) < MaxFrames /\ s_used + Len(f) <= ArenaBytes

cache_add_frame(f, wanted) ==
  /\ ~s_ready /\ Input
  /\ Fits(f)
  /\ s_arena' = Copied(s_arena, s_used, f)
  /\ s_index' = Append(s_index, [offset |-> s_used, len |-> Len(f), wanted |-> wanted])
  /\ s_used' = s_used + Len(f)
  /\ UNCHANGED <<s_ready, queueVars, stageVars, sessionVars, due, phone, untold>>

cache_mark_ready ==
  /\ ~s_ready
  /\ s_ready' = TRUE
  /\ UNCHANGED <<s_arena, s_index, s_used, queueVars, stageVars, sessionVars, due, phone,
                 untold, inputs>>

\* cache_frame_bytes(cache_frame_at(i)).
CachedBytes(i) == SubSeq(s_arena, s_index[i].offset + 1, s_index[i].offset + s_index[i].len)

--------------------------------------------------------------------------------
\* The slot.

\* Fault: only the first packet of a queue is announced.
EnqueueFault(f) ==
  /\ Input
  /\ count < QueueDepth
  /\ queue' = [queue EXCEPT ![tail] = [data |-> Copied(@.data, 0, f), len |-> Len(f)]]
  /\ tail' = (tail + 1) % QueueDepth
  /\ count' = count + 1
  /\ due' = IF count = 0 THEN due + 1 ELSE due
  /\ UNCHANGED <<cacheVars, head, stageVars, sessionVars, phone, untold>>

\* A full queue refuses the packet, and nothing else happens.
ble_gatt_enqueue_fromradio(f) ==
  /\ Input
  /\ count < QueueDepth
  /\ queue' = [queue EXCEPT ![tail] = [data |-> Copied(@.data, 0, f), len |-> Len(f)]]
  /\ tail' = (tail + 1) % QueueDepth
  /\ count' = count + 1
  /\ due' = due + 1
  /\ UNCHANGED <<cacheVars, head, stageVars, sessionVars, phone, untold>>

ble_gatt_replay_cached_burst ==
  /\ Input
  /\ s_ready
  /\ replay_cursor' = 0
  /\ state' = "REPLAYING"
  /\ due' = due + 1
  /\ UNCHANGED <<cacheVars, queueVars, stageVars, phone, untold>>

\* The phone leaves and another takes the slot: free_slot, then alloc_slot.
Reconnect ==
  /\ Input
  /\ head' = 0 /\ tail' = 0 /\ count' = 0 /\ staged_len' = 0
  /\ state' = "CONNECTED" /\ replay_cursor' = 0
  /\ due' = 0 /\ phone' = IdlePhone /\ untold' = 0
  /\ UNCHANGED <<cacheVars, queue, staged>>

--------------------------------------------------------------------------------
\* fromradio_read.

Remaining == {i \in (replay_cursor + 1)..Len(s_index) : s_index[i].wanted}

Least(S) == CHOOSE i \in S : \A j \in S : i <= j

Stage(s) == staged' = Copied(staged, 0, s) /\ staged_len' = Len(s)

StageCached ==
  /\ state = "REPLAYING" /\ Remaining # {}
  /\ Stage(CachedBytes(Least(Remaining)))
  /\ replay_cursor' = Least(Remaining)
  /\ UNCHANGED <<head, count, state>>

StageComplete ==
  /\ state = "REPLAYING" /\ Remaining = {} /\ replay_cursor <= Len(s_index)
  /\ Stage(Complete)
  /\ replay_cursor' = Len(s_index) + 1
  /\ UNCHANGED <<head, count, state>>

GoActive ==
  /\ state = "REPLAYING" /\ Remaining = {} /\ replay_cursor > Len(s_index)
  /\ state' = "ACTIVE"
  /\ staged_len' = 0
  /\ UNCHANGED <<staged, head, count, replay_cursor>>

StageQueued ==
  /\ state # "REPLAYING" /\ count > 0
  /\ Stage(SubSeq(queue[head].data, 1, queue[head].len))
  /\ head' = (head + 1) % QueueDepth
  /\ count' = count - 1
  /\ UNCHANGED <<state, replay_cursor>>

StageNothing ==
  /\ state # "REPLAYING" /\ count = 0
  /\ staged_len' = 0
  /\ UNCHANGED <<staged, head, count, state, replay_cursor>>

\* Fault: every read stages the next packet.
StageForFault(offset) ==
  StageCached \/ StageComplete \/ GoActive \/ StageQueued \/ StageNothing

\* A read at offset 0 stages the next packet; one further on continues with it.
StageFor(offset) ==
  IF offset = 0
  THEN StageCached \/ StageComplete \/ GoActive \/ StageQueued \/ StageNothing
  ELSE UNCHANGED <<stageVars, head, count, sessionVars>>

\* bt_gatt_attr_read (external): what is staged from the offset on, as much as fits.
Response(offset) ==
  SubSeq(staged', offset + 1, IF offset + Chunk <= staged_len' THEN offset + Chunk ELSE staged_len')

\* The phone (external) reads at the offset of the bytes it has; an empty first response
\* ends its drain.
fromradio_read ==
  /\ phone.draining /\ ~phone.whole
  /\ LET offset == Len(phone.buffer)
     IN  /\ StageFor(offset)
         /\ phone' = [phone EXCEPT
              !.draining = offset > 0 \/ Response(offset) # <<>>,
              !.buffer = @ \o Response(offset),
              !.whole = Len(Response(offset)) < Chunk /\ (offset > 0 \/ Response(offset) # <<>>)]
         /\ untold' = IF phone'.draining THEN untold ELSE IF state = "REPLAYING" THEN count ELSE 0
  /\ UNCHANGED <<cacheVars, queue, tail, due, inputs>>

--------------------------------------------------------------------------------
\* The phone and the BT stack.

FrameFinished ==
  /\ phone.whole
  /\ phone' = [phone EXCEPT !.buffer = <<>>, !.whole = FALSE, !.rx = phone.buffer]
  /\ UNCHANGED <<cacheVars, queueVars, stageVars, sessionVars, due, untold, inputs>>

\* bt_gatt_notify reaches the phone, or fails: not subscribed, or no buffer.
Notify ==
  /\ due > 0
  /\ due' = due - 1
  /\ \/ phone' = [phone EXCEPT !.draining = TRUE] /\ UNCHANGED untold
     \/ /\ untold' = IF phone.draining THEN untold ELSE untold + 1
        /\ UNCHANGED phone
  /\ UNCHANGED <<cacheVars, queueVars, stageVars, sessionVars, inputs>>

\* A client may also drain of its own accord, after a write.
Poll ==
  /\ Input
  /\ ~phone.draining
  /\ phone' = [phone EXCEPT !.draining = TRUE]
  /\ UNCHANGED <<cacheVars, queueVars, stageVars, sessionVars, due, untold>>

--------------------------------------------------------------------------------
Next ==
  \/ \E f \in Frames, wanted \in BOOLEAN : cache_add_frame(f, wanted)
  \/ cache_mark_ready
  \/ \E f \in Frames : ble_gatt_enqueue_fromradio(f)
  \/ ble_gatt_replay_cached_burst
  \/ Reconnect
  \/ fromradio_read
  \/ FrameFinished
  \/ Notify
  \/ Poll

Spec == Init /\ [][Next]_vars

--------------------------------------------------------------------------------
\* Every variable has its type, and arena, queue and staging buffer are never written
\* past their ends (cache_add_frame, ble_gatt_enqueue_fromradio, fromradio_read).
TypeOK ==
  /\ DOMAIN s_arena = 1..ArenaBytes /\ s_used \in 0..ArenaBytes /\ Len(s_index) <= MaxFrames
  /\ s_ready \in BOOLEAN
  /\ head \in 0..(QueueDepth - 1) /\ tail \in 0..(QueueDepth - 1) /\ count \in 0..QueueDepth
  /\ DOMAIN staged = 1..MaxPacket /\ staged_len \in 0..MaxPacket
  /\ state \in {"CONNECTED", "REPLAYING", "ACTIVE"} /\ replay_cursor \in 0..(MaxFrames + 1)
  /\ due \in Nat /\ untold \in Nat /\ inputs \in Nat

\* The frames in the arena, those that wait in the queue, and the one that is staged.
Cached   == [i \in 1..Len(s_index) |-> [bytes |-> CachedBytes(i), wanted |-> s_index[i].wanted]]
Entry(i) == queue[(head + i - 1) % QueueDepth]
Waiting  == [i \in 1..count |-> SubSeq(Entry(i).data, 1, Entry(i).len)]
InHand   == SubSeq(staged, 1, staged_len)

\* The bytes implement the stream of frames that BleGatt and FrameCache work with: the
\* arena holds the frames that were added, the circular queue the packets that wait, and
\* what a phone puts together from a long read is the one frame it began with, whatever
\* is queued, armed or notified between its reads.
Stream ==
  INSTANCE FrameStream
    WITH StreamFrame <- Frames, Terminator <- Complete, Depth <- QueueDepth,
         LogBytes <- ArenaBytes, LogFrames <- MaxFrames,
         log <- Cached, logged <- s_used, published <- s_ready, waiting <- Waiting,
         replaying <- (state = "REPLAYING"), cursor <- replay_cursor,
         inhand <- InHand, got <- phone.rx

ImplementsStream == Stream!StreamSpec

\* A packet is left unread by an idle phone only if the notification for it failed or is
\* still to come, or if it was queued before the empty read that ended a replay: each
\* packet is announced by itself, so that one failed notification (which is only logged)
\* is made good by the next one.
IdleOnlyIfUntold == ~phone.draining => count <= untold + due
=============================================================================
