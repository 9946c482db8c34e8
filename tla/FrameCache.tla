----------------------------- MODULE FrameCache -----------------------------
(***************************************************************************)
(* What config_cache promises to its users: an ordered log of the FromRadio *)
(* frames of the node's config burst, bounded in frames and in bytes,      *)
(* published once by a ready flag and cut into segments by the nonce a     *)
(* phone sends.  The operators are the action fragments and the functions  *)
(* that upstream_session and ble_gatt call.  Indices count from 1, and the *)
(* code's -1 ("none stored") is 0.                                         *)
(***************************************************************************)
EXTENDS Integers, Sequences

CONSTANTS
  ArenaBytes,   \* CONFIG_CACHE_ARENA_BYTES
  MaxFrames     \* CONFIG_CACHE_MAX_FRAMES

ASSUME CacheBoundsAssumption == ArenaBytes \in Nat /\ MaxFrames \in Nat

VARIABLES
  s_index,             \* the stored frames, in burst order
  s_used,              \* bytes of the arena in use
  s_ready,             \* the publish flag
  s_own_nodeinfo_idx   \* index of the first stored node_info, 0 if none

cacheVars == <<s_index, s_used, s_ready, s_own_nodeinfo_idx>>

(***************************************************************************)
(* A FromRadio message, as far as the proxy tells messages apart.  variant *)
(* is the payload variant ("undecodable" when nanopb rejects the bytes);   *)
(* route is what the router finds in a packet; body is the node number of  *)
(* a node_info, the nonce of a config_complete_id, the DST_ID of a proxy   *)
(* packet; len is the encoded length, at least 1 (rx_process_byte never    *)
(* delivers an empty frame).                                               *)
(***************************************************************************)
Variant == {"my_info", "node_info", "config", "queueStatus",
            "config_complete_id", "packet", "undecodable"}

Route == {"none", "encrypted", "standard", "bad_header", "proxy"}

Frame == [variant : Variant, route : Route, body : Nat, len : Nat \ {0}]

\* The two sentinel nonces of the phone app.
MESH_NONCE_ONLY_CONFIG == 69420
MESH_NONCE_ONLY_NODES  == 69421

CacheInit ==
  /\ s_index = <<>>
  /\ s_used = 0
  /\ s_ready = FALSE
  /\ s_own_nodeinfo_idx = 0

CacheTypeOK ==
  /\ s_index \in Seq(Frame)
  /\ s_used \in Nat
  /\ s_ready \in BOOLEAN
  /\ s_own_nodeinfo_idx \in Nat

cache_begin ==
  /\ s_ready' = FALSE
  /\ s_index' = <<>>
  /\ s_used' = 0
  /\ s_own_nodeinfo_idx' = 0

CacheFits(f) ==
  /\ Len(s_index) < MaxFrames
  /\ s_used + f.len <= ArenaBytes

\* A frame that does not fit is rejected and the log stays as it is.
cache_add_frame(f) ==
  IF CacheFits(f)
  THEN /\ s_index' = Append(s_index, f)
       /\ s_used' = s_used + f.len
       /\ s_own_nodeinfo_idx' =
            IF f.variant = "node_info" /\ s_own_nodeinfo_idx = 0
            THEN Len(s_index) + 1
            ELSE s_own_nodeinfo_idx
       /\ UNCHANGED s_ready
  ELSE UNCHANGED cacheVars

cache_mark_ready ==
  /\ s_ready' = TRUE
  /\ UNCHANGED <<s_index, s_used, s_own_nodeinfo_idx>>

\* Fault: ONLY_CONFIG keeps every node_info.
InSegmentFault(i, nonce) ==
  /\ i \in 1..Len(s_index)
  /\ s_index[i].variant # "config_complete_id"
  /\ nonce = MESH_NONCE_ONLY_NODES => s_index[i].variant = "node_info"

\* Whether frame i belongs to the replay of a phone that sent nonce.
cache_frame_in_segment(i, nonce) ==
  /\ i \in 1..Len(s_index)
  /\ s_index[i].variant # "config_complete_id"
  /\ nonce = MESH_NONCE_ONLY_NODES => s_index[i].variant = "node_info"
  /\ nonce = MESH_NONCE_ONLY_CONFIG =>
       (s_index[i].variant = "node_info" => i = s_own_nodeinfo_idx)
=============================================================================
