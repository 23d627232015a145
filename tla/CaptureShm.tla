----------------------------- MODULE CaptureShm -----------------------------
(***************************************************************************)
(* common/cras_shm.h, as an input stream uses it.  The audio thread        *)
(* (dev_io.c, dev_stream.c, cras_rstream.c) writes captured frames into    *)
(* one of two shared buffers; a full one is announced over a socket and    *)
(* handed to the client's callback (libcras/cras_client.c).  The server    *)
(* never waits: when it comes back to a buffer that was not read, it       *)
(* clears it and counts an overrun.                                        *)
(*                                                                         *)
(* One device, a stream without BULK_AUDIO_OK.  Frames are numbered in the *)
(* order they are captured; a cleared frame is Silence.                    *)
(***************************************************************************)
EXTENDS Integers, Sequences, FiniteSetsExt

CONSTANTS CbThreshold,  \* cb_threshold
          MaxFrames     \* bound on the frames captured

Bufs == {0, 1}
Other(b) == 1 - b
Silence == -1
Cleared == [i \in 1..CbThreshold |-> Silence]

VARIABLES read_offset, write_offset, read_buf_idx, write_buf_idx,
          write_in_progress, num_overruns, callback_pending,
          samples,    \* samples[b]: the frames in buffer b
          captured,   \* frames captured so far
          copied,     \* frames copied since the offsets were last moved
          server,     \* where the audio thread is in its cycle
          ready,      \* DATA_READY messages in the socket
          replies,    \* DATA_CAPTURED messages in the socket
          client,     \* where the client's audio thread is
          delivered   \* history: frames given to the callback and used by it

shm == <<read_offset, write_offset, read_buf_idx, write_buf_idx, write_in_progress,
         num_overruns, samples>>
vars == <<shm, callback_pending, captured, copied, server, ready, replies, client, delivered>>

Init ==
  /\ read_offset = [b \in Bufs |-> 0] /\ write_offset = [b \in Bufs |-> 0]
  /\ read_buf_idx = 0 /\ write_buf_idx = 0
  /\ write_in_progress = [b \in Bufs |-> FALSE]
  /\ num_overruns = 0 /\ callback_pending = FALSE
  /\ samples = [b \in Bufs |-> Cleared]
  /\ captured = 0 /\ copied = 0 /\ server = "capture"
  /\ ready = 0 /\ replies = 0 /\ client = "idle" /\ delivered = << >>
-----------------------------------------------------------------------------
(* The server's audio thread. *)

(* Mutant: an unread buffer is taken over without being counted. *)
cras_shm_check_write_overrun_silent ==
  LET w == write_buf_idx IN
  IF write_in_progress[w] THEN UNCHANGED <<num_overruns, samples, write_in_progress, write_offset>>
  ELSE /\ UNCHANGED num_overruns
       /\ samples' = [samples EXCEPT ![w] = Cleared]
       /\ write_in_progress' = [write_in_progress EXCEPT ![w] = TRUE]
       /\ write_offset' = [write_offset EXCEPT ![w] = 0]

cras_shm_check_write_overrun ==
  LET w == write_buf_idx IN
  IF write_in_progress[w] THEN UNCHANGED <<num_overruns, samples, write_in_progress, write_offset>>
  ELSE /\ num_overruns' = IF write_offset[w] # 0 THEN num_overruns + 1 ELSE num_overruns
       /\ samples' = [samples EXCEPT ![w] = Cleared]
       /\ write_in_progress' = [write_in_progress EXCEPT ![w] = TRUE]
       /\ write_offset' = [write_offset EXCEPT ![w] = 0]

(* capture_to_streams: read the replies, get_stream_limit, which checks    *)
(* for an overrun, and ...                                                 *)
capture_to_streams ==
  /\ server = "capture"
  /\ server' = "copy"
  /\ replies' = 0
  /\ callback_pending' = (callback_pending /\ replies = 0)
  /\ cras_shm_check_write_overrun
  /\ UNCHANGED <<read_offset, read_buf_idx, write_buf_idx, captured, copied, ready, client, delivered>>

(* Mutant: the frames already in the buffer are forgotten. *)
dev_stream_capture_unlimited(n) ==
  /\ server = "copy"
  /\ captured + n <= MaxFrames
  /\ captured' = captured + n
  /\ copied' = n
  /\ server' = "update"
  /\ UNCHANGED <<shm, callback_pending, ready, replies, client, delivered>>

(* ... copy n frames, as many as the device has and the buffer takes.      *)
dev_stream_capture(n) ==
  LET w == write_buf_idx
      at == write_offset[w]
  IN /\ server = "copy"
     /\ n <= CbThreshold - at
     /\ captured + n <= MaxFrames
     /\ samples' = [samples EXCEPT ![w] =
                      [i \in 1..CbThreshold |-> IF i \in at + 1 .. at + n
                                                THEN captured + i - at - 1 ELSE @[i]]]
     /\ captured' = captured + n
     /\ copied' = n
     /\ server' = "update"
     /\ UNCHANGED <<read_offset, write_offset, read_buf_idx, write_buf_idx, write_in_progress,
                    num_overruns, callback_pending, ready, replies, client, delivered>>

(* dev_stream_capture_update_rstream: cras_shm_buffer_written, and once    *)
(* the level is met, and it is time, cras_rstream_audio_ready.             *)
dev_stream_capture_update_rstream ==
  LET w == write_buf_idx
      level == write_offset[w] + copied
  IN /\ server = "update"
     /\ server' = "wake"
     /\ copied' = 0
     /\ write_offset' = [write_offset EXCEPT ![w] = level]
     /\ read_offset' = IF copied = 0 THEN read_offset ELSE [read_offset EXCEPT ![w] = 0]
     /\ \/ UNCHANGED <<write_in_progress, write_buf_idx, ready, callback_pending>>
        \/ /\ level >= CbThreshold
           /\ write_in_progress' = [write_in_progress EXCEPT ![w] = FALSE]
           /\ write_buf_idx' = Other(w)
           /\ ready' = ready + 1
           /\ callback_pending' = TRUE
     /\ UNCHANGED <<read_buf_idx, num_overruns, samples, captured, replies, client, delivered>>

(* set_input_dev_wake_ts: get_stream_limit checks for an overrun again,    *)
(* now for the buffer that comes next.                                     *)
set_input_dev_wake_ts ==
  /\ server = "wake"
  /\ server' = "capture"
  /\ cras_shm_check_write_overrun
  /\ UNCHANGED <<read_offset, read_buf_idx, write_buf_idx, callback_pending, captured, copied,
                 ready, replies, client, delivered>>
-----------------------------------------------------------------------------
(* The client's audio thread. *)

cras_shm_get_curr_read_frames ==
  IF read_offset[read_buf_idx] > write_offset[read_buf_idx] THEN 0
  ELSE write_offset[read_buf_idx] - read_offset[read_buf_idx]

(* handle_capture_data_ready: config_capture_buf refuses a buffer that     *)
(* does not hold enough; no reply is sent then.                            *)
handle_capture_data_ready ==
  /\ client = "idle" /\ ready > 0
  /\ ready' = ready - 1
  /\ client' = IF cras_shm_get_curr_read_frames < CbThreshold THEN "idle" ELSE "callback"
  /\ UNCHANGED <<shm, callback_pending, captured, copied, server, replies, delivered>>

(* The callback used the first n frames of the read buffer, wherever       *)
(* read_offset is; a buffer that is used up is closed next.                *)
aud_cb(n) ==
  LET r == read_buf_idx IN
  /\ client = "callback"
  /\ delivered' = delivered \o SubSeq(samples[r], 1, n)
  /\ read_offset' = [read_offset EXCEPT ![r] = @ + n]
  /\ client' = IF read_offset'[r] >= write_offset[r] THEN "close" ELSE "reply"
  /\ UNCHANGED <<write_offset, read_buf_idx, write_buf_idx, write_in_progress, num_overruns,
                 samples, callback_pending, captured, copied, server, ready, replies>>

(* The callback used nothing: an error is reported, zero frames are not.   *)
aud_cb_none ==
  /\ client = "callback"
  /\ client' \in {"idle", "reply"}
  /\ UNCHANGED <<shm, callback_pending, captured, copied, server, ready, replies, delivered>>

(* The rest of cras_shm_buffer_read_current. *)
cras_shm_buffer_read_current ==
  LET r == read_buf_idx IN
  /\ client = "close"
  /\ read_offset' = [read_offset EXCEPT ![r] = 0]
  /\ write_offset' = [write_offset EXCEPT ![r] = 0]
  /\ read_buf_idx' = Other(r)
  /\ client' = "reply"
  /\ UNCHANGED <<write_buf_idx, write_in_progress, num_overruns, samples, callback_pending,
                 captured, copied, server, ready, replies, delivered>>

send_capture_reply ==
  /\ client = "reply"
  /\ client' = "idle"
  /\ replies' = replies + 1
  /\ UNCHANGED <<shm, callback_pending, captured, copied, server, ready, delivered>>

Next ==
  \/ capture_to_streams
  \/ \E n \in 0..CbThreshold : dev_stream_capture(n)
  \/ dev_stream_capture_update_rstream
  \/ set_input_dev_wake_ts
  \/ handle_capture_data_ready
  \/ \E n \in 1..CbThreshold : aud_cb(n)
  \/ aud_cb_none
  \/ cras_shm_buffer_read_current
  \/ send_capture_reply

Spec == Init /\ [][Next]_vars
-----------------------------------------------------------------------------
TypeOK ==
  /\ read_offset \in [Bufs -> 0 .. 2 * CbThreshold]
  /\ write_offset \in [Bufs -> 0..CbThreshold]
  /\ read_buf_idx \in Bufs /\ write_buf_idx \in Bufs
  /\ write_in_progress \in [Bufs -> BOOLEAN]
  /\ num_overruns \in Nat /\ callback_pending \in BOOLEAN
  /\ samples \in [Bufs -> [1..CbThreshold -> {Silence} \union 0..MaxFrames]]
  /\ captured \in 0..MaxFrames /\ copied \in 0..CbThreshold
  /\ server \in {"capture", "copy", "update", "wake"}
  /\ ready \in Nat /\ replies \in Nat
  /\ client \in {"idle", "callback", "close", "reply"}

(* "num_overruns ... is incremented very time data is over written because *)
(* too much accumulated before a read": as long as none was counted, the   *)
(* client was given every frame, once and in order, whatever it does with  *)
(* its callbacks.                                                          *)
LossIsCounted ==
  num_overruns = 0 => \A i \in 1..Len(delivered) : delivered[i] = i - 1
=============================================================================
