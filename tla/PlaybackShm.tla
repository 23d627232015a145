---------------------------- MODULE PlaybackShm ----------------------------
(***************************************************************************)
(* common/cras_shm.h, as an output stream uses it.  The client             *)
(* (libcras/cras_client.c) and the server's audio thread (dev_io.c,        *)
(* dev_stream.c, cras_rstream.c) share two sample buffers and their        *)
(* offsets, without a lock; requests and replies go over a socket.         *)
(*                                                                         *)
(* Frames are numbered in the order the client's callback produces them,   *)
(* offsets count frames, and a buffer is known by the number of its first  *)
(* frame.  The client's stores into the header are separate steps; the     *)
(* compiler may swap the two offsets, which have no barrier between them.  *)
(* The reply is a system call, so write_buf_idx is stored with it.         *)
(***************************************************************************)
EXTENDS Integers, Sequences, FiniteSets, FiniteSetsExt

CONSTANTS Devs,          \* the output devices the stream is attached to
          CbThreshold,   \* cb_threshold
          BufferFrames,  \* buffer_frames, and used_size in frames
          MinReply,      \* the fewest frames the client's callback returns
          MaxFrames      \* bound on the frames the client produces

ASSUME PlaybackShmAssumption ==
  /\ Devs # {} /\ IsFiniteSet(Devs)
  /\ CbThreshold \in Nat \ {0} /\ BufferFrames \in Nat /\ CbThreshold <= BufferFrames
  /\ MinReply \in {0, 1}
  /\ MaxFrames \in Nat

Bufs == {0, 1}
Other(b) == 1 - b

VARIABLES read_offset, write_offset, read_buf_idx, write_buf_idx,
          callback_pending,
          base,       \* base[b]: number of the first frame in buffer b
          produced,   \* frames the client has produced
          client,     \* where the client's audio thread is
          got,        \* frames its callback returned
          stores,     \* offsets cras_shm_buffer_written_start still has to store
          requests, replies,  \* messages in the socket
          mixing,     \* the audio thread is in dev_io_playback_write
          queued,     \* queued_frames
          offset,     \* offset[d]: cras_rstream_dev_offset
          heard       \* history, heard[d]: the frames device d was given

shm == <<read_offset, write_offset, read_buf_idx, write_buf_idx>>
clientVars == <<base, produced, client, got, stores>>
serverVars == <<mixing, queued, offset, heard>>
socket == <<requests, replies, callback_pending>>
vars == <<shm, clientVars, serverVars, socket>>

Init ==
  /\ read_offset = [b \in Bufs |-> 0] /\ write_offset = [b \in Bufs |-> 0]
  /\ read_buf_idx = 0 /\ write_buf_idx = 0
  /\ callback_pending = FALSE /\ requests = 0 /\ replies = 0
  /\ base = [b \in Bufs |-> 0] /\ produced = 0
  /\ client = "idle" /\ got = 0 /\ stores = {}
  /\ mixing = FALSE /\ queued = 0
  /\ offset = [d \in Devs |-> 0] /\ heard = [d \in Devs |-> << >>]
-----------------------------------------------------------------------------
(* The shared header. *)

cras_shm_get_frames ==
  LET left(b) == IF write_offset[b] > read_offset[b] THEN write_offset[b] - read_offset[b] ELSE 0
  IN left(0) + left(1)

(* Mutant: the buffer is taken to be free when all of it has been asked    *)
(* for, not when it has been emptied.                                      *)
cras_shm_is_buffer_available_free == write_offset[write_buf_idx] <= BufferFrames

cras_shm_is_buffer_available == write_offset[write_buf_idx] = 0

(* The place of the frame at offset n from the read pointer: <<buffer,     *)
(* position>>, or << >> past the end of the samples.                       *)
cras_shm_get_readable_frames(n) ==
  LET b == read_buf_idx
      final == read_offset[b] + n
      inNext == final - write_offset[b]
  IN IF final < write_offset[b] THEN <<b, final>>
     ELSE IF inNext < write_offset[Other(b)] THEN <<Other(b), inNext>>
     ELSE << >>

cras_shm_buffer_read(frames) ==
  LET b == read_buf_idx
      next == Other(b)
      read == read_offset[b] + frames
      remainder == read - write_offset[b]
  IN \/ /\ frames = 0
        /\ UNCHANGED <<read_offset, write_offset, read_buf_idx>>
     \/ /\ frames > 0 /\ read < write_offset[b]
        /\ read_offset' = [read_offset EXCEPT ![b] = read]
        /\ UNCHANGED <<write_offset, read_buf_idx>>
     \/ /\ frames > 0 /\ read >= write_offset[b]
        /\ remainder < write_offset[next] \/ remainder = 0
        /\ read_offset' = [read_offset EXCEPT ![b] = 0,
             ![next] = IF remainder < write_offset[next] THEN remainder ELSE @]
        /\ write_offset' = [write_offset EXCEPT ![b] = 0]
        /\ read_buf_idx' = next
     \/ /\ frames > 0 /\ read >= write_offset[b]
        /\ remainder >= write_offset[next] /\ remainder > 0
        /\ read_offset' = [read_offset EXCEPT ![b] = 0]
        /\ write_offset' = [x \in Bufs |-> 0]
        /\ read_buf_idx' = b
-----------------------------------------------------------------------------
(* The client's audio thread. *)

(* A request has arrived: the callback starts to fill the write buffer. *)
handle_playback_request ==
  /\ client = "idle" /\ requests > 0
  /\ requests' = requests - 1
  /\ client' = "filling"
  /\ UNCHANGED <<shm, base, produced, got, stores, serverVars, replies, callback_pending>>

aud_cb(frames) ==
  /\ client = "filling"
  /\ produced + frames <= MaxFrames
  /\ base' = [base EXCEPT ![write_buf_idx] = produced]
  /\ produced' = produced + frames
  /\ got' = frames
  /\ client' = "storing"
  /\ stores' = {"write_offset", "read_offset"}
  /\ UNCHANGED <<shm, serverVars, socket>>

(* The callback returns an error or EOF: nothing is written. *)
aud_cb_error ==
  /\ client = "filling"
  /\ client' = "idle"
  /\ replies' = replies + 1
  /\ UNCHANGED <<shm, base, produced, got, stores, serverVars, requests, callback_pending>>

(* cras_shm_buffer_written_start, one store at a time. *)
store_write_offset ==
  /\ client = "storing" /\ "write_offset" \in stores
  /\ write_offset' = [write_offset EXCEPT ![write_buf_idx] = got]
  /\ stores' = stores \ {"write_offset"}
  /\ UNCHANGED <<read_offset, read_buf_idx, write_buf_idx, base, produced, client, got,
                 serverVars, socket>>

store_read_offset ==
  /\ client = "storing" /\ "read_offset" \in stores
  /\ read_offset' = [read_offset EXCEPT ![write_buf_idx] = 0]
  /\ stores' = stores \ {"read_offset"}
  /\ UNCHANGED <<write_offset, read_buf_idx, write_buf_idx, base, produced, client, got,
                 serverVars, socket>>

cras_shm_buffer_write_complete ==
  /\ client = "storing" /\ stores = {}
  /\ write_buf_idx' = Other(write_buf_idx)
  /\ client' = "idle"
  /\ replies' = replies + 1
  /\ UNCHANGED <<read_offset, write_offset, read_buf_idx, base, produced, got, stores,
                 serverVars, requests, callback_pending>>
-----------------------------------------------------------------------------
(* The server's audio thread. *)

(* Mutant: a reply that is still to come is not waited for. *)
fetch_streams_pending ==
  /\ ~ mixing
  /\ replies' = 0
  /\ \/ /\ cras_shm_is_buffer_available
        /\ requests' = requests + 1
        /\ callback_pending' = TRUE
     \/ /\ UNCHANGED requests
        /\ callback_pending' = (callback_pending /\ replies = 0)
  /\ UNCHANGED <<shm, clientVars, serverVars>>

(* Replies are read first, then, if it is time, the next frames are        *)
(* requested.                                                              *)
fetch_streams ==
  LET pending == callback_pending /\ replies = 0 IN
  /\ ~ mixing
  /\ replies' = IF callback_pending THEN 0 ELSE replies
  /\ \/ /\ ~ pending /\ cras_shm_is_buffer_available
        /\ requests' = requests + 1
        /\ callback_pending' = TRUE
     \/ /\ UNCHANGED requests
        /\ callback_pending' = pending
  /\ UNCHANGED <<shm, clientVars, serverVars>>

(* Mutant: the level is not limited to buffer_frames. *)
update_queued_frames_unlimited ==
  /\ ~ mixing \/ Cardinality(Devs) = 1
  /\ mixing' = TRUE
  /\ queued' = cras_shm_get_frames
  /\ UNCHANGED <<shm, clientVars, offset, heard, socket>>

(* dev_stream_update_frames: a stream with several devices does it once a  *)
(* cycle, a stream with one before every mix.                              *)
cras_rstream_update_queued_frames ==
  /\ ~ mixing \/ Cardinality(Devs) = 1
  /\ mixing' = TRUE
  /\ queued' = Min({cras_shm_get_frames, BufferFrames})
  /\ UNCHANGED <<shm, clientVars, offset, heard, socket>>

(* dev_stream_mix: device d is given the next n frames that are not past   *)
(* the end.                                                                *)
dev_stream_mix(d, n) ==
  LET place(i) == cras_shm_get_readable_frames(offset[d] + i - 1)
      run == CHOOSE k \in 0..n : /\ \A i \in 1..k : place(i) # << >>
                                 /\ k < n => place(k + 1) = << >>
  IN /\ mixing
     /\ n <= queued - offset[d]
     /\ offset' = [offset EXCEPT ![d] = @ + run]
     /\ heard' = [heard EXCEPT ![d] =
                    @ \o [i \in 1..run |-> base[place(i)[1]] + place(i)[2]]]
     /\ UNCHANGED <<shm, clientVars, mixing, queued, socket>>

(* Mutant: the read pointer follows the fastest device. *)
update_output_read_pointer_max ==
  LET nwritten == Max({offset[d] : d \in Devs}) IN
  /\ mixing
  /\ mixing' = FALSE
  /\ offset' = [d \in Devs |-> Max({0, offset[d] - nwritten})]
  /\ cras_shm_buffer_read(nwritten)
  /\ UNCHANGED <<write_buf_idx, clientVars, queued, heard, socket>>

(* cras_rstream_update_output_read_pointer: buffer_share_get_new_write_    *)
(* point takes what every device has used off the offsets.                 *)
cras_rstream_update_output_read_pointer ==
  LET nwritten == Min({offset[d] : d \in Devs}) IN
  /\ mixing
  /\ mixing' = FALSE
  /\ offset' = [d \in Devs |-> offset[d] - nwritten]
  /\ cras_shm_buffer_read(nwritten)
  /\ UNCHANGED <<write_buf_idx, clientVars, queued, heard, socket>>

Next ==
  \/ handle_playback_request
  \/ \E frames \in MinReply..CbThreshold : aud_cb(frames)
  \/ aud_cb_error
  \/ store_write_offset
  \/ store_read_offset
  \/ cras_shm_buffer_write_complete
  \/ fetch_streams
  \/ cras_rstream_update_queued_frames
  \/ \E d \in Devs, n \in 1..BufferFrames : dev_stream_mix(d, n)
  \/ cras_rstream_update_output_read_pointer

Spec == Init /\ [][Next]_vars
-----------------------------------------------------------------------------
TypeOK ==
  /\ read_offset \in [Bufs -> 0..BufferFrames]
  /\ write_offset \in [Bufs -> 0..BufferFrames]
  /\ read_buf_idx \in Bufs /\ write_buf_idx \in Bufs
  /\ callback_pending \in BOOLEAN
  /\ requests \in 0..1 /\ replies \in 0..1
  /\ base \in [Bufs -> 0..MaxFrames] /\ produced \in 0..MaxFrames
  /\ client \in {"idle", "filling", "storing"} /\ got \in 0..CbThreshold
  /\ stores \subseteq {"write_offset", "read_offset"}
  /\ mixing \in BOOLEAN /\ queued \in 0..BufferFrames
  /\ offset \in [Devs -> 0..BufferFrames]
  /\ heard \in [Devs -> Seq(0..MaxFrames)]

(* The server never reads from the buffer the client's callback is         *)
(* filling, whatever is read, replied and requested in between: none of    *)
(* its frames can be mixed.                                                *)
NotReadWhileFilled ==
  client = "filling" => write_offset[write_buf_idx] = 0

(* No frame is lost: every device is given the frames from the first one   *)
(* on without a gap, over buffer changes, short callbacks and devices that *)
(* run at different speeds.                                                *)
NoFrameSkipped ==
  \A d \in Devs : \A i \in 1..Len(heard[d]) :
    heard[d][i] <= (IF i = 1 THEN 0 ELSE heard[d][i - 1] + 1)

(* "read_offset - offset of the next sample to read": no device is given   *)
(* the same frame twice.                                                   *)
NoFrameReplayed ==
  \A d \in Devs : \A i \in 2..Len(heard[d]) : heard[d][i] > heard[d][i - 1]

(* One request or reply is under way at most, exactly while                *)
(* callback_pending is set: the client is never asked to fill the buffer   *)
(* it is filling, and no reply is left to be taken for a later one's.      *)
OneCallback ==
  requests + replies + (IF client = "idle" THEN 0 ELSE 1) = (IF callback_pending THEN 1 ELSE 0)
=============================================================================
