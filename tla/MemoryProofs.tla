---------------------------- MODULE MemoryProofs ----------------------------
(***************************************************************************)
(* Proofs about the memory a stream shares with its client, as MCMemory    *)
(* composes it, for any number of devices, any threshold and any buffer    *)
(* size: the handover of the write buffer, that no frame of an output or   *)
(* an input stream is lost unnoticed, and that a stream keeps what it owns *)
(* while nothing else is left behind.                                      *)
(***************************************************************************)
EXTENDS MCMemory, WellFoundedInduction, FiniteSetTheorems, TLAPS

-----------------------------------------------------------------------------
(* Playback: the one outstanding callback and the write buffer.            *)

(* The part of the type invariant the argument needs. *)
HeaderType ==
  /\ write_offset \in [Bufs -> Int]
  /\ read_buf_idx \in Bufs /\ write_buf_idx \in Bufs
  /\ callback_pending \in BOOLEAN
  /\ requests \in Nat /\ replies \in Nat
  /\ client \in {"idle", "filling", "storing"}
  /\ stores \subseteq {"write_offset", "read_offset"}
  /\ got \in Nat

(* From the request to the store of the new offset the write buffer is     *)
(* the client's: its offset is zero.                                       *)
HandedOver ==
  requests > 0 \/ client = "filling" \/ (client = "storing" /\ "write_offset" \in stores)
    => write_offset[write_buf_idx] = 0

IInv == HeaderType /\ OneCallback /\ HandedOver

LEMMA InitIInv == Init => IInv
<1> SUFFICES ASSUME Init PROVE IInv
  OBVIOUS
<1>1. HeaderType
  <2>1. write_offset \in [Bufs -> Int]
    BY DEF Init
  <2>2. callback_pending \in BOOLEAN /\ client \in {"idle", "filling", "storing"}
    BY Zenon DEF Init
  <2>3. /\ read_buf_idx \in Bufs /\ write_buf_idx \in Bufs /\ got \in Nat
        /\ requests \in Nat /\ replies \in Nat /\ stores \subseteq {"write_offset", "read_offset"}
    BY DEF Init, Bufs
  <2> QED BY <2>1, <2>2, <2>3 DEF HeaderType
<1>2. OneCallback
  BY DEF Init, OneCallback
<1>3. HandedOver
  BY DEF Init, HandedOver, Bufs
<1> QED BY <1>1, <1>2, <1>3 DEF IInv

(* Reading never makes an empty buffer look written. *)
LEMMA ReadKeepsEmpty ==
  ASSUME HeaderType, NEW frames, cras_shm_buffer_read(frames)
  PROVE  /\ write_offset' \in [Bufs -> Int] /\ read_buf_idx' \in Bufs
         /\ \A b \in Bufs : write_offset[b] = 0 => write_offset'[b] = 0
  BY DEF HeaderType, cras_shm_buffer_read, Bufs, Other

LEMMA NextIInv == IInv /\ [Next]_vars => IInv'
<1> SUFFICES ASSUME IInv, [Next]_vars PROVE IInv'
  OBVIOUS
<1> USE DEF IInv, HeaderType, OneCallback, HandedOver, socket, shm, clientVars, serverVars
<1>1. CASE handle_playback_request
  BY <1>1 DEF handle_playback_request
<1>2. ASSUME NEW frames \in MinReply .. CbThreshold, aud_cb(frames) PROVE IInv'
  BY <1>2, PlaybackShmAssumption DEF aud_cb
<1>3. CASE aud_cb_error
  BY <1>3 DEF aud_cb_error
<1>4. CASE store_write_offset
  BY <1>4 DEF store_write_offset, Bufs
<1>5. CASE store_read_offset
  BY <1>5 DEF store_read_offset
<1>6. CASE cras_shm_buffer_write_complete
  BY <1>6 DEF cras_shm_buffer_write_complete, Bufs, Other
<1>7. CASE fetch_streams
  <2>1. CASE requests' = requests + 1 /\ callback_pending' = TRUE
             /\ ~ (callback_pending /\ replies = 0) /\ cras_shm_is_buffer_available
    BY <1>7, <2>1 DEF fetch_streams, cras_shm_is_buffer_available
  <2>2. CASE UNCHANGED requests /\ callback_pending' = (callback_pending /\ replies = 0)
    <3>1. UNCHANGED <<shm, clientVars>> /\ replies' = IF callback_pending THEN 0 ELSE replies
      BY <1>7 DEF fetch_streams
    <3>2. callback_pending' \in BOOLEAN
      BY <2>2, Zenon
    <3>3. CASE callback_pending /\ replies = 0
      BY <2>2, <3>1, <3>2, <3>3
    <3>4. CASE callback_pending /\ replies # 0
      <4>1. callback_pending' = FALSE /\ callback_pending = TRUE
        BY <2>2, <3>4, Zenon
      <4>2. replies' = 0 /\ requests = 0 /\ client = "idle"
        BY <3>1, <3>4, <4>1
      <4> QED BY <2>2, <3>1, <4>1, <4>2
    <3>5. CASE ~ callback_pending
      BY <2>2, <3>1, <3>2, <3>5
    <3> QED BY <3>3, <3>4, <3>5
  <2> QED BY <1>7, <2>1, <2>2 DEF fetch_streams
<1>8. CASE cras_rstream_update_queued_frames
  BY <1>8 DEF cras_rstream_update_queued_frames
<1>9. ASSUME NEW d \in Devs, NEW n \in 1 .. BufferFrames, dev_stream_mix(d, n) PROVE IInv'
  BY <1>9 DEF dev_stream_mix
<1>10. CASE cras_rstream_update_output_read_pointer
  <2>1. /\ write_offset' \in [Bufs -> Int] /\ read_buf_idx' \in Bufs
        /\ \A b \in Bufs : write_offset[b] = 0 => write_offset'[b] = 0
    BY <1>10, ReadKeepsEmpty DEF cras_rstream_update_output_read_pointer
  <2>2. UNCHANGED <<write_buf_idx, clientVars, socket>>
    BY <1>10 DEF cras_rstream_update_output_read_pointer
  <2> QED BY <2>1, <2>2
<1>11. CASE UNCHANGED vars
  BY <1>11 DEF vars
<1> QED
  BY <1>1, <1>2, <1>3, <1>4, <1>5, <1>6, <1>7, <1>8, <1>9, <1>10, <1>11 DEF Next

(* At most one callback is under way, callback_pending says so, and the    *)
(* server reads nothing from the buffer the client is filling.             *)
THEOREM HandoverSafe == Spec => [](OneCallback /\ NotReadWhileFilled)
<1>1. IInv => OneCallback /\ NotReadWhileFilled
  BY DEF IInv, HandedOver, NotReadWhileFilled
<1> QED BY <1>1, InitIInv, NextIInv, PTL DEF Spec

-----------------------------------------------------------------------------
(* Playback: every device is given the frames without a gap.               *)

(* The new offset is stored, or still to be stored. *)
Stored == client = "storing" /\ "write_offset" \notin stores
Unstored == client = "storing" /\ "write_offset" \in stores

(* The buffer that is filled next, the one filled last, and the number of  *)
(* frames the header shows.                                                *)
NextFill == IF Stored THEN Other(write_buf_idx) ELSE write_buf_idx
LastFill == Other(NextFill)
Published == IF Unstored THEN produced - got ELSE produced

FrameType ==
  /\ read_offset \in [Bufs -> Nat] /\ write_offset \in [Bufs -> Nat]
  /\ base \in [Bufs -> Nat] /\ produced \in Nat
  /\ offset \in [Devs -> Nat] /\ heard \in [Devs -> Seq(Int)]

(* The read pointer is on the older of the filled buffers. *)
OldestFirst ==
  /\ write_offset[NextFill] > 0 => write_offset[LastFill] > 0
  /\ read_buf_idx = IF write_offset[NextFill] = 0 /\ write_offset[LastFill] > 0
                    THEN LastFill ELSE NextFill
  /\ read_offset[Other(read_buf_idx)] = 0
  /\ read_offset[read_buf_idx] = 0 \/ read_offset[read_buf_idx] < write_offset[read_buf_idx]

(* The frames in the buffers are the last ones published, in order. *)
Consecutive ==
  /\ client = "storing" => got > 0 /\ got <= produced
  /\ Unstored => base[write_buf_idx] = Published
  /\ write_offset[LastFill] > 0 => base[LastFill] + write_offset[LastFill] = Published
  /\ write_offset[NextFill] > 0 =>
       base[NextFill] + write_offset[NextFill] = base[LastFill]

(* The number of the frame at the read pointer, and the first that device  *)
(* d was not given.                                                        *)
ReadFrame ==
  IF write_offset[read_buf_idx] = 0 THEN Published
  ELSE base[read_buf_idx] + read_offset[read_buf_idx]
NextFrame(d) == IF heard[d] = << >> THEN 0 ELSE heard[d][Len(heard[d])] + 1

(* A device is never ahead of what it was given or of what was published. *)
DevicesBehind ==
  \A d \in Devs : /\ ReadFrame + offset[d] <= Published
                  /\ ReadFrame + offset[d] <= NextFrame(d)

FrameInv == /\ FrameType /\ OldestFirst /\ Consecutive /\ DevicesBehind /\ NoFrameSkipped
            /\ IInv

LEMMA InitFrameInv == Init => FrameInv
<1> SUFFICES ASSUME Init PROVE FrameInv
  OBVIOUS
<1> USE DEF Init, Bufs, Other, NextFill, LastFill, Published, Stored, Unstored
<1>1. FrameType
  BY DEF FrameType
<1>2. OldestFirst
  BY DEF OldestFirst
<1>3. Consecutive
  BY DEF Consecutive
<1>4. DevicesBehind
  BY DEF DevicesBehind, ReadFrame, NextFrame
<1>5. NoFrameSkipped
  BY DEF NoFrameSkipped
<1> QED BY <1>1, <1>2, <1>3, <1>4, <1>5, InitIInv DEF FrameInv

(* The buffers after a step that leaves the header, the numbering and the  *)
(* devices alone.                                                          *)
LEMMA FramesUntouched ==
  ASSUME FrameInv, IInv', Published' = Published, NextFill' = NextFill,
         UNCHANGED <<read_offset, write_offset, read_buf_idx, base, produced, offset, heard>>,
         (client = "storing" => got > 0 /\ got <= produced)',
         (Unstored => base[write_buf_idx] = Published)'
  PROVE  FrameInv'
<1> USE DEF FrameInv
<1>1. FrameType' /\ NoFrameSkipped'
  BY DEF FrameType, NoFrameSkipped
<1>2. OldestFirst' /\ Consecutive'
  BY DEF OldestFirst, Consecutive, LastFill
<1>3. DevicesBehind'
  BY DEF DevicesBehind, ReadFrame, NextFrame
<1> QED BY <1>1, <1>2, <1>3

(* The callback returned frames: they are numbered, nothing is shown yet. *)
LEMMA CallbackFrames ==
  ASSUME FrameInv, IInv', NEW frames \in Nat \ {0}, aud_cb(frames)
  PROVE  FrameInv'
<1> USE DEF FrameInv
<1>0. /\ write_buf_idx \in Bufs /\ write_offset[write_buf_idx] = 0 /\ produced \in Nat
      /\ base \in [Bufs -> Nat]
  BY DEF IInv, HeaderType, HandedOver, FrameType, aud_cb
<1>1. /\ client = "filling" /\ client' = "storing" /\ stores' = {"write_offset", "read_offset"}
      /\ got' = frames /\ produced' = produced + frames
      /\ base' = [base EXCEPT ![write_buf_idx] = produced]
      /\ UNCHANGED <<read_offset, write_offset, read_buf_idx, write_buf_idx, offset, heard>>
  BY DEF aud_cb, shm, serverVars
<1>2. /\ Unstored' /\ ~Unstored /\ ~Stored /\ ~Stored'
      /\ Published = produced /\ Published' = produced
      /\ NextFill = write_buf_idx /\ NextFill' = write_buf_idx /\ LastFill' = LastFill
  BY <1>0, <1>1 DEF Unstored, Stored, Published, NextFill, LastFill
<1>3. FrameType' /\ NoFrameSkipped'
  BY <1>0, <1>1 DEF FrameType, NoFrameSkipped
<1>4. OldestFirst'
  BY <1>1, <1>2 DEF OldestFirst
<1>5. Consecutive'
  BY <1>0, <1>1, <1>2 DEF Consecutive, LastFill, Bufs, Other
<1>6. DevicesBehind'
  <2>1. ReadFrame' = ReadFrame
    BY <1>0, <1>1, <1>2 DEF ReadFrame, IInv, HeaderType
  <2> QED BY <1>1, <1>2, <2>1 DEF DevicesBehind, NextFrame
<1> QED BY <1>3, <1>4, <1>5, <1>6

(* The write offset is stored: the frames are published. *)
LEMMA StoreFrames ==
  ASSUME FrameInv, IInv', store_write_offset
  PROVE  FrameInv'
<1> USE DEF FrameInv
<1>0. /\ write_buf_idx \in Bufs /\ write_offset[write_buf_idx] = 0 /\ Unstored
      /\ got \in Nat \ {0} /\ produced \in Nat /\ got <= produced
      /\ write_offset \in [Bufs -> Nat] /\ base \in [Bufs -> Nat] /\ read_offset \in [Bufs -> Nat]
      /\ read_buf_idx \in Bufs
  BY DEF IInv, HeaderType, HandedOver, FrameType, store_write_offset, Unstored, Consecutive
<1>1. /\ client = "storing" /\ client' = "storing" /\ "write_offset" \notin stores'
      /\ write_offset' = [write_offset EXCEPT ![write_buf_idx] = got]
      /\ UNCHANGED <<read_offset, read_buf_idx, write_buf_idx, base, produced, got, offset, heard>>
  BY DEF store_write_offset, serverVars
<1>2. /\ Stored' /\ ~Unstored' /\ ~Stored
      /\ Published = produced - got /\ Published' = produced
      /\ NextFill = write_buf_idx /\ NextFill' = Other(write_buf_idx)
      /\ LastFill = Other(write_buf_idx) /\ LastFill' = write_buf_idx
  BY <1>0, <1>1 DEF Unstored, Stored, Published, NextFill, LastFill, Other, Bufs
<1>3. FrameType' /\ NoFrameSkipped'
  BY <1>0, <1>1 DEF FrameType, NoFrameSkipped
<1>4. OldestFirst'
  BY <1>0, <1>1, <1>2 DEF OldestFirst, Other, Bufs
<1>5. Consecutive'
  BY <1>0, <1>1, <1>2 DEF Consecutive, Other, Bufs
<1>6. DevicesBehind'
  <2>1. ReadFrame' = ReadFrame
    BY <1>0, <1>1, <1>2 DEF ReadFrame, OldestFirst, Consecutive, Other, Bufs
  <2>2. ReadFrame \in Int /\ \A d \in Devs : offset[d] \in Nat
    BY <1>0, <1>2 DEF ReadFrame, FrameType
  <2> QED BY <1>0, <1>1, <1>2, <2>1, <2>2 DEF DevicesBehind, NextFrame
<1> QED BY <1>3, <1>4, <1>5, <1>6

(* The read offset is stored: frames the server has already read from the  *)
(* new buffer are given again, none is skipped.                            *)
LEMMA StoreRead ==
  ASSUME FrameInv, IInv', store_read_offset
  PROVE  FrameInv'
<1> USE DEF FrameInv
<1>0. /\ write_buf_idx \in Bufs /\ read_buf_idx \in Bufs
      /\ write_offset \in [Bufs -> Nat] /\ base \in [Bufs -> Nat] /\ read_offset \in [Bufs -> Nat]
      /\ produced \in Nat /\ got \in Nat
  BY DEF IInv, HeaderType, FrameType
<1>1. /\ client = "storing" /\ client' = "storing" /\ stores' = stores \ {"read_offset"}
      /\ read_offset' = [read_offset EXCEPT ![write_buf_idx] = 0]
      /\ UNCHANGED <<write_offset, read_buf_idx, write_buf_idx, base, produced, got, offset, heard>>
  BY DEF store_read_offset, serverVars
<1>2. /\ Stored' = Stored /\ Unstored' = Unstored /\ Published' = Published
      /\ NextFill' = NextFill /\ LastFill' = LastFill /\ Published \in Int
  BY <1>0, <1>1 DEF Unstored, Stored, Published, NextFill, LastFill
<1>3. FrameType' /\ NoFrameSkipped'
  BY <1>0, <1>1 DEF FrameType, NoFrameSkipped
<1>4. OldestFirst'
  BY <1>0, <1>1, <1>2 DEF OldestFirst, Other, Bufs
<1>5. Consecutive'
  BY <1>0, <1>1, <1>2 DEF Consecutive
<1>6. DevicesBehind'
  <2>1. ReadFrame' <= ReadFrame /\ ReadFrame' \in Int /\ ReadFrame \in Int
    BY <1>0, <1>1, <1>2 DEF ReadFrame
  <2>2. \A d \in Devs : offset[d] \in Nat /\ NextFrame(d)' = NextFrame(d) /\ NextFrame(d) \in Int
    BY <1>1 DEF FrameType, NextFrame
  <2> QED BY <1>1, <1>2, <2>1, <2>2 DEF DevicesBehind
<1> QED BY <1>3, <1>4, <1>5, <1>6

(* What cras_shm_get_readable_frames finds at offset n from the read       *)
(* pointer is the frame n after the one at the read pointer, up to the     *)
(* last one published.                                                     *)
LEMMA ReadableFrames ==
  ASSUME FrameInv, NEW n \in Nat
  PROVE  LET place == cras_shm_get_readable_frames(n) IN
         /\ ReadFrame + n < Published =>
              place # << >> /\ base[place[1]] + place[2] = ReadFrame + n
         /\ ReadFrame + n >= Published => place = << >>
<1> USE DEF FrameInv
<1>0. /\ write_buf_idx \in Bufs /\ read_buf_idx \in Bufs
      /\ write_offset \in [Bufs -> Nat] /\ base \in [Bufs -> Nat] /\ read_offset \in [Bufs -> Nat]
      /\ produced \in Nat /\ got \in Nat /\ Published \in Int
      /\ NextFill \in Bufs /\ LastFill = Other(NextFill)
  BY DEF IInv, HeaderType, FrameType, Published, NextFill, LastFill, Other, Bufs
<1> DEFINE b == read_buf_idx
           final == read_offset[b] + n
           inNext == final - write_offset[b]
<1>1. CASE final < write_offset[b]
  <2>1. cras_shm_get_readable_frames(n) = <<b, final>>
    BY <1>1 DEF cras_shm_get_readable_frames
  <2>2. ReadFrame + n = base[b] + final /\ ReadFrame + n < Published
    BY <1>0, <1>1 DEF ReadFrame, OldestFirst, Consecutive, Other, Bufs
  <2> QED BY <1>0, <2>1, <2>2
<1>2. CASE ~(final < write_offset[b]) /\ inNext < write_offset[Other(b)]
  <2>1. cras_shm_get_readable_frames(n) = <<Other(b), inNext>>
    BY <1>2 DEF cras_shm_get_readable_frames
  <2>2. ReadFrame + n = base[Other(b)] + inNext /\ ReadFrame + n < Published
    BY <1>0, <1>2 DEF ReadFrame, OldestFirst, Consecutive, Other, Bufs
  <2>3. Published \in Int /\ ReadFrame + n \in Int
    BY <1>0 DEF ReadFrame
  <2> HIDE DEF inNext, final, b
  <2> QED BY ONLY <2>1, <2>2, <2>3
<1>3. CASE ~(final < write_offset[b]) /\ ~(inNext < write_offset[Other(b)])
  <2>1. cras_shm_get_readable_frames(n) = << >>
    BY <1>3 DEF cras_shm_get_readable_frames
  <2>2. ReadFrame + n >= Published
    BY <1>0, <1>3 DEF ReadFrame, OldestFirst, Consecutive, Other, Bufs
  <2>3. ~(ReadFrame + n < Published)
    BY <1>0, <2>2 DEF ReadFrame
  <2> QED BY <2>1, <2>2, <2>3
<1> QED BY <1>1, <1>2, <1>3

LEMMA ConcatLast ==
  ASSUME NEW s \in Seq(Int), NEW t \in Seq(Int), Len(t) # 0
  PROVE  /\ Len(s \o t) = Len(s) + Len(t) /\ s \o t # << >>
         /\ (s \o t)[Len(s \o t)] = t[Len(t)]
  OBVIOUS

LEMMA ConcatElements ==
  ASSUME NEW s \in Seq(Int), NEW t \in Seq(Int)
  PROVE  /\ Len(s \o t) = Len(s) + Len(t)
         /\ \A i \in 1..(Len(s) + Len(t)) :
              (s \o t)[i] = IF i <= Len(s) THEN s[i] ELSE t[i - Len(s)]
  OBVIOUS

(* A device is given frames. *)
LEMMA MixFrames ==
  ASSUME FrameInv, IInv', NEW d \in Devs, NEW n \in 1..BufferFrames, dev_stream_mix(d, n)
  PROVE  FrameInv'
<1> USE DEF FrameInv
<1>0. /\ Published \in Int /\ ReadFrame \in Int /\ offset \in [Devs -> Nat] /\ n \in Nat
      /\ heard \in [Devs -> Seq(Int)]
  <2>1. /\ write_offset \in [Bufs -> Nat] /\ read_offset \in [Bufs -> Nat]
        /\ base \in [Bufs -> Nat] /\ offset \in [Devs -> Nat] /\ heard \in [Devs -> Seq(Int)]
    BY DEF FrameType
  <2>2. read_buf_idx \in Bufs /\ write_buf_idx \in Bufs
    BY DEF IInv, HeaderType
  <2>3. n \in Nat
    BY PlaybackShmAssumption
  <2>4. Published \in Int
    BY <2>1, <2>2 DEF Published, Other, Bufs, FrameType, IInv, HeaderType
  <2>5. ReadFrame \in Int
    BY <2>1, <2>2, <2>4 DEF ReadFrame
  <2> QED BY <2>1, <2>3, <2>4, <2>5
<1>1. /\ UNCHANGED <<read_offset, write_offset, read_buf_idx, write_buf_idx, base, produced, got,
                     client, stores>>
      /\ Published' = Published /\ ReadFrame' = ReadFrame /\ NextFill' = NextFill
      /\ LastFill' = LastFill /\ Unstored' = Unstored
  BY DEF dev_stream_mix, shm, clientVars, Published, ReadFrame, NextFill, LastFill, Stored, Unstored
<1> DEFINE place(i) == cras_shm_get_readable_frames(offset[d] + i - 1)
           Run(k) == /\ \A i \in 1..k : place(i) # << >>
                     /\ k < n => place(k + 1) = << >>
           run == CHOOSE k \in 0..n : Run(k)
           left == Published - (ReadFrame + offset[d])
           given == [i \in 1..run |-> base[place(i)[1]] + place(i)[2]]
<1>2. /\ offset' = [offset EXCEPT ![d] = @ + run]
      /\ heard' = [heard EXCEPT ![d] = @ \o given]
  BY DEF dev_stream_mix
<1>3. left \in Nat
  BY <1>0 DEF DevicesBehind
<1>4. \A i \in Nat \ {0} : /\ i <= left => /\ place(i) # << >>
                                         /\ base[place(i)[1]] + place(i)[2] = ReadFrame + offset[d] + i - 1
                           /\ i > left => place(i) = << >>
  <2> SUFFICES ASSUME NEW i \in Nat \ {0}
               PROVE  /\ i <= left => /\ place(i) # << >>
                                      /\ base[place(i)[1]] + place(i)[2] = ReadFrame + offset[d] + i - 1
                      /\ i > left => place(i) = << >>
    OBVIOUS
  <2>1. offset[d] + i - 1 \in Nat
    BY <1>0
  <2>2. /\ ReadFrame + (offset[d] + i - 1) < Published =>
              place(i) # << >> /\ base[place(i)[1]] + place(i)[2] = ReadFrame + (offset[d] + i - 1)
        /\ ReadFrame + (offset[d] + i - 1) >= Published => place(i) = << >>
    BY <2>1, ReadableFrames
  <2>3. /\ i <= left => ReadFrame + (offset[d] + i - 1) < Published
        /\ i > left => ReadFrame + (offset[d] + i - 1) >= Published
        /\ ReadFrame + (offset[d] + i - 1) = ReadFrame + offset[d] + i - 1
    BY <1>0
  <2> QED BY <2>2, <2>3
<1> HIDE DEF place
<1>5. run \in 0..n /\ Run(run)
  <2> DEFINE k == IF left < n THEN left ELSE n
  <2>1. k \in 0..n /\ k <= left /\ (k < n => k = left)
    BY <1>0, <1>3
  <2>2. \A i \in 1..k : place(i) # << >>
    BY <1>3, <1>4, <2>1
  <2>3. k < n => place(k + 1) = << >>
    BY <1>3, <1>4, <2>1
  <2>4. k \in 0..n /\ Run(k)
    BY <2>1, <2>2, <2>3
  <2> HIDE DEF k, Run
  <2> QED BY <2>4
<1>6. run \in Nat /\ run <= left
  <2>1. run \in 0..n /\ \A i \in 1..run : place(i) # << >>
    BY <1>5
  <2> HIDE DEF run
  <2>2. run > left => place(run) = << >> /\ run \in 1..run
    BY <1>0, <1>3, <1>4, <2>1
  <2> QED BY <1>0, <1>3, <2>1, <2>2
<1> HIDE DEF run, Run
<1>7. /\ given \in Seq(Int) /\ Len(given) = run
      /\ \A i \in 1..run : given[i] = ReadFrame + offset[d] + i - 1
  <2>1. \A i \in 1..run : base[place(i)[1]] + place(i)[2] = ReadFrame + offset[d] + i - 1
    BY <1>3, <1>4, <1>6
  <2> QED BY <1>0, <1>6, <2>1
<1> HIDE DEF given
<1>8. FrameType'
  BY <1>0, <1>1, <1>2, <1>6, <1>7 DEF FrameType
<1>9. OldestFirst' /\ Consecutive'
  BY <1>1 DEF OldestFirst, Consecutive
<1>10. ReadFrame + offset[d] <= NextFrame(d)
  BY DEF DevicesBehind
<1>11. DevicesBehind'
  <2> SUFFICES ASSUME NEW x \in Devs
               PROVE  /\ ReadFrame + offset'[x] <= Published
                      /\ ReadFrame + offset'[x] <= NextFrame(x)'
    BY <1>1 DEF DevicesBehind
  <2>1. CASE x # d
    BY <1>0, <1>2, <2>1 DEF DevicesBehind, NextFrame
  <2>2. CASE x = d
    <3>1. offset'[x] = offset[d] + run /\ ReadFrame + offset'[x] <= Published
      BY <1>0, <1>2, <1>6, <2>2
    <3>2. heard'[x] = heard[d] \o given /\ heard[d] \in Seq(Int)
      BY <1>0, <1>2, <2>2
    <3>3. CASE run = 0
      <4>1. heard'[x] = heard[d]
        BY <1>7, <3>2, <3>3
      <4> QED BY <1>0, <1>10, <3>1, <3>3, <4>1 DEF NextFrame
    <3>4. CASE run > 0
      <4>1. /\ Len(heard'[x]) = Len(heard[d]) + run /\ heard'[x] # << >>
            /\ heard'[x][Len(heard'[x])] = given[run]
        <5>1. given \in Seq(Int) /\ Len(given) = run /\ run # 0
          BY <1>6, <1>7, <3>4
        <5> QED BY <3>2, <5>1, ConcatLast
      <4>2. NextFrame(x)' = ReadFrame + offset[d] + run
        BY <1>0, <1>6, <1>7, <3>4, <4>1 DEF NextFrame
      <4> QED BY <1>0, <1>6, <3>1, <4>2
    <3> QED BY <1>6, <3>3, <3>4
  <2> QED BY <2>1, <2>2
<1>12. NoFrameSkipped'
  <2> SUFFICES ASSUME NEW x \in Devs, NEW i \in 1..Len(heard'[x])
               PROVE  heard'[x][i] <= (IF i = 1 THEN 0 ELSE heard'[x][i - 1] + 1)
    BY DEF NoFrameSkipped
  <2>1. CASE x # d
    BY <1>0, <1>2, <2>1 DEF NoFrameSkipped
  <2>2. CASE x = d
    <3> DEFINE h == heard[d]
    <3>1. heard'[x] = h \o given /\ h \in Seq(Int) /\ Len(h) \in Nat
      BY <1>0, <1>2, <2>2
    <3>2. \A j \in 1..Len(h) : h[j] <= (IF j = 1 THEN 0 ELSE h[j - 1] + 1)
      BY DEF NoFrameSkipped
    <3>a. NextFrame(d) = IF Len(h) = 0 THEN 0 ELSE h[Len(h)] + 1
      BY <3>1 DEF NextFrame
    <3> HIDE DEF h
    <3>3. CASE i \in 1..Len(h)
      <4>1. heard'[x][i] = h[i] /\ (i # 1 => heard'[x][i - 1] = h[i - 1])
        BY <1>7, <3>1, <3>3
      <4> QED BY <3>2, <3>3, <4>1
    <3>4. CASE i = Len(h) + 1
      <4>1. heard'[x][i] = given[1] /\ 1 \in 1..run /\ (i # 1 => heard'[x][i - 1] = h[Len(h)])
        BY <1>6, <1>7, <3>1, <3>4
      <4>2. given[1] = ReadFrame + offset[d]
        BY <1>0, <1>7, <4>1
      <4> QED BY <1>0, <1>10, <3>1, <3>a, <3>4, <4>1, <4>2
    <3>5. CASE i > Len(h) + 1
      <4>1. /\ i - Len(h) \in 2..run /\ i # 1
            /\ heard'[x][i] = given[i - Len(h)] /\ heard'[x][i - 1] = given[i - Len(h) - 1]
        BY <1>6, <1>7, <3>1, <3>5
      <4>2. given[i - Len(h)] = given[i - Len(h) - 1] + 1
        <5> DEFINE k == i - Len(h)
        <5>1. k \in 1..run /\ k - 1 \in 1..run /\ k \in Int
          BY <1>6, <3>1, <4>1
        <5> HIDE DEF k
        <5>2. given[k] = given[k - 1] + 1
          BY <1>0, <1>6, <1>7, <5>1
        <5> QED BY <5>2 DEF k
      <4>3. given[i - Len(h)] \in Int /\ given[i - Len(h) - 1] \in Int
        BY <1>0, <1>6, <1>7, <3>1, <4>1
      <4> QED BY <4>1, <4>2, <4>3
    <3> QED BY <3>1, <3>3, <3>4, <3>5
  <2> QED BY <2>1, <2>2
<1> QED BY <1>8, <1>9, <1>11, <1>12

LEMMA MinOfNats ==
  ASSUME NEW T, T \subseteq Nat, T # {}
  PROVE  Min(T) \in T /\ \A y \in T : Min(T) <= y
<1> DEFINE R == {pair \in Nat \X Nat : pair[1] < pair[2]}
<1>1. IsWellFoundedOn(R, Nat)
  BY NatLessThanWellFounded DEF OpToRel
<1>2. PICK x \in T : \A y \in T : ~(<<y, x>> \in R)
  BY <1>1, WFMin
<1>3. \A y \in T : x <= y
  <2> TAKE y \in T
  <2>1. x \in Nat /\ y \in Nat
    OBVIOUS
  <2>2. ~(y < x)
    BY <1>2, <2>1
  <2> QED BY <2>1, <2>2
<1> HIDE DEF R
<1> QED BY <1>3 DEF Min

(* cras_shm_buffer_read moves the read pointer on by what is read, as long *)
(* as that was published.                                                  *)
LEMMA ReadMoves ==
  ASSUME FrameInv, NEW m \in Nat, ReadFrame + m <= Published, cras_shm_buffer_read(m),
         UNCHANGED <<write_buf_idx, base, produced, client, got, stores>>
  PROVE  /\ ReadFrame' = ReadFrame + m /\ OldestFirst' /\ Consecutive'
         /\ read_offset' \in [Bufs -> Nat] /\ write_offset' \in [Bufs -> Nat]
<1> USE DEF FrameInv
<1> DEFINE b == read_buf_idx
           next == Other(b)
           read == read_offset[b] + m
           remainder == read - write_offset[b]
<1>0. /\ write_buf_idx \in Bufs /\ read_buf_idx \in Bufs
      /\ write_offset \in [Bufs -> Nat] /\ base \in [Bufs -> Nat] /\ read_offset \in [Bufs -> Nat]
      /\ produced \in Nat /\ got \in Nat /\ Published \in Int /\ ReadFrame \in Int
      /\ NextFill \in Bufs /\ LastFill = Other(NextFill)
  BY DEF IInv, HeaderType, FrameType, Published, ReadFrame, NextFill, LastFill, Other, Bufs
<1>1. /\ Stored' = Stored /\ Unstored' = Unstored /\ Published' = Published
      /\ NextFill' = NextFill /\ LastFill' = LastFill
  BY DEF Stored, Unstored, Published, NextFill, LastFill
<1>2. CASE m = 0 /\ UNCHANGED <<read_offset, write_offset, read_buf_idx>>
  <2>1. ReadFrame' = ReadFrame + m
    BY <1>0, <1>1, <1>2 DEF ReadFrame
  <2>2. OldestFirst' /\ Consecutive'
    BY <1>0, <1>1, <1>2 DEF OldestFirst, Consecutive
  <2> QED BY <1>0, <1>2, <2>1, <2>2
<1>3. CASE /\ m > 0 /\ read < write_offset[b]
           /\ read_offset' = [read_offset EXCEPT ![b] = read]
           /\ UNCHANGED <<write_offset, read_buf_idx>>
  <2>1. ReadFrame' = ReadFrame + m /\ read_offset' \in [Bufs -> Nat]
    BY <1>0, <1>1, <1>3 DEF ReadFrame
  <2>2. OldestFirst'
    BY <1>0, <1>1, <1>3 DEF OldestFirst, Other, Bufs
  <2>3. Consecutive'
    BY <1>0, <1>1, <1>3 DEF Consecutive
  <2> QED BY <1>0, <1>3, <2>1, <2>2, <2>3
<1>4. CASE /\ m > 0 /\ read >= write_offset[b]
           /\ remainder < write_offset[next] \/ remainder = 0
           /\ read_offset' = [read_offset EXCEPT ![b] = 0,
                ![next] = IF remainder < write_offset[next] THEN remainder ELSE @]
           /\ write_offset' = [write_offset EXCEPT ![b] = 0]
           /\ read_buf_idx' = next
  <2>a. remainder \in Nat /\ b \in Bufs /\ next \in Bufs /\ next # b
    BY <1>0, <1>4 DEF Other, Bufs
  <2>b. /\ read_offset' \in [Bufs -> Nat] /\ write_offset' \in [Bufs -> Nat]
        /\ write_offset'[b] = 0 /\ write_offset'[next] = write_offset[next]
        /\ read_offset'[b] = 0
        /\ read_offset'[next] = IF remainder < write_offset[next] THEN remainder ELSE read_offset[next]
    BY <1>0, <1>4, <2>a
  <2>c. write_offset[b] > 0
    BY <1>0, <1>4 DEF ReadFrame
  <2>d. CASE write_offset[next] > 0
    <3>1. b = NextFill /\ next = LastFill /\ remainder < write_offset[next]
      BY <1>0, <1>4, <2>a, <2>c, <2>d DEF OldestFirst, Other, Bufs
    <3>2. ReadFrame' = ReadFrame + m
      BY <1>0, <1>1, <1>4, <2>a, <2>b, <2>c, <2>d, <3>1 DEF ReadFrame, Consecutive
    <3>3. OldestFirst'
      <4>1. b # next /\ Other(next) = b /\ read_buf_idx' = next
        BY <1>4, <2>a DEF Other, Bufs
      <4> QED BY <1>1, <2>a, <2>b, <2>d, <3>1, <4>1 DEF OldestFirst
    <3>4. Consecutive'
      BY <1>0, <1>1, <1>4, <2>a, <2>b, <2>d, <3>1 DEF Consecutive
    <3> QED BY <2>b, <3>2, <3>3, <3>4
  <2>e. CASE write_offset[next] = 0
    <3>1. b = LastFill /\ next = NextFill /\ remainder = 0 /\ read_offset[next] = 0
      BY <1>0, <1>4, <2>a, <2>c, <2>e DEF OldestFirst, Other, Bufs
    <3>2. ReadFrame' = ReadFrame + m
      BY <1>0, <1>1, <1>4, <2>a, <2>b, <2>c, <2>e, <3>1 DEF ReadFrame, Consecutive
    <3>3. OldestFirst'
      <4>1. b # next /\ Other(next) = b /\ read_buf_idx' = next
        BY <1>4, <2>a DEF Other, Bufs
      <4> QED BY <1>1, <2>a, <2>b, <2>e, <3>1, <4>1 DEF OldestFirst
    <3>4. Consecutive'
      BY <1>0, <1>1, <1>4, <2>a, <2>b, <2>e, <3>1 DEF Consecutive
    <3> QED BY <2>b, <3>2, <3>3, <3>4
  <2> QED BY <1>0, <2>a, <2>d, <2>e
<1>5. CASE /\ m > 0 /\ read >= write_offset[b]
           /\ remainder >= write_offset[next] /\ remainder > 0
           /\ read_offset' = [read_offset EXCEPT ![b] = 0]
           /\ write_offset' = [x \in Bufs |-> 0]
           /\ read_buf_idx' = b
  <2>a. remainder \in Nat /\ b \in Bufs /\ next \in Bufs /\ next # b
    BY <1>0, <1>5 DEF Other, Bufs
  <2>c. write_offset[b] > 0
    BY <1>0, <1>5 DEF ReadFrame
  <2>d. ReadFrame + m = base[b] + write_offset[b] + remainder
    BY <1>0, <2>c DEF ReadFrame
  <2>e. write_offset[next] > 0
    BY <1>0, <1>5, <2>a, <2>c, <2>d DEF OldestFirst, Consecutive, Other, Bufs
  <2>f. b = NextFill /\ next = LastFill
    BY <1>0, <2>a, <2>c, <2>e DEF OldestFirst, Other, Bufs
  <2>g. ReadFrame + m = Published
    BY <1>0, <1>5, <2>a, <2>c, <2>d, <2>e, <2>f DEF Consecutive
  <2>h. ReadFrame' = Published
    BY <1>0, <1>1, <1>5 DEF ReadFrame
  <2>i. OldestFirst'
    BY <1>0, <1>1, <1>5, <2>a, <2>f DEF OldestFirst, Other, Bufs
  <2>j. Consecutive'
    BY <1>0, <1>1, <1>5 DEF Consecutive, Other, Bufs
  <2> QED BY <1>0, <1>5, <2>g, <2>h, <2>i, <2>j
<1> QED BY <1>2, <1>3, <1>4, <1>5 DEF cras_shm_buffer_read

(* What every device has used is taken off: a device keeps its place. *)
LEMMA PointerFrames ==
  ASSUME FrameInv, IInv', cras_rstream_update_output_read_pointer
  PROVE  FrameInv'
<1> USE DEF FrameInv
<1> DEFINE T == {offset[d] : d \in Devs}
           m == Min(T)
<1>0. offset \in [Devs -> Nat] /\ T \subseteq Nat /\ T # {}
  BY PlaybackShmAssumption DEF FrameType
<1>1. m \in T /\ \A y \in T : m <= y
  BY <1>0, MinOfNats
<1>2. /\ offset' = [d \in Devs |-> offset[d] - m] /\ cras_shm_buffer_read(m)
      /\ UNCHANGED <<write_buf_idx, base, produced, client, got, stores, heard>>
  BY DEF cras_rstream_update_output_read_pointer, clientVars
<1> HIDE DEF m
<1>3. PICK slowest \in Devs : m = offset[slowest]
  BY <1>1
<1>4. m \in Nat /\ \A d \in Devs : m <= offset[d]
  BY <1>0, <1>1
<1> HIDE DEF T
<1>5. ReadFrame + m <= Published
  BY <1>3 DEF DevicesBehind
<1>6. /\ ReadFrame' = ReadFrame + m /\ OldestFirst' /\ Consecutive'
      /\ read_offset' \in [Bufs -> Nat] /\ write_offset' \in [Bufs -> Nat]
  BY <1>2, <1>4, <1>5, ReadMoves
<1>7. /\ ReadFrame \in Int /\ Published' = Published
  BY <1>2 DEF ReadFrame, IInv, HeaderType, FrameType, Published, Stored, Unstored, Other, Bufs
<1>8. FrameType' /\ NoFrameSkipped'
  BY <1>0, <1>2, <1>4, <1>6 DEF FrameType, NoFrameSkipped
<1>9. DevicesBehind'
  <2> SUFFICES ASSUME NEW d \in Devs
               PROVE  /\ ReadFrame' + offset'[d] <= Published
                      /\ ReadFrame' + offset'[d] <= NextFrame(d)'
    BY <1>7 DEF DevicesBehind
  <2>1. ReadFrame' + offset'[d] = ReadFrame + offset[d] /\ NextFrame(d)' = NextFrame(d)
    BY <1>0, <1>2, <1>4, <1>6, <1>7 DEF NextFrame
  <2> QED BY <2>1 DEF DevicesBehind
<1> QED BY <1>6, <1>8, <1>9

LEMMA NextFrameInv ==
  ASSUME MinReply = 1, FrameInv, [Next]_vars
  PROVE  FrameInv'
<1>0. IInv'
  BY NextIInv DEF FrameInv
<1> USE <1>0 DEF Stored, Unstored, Published, NextFill, shm, clientVars, serverVars, socket
<1>a. /\ client = "storing" => got > 0 /\ got <= produced
      /\ client = "storing" /\ "write_offset" \in stores => base[write_buf_idx] = Published
      /\ write_buf_idx \in Bufs
  BY DEF FrameInv, Consecutive, IInv, HeaderType
<1>1. CASE handle_playback_request
  BY <1>1, FramesUntouched DEF handle_playback_request
<1>2. ASSUME NEW frames \in MinReply .. CbThreshold, aud_cb(frames) PROVE FrameInv'
  <2>1. frames \in Nat \ {0}
    BY PlaybackShmAssumption
  <2> QED BY <1>2, <2>1, CallbackFrames
<1>3. CASE aud_cb_error
  BY <1>3, FramesUntouched DEF aud_cb_error
<1>4. CASE store_write_offset
  BY <1>4, StoreFrames
<1>5. CASE store_read_offset
  BY <1>5, StoreRead
<1>6. CASE cras_shm_buffer_write_complete
  BY <1>6, FramesUntouched DEF cras_shm_buffer_write_complete
<1>7. CASE fetch_streams
  BY <1>7, <1>a, FramesUntouched DEF fetch_streams
<1>8. CASE cras_rstream_update_queued_frames
  BY <1>8, <1>a, FramesUntouched DEF cras_rstream_update_queued_frames
<1>9. ASSUME NEW d \in Devs, NEW n \in 1 .. BufferFrames, dev_stream_mix(d, n) PROVE FrameInv'
  BY <1>9, MixFrames
<1>10. CASE cras_rstream_update_output_read_pointer
  BY <1>10, PointerFrames
<1>11. CASE UNCHANGED vars
  BY <1>11, <1>a, FramesUntouched DEF vars
<1> QED
  BY <1>1, <1>2, <1>3, <1>4, <1>5, <1>6, <1>7, <1>8, <1>9, <1>10, <1>11 DEF Next

-----------------------------------------------------------------------------
(* Capture: without an overrun the client is given every frame.            *)

CaptureType ==
  /\ cap_read_offset \in [Bufs -> Nat] /\ cap_write_offset \in [Bufs -> Nat]
  /\ cap_read_buf_idx \in Bufs /\ cap_write_buf_idx \in Bufs
  /\ write_in_progress \in [Bufs -> BOOLEAN]
  /\ samples \in [Bufs -> [1..CaptureThreshold -> Int]]
  /\ captured \in Nat /\ copied \in Nat /\ ready \in Nat
  /\ delivered \in Seq(Int)

(* A buffer that was announced and is not used up; the buffers by age; the *)
(* frames of the write buffer that have been copied.                       *)
Held(b) == cap_write_offset[b] > 0 /\ ~write_in_progress[b]
HeldCount == (IF Held(0) THEN 1 ELSE 0) + (IF Held(1) THEN 1 ELSE 0)
Writing == cap_write_buf_idx
Filled == Other(cap_write_buf_idx)
Partial == IF write_in_progress[Writing] THEN cap_write_offset[Writing] + copied ELSE 0

(* Where the server is determines what the write buffer may be. *)
ServerPlace ==
  /\ server \in {"capture", "copy", "update", "wake"}
  /\ ~write_in_progress[Filled]
  /\ server \in {"copy", "update"} => write_in_progress[Writing]
  /\ copied # 0 => server = "update"
  /\ Partial <= CaptureThreshold
  /\ \A b \in Bufs : Held(b) => cap_write_offset[b] = CaptureThreshold

(* The client reads the oldest buffer, which it was told of. *)
ClientPlace ==
  /\ Held(Writing) => Held(Filled)
  /\ cap_read_buf_idx = IF Held(Filled) /\ ~Held(Writing) THEN Filled ELSE Writing
  /\ ready + (IF cap_client \in {"callback", "close"} THEN 1 ELSE 0) <= HeldCount
  /\ cap_read_offset[Other(cap_read_buf_idx)] = 0
  /\ cap_read_offset[cap_read_buf_idx] > 0 => Held(cap_read_buf_idx)
  /\ cap_read_offset[cap_read_buf_idx] <= CaptureThreshold
  /\ cap_client = "callback" => cap_read_offset[cap_read_buf_idx] = 0
  /\ cap_read_offset[cap_read_buf_idx] = CaptureThreshold <=> cap_client = "close"

(* The number of the first frame in the write buffer, the filled one and   *)
(* the one that is read, and what the buffers hold.                        *)
FirstFrame(b) ==
  IF b = Filled THEN captured - Partial - CaptureThreshold
  ELSE IF Held(b) THEN captured - 2 * CaptureThreshold
  ELSE captured - Partial

BuffersHold ==
  /\ \A b \in Bufs : Held(b) =>
       \A i \in 1..CaptureThreshold : samples[b][i] = FirstFrame(b) + i - 1
  /\ \A i \in 1..Partial : samples[Writing][i] = FirstFrame(Writing) + i - 1

InOrder ==
  /\ Len(delivered) = FirstFrame(cap_read_buf_idx) + cap_read_offset[cap_read_buf_idx]
  /\ \A i \in 1..Len(delivered) : delivered[i] = i - 1

CaptureGood == CaptureType /\ ServerPlace /\ ClientPlace /\ BuffersHold /\ InOrder

CaptureInv == num_overruns \in Nat /\ (num_overruns = 0 => CaptureGood)

LEMMA InitCaptureInv == Capture!Init => CaptureInv
<1> SUFFICES ASSUME Capture!Init PROVE CaptureInv
  OBVIOUS
<1> USE CaptureAssumption DEF Capture!Init, Bufs, Capture!Bufs, Other
<1>1. CaptureType
  BY DEF CaptureType, Capture!Cleared, Capture!Silence
<1>2. /\ ~Held(0) /\ ~Held(1) /\ HeldCount = 0 /\ Writing = 0 /\ Filled = 1 /\ Partial = 0
      /\ FirstFrame(0) = 0
  BY DEF Held, HeldCount, Writing, Filled, Partial, FirstFrame
<1>3. ServerPlace
  BY <1>2 DEF ServerPlace
<1>4. ClientPlace
  BY <1>2 DEF ClientPlace
<1>5. BuffersHold /\ InOrder
  BY <1>2 DEF BuffersHold, InOrder
<1> QED BY <1>1, <1>3, <1>4, <1>5 DEF CaptureInv, CaptureGood

(* A step that leaves the memory and the client alone. *)
LEMMA CaptureUntouched ==
  ASSUME CaptureGood, ServerPlace',
         UNCHANGED <<cap_read_offset, cap_write_offset, cap_read_buf_idx, cap_write_buf_idx,
                     write_in_progress, samples, captured, copied, delivered>>,
         ready' \in Nat,
         (cap_client \in {"callback", "close"} => cap_read_offset[cap_read_buf_idx] = 0 /\ cap_client = "callback")',
         (ready + (IF cap_client \in {"callback", "close"} THEN 1 ELSE 0) <= HeldCount)',
         cap_client # "close"
  PROVE  CaptureGood'
<1> USE DEF CaptureGood
<1>1. /\ HeldCount' = HeldCount /\ Writing' = Writing /\ Filled' = Filled
      /\ Partial' = Partial /\ \A b \in Bufs : FirstFrame(b)' = FirstFrame(b) /\ Held(b)' = Held(b)
  BY DEF HeldCount, Held, Writing, Filled, Partial, FirstFrame, Bufs
<1>2. CaptureType'
  BY DEF CaptureType
<1>3. ClientPlace'
  BY <1>1, CaptureAssumption DEF ClientPlace, CaptureType, Writing, Filled, Other, Bufs
<1>4. BuffersHold' /\ InOrder'
  BY <1>1 DEF BuffersHold, InOrder, CaptureType, Writing
<1> QED BY <1>2, <1>3, <1>4

(* The check for an overrun clears only an empty buffer, or counts. *)
LEMMA OverrunCounted ==
  ASSUME CaptureInv, Capture!cras_shm_check_write_overrun
  PROVE  /\ num_overruns' \in Nat
         /\ num_overruns' = 0 =>
              /\ CaptureGood
              /\ write_in_progress' = [write_in_progress EXCEPT ![Writing] = TRUE]
              /\ UNCHANGED cap_write_offset
              /\ ~write_in_progress[Writing] => cap_write_offset[Writing] = 0
              /\ \A b \in Bufs : b # Writing => samples'[b] = samples[b]
              /\ write_in_progress[Writing] => samples' = samples
              /\ samples' \in [Bufs -> [1..CaptureThreshold -> Int]]
<1>1. num_overruns' \in Nat /\ (num_overruns' = 0 => num_overruns = 0)
  BY DEF CaptureInv, Capture!cras_shm_check_write_overrun
<1> SUFFICES ASSUME num_overruns' = 0
             PROVE  /\ CaptureGood
                    /\ write_in_progress' = [write_in_progress EXCEPT ![Writing] = TRUE]
                    /\ UNCHANGED cap_write_offset
                    /\ ~write_in_progress[Writing] => cap_write_offset[Writing] = 0
                    /\ \A b \in Bufs : b # Writing => samples'[b] = samples[b]
                    /\ write_in_progress[Writing] => samples' = samples
                    /\ samples' \in [Bufs -> [1..CaptureThreshold -> Int]]
  BY <1>1
<1>2. CaptureGood /\ num_overruns = 0
  BY <1>1 DEF CaptureInv
<1>3. /\ write_in_progress \in [Bufs -> BOOLEAN] /\ cap_write_offset \in [Bufs -> Nat]
      /\ samples \in [Bufs -> [1..CaptureThreshold -> Int]] /\ Writing \in Bufs
      /\ Writing = cap_write_buf_idx
  BY <1>2 DEF CaptureGood, CaptureType, Writing
<1>4. CASE write_in_progress[Writing]
  <2>1. UNCHANGED <<num_overruns, samples, write_in_progress, cap_write_offset>>
    BY <1>3, <1>4 DEF Capture!cras_shm_check_write_overrun
  <2>2. write_in_progress = [write_in_progress EXCEPT ![Writing] = TRUE]
    BY <1>3, <1>4, Zenon
  <2> QED BY <1>2, <1>3, <1>4, <2>1, <2>2
<1>5. CASE ~write_in_progress[Writing]
  <2>1. /\ num_overruns' = (IF cap_write_offset[Writing] # 0 THEN num_overruns + 1 ELSE num_overruns)
        /\ samples' = [samples EXCEPT ![Writing] = Capture!Cleared]
        /\ write_in_progress' = [write_in_progress EXCEPT ![Writing] = TRUE]
        /\ cap_write_offset' = [cap_write_offset EXCEPT ![Writing] = 0]
    BY <1>3, <1>5 DEF Capture!cras_shm_check_write_overrun
  <2>2. cap_write_offset[Writing] = 0
    BY <1>2, <1>3, <2>1
  <2>3. UNCHANGED cap_write_offset
    BY <1>3, <2>1, <2>2
  <2>4. samples' \in [Bufs -> [1..CaptureThreshold -> Int]]
    BY <1>3, <2>1 DEF Capture!Cleared, Capture!Silence
  <2> QED BY <1>2, <1>3, <1>5, <2>1, <2>2, <2>3, <2>4
<1> QED BY <1>4, <1>5

LEMMA CheckCapture ==
  ASSUME CaptureInv, Capture!capture_to_streams \/ Capture!set_input_dev_wake_ts
  PROVE  CaptureInv'
<1>1. /\ Capture!cras_shm_check_write_overrun
      /\ UNCHANGED <<cap_read_offset, cap_read_buf_idx, cap_write_buf_idx, captured, copied, ready,
                     cap_client, delivered>>
      /\ server \in {"capture", "wake"} /\ server' \in {"copy", "capture"}
  BY DEF Capture!capture_to_streams, Capture!set_input_dev_wake_ts
<1>2. num_overruns' \in Nat
  BY <1>1, OverrunCounted
<1> SUFFICES ASSUME num_overruns' = 0 PROVE CaptureGood'
  BY <1>2 DEF CaptureInv
<1>3. /\ CaptureGood
      /\ write_in_progress' = [write_in_progress EXCEPT ![Writing] = TRUE]
      /\ UNCHANGED cap_write_offset
      /\ ~write_in_progress[Writing] => cap_write_offset[Writing] = 0
      /\ \A b \in Bufs : b # Writing => samples'[b] = samples[b]
      /\ write_in_progress[Writing] => samples' = samples
      /\ samples' \in [Bufs -> [1..CaptureThreshold -> Int]]
  BY <1>1, OverrunCounted
<1> USE DEF CaptureGood
<1>4. /\ write_in_progress \in [Bufs -> BOOLEAN] /\ cap_write_offset \in [Bufs -> Nat]
      /\ Writing \in Bufs /\ Filled \in Bufs /\ Writing # Filled /\ copied = 0
      /\ Writing' = Writing /\ Filled' = Filled /\ Bufs = {Writing, Filled}
  BY <1>1, <1>3 DEF CaptureType, ServerPlace, Writing, Filled, Other, Bufs
<1>5. /\ write_in_progress' \in [Bufs -> BOOLEAN] /\ write_in_progress'[Writing]
      /\ write_in_progress'[Filled] = write_in_progress[Filled]
  BY <1>3, <1>4
<1>6. \A b \in Bufs : Held(b)' <=> Held(b)
  BY <1>3, <1>4, <1>5 DEF Held
<1>7. Partial' = Partial /\ HeldCount' = HeldCount
  BY <1>1, <1>3, <1>4, <1>5, <1>6 DEF Partial, HeldCount, Bufs
<1>8. \A b \in Bufs : FirstFrame(b)' = FirstFrame(b)
  BY <1>1, <1>4, <1>6, <1>7 DEF FirstFrame
<1>9. CaptureType'
  BY <1>1, <1>3, <1>5 DEF CaptureType
<1>10. ServerPlace'
  BY <1>1, <1>3, <1>4, <1>5, <1>6, <1>7 DEF ServerPlace
<1>11. ClientPlace'
  BY <1>1, <1>3, <1>4, <1>6, <1>7 DEF ClientPlace, CaptureType
<1>12. BuffersHold'
  <2>1. ~write_in_progress[Writing] => Partial = 0 /\ ~Held(Writing)
    BY <1>3, <1>4 DEF Partial, Held
  <2>2. ASSUME NEW b \in Bufs, Held(b)
        PROVE  \A i \in 1..CaptureThreshold : samples'[b][i] = FirstFrame(b) + i - 1
    <3>1. samples'[b] = samples[b]
      BY <1>3, <2>1, <2>2
    <3> QED BY <1>3, <2>2, <3>1 DEF BuffersHold
  <2>3. \A i \in 1..Partial : samples'[Writing][i] = FirstFrame(Writing) + i - 1
    <3>1. CASE write_in_progress[Writing]
      BY <1>3, <3>1 DEF BuffersHold
    <3>2. CASE ~write_in_progress[Writing]
      BY <2>1, <3>2
    <3> QED BY <3>1, <3>2
  <2> QED BY <1>4, <1>6, <1>7, <1>8, <2>2, <2>3 DEF BuffersHold
<1>13. InOrder'
  BY <1>1, <1>3, <1>8 DEF InOrder, CaptureType
<1> QED BY <1>9, <1>10, <1>11, <1>12, <1>13

(* The frames are copied behind those already in the write buffer. *)
LEMMA CopyCapture ==
  ASSUME CaptureInv, NEW n \in 0..CaptureThreshold, Capture!dev_stream_capture(n)
  PROVE  CaptureInv'
<1> SUFFICES ASSUME num_overruns = 0 PROVE CaptureGood'
  BY DEF CaptureInv, Capture!dev_stream_capture
<1> USE DEF CaptureGood
<1>0. CaptureGood
  BY DEF CaptureInv
<1> DEFINE at == cap_write_offset[Writing]
           held == samples[Writing]
           now == [i \in 1..CaptureThreshold |->
                     IF i \in at + 1 .. at + n THEN captured + i - at - 1 ELSE held[i]]
<1>1. /\ server = "copy" /\ server' = "update" /\ n <= CaptureThreshold - at
      /\ samples' = [samples EXCEPT ![Writing] = now]
      /\ captured' = captured + n /\ copied' = n
      /\ UNCHANGED <<cap_read_offset, cap_write_offset, cap_read_buf_idx, cap_write_buf_idx,
                     write_in_progress, ready, cap_client, delivered>>
  BY DEF Capture!dev_stream_capture, Writing
<1>2. /\ write_in_progress \in [Bufs -> BOOLEAN] /\ cap_write_offset \in [Bufs -> Nat]
      /\ samples \in [Bufs -> [1..CaptureThreshold -> Int]] /\ captured \in Nat /\ n \in Nat
      /\ Writing \in Bufs /\ Filled \in Bufs /\ Writing # Filled /\ copied = 0
      /\ Writing' = Writing /\ Filled' = Filled /\ write_in_progress[Writing]
      /\ CaptureThreshold \in Nat
  BY <1>0, <1>1, CaptureAssumption DEF CaptureType, ServerPlace, Writing, Filled, Other, Bufs
<1>3. /\ Partial = at /\ Partial' = at + n /\ HeldCount' = HeldCount
      /\ \A b \in Bufs : Held(b)' <=> Held(b)
  BY <1>1, <1>2 DEF Partial, Held, HeldCount, Bufs
<1>4. \A b \in Bufs : FirstFrame(b)' = FirstFrame(b)
  <2>1. ~Held(Writing)
    BY <1>2 DEF Held
  <2>2. Bufs = {Writing, Filled}
    BY <1>2 DEF Bufs
  <2>3. captured' - Partial' = captured - Partial
    BY <1>1, <1>2, <1>3
  <2>4. /\ FirstFrame(Filled) = captured - Partial - CaptureThreshold
        /\ FirstFrame(Writing) = captured - Partial
        /\ FirstFrame(Filled)' = captured' - Partial' - CaptureThreshold
        /\ FirstFrame(Writing)' = captured' - Partial'
    BY <1>2, <1>3, <2>1 DEF FirstFrame
  <2> QED
    <3> TAKE b \in Bufs
    <3>1. CASE b = Writing
      BY <1>2, <2>3, <2>4, <3>1
    <3>2. CASE b = Filled
      BY <1>2, <2>3, <2>4, <3>2
    <3> QED BY <2>2, <3>1, <3>2
<1>a. /\ now \in [1..CaptureThreshold -> Int] /\ samples'[Writing] = now
      /\ samples'[Filled] = samples[Filled]
  <2>1. held \in [1..CaptureThreshold -> Int] /\ at \in Int
    BY <1>2
  <2>2. now \in [1..CaptureThreshold -> Int]
    <3> HIDE DEF held, at
    <3> QED BY <1>2, <2>1
  <2> HIDE DEF now
  <2> QED BY <1>1, <1>2, <2>2
<1>5. CaptureType'
  BY <1>0, <1>1, <1>2, <1>a DEF CaptureType
<1>6. ServerPlace'
  BY <1>0, <1>1, <1>2, <1>3 DEF ServerPlace
<1>7. ClientPlace'
  BY <1>0, <1>1, <1>2, <1>3 DEF ClientPlace, CaptureType
<1>8. BuffersHold'
  <2>1. \A b \in Bufs : Held(b) => b = Filled
    BY <1>2 DEF Held, Bufs
  <2>2. FirstFrame(Writing) = captured - at
    BY <1>2, <1>3 DEF FirstFrame, Held
  <2>3. \A i \in 1..(at + n) : now[i] = captured - at + i - 1
    <3> TAKE i \in 1..(at + n)
    <3>0. at \in Nat /\ i \in 1..CaptureThreshold /\ i \in Int
      BY <1>1, <1>2
    <3> HIDE DEF at
    <3>a. now[i] = IF i \in at + 1 .. at + n THEN captured + i - at - 1 ELSE held[i]
      BY <3>0
    <3>1. CASE i <= at
      <4>1. i \in 1..Partial /\ ~(i \in at + 1 .. at + n)
        BY <1>2, <1>3, <3>0, <3>1
      <4>2. held[i] = captured - at + i - 1
        BY <1>0, <2>2, <4>1 DEF BuffersHold
      <4> QED BY <3>a, <4>1, <4>2
    <3>2. CASE i > at
      <4>1. i \in at + 1 .. at + n
        BY <1>2, <3>0, <3>2
      <4>2. captured + i - at - 1 = captured - at + i - 1
        BY <1>2, <3>0
      <4> QED BY <3>a, <4>1, <4>2
    <3> QED BY <3>0, <3>1, <3>2
  <2> HIDE DEF now
  <2> QED BY <1>0, <1>2, <1>3, <1>4, <1>a, <2>1, <2>2, <2>3 DEF BuffersHold
<1>9. InOrder'
  BY <1>0, <1>1, <1>4 DEF InOrder, CaptureType
<1> QED BY <1>5, <1>6, <1>7, <1>8, <1>9

(* The frames copied are shown, and a full buffer may be announced. *)
LEMMA UpdateCapture ==
  ASSUME CaptureInv, Capture!dev_stream_capture_update_rstream
  PROVE  CaptureInv'
<1> SUFFICES ASSUME num_overruns = 0 PROVE CaptureGood'
  BY DEF CaptureInv, Capture!dev_stream_capture_update_rstream
<1> USE DEF CaptureGood
<1>0. CaptureGood
  BY DEF CaptureInv
<1> DEFINE level == cap_write_offset[Writing] + copied
<1>1. /\ server = "update" /\ server' = "wake" /\ copied' = 0
      /\ cap_write_offset' = [cap_write_offset EXCEPT ![Writing] = level]
      /\ cap_read_offset' = (IF copied = 0 THEN cap_read_offset
                             ELSE [cap_read_offset EXCEPT ![Writing] = 0])
      /\ UNCHANGED <<cap_read_buf_idx, samples, captured, cap_client, delivered>>
  BY DEF Capture!dev_stream_capture_update_rstream, Writing
<1>2. /\ write_in_progress \in [Bufs -> BOOLEAN] /\ cap_write_offset \in [Bufs -> Nat]
      /\ cap_read_offset \in [Bufs -> Nat] /\ cap_read_buf_idx \in Bufs
      /\ captured \in Nat /\ copied \in Nat /\ ready \in Nat
      /\ Writing \in Bufs /\ Filled \in Bufs /\ Writing # Filled /\ Bufs = {Writing, Filled}
      /\ write_in_progress[Writing] /\ ~write_in_progress[Filled]
      /\ CaptureThreshold \in Nat \ {0}
  BY <1>0, <1>1, CaptureAssumption DEF CaptureType, ServerPlace, Writing, Filled, Other, Bufs
<1>3. /\ Partial = level /\ level \in Nat /\ level <= CaptureThreshold /\ ~Held(Writing)
  BY <1>0, <1>2 DEF Partial, ServerPlace, Held
<1>4. cap_read_offset[Writing] = 0
  BY <1>0, <1>2, <1>3 DEF ClientPlace, Other, Bufs
<1>5. cap_read_offset' = cap_read_offset
  BY <1>1, <1>2, <1>4
<1>6. /\ cap_write_offset' \in [Bufs -> Nat] /\ cap_write_offset'[Writing] = level
      /\ cap_write_offset'[Filled] = cap_write_offset[Filled]
  BY <1>1, <1>2, <1>3
<1> HIDE DEF level
<1>7. CASE UNCHANGED <<write_in_progress, cap_write_buf_idx, ready>>
  <2>1. /\ Writing' = Writing /\ Filled' = Filled /\ Partial' = Partial
        /\ \A b \in Bufs : Held(b)' <=> Held(b)
    BY <1>1, <1>2, <1>3, <1>6, <1>7 DEF Writing, Filled, Partial, Held
  <2>2. HeldCount' = HeldCount
    BY <2>1 DEF HeldCount, Bufs
  <2>3. \A b \in Bufs : FirstFrame(b)' = FirstFrame(b)
    BY <1>1, <2>1 DEF FirstFrame
  <2>4. CaptureType'
    BY <1>0, <1>1, <1>2, <1>5, <1>6, <1>7 DEF CaptureType
  <2>5. ServerPlace'
    BY <1>0, <1>1, <1>2, <1>3, <1>6, <1>7, <2>1 DEF ServerPlace
  <2>6. ClientPlace'
    BY <1>0, <1>1, <1>5, <1>7, <2>1, <2>2, <1>2 DEF ClientPlace
  <2>7. BuffersHold' /\ InOrder'
    BY <1>0, <1>1, <1>2, <1>5, <2>1, <2>3 DEF BuffersHold, InOrder
  <2> QED BY <2>4, <2>5, <2>6, <2>7
<1>8. CASE /\ level >= CaptureThreshold
           /\ write_in_progress' = [write_in_progress EXCEPT ![Writing] = FALSE]
           /\ cap_write_buf_idx' = Other(Writing)
           /\ ready' = ready + 1
  <2>0. level = CaptureThreshold
    BY <1>2, <1>3, <1>8
  <2>1. /\ Writing' = Filled /\ Filled' = Writing
        /\ write_in_progress' \in [Bufs -> BOOLEAN]
        /\ ~write_in_progress'[Writing] /\ ~write_in_progress'[Filled]
    BY <1>2, <1>8 DEF Writing, Filled, Other, Bufs
  <2>2. Partial' = 0
    BY <2>1 DEF Partial
  <2>a. \A b \in Bufs : Held(b)' <=> (b = Writing \/ Held(b))
    BY <1>2, <1>6, <2>0, <2>1 DEF Held
  <2>3. HeldCount' = HeldCount + 1
    <3>1. CASE Writing = 0
      <4>1. Held(0)' /\ ~Held(0) /\ (Held(1)' <=> Held(1))
        BY <1>2, <1>3, <2>a, <3>1 DEF Bufs
      <4> QED BY <4>1 DEF HeldCount
    <3>2. CASE Writing = 1
      <4>1. Held(1)' /\ ~Held(1) /\ (Held(0)' <=> Held(0))
        BY <1>2, <1>3, <2>a, <3>2 DEF Bufs
      <4> QED BY <4>1 DEF HeldCount
    <3> QED BY <1>2, <3>1, <3>2 DEF Bufs
  <2>4. /\ FirstFrame(Writing) = captured - CaptureThreshold
        /\ FirstFrame(Filled) = captured - 2 * CaptureThreshold
    BY <1>2, <1>3, <2>0 DEF FirstFrame
  <2>5. \A b \in Bufs : b # Writing => (FirstFrame(b)' = IF Held(b) THEN captured - 2 * CaptureThreshold
                                                       ELSE captured)
    BY <1>1, <1>2, <2>1, <2>2, <2>a DEF FirstFrame
  <2>6. \A b \in Bufs : b = Writing => FirstFrame(b)' = captured - CaptureThreshold
    BY <1>1, <1>2, <2>1, <2>2 DEF FirstFrame
  <2>7. CaptureType'
    BY <1>0, <1>1, <1>2, <1>5, <1>6, <1>8, <2>1 DEF CaptureType, Writing, Filled
  <2>8. ServerPlace'
    BY <1>0, <1>1, <1>2, <1>6, <2>0, <2>1, <2>2, <2>a DEF ServerPlace
  <2>9. ClientPlace'
    <3>1. /\ (Held(Writing) => Held(Filled))'
          /\ (cap_read_buf_idx = IF Held(Filled) /\ ~Held(Writing) THEN Filled ELSE Writing)'
      <4>1. (Held(Writing))' <=> Held(Filled)
        BY <1>2, <2>1, <2>a DEF Held
      <4>2. (Held(Filled))'
        BY <1>2, <2>1, <2>a DEF Held
      <4> QED BY <1>0, <1>1, <1>3, <2>1, <4>1, <4>2 DEF ClientPlace
    <3>2. (ready + (IF cap_client \in {"callback", "close"} THEN 1 ELSE 0) <= HeldCount)'
      BY <1>0, <1>1, <1>2, <1>8, <2>3 DEF ClientPlace, HeldCount
    <3>3. Held(cap_read_buf_idx) => (Held(cap_read_buf_idx))'
      BY <1>1, <1>2, <2>a DEF Held
    <3> QED BY <1>0, <1>1, <1>5, <3>1, <3>2, <3>3 DEF ClientPlace
  <2>10. BuffersHold'
    <3>1. \A i \in 1..CaptureThreshold : samples[Writing][i] = FirstFrame(Writing) + i - 1
      BY <1>0, <1>3, <2>0 DEF BuffersHold
    <3>2. Held(Filled) => \A i \in 1..CaptureThreshold : samples[Filled][i] = FirstFrame(Filled) + i - 1
      BY <1>0, <1>2 DEF BuffersHold
    <3>3. ASSUME NEW b \in Bufs, Held(b)', NEW i \in 1..CaptureThreshold
          PROVE  samples'[b][i] = FirstFrame(b)' + i - 1
      <4>1. CASE b = Writing
        BY <1>1, <2>4, <2>6, <3>1, <4>1
      <4>2. CASE b = Filled
        BY <1>1, <1>2, <2>a, <2>4, <2>5, <3>2, <3>3, <4>2
      <4> QED BY <1>2, <4>1, <4>2
    <3> QED BY <2>2, <3>3 DEF BuffersHold
  <2>11. InOrder'
    <3>1. FirstFrame(cap_read_buf_idx)' = FirstFrame(cap_read_buf_idx)
      <4>1. CASE cap_read_buf_idx = Writing
        BY <1>1, <1>2, <2>4, <2>6, <4>1
      <4>2. CASE cap_read_buf_idx = Filled
        <5>1. Held(Filled)
          BY <1>0, <1>2, <4>2 DEF ClientPlace
        <5> QED BY <1>1, <1>2, <2>4, <2>5, <4>2, <5>1
      <4> QED BY <1>2, <4>1, <4>2
    <3> QED BY <1>0, <1>1, <1>5, <3>1 DEF InOrder
  <2> QED BY <2>7, <2>8, <2>9, <2>10, <2>11
<1> QED
  BY <1>7, <1>8 DEF Capture!dev_stream_capture_update_rstream, Writing, level, Capture!Other, Other

(* The callback takes the frames of the oldest buffer. *)
LEMMA CallbackCapture ==
  ASSUME CaptureInv, NEW n \in 1..CaptureThreshold, Capture!aud_cb(n)
  PROVE  CaptureInv'
<1> SUFFICES ASSUME num_overruns = 0 PROVE CaptureGood'
  BY DEF CaptureInv, Capture!aud_cb
<1> USE DEF CaptureGood
<1>0. CaptureGood
  BY DEF CaptureInv
<1> DEFINE rd == cap_read_buf_idx
           taken == SubSeq(samples[rd], 1, n)
<1>1. /\ cap_client = "callback" /\ delivered' = delivered \o taken
      /\ cap_read_offset' = [cap_read_offset EXCEPT ![rd] = @ + n]
      /\ cap_client' = (IF cap_read_offset'[rd] >= cap_write_offset[rd] THEN "close" ELSE "reply")
      /\ UNCHANGED <<cap_write_offset, cap_read_buf_idx, cap_write_buf_idx, write_in_progress,
                     samples, captured, copied, server, ready>>
  BY DEF Capture!aud_cb
<1>2. /\ rd \in Bufs /\ cap_read_offset \in [Bufs -> Nat] /\ cap_write_offset \in [Bufs -> Nat]
      /\ samples \in [Bufs -> [1..CaptureThreshold -> Int]] /\ delivered \in Seq(Int)
      /\ n \in Nat \ {0} /\ n <= CaptureThreshold /\ CaptureThreshold \in Nat \ {0}
      /\ cap_read_offset[rd] = 0
  <2>1. /\ rd \in Bufs /\ cap_read_offset \in [Bufs -> Nat] /\ cap_write_offset \in [Bufs -> Nat]
        /\ samples \in [Bufs -> [1..CaptureThreshold -> Int]] /\ delivered \in Seq(Int)
    BY <1>0 DEF CaptureType
  <2>2. n \in Nat \ {0} /\ n <= CaptureThreshold /\ CaptureThreshold \in Nat \ {0}
    BY CaptureAssumption
  <2>3. cap_read_offset[rd] = 0
    BY <1>0, <1>1 DEF ClientPlace
  <2> QED BY <2>1, <2>2, <2>3
<1>3. /\ HeldCount' = HeldCount /\ Writing' = Writing /\ Filled' = Filled
      /\ Partial' = Partial /\ \A b \in Bufs : FirstFrame(b)' = FirstFrame(b) /\ Held(b)' = Held(b)
  BY <1>1 DEF HeldCount, Held, Writing, Filled, Partial, FirstFrame, Bufs
<1>4. Held(rd) /\ cap_write_offset[rd] = CaptureThreshold
  <2>1. HeldCount >= 1
    BY <1>0, <1>1 DEF ClientPlace, CaptureType, HeldCount
  <2>2. Held(0) \/ Held(1)
    BY <2>1 DEF HeldCount
  <2>3. Held(rd)
    BY <1>0, <2>2 DEF ClientPlace, CaptureType, Writing, Filled, Other, Bufs
  <2> QED BY <1>0, <1>2, <2>3 DEF ServerPlace
<1>5. /\ cap_read_offset' \in [Bufs -> Nat] /\ cap_read_offset'[rd] = n
      /\ cap_read_offset'[Other(rd)] = cap_read_offset[Other(rd)]
      /\ cap_client' = (IF n = CaptureThreshold THEN "close" ELSE "reply")
  BY <1>1, <1>2, <1>4 DEF Other, Bufs
<1>6. /\ taken \in Seq(Int) /\ Len(taken) = n /\ \A i \in 1..n : taken[i] = samples[rd][i]
  <2> DEFINE s == samples[rd]
  <2>1. s \in [1..CaptureThreshold -> Int]
    BY <1>2
  <2> HIDE DEF s
  <2>2. s \in Seq(Int) /\ Len(s) = CaptureThreshold
    BY <1>2, <2>1
  <2> QED BY <1>2, <2>2 DEF s
<1>7. CaptureType'
  BY <1>0, <1>1, <1>2, <1>5, <1>6 DEF CaptureType
<1>8. ServerPlace'
  BY <1>0, <1>1, <1>3 DEF ServerPlace
<1>9. ClientPlace'
  <2>1. (ready + (IF cap_client \in {"callback", "close"} THEN 1 ELSE 0) <= HeldCount)'
    BY <1>0, <1>1, <1>3, <1>5 DEF ClientPlace, CaptureType, HeldCount
  <2>2. Held(cap_read_buf_idx)'
    BY <1>1, <1>2, <1>3, <1>4 DEF Held
  <2>3. /\ (Held(Writing) => Held(Filled))'
        /\ (cap_read_buf_idx = IF Held(Filled) /\ ~Held(Writing) THEN Filled ELSE Writing)'
    BY <1>0, <1>1 DEF ClientPlace, Held, Writing, Filled
  <2> QED BY <1>0, <1>1, <1>2, <1>5, <2>1, <2>2, <2>3 DEF ClientPlace
<1>10. BuffersHold'
  <2>1. FirstFrame(Writing)' = FirstFrame(Writing)
    BY <1>1 DEF FirstFrame, Writing, Filled, Partial, Held
  <2>2. BuffersHold
    BY <1>0
  <2> QED BY ONLY <1>1, <1>3, <2>1, <2>2 DEF BuffersHold
<1>11. InOrder'
  <2> DEFINE D == Len(delivered)
  <2>0. FirstFrame(rd) \in Int
    <3>1. captured \in Nat /\ Partial \in Nat
      BY <1>0 DEF CaptureType, Partial, Writing
    <3> QED BY <1>2, <3>1 DEF FirstFrame
  <2>1. D \in Nat /\ D = FirstFrame(rd)
    BY <1>0, <1>2, <2>0 DEF InOrder
  <2>2. \A i \in 1..n : taken[i] = D + i - 1
    BY <1>0, <1>2, <1>4, <1>6, <2>1 DEF BuffersHold
  <2>3. \A i \in 1..D : delivered[i] = i - 1
    BY <1>0 DEF InOrder
  <2> HIDE DEF taken
  <2>4. /\ Len(delivered') = D + n
        /\ \A i \in 1..(D + n) : delivered'[i] = IF i <= D THEN delivered[i] ELSE taken[i - D]
    BY <1>1, <1>2, <1>6, ConcatElements
  <2>5. \A i \in 1..(D + n) : delivered'[i] = i - 1
    <3> HIDE DEF D
    <3> TAKE i \in 1..(D + n)
    <3>0. i \in Int /\ i >= 1 /\ i <= D + n /\ D \in Nat
      BY <1>2, <2>1
    <3>a. delivered'[i] = IF i <= D THEN delivered[i] ELSE taken[i - D]
      BY ONLY <2>4, i \in 1..(D + n)
    <3>1. CASE i <= D
      <4>1. i \in 1..D
        BY ONLY <3>0, <3>1
      <4> QED BY ONLY <2>3, <3>1, <3>a, <4>1
    <3>2. CASE ~(i <= D)
      <4>1. i - D \in 1..n
        BY ONLY <1>2, <3>0, <3>2
      <4>2. taken[i - D] = D + (i - D) - 1
        BY ONLY <2>2, <4>1
      <4>3. D + (i - D) - 1 = i - 1
        BY ONLY <3>0
      <4> QED BY ONLY <3>2, <3>a, <4>2, <4>3
    <3> QED BY <3>1, <3>2
  <2>6. FirstFrame(cap_read_buf_idx)' = FirstFrame(rd) /\ cap_read_offset'[cap_read_buf_idx'] = n
    BY <1>1, <1>2, <1>3, <1>5
  <2> HIDE DEF D
  <2> QED BY <2>1, <2>4, <2>5, <2>6 DEF InOrder
<1> QED BY <1>7, <1>8, <1>9, <1>10, <1>11

(* A buffer that is used up is given back. *)
LEMMA CloseCapture ==
  ASSUME CaptureInv, Capture!cras_shm_buffer_read_current
  PROVE  CaptureInv'
<1> SUFFICES ASSUME num_overruns = 0 PROVE CaptureGood'
  BY DEF CaptureInv, Capture!cras_shm_buffer_read_current
<1> USE DEF CaptureGood
<1>0. CaptureGood
  BY DEF CaptureInv
<1> DEFINE rd == cap_read_buf_idx
<1>1. /\ cap_client = "close" /\ cap_client' = "reply"
      /\ cap_read_offset' = [cap_read_offset EXCEPT ![rd] = 0]
      /\ cap_write_offset' = [cap_write_offset EXCEPT ![rd] = 0]
      /\ cap_read_buf_idx' = Other(rd)
      /\ UNCHANGED <<cap_write_buf_idx, write_in_progress, samples, captured, copied, server,
                     ready, delivered>>
  BY DEF Capture!cras_shm_buffer_read_current, Capture!Other, Other
<1>2. /\ rd \in Bufs /\ Other(rd) \in Bufs /\ Other(rd) # rd /\ Other(Other(rd)) = rd
      /\ cap_read_offset \in [Bufs -> Nat] /\ cap_write_offset \in [Bufs -> Nat]
      /\ write_in_progress \in [Bufs -> BOOLEAN] /\ captured \in Nat /\ copied \in Nat
      /\ CaptureThreshold \in Nat \ {0} /\ cap_read_offset[rd] = CaptureThreshold
      /\ cap_read_offset[Other(rd)] = 0 /\ ready \in Nat
      /\ Writing \in Bufs /\ Filled \in Bufs /\ Writing # Filled /\ Bufs = {Writing, Filled}
      /\ Writing' = Writing /\ Filled' = Filled
  BY <1>0, <1>1, CaptureAssumption DEF CaptureType, ClientPlace, Other, Bufs, Writing, Filled
<1>3. /\ Held(rd) /\ cap_write_offset[rd] = CaptureThreshold /\ ~write_in_progress[rd]
  BY <1>0, <1>2 DEF ClientPlace, ServerPlace, Held
<1>4. \A b \in Bufs : Held(b)' <=> (b # rd /\ Held(b))
  BY <1>1, <1>2 DEF Held
<1>5. HeldCount' = HeldCount - 1
  <2>1. CASE rd = 0
    <3>1. ~Held(0)' /\ Held(0) /\ (Held(1)' <=> Held(1))
      BY <1>2, <1>3, <1>4, <2>1 DEF Bufs
    <3> QED BY <3>1 DEF HeldCount
  <2>2. CASE rd = 1
    <3>1. ~Held(1)' /\ Held(1) /\ (Held(0)' <=> Held(0))
      BY <1>2, <1>3, <1>4, <2>2 DEF Bufs
    <3> QED BY <3>1 DEF HeldCount
  <2> QED BY <1>2, <2>1, <2>2 DEF Bufs
<1>6. Partial' = Partial /\ Partial \in Nat
  <2>1. CASE Writing = rd
    BY <1>1, <1>2, <1>3, <2>1 DEF Partial
  <2>2. CASE Writing # rd
    BY <1>1, <1>2, <2>2 DEF Partial
  <2> QED BY <2>1, <2>2
<1>7. FirstFrame(cap_read_buf_idx)' = FirstFrame(rd) + CaptureThreshold
  <2>1. CASE Writing = rd
    <3>1. Other(rd) = Filled /\ Partial = 0
      BY <1>2, <1>3, <2>1 DEF Filled, Writing, Partial
    <3> QED BY <1>1, <1>2, <1>3, <1>6, <2>1, <3>1 DEF FirstFrame
  <2>2. CASE Writing # rd
    <3>1. Other(rd) = Writing /\ rd = Filled
      BY <1>2, <2>2
    <3>2. ~Held(Writing)
      BY <1>0, <1>2, <3>1 DEF ClientPlace
    <3>3. ~(Held(Writing))'
      BY <1>2, <1>4, <3>2 DEF Held
    <3> QED BY <1>1, <1>2, <1>6, <3>1, <3>3 DEF FirstFrame
  <2> QED BY <2>1, <2>2
<1>8. CaptureType'
  BY <1>0, <1>1, <1>2 DEF CaptureType
<1>9. ServerPlace'
  <2>1. \A b \in Bufs : Held(b)' => cap_write_offset'[b] = CaptureThreshold
    BY <1>0, <1>1, <1>2, <1>4 DEF ServerPlace
  <2> QED BY <1>0, <1>1, <1>2, <1>6, <2>1 DEF ServerPlace
<1>10. ClientPlace'
  <2>1. (Held(Writing))' <=> (Writing # rd /\ Held(Writing))
    BY <1>2, <1>4 DEF Held
  <2>2. (Held(Filled))' <=> (Filled # rd /\ Held(Filled))
    BY <1>2, <1>4 DEF Held
  <2>3. /\ (Held(Writing) => Held(Filled))'
        /\ (cap_read_buf_idx = IF Held(Filled) /\ ~Held(Writing) THEN Filled ELSE Writing)'
    BY <1>0, <1>1, <1>2, <1>3, <2>1, <2>2 DEF ClientPlace
  <2>4. (ready + (IF cap_client \in {"callback", "close"} THEN 1 ELSE 0) <= HeldCount)'
    BY <1>0, <1>1, <1>2, <1>5 DEF ClientPlace, HeldCount
  <2>5. cap_read_offset'[rd] = 0 /\ cap_read_offset'[Other(rd)] = 0
    BY <1>1, <1>2
  <2> QED BY <1>1, <1>2, <2>3, <2>4, <2>5 DEF ClientPlace
<1>11. BuffersHold'
  <2>1. ASSUME NEW b \in Bufs, Held(b)' PROVE Held(b) /\ FirstFrame(b)' = FirstFrame(b)
    BY <1>1, <1>2, <1>4, <1>6, <2>1 DEF FirstFrame
  <2>2. Partial # 0 => FirstFrame(Writing)' = FirstFrame(Writing)
    <3>1. Partial # 0 => write_in_progress[Writing]
      BY DEF Partial
    <3> QED BY <1>1, <1>2, <1>6, <3>1 DEF FirstFrame, Held
  <2>3. \A i \in 1..Partial : samples'[Writing][i] = FirstFrame(Writing)' + i - 1
    BY <1>0, <1>1, <1>6, <2>2 DEF BuffersHold
  <2> QED BY <1>0, <1>1, <1>2, <1>6, <2>1, <2>3 DEF BuffersHold
<1>12. InOrder'
  <2>1. cap_read_offset'[cap_read_buf_idx'] = 0
    BY <1>1, <1>2
  <2> QED BY <1>0, <1>1, <1>2, <1>7, <2>1 DEF InOrder, FirstFrame
<1> QED BY <1>8, <1>9, <1>10, <1>11, <1>12

LEMMA NextCaptureInv ==
  ASSUME CaptureInv, [Capture!Next]_captureVars
  PROVE  CaptureInv'
<1>1. CASE Capture!capture_to_streams
  BY <1>1, CheckCapture
<1>2. ASSUME NEW n \in 0..CaptureThreshold, Capture!dev_stream_capture(n) PROVE CaptureInv'
  BY <1>2, CopyCapture
<1>3. CASE Capture!dev_stream_capture_update_rstream
  BY <1>3, UpdateCapture
<1>4. CASE Capture!set_input_dev_wake_ts
  BY <1>4, CheckCapture
<1>5. CASE Capture!handle_capture_data_ready
  <2> SUFFICES ASSUME num_overruns = 0 PROVE CaptureGood'
    BY <1>5 DEF CaptureInv, Capture!handle_capture_data_ready, Capture!shm
  <2>0. CaptureGood
    BY DEF CaptureInv
  <2>1. /\ cap_client = "idle" /\ ready > 0 /\ ready' = ready - 1
        /\ cap_client' = (IF Capture!cras_shm_get_curr_read_frames < CaptureThreshold
                          THEN "idle" ELSE "callback")
        /\ UNCHANGED <<cap_read_offset, cap_write_offset, cap_read_buf_idx, cap_write_buf_idx,
                       write_in_progress, samples, captured, copied, server, delivered>>
    BY <1>5 DEF Capture!handle_capture_data_ready, Capture!shm
  <2>2. /\ cap_read_offset[cap_read_buf_idx] \in Nat /\ cap_write_offset[cap_read_buf_idx] \in Nat
        /\ ready \in Nat /\ cap_read_buf_idx \in Bufs /\ CaptureThreshold \in Nat \ {0}
        /\ ready + 0 <= HeldCount /\ HeldCount \in Nat
    BY <2>0, <2>1, CaptureAssumption DEF CaptureGood, CaptureType, ClientPlace, HeldCount
  <2>3. Held(cap_read_buf_idx)
    <3>1. Held(0) \/ Held(1)
      BY <2>1, <2>2 DEF HeldCount
    <3> QED BY <2>0, <3>1 DEF CaptureGood, ClientPlace, CaptureType, Writing, Filled, Other, Bufs
  <2>4. cap_write_offset[cap_read_buf_idx] = CaptureThreshold
    BY <2>0, <2>2, <2>3 DEF CaptureGood, ServerPlace
  <2>5. cap_client' = "callback" => cap_read_offset[cap_read_buf_idx] = 0
    BY <2>1, <2>2, <2>4 DEF Capture!cras_shm_get_curr_read_frames
  <2>6. ServerPlace'
    BY <2>0, <2>1 DEF CaptureGood, ServerPlace, Held, Partial, Writing, Filled
  <2>7. (ready + (IF cap_client \in {"callback", "close"} THEN 1 ELSE 0) <= HeldCount)'
    BY <2>1, <2>2 DEF HeldCount, Held
  <2> QED BY <2>0, <2>1, <2>2, <2>5, <2>6, <2>7, CaptureUntouched
<1>6. ASSUME NEW n \in 1..CaptureThreshold, Capture!aud_cb(n) PROVE CaptureInv'
  BY <1>6, CallbackCapture
<1>7. CASE Capture!aud_cb_none \/ Capture!send_capture_reply
  <2> SUFFICES ASSUME num_overruns = 0 PROVE CaptureGood'
    BY <1>7 DEF CaptureInv, Capture!aud_cb_none, Capture!send_capture_reply, Capture!shm
  <2>0. CaptureGood
    BY DEF CaptureInv
  <2>1. /\ cap_client \in {"callback", "reply"} /\ cap_client' \in {"idle", "reply"}
        /\ UNCHANGED <<cap_read_offset, cap_write_offset, cap_read_buf_idx, cap_write_buf_idx,
                       write_in_progress, samples, captured, copied, server, ready, delivered>>
    BY <1>7 DEF Capture!aud_cb_none, Capture!send_capture_reply, Capture!shm
  <2>2. ServerPlace'
    BY <2>0, <2>1 DEF CaptureGood, ServerPlace, Held, Partial, Writing, Filled
  <2>3. (ready + (IF cap_client \in {"callback", "close"} THEN 1 ELSE 0) <= HeldCount)'
    BY <2>0, <2>1 DEF CaptureGood, CaptureType, ClientPlace, HeldCount, Held
  <2>4. ready' \in Nat /\ cap_client # "close" /\ cap_client' \notin {"callback", "close"}
    BY <2>0, <2>1 DEF CaptureGood, CaptureType
  <2> QED BY <2>0, <2>1, <2>2, <2>3, <2>4, CaptureUntouched
<1>8. CASE Capture!cras_shm_buffer_read_current
  BY <1>8, CloseCapture
<1>9. CASE UNCHANGED captureVars
  BY <1>9 DEF captureVars, CaptureInv, CaptureGood, CaptureType, ServerPlace, ClientPlace,
              BuffersHold, InOrder, Held, HeldCount, Writing, Filled, Partial, FirstFrame
<1> QED
  BY <1>1, <1>2, <1>3, <1>4, <1>5, <1>6, <1>7, <1>8, <1>9 DEF Capture!Next

-----------------------------------------------------------------------------
(* As long as the callback of an output stream returns at least one frame, *)
(* no frame is lost unnoticed: no device skips a frame of an output        *)
(* stream, and a capture client whose stream counted no overrun was given  *)
(* every frame once and in order (cras_shm.h, cras_rstream.c).             *)
THEOREM NoFrameLost ==
  ASSUME MinReply = 1
  PROVE  MCSpec => []FramesAccounted
<1>1. MCInit => FrameInv /\ CaptureInv
  BY InitFrameInv, InitCaptureInv DEF MCInit
<1>2. FrameInv /\ CaptureInv /\ [MCNext]_mcVars => FrameInv' /\ CaptureInv'
  <2> SUFFICES ASSUME FrameInv, CaptureInv, [MCNext]_mcVars PROVE FrameInv' /\ CaptureInv'
    OBVIOUS
  <2>1. [Next]_vars /\ [Capture!Next]_captureVars
    BY DEF MCNext, mcVars
  <2> QED BY <2>1, NextFrameInv, NextCaptureInv
<1>3. FrameInv /\ CaptureInv => FramesAccounted
  BY DEF FrameInv, CaptureInv, CaptureGood, InOrder, FramesAccounted, Capture!LossIsCounted
<1> QED BY <1>1, <1>2, <1>3, PTL DEF MCSpec

-----------------------------------------------------------------------------
(* What streams own: the table of descriptors, the files and the mappings. *)

(* StreamResources counts with its own copy of the library's operator.    *)
LEMMA SameCardinality == \A S : Resources!Cardinality(S) = Cardinality(S)
BY DEF Resources!Cardinality, Cardinality

Kinds == {"closed", "stdin", "audio", "client_shm", "header", "samples"}

Files == [k : Kinds, id : Ids \union {"none"}]

(* A state of the descriptors, files and losses. *)
Tables == [open  : [Resources!Fds -> Files],
           files : SUBSET Files,
           lost  : [fds : SUBSET Resources!Fds, files : SUBSET Files]]

Free(s) == {fd \in Resources!Fds : s.open[fd] = Resources!Closed}

(* Room for n more descriptors. *)
Room(s, n) == IsFiniteSet(Free(s)) /\ Cardinality(Free(s)) >= n

(* The descriptors a stream owns are its own, are open and show its files. *)
Whole(s, t) ==
  /\ t.id \in Ids
  /\ t.fd \in Resources!Fds \ {0} /\ t.header.fd \in Resources!Fds \ {0}
  /\ t.samples.fd \in Resources!Fds \ {0}
  /\ t.fd # t.header.fd /\ t.fd # t.samples.fd /\ t.header.fd # t.samples.fd
  /\ Resources!Owned(t) \intersect s.lost.fds = {}
  /\ t.header.name = Resources!File("header", t.id)
  /\ t.samples.name \in {Resources!File("samples", t.id), Resources!Nameless}
  /\ Resources!Names(t) \intersect s.lost.files = {}
  /\ Resources!Names(t) \ {Resources!Nameless} \subseteq s.files
  /\ s.open[t.fd] = Resources!File("audio", t.id)
  /\ t.maps[1] = Resources!File("header", t.id) /\ s.open[t.header.fd] = t.maps[1]
  /\ t.maps[2] \in {Resources!File("samples", t.id), Resources!File("client_shm", t.id)}
  /\ s.open[t.samples.fd] = t.maps[2]

(* What failed posix_fallocate calls left is open and named, and bounded.  *)
LossesKept(s) ==
  /\ 0 \notin s.lost.fds
  /\ \A fd \in s.lost.fds : s.open[fd] # Resources!Closed
  /\ IsFiniteSet(s.lost.fds) /\ Cardinality(s.lost.fds) <= MaxLeaks
  /\ s.lost.files \subseteq s.files

(* A state of the table is sound for the live streams L.                   *)
Sound(s, L) ==
  /\ s \in Tables
  /\ s.open[0] = Resources!File("stdin", "none")
  /\ s.files \subseteq {Resources!File(k, id) : k \in {"header", "samples"}, id \in Ids}
  /\ LossesKept(s)
  /\ \A t \in L : Whole(s, t)
  /\ \A t, u \in L : t # u => Resources!Owned(t) \intersect Resources!Owned(u) = {} /\ t.id # u.id
  /\ \A fd \in Resources!Fds \ {0} :
       s.open[fd] # Resources!Closed => fd \in s.lost.fds \/ \E t \in L : fd \in Resources!Owned(t)
  /\ \A f \in s.files : f \in s.lost.files \/ \E t \in L : f \in Resources!Names(t)

OwnedInv == streams \intersect deleting = {} /\ Sound(r, Resources!Live)

LEMMA LowestFree ==
  ASSUME NEW s \in Tables, NEW n \in Nat \ {0}, Room(s, n)
  PROVE  /\ Resources!Lowest(s) \in Free(s)
         /\ Resources!Lowest(s) \in Resources!Fds
<1>1. Free(s) # {}
  BY FS_EmptySet DEF Room
<1>2. Free(s) \subseteq Nat
  BY ResourcesAssumption DEF Free, Resources!Fds
<1>3. Min(Free(s)) \in Free(s)
  BY <1>1, <1>2, MinOfNats
<1>4. Resources!Lowest(s) = Min(Free(s))
  BY DEF Resources!Lowest, Resources!Min, Min, Free
<1> QED BY <1>3, <1>4 DEF Free

(* Opening takes the lowest free descriptor and changes nothing else. *)
LEMMA OpenedTable ==
  ASSUME NEW s \in Tables, NEW f \in Files, f # Resources!Closed, NEW n \in Nat \ {0}, Room(s, n)
  PROVE  LET fd == Resources!Lowest(s)
             u  == Resources!Opened(s, f)
         IN  /\ fd \in Resources!Fds /\ s.open[fd] = Resources!Closed
             /\ u \in Tables
             /\ u.open = [s.open EXCEPT ![fd] = f]
             /\ u.files = s.files /\ u.lost = s.lost
             /\ Room(u, n - 1)
<1> DEFINE fd == Resources!Lowest(s)
           u  == Resources!Opened(s, f)
<1>1. fd \in Free(s) /\ fd \in Resources!Fds
  BY LowestFree
<1>2. u = [s EXCEPT !.open[fd] = f]
  BY DEF Resources!Opened
<1> HIDE DEF fd, u
<1>3. /\ u \in Tables
      /\ u.open = [s.open EXCEPT ![fd] = f]
      /\ u.files = s.files /\ u.lost = s.lost
  BY <1>1, <1>2 DEF Tables
<1>4. Free(u) = Free(s) \ {fd}
  <2>1. \A x \in Resources!Fds : u.open[x] = IF x = fd THEN f ELSE s.open[x]
    BY <1>3 DEF Tables
  <2> QED BY <1>1, <2>1 DEF Free
<1>5. Cardinality(Free(s)) \in Nat
  BY FS_CardinalityType DEF Room
<1>6. Room(u, n - 1)
  <2>1. IsFiniteSet(Free(s)) /\ Cardinality(Free(s)) >= n
    BY DEF Room
  <2>2. /\ IsFiniteSet(Free(s) \ {fd})
        /\ Cardinality(Free(s) \ {fd}) = Cardinality(Free(s)) - 1
    BY <1>1, <2>1, FS_RemoveElement
  <2> QED BY <1>4, <1>5, <2>1, <2>2 DEF Room
<1>7. s.open[fd] = Resources!Closed
  BY <1>1 DEF Free
<1> QED BY <1>1, <1>3, <1>6, <1>7 DEF fd, u

(* Closing changes one entry, or nothing if there is no descriptor.        *)
LEMMA ClosedTable ==
  ASSUME NEW s \in Tables, NEW fd
  PROVE  LET u == Resources!Close(s, fd)
         IN  /\ u \in Tables /\ u.files = s.files /\ u.lost = s.lost
             /\ u.open = [s.open EXCEPT ![fd] = Resources!Closed]
<1>1. Resources!Closed \in Files
  BY DEF Resources!Closed, Files, Kinds
<1>2. CASE fd \in Resources!Fds
  BY <1>1, <1>2 DEF Resources!Close, Tables
<1>3. CASE fd \notin Resources!Fds
  <2>1. s.open \in [Resources!Fds -> Files]
    BY DEF Tables
  <2>2. [s.open EXCEPT ![fd] = Resources!Closed] = s.open
    BY <1>3, <2>1
  <2> QED BY <1>3, <2>2 DEF Resources!Close
<1> QED BY <1>2, <1>3

(* What making a stream may do to the table: nothing; lose a file that has *)
(* no size; or open a new file.                                            *)
Same(s, u) == u \in Tables /\ u.open = s.open /\ u.files = s.files /\ u.lost = s.lost

Lost(s, u, fd, f) ==
  /\ u \in Tables /\ fd \in Resources!Fds /\ s.open[fd] = Resources!Closed /\ f \notin s.files
  /\ u.open = [s.open EXCEPT ![fd] = f] /\ u.files = s.files \union {f}
  /\ u.lost.fds = s.lost.fds \union {fd} /\ u.lost.files = s.lost.files \union {f}

Made(s, u, fd, f) ==
  /\ u \in Tables /\ fd \in Resources!Fds /\ s.open[fd] = Resources!Closed /\ f \notin s.files
  /\ u.open = [s.open EXCEPT ![fd] = f] /\ u.files = s.files \union {f} /\ u.lost = s.lost

LEMMA FileFacts ==
  ASSUME NEW id \in Ids \union {"none"}, NEW k \in Kinds
  PROVE  /\ Resources!File(k, id) \in Files
         /\ k # "closed" => Resources!File(k, id) # Resources!Closed
         /\ Resources!File(k, id) # Resources!Nameless
         /\ Resources!File(k, id).k = k /\ Resources!File(k, id).id = id
BY DEF Resources!File, Resources!Closed, Resources!Nameless, Files, Kinds

LEMMA OpenRw ==
  ASSUME NEW s \in Tables, NEW n \in Nat \ {0}, Room(s, n), NEW k \in {"header", "samples"},
         NEW id \in Ids, NEW at, NEW err \in Nat \ {0}
  PROVE  LET f == Resources!File(k, id)
             o == Resources!cras_shm_open_rw(s, f, at, err)
         IN  \/ o.fd < 0 /\ Same(s, o.s)
             \/ o.fd < 0 /\ at = <<"posix_fallocate", k>> /\ \E fd \in Resources!Fds : Lost(s, o.s, fd, f)
             \/ o.fd \in Resources!Fds /\ Made(s, o.s, o.fd, f) /\ Room(o.s, n - 1)
<1> DEFINE f == Resources!File(k, id)
           o == Resources!cras_shm_open_rw(s, f, at, err)
           fd == Resources!Lowest(s)
           w  == Resources!Opened(s, f)
           t  == [w EXCEPT !.files = @ \union {f}]
           v  == [t EXCEPT !.lost.fds = @ \union {fd}, !.lost.files = @ \union {f}]
<1>1. f \in Files /\ f # Resources!Closed /\ f.k = k
  BY FileFacts DEF Kinds
<1> HIDE DEF f
<1>2. /\ fd \in Resources!Fds /\ s.open[fd] = Resources!Closed
      /\ w \in Tables /\ w.open = [s.open EXCEPT ![fd] = f]
      /\ w.files = s.files /\ w.lost = s.lost /\ Room(w, n - 1)
  BY <1>1, OpenedTable
<1>3. CASE f \in s.files \/ at = <<"shm_open", k>>
  <2>1. o = [s |-> s, fd |-> -1]
    BY <1>1, <1>3 DEF Resources!cras_shm_open_rw
  <2> HIDE DEF o
  <2> QED BY <2>1 DEF Same, f, o
<1>4. CASE ~(f \in s.files \/ at = <<"shm_open", k>>)
  <2>1. o = IF at # <<"posix_fallocate", k>> THEN [s |-> t, fd |-> fd] ELSE [s |-> v, fd |-> -err]
    BY <1>1, <1>4 DEF Resources!cras_shm_open_rw
  <2> HIDE DEF o, fd, w
  <2>2. t \in Tables /\ t.open = w.open /\ t.files = s.files \union {f} /\ t.lost = s.lost
    BY <1>1, <1>2 DEF Tables
  <2>3. Room(t, n - 1)
    BY <1>2, <2>2 DEF Room, Free
  <2>4. CASE at # <<"posix_fallocate", k>>
    <3> HIDE DEF t
    <3>1. o.s = t /\ o.fd = fd
      BY <2>1, <2>4
    <3>2. Made(s, t, fd, f)
      BY <1>2, <1>4, <2>2 DEF Made
    <3> QED BY <1>2, <2>3, <3>1, <3>2 DEF o, f
  <2>5. CASE at = <<"posix_fallocate", k>>
    <3> HIDE DEF t
    <3>1. /\ v.open = t.open /\ v.files = t.files
          /\ v.lost = [t.lost EXCEPT !.fds = @ \union {fd}, !.files = @ \union {f}]
          /\ v \in Tables
      BY <1>1, <1>2, <2>2 DEF Tables
    <3>2. v.lost.fds = s.lost.fds \union {fd} /\ v.lost.files = s.lost.files \union {f}
      BY <2>2, <3>1 DEF Tables
    <3> HIDE DEF v
    <3>3. o.s = v /\ o.fd = -err
      BY <2>1, <2>5
    <3>4. Lost(s, v, fd, f)
      BY <1>2, <1>4, <2>2, <3>1, <3>2 DEF Lost
    <3> QED BY <1>2, <2>5, <3>3, <3>4 DEF o, f
  <2> QED BY <2>4, <2>5
<1> QED BY <1>3, <1>4

LEMMA Cleanup ==
  ASSUME NEW s \in Tables, NEW info
  PROVE  LET u == Resources!cras_shm_info_cleanup(s, info)
         IN  /\ u \in Tables /\ u.open = [s.open EXCEPT ![info.fd] = Resources!Closed]
             /\ u.files = s.files \ {info.name} /\ u.lost = s.lost
<1> DEFINE w == Resources!Close(s, info.fd)
<1>1. /\ w \in Tables /\ w.files = s.files /\ w.lost = s.lost
      /\ w.open = [s.open EXCEPT ![info.fd] = Resources!Closed]
  BY ClosedTable
<1>2. Resources!cras_shm_info_cleanup(s, info) = [w EXCEPT !.files = @ \ {info.name}]
  BY DEF Resources!cras_shm_info_cleanup
<1> HIDE DEF w
<1> QED BY <1>1, <1>2 DEF Tables

Destroyed(s, u, header, info) ==
  /\ u \in Tables
  /\ u.open = [s.open EXCEPT ![info.fd] = Resources!Closed, ![header.fd] = Resources!Closed]
  /\ u.files = s.files \ {info.name, header.name} /\ u.lost = s.lost

LEMMA DestroyShm ==
  ASSUME NEW s \in Tables, NEW header, NEW samples_info
  PROVE  Destroyed(s, Resources!cras_audio_shm_destroy(s, header, samples_info), header, samples_info)
<1> DEFINE w == Resources!cras_shm_info_cleanup(s, samples_info)
           u == Resources!cras_shm_info_cleanup(w, header)
<1>1. /\ w \in Tables /\ w.open = [s.open EXCEPT ![samples_info.fd] = Resources!Closed]
      /\ w.files = s.files \ {samples_info.name} /\ w.lost = s.lost
  BY Cleanup
<1> HIDE DEF w
<1>2. /\ u \in Tables /\ u.open = [w.open EXCEPT ![header.fd] = Resources!Closed]
      /\ u.files = w.files \ {header.name} /\ u.lost = w.lost
  BY <1>1, Cleanup
<1>3. Resources!cras_audio_shm_destroy(s, header, samples_info) = u
  BY DEF Resources!cras_audio_shm_destroy, w
<1> HIDE DEF u
<1> QED BY <1>1, <1>2, <1>3 DEF Destroyed

(* The header and the samples of stream id are made in s, at hd and sd.    *)
Built(s, u, id, hd, sd, o) ==
  /\ u \in Tables /\ hd \in Resources!Fds /\ sd \in Resources!Fds /\ hd # sd
  /\ s.open[hd] = Resources!Closed /\ s.open[sd] = Resources!Closed
  /\ o.header.fd = hd /\ o.samples.fd = sd
  /\ o.header.name = Resources!File("header", id) /\ o.header.name \notin s.files
  /\ o.maps[1] = Resources!File("header", id)
  /\ \/ /\ o.samples.name = Resources!File("samples", id) /\ o.samples.name \notin s.files
        /\ o.maps[2] = Resources!File("samples", id)
     \/ o.samples.name = Resources!Nameless /\ o.maps[2] = Resources!File("client_shm", id)
  /\ u.open = [s.open EXCEPT ![hd] = o.maps[1], ![sd] = o.maps[2]]
  /\ u.files = s.files \union ({o.header.name, o.samples.name} \ {Resources!Nameless})
  /\ u.lost = s.lost

InfoOfSamples(s, config, at, err) ==
  IF config.client_shm_fd >= 0
  THEN Resources!cras_shm_info_init_with_fd(s, config.client_shm_fd, at)
  ELSE Resources!cras_shm_info_init(s, Resources!File("samples", config.id), at, err)

SamplesOutcome(s, p, id, at) ==
  \/ p.fd < 0 /\ Same(s, p.s)
  \/ /\ p.fd < 0 /\ at = <<"posix_fallocate", "samples">>
     /\ \E fd \in Resources!Fds : Lost(s, p.s, fd, Resources!File("samples", id))
  \/ /\ p.fd \in Resources!Fds /\ p.name = Resources!File("samples", id)
     /\ Made(s, p.s, p.fd, Resources!File("samples", id))
  \/ /\ p.fd \in Resources!Fds /\ p.name = Resources!Nameless
     /\ p.s \in Tables /\ s.open[p.fd] = Resources!Closed
     /\ p.s.open = [s.open EXCEPT ![p.fd] = Resources!File("client_shm", id)]
     /\ p.s.files = s.files /\ p.s.lost = s.lost

(* The samples are new shared memory, or the client's under a new number.  *)
LEMMA SamplesMade ==
  ASSUME NEW s \in Tables, Room(s, 1), NEW config, config.id \in Ids,
         \/ config.client_shm_fd = -1
         \/ /\ config.client_shm_fd \in Resources!Fds
            /\ s.open[config.client_shm_fd] = Resources!File("client_shm", config.id),
         NEW at, NEW err \in Nat \ {0}
  PROVE  SamplesOutcome(s, InfoOfSamples(s, config, at, err), config.id, at)
<1>1. CASE config.client_shm_fd = -1
  <2> DEFINE f == Resources!File("samples", config.id)
             o == Resources!cras_shm_open_rw(s, f, at, err)
             p == Resources!cras_shm_info_init(s, f, at, err)
  <2>1. p.s = o.s /\ p.fd = o.fd /\ p.name = f
    BY DEF Resources!cras_shm_info_init
  <2>2. \/ o.fd < 0 /\ Same(s, o.s)
        \/ /\ o.fd < 0 /\ at = <<"posix_fallocate", "samples">>
           /\ \E fd \in Resources!Fds : Lost(s, o.s, fd, f)
        \/ o.fd \in Resources!Fds /\ Made(s, o.s, o.fd, f)
    BY OpenRw
  <2> HIDE DEF o, p, f
  <2>3. \/ p.fd < 0 /\ Same(s, p.s)
        \/ /\ p.fd < 0 /\ at = <<"posix_fallocate", "samples">>
           /\ \E fd \in Resources!Fds : Lost(s, p.s, fd, f)
        \/ p.fd \in Resources!Fds /\ p.name = f /\ Made(s, p.s, p.fd, f)
    BY <2>1, <2>2
  <2>4. p = InfoOfSamples(s, config, at, err)
    BY <1>1 DEF InfoOfSamples, p, f
  <2> QED BY <2>3, <2>4 DEF SamplesOutcome, f
<1>2. CASE config.client_shm_fd # -1
  <2> DEFINE g == Resources!File("client_shm", config.id)
             p == Resources!cras_shm_info_init_with_fd(s, config.client_shm_fd, at)
             fd == Resources!Lowest(s)
             w == Resources!Opened(s, g)
  <2>1. config.client_shm_fd >= 0 /\ s.open[config.client_shm_fd] = g
    BY <1>2, ResourcesAssumption DEF Resources!Fds
  <2>2. g \in Files /\ g # Resources!Closed
    BY FileFacts DEF Kinds
  <2> HIDE DEF g
  <2>3. /\ fd \in Resources!Fds /\ s.open[fd] = Resources!Closed
        /\ w \in Tables /\ w.open = [s.open EXCEPT ![fd] = g]
        /\ w.files = s.files /\ w.lost = s.lost
    BY <2>2, OpenedTable
  <2>4. \/ p.fd = -1 /\ p.s = s
        \/ p.fd = fd /\ p.s = w /\ p.name = Resources!Nameless
    BY <2>1 DEF Resources!cras_shm_info_init_with_fd
  <2> HIDE DEF fd, w, p
  <2>5. \/ p.fd < 0 /\ Same(s, p.s)
        \/ /\ p.fd \in Resources!Fds /\ p.name = Resources!Nameless
           /\ p.s \in Tables /\ s.open[p.fd] = Resources!Closed
           /\ p.s.open = [s.open EXCEPT ![p.fd] = g]
           /\ p.s.files = s.files /\ p.s.lost = s.lost
    BY <2>3, <2>4 DEF Same
  <2>6. p = InfoOfSamples(s, config, at, err)
    BY <2>1 DEF InfoOfSamples, p
  <2> QED BY <2>5, <2>6 DEF SamplesOutcome, g
<1> QED BY <1>1, <1>2

(* Closing what was opened restores the table. *)
LEMMA Reclosed ==
  ASSUME NEW g \in [Resources!Fds -> Files], NEW a \in Resources!Fds, NEW b \in Resources!Fds,
         g[a] = Resources!Closed, g[b] = Resources!Closed, NEW x \in Files, NEW y \in Files
  PROVE  /\ [[g EXCEPT ![a] = x] EXCEPT ![a] = Resources!Closed] = g
         /\ [[g EXCEPT ![a] = x, ![b] = y] EXCEPT ![b] = Resources!Closed, ![a] = Resources!Closed] = g
OBVIOUS

(* cras_audio_shm_create maps both memories or gives both up. *)
Ready(s, u, id, header, info, hd, sd, g) ==
  /\ u \in Tables /\ hd # sd /\ header.fd = hd /\ info.fd = sd
  /\ s.open[hd] = Resources!Closed /\ s.open[sd] = Resources!Closed
  /\ header.name = Resources!File("header", id) /\ header.name \notin s.files
  /\ \/ /\ info.name = Resources!File("samples", id) /\ info.name \notin s.files
        /\ g = Resources!File("samples", id)
     \/ info.name = Resources!Nameless /\ g = Resources!File("client_shm", id)
  /\ Resources!Nameless \notin s.files
  /\ u.open = [s.open EXCEPT ![hd] = Resources!File("header", id), ![sd] = g]
  /\ u.files = s.files \union ({header.name, info.name} \ {Resources!Nameless})
  /\ u.lost = s.lost

Created(s, o, id, hd, sd) ==
  (o.rc = -1 /\ Same(s, o.s)) \/ (o.rc = 0 /\ Built(s, o.s, id, hd, sd, o))

LEMMA CreateShm ==
  ASSUME NEW s \in Tables, NEW u, NEW id \in Ids, NEW header, NEW info, NEW at,
         NEW hd \in Resources!Fds, NEW sd \in Resources!Fds, NEW g,
         Ready(s, u, id, header, info, hd, sd, g)
  PROVE  Created(s, Resources!cras_audio_shm_create(u, header, info, at), id, hd, sd)
<1> USE DEF Ready
<1> DEFINE o == Resources!cras_audio_shm_create(u, header, info, at)
           hf == Resources!File("header", id)
           d  == Resources!cras_audio_shm_destroy(u, header, info)
<1>0. s.open \in [Resources!Fds -> Files]
  BY DEF Tables
<1>1. /\ hf \in Files /\ g \in Files /\ hf.k = "header" /\ g.k \in {"samples", "client_shm"}
      /\ hf # Resources!Nameless
  BY FileFacts DEF Kinds
<1>2. hf # Resources!Unmapped /\ g # Resources!Unmapped
  BY <1>1 DEF Resources!Unmapped, Resources!File
<1>3. u.open[hd] = hf /\ u.open[sd] = g
  BY <1>0
<1>4. CASE at = <<"mmap", "header">> \/ at = <<"mmap", "samples">>
  <2>1. o = [s |-> d, rc |-> -1]
    BY <1>1, <1>2, <1>3, <1>4 DEF Resources!cras_audio_shm_create, Resources!mmap, Resources!Memory
  <2>2. /\ d \in Tables
        /\ d.open = [u.open EXCEPT ![info.fd] = Resources!Closed, ![header.fd] = Resources!Closed]
        /\ d.files = u.files \ {info.name, header.name} /\ d.lost = u.lost
    <3>1. Destroyed(u, d, header, info)
      BY DestroyShm
    <3> HIDE DEF d
    <3> QED BY <3>1 DEF Destroyed
  <2> HIDE DEF d, o
  <2>3. d.open = s.open
    BY <1>0, <1>1, <2>2, Reclosed
  <2>4. d.files = s.files
    BY <2>2
  <2>5. Same(s, d)
    BY <2>2, <2>3, <2>4 DEF Same
  <2>6. o.rc = -1 /\ o.s = d
    BY <2>1
  <2> QED BY <2>5, <2>6 DEF o, Created
<1>5. CASE ~(at = <<"mmap", "header">> \/ at = <<"mmap", "samples">>)
  <2>1. o = [s |-> u, rc |-> 0, header |-> header, samples |-> info, maps |-> <<hf, g>>]
    BY <1>1, <1>2, <1>3, <1>5 DEF Resources!cras_audio_shm_create, Resources!mmap, Resources!Memory
  <2> HIDE DEF d, o
  <2>2. /\ o.s = u /\ o.rc = 0 /\ o.header = header /\ o.samples = info
        /\ o.maps[1] = hf /\ o.maps[2] = g
    BY <2>1
  <2>3. Built(s, u, id, hd, sd, o)
    BY <1>1, <2>2 DEF Built
  <2> QED BY <2>2, <2>3 DEF o, Created
<1> QED BY <1>4, <1>5

(* setup_shm_area leaves the table as it was, but for what a failed        *)
(* posix_fallocate loses, or makes the memory of the stream.               *)
LEMMA SetupShm ==
  ASSUME NEW s \in Tables, Room(s, 2), NEW config, config.id \in Ids,
         \/ config.client_shm_fd = -1
         \/ /\ config.client_shm_fd \in Resources!Fds
            /\ s.open[config.client_shm_fd] = Resources!File("client_shm", config.id),
         Resources!Nameless \notin s.files,
         NEW at, NEW err \in Nat \ {0}
  PROVE  LET o == Resources!setup_shm_area(s, config, at, err)
         IN  \/ o.rc = -1 /\ Same(s, o.s)
             \/ /\ o.rc = -1 /\ at[1] = "posix_fallocate"
                /\ \E fd \in Resources!Fds, k \in {"header", "samples"} :
                     Lost(s, o.s, fd, Resources!File(k, config.id))
             \/ o.rc = 0 /\ \E hd, sd \in Resources!Fds : Built(s, o.s, config.id, hd, sd, o)
<1> DEFINE o  == Resources!setup_shm_area(s, config, at, err)
           hf == Resources!File("header", config.id)
           sf == Resources!File("samples", config.id)
           cf == Resources!File("client_shm", config.id)
           h  == Resources!cras_shm_info_init(s, hf, at, err)
           p  == InfoOfSamples(h.s, config, at, err)
<1>0. s.open \in [Resources!Fds -> Files]
  BY DEF Tables
<1>1. /\ hf \in Files /\ sf \in Files /\ cf \in Files
      /\ hf # Resources!Closed /\ sf # Resources!Closed /\ cf # Resources!Closed
      /\ hf # Resources!Nameless /\ sf # Resources!Nameless
      /\ hf # sf
  BY FileFacts DEF Kinds
<1>2. \/ h.fd < 0 /\ Same(s, h.s)
      \/ /\ h.fd < 0 /\ at = <<"posix_fallocate", "header">>
         /\ \E fd \in Resources!Fds : Lost(s, h.s, fd, hf)
      \/ h.fd \in Resources!Fds /\ Made(s, h.s, h.fd, hf) /\ Room(h.s, 1)
  BY OpenRw DEF Resources!cras_shm_info_init
<1>3. h.name = hf
  BY DEF Resources!cras_shm_info_init
<1>4. o = IF h.fd < 0 THEN [s |-> h.s, rc |-> -1]
          ELSE IF p.fd < 0 THEN [s |-> Resources!cras_shm_info_cleanup(p.s, h), rc |-> -1]
          ELSE Resources!cras_audio_shm_create(p.s, h, p, at)
  BY DEF Resources!setup_shm_area, InfoOfSamples
<1> HIDE DEF h
<1>5. CASE h.fd < 0
  <2>1. o.s = h.s /\ o.rc = -1
    BY <1>4, <1>5
  <2> HIDE DEF o
  <2>2. h.fd \notin Resources!Fds
    BY <1>5, ResourcesAssumption DEF Resources!Fds
  <2>3. \/ Same(s, h.s)
        \/ at[1] = "posix_fallocate" /\ \E fd \in Resources!Fds : Lost(s, h.s, fd, hf)
    BY <1>2, <2>2
  <2> HIDE DEF hf
  <2>4. \/ Same(s, o.s)
        \/ at[1] = "posix_fallocate" /\ \E fd \in Resources!Fds : Lost(s, o.s, fd, hf)
    BY <2>1, <2>3
  <2> QED BY <2>1, <2>4 DEF o, hf
<1>6. CASE ~(h.fd < 0)
  <2> DEFINE hd == h.fd
             w  == h.s
  <2>1. hd \in Resources!Fds /\ Made(s, w, hd, hf) /\ Room(w, 1)
    BY <1>2, <1>6
  <2>2. /\ w \in Tables /\ s.open[hd] = Resources!Closed /\ hf \notin s.files
        /\ w.open = [s.open EXCEPT ![hd] = hf] /\ w.files = s.files \union {hf} /\ w.lost = s.lost
    BY <2>1 DEF Made
  <2>3. w.open[hd] = hf
    BY <1>0, <2>1, <2>2
  <2>4. \/ config.client_shm_fd = -1
        \/ config.client_shm_fd \in Resources!Fds /\ w.open[config.client_shm_fd] = cf
    BY <1>0, <1>1, <2>1, <2>2
  <2> HIDE DEF hf, sf, cf
  <2>5. \/ p.fd < 0 /\ Same(w, p.s)
        \/ /\ p.fd < 0 /\ at = <<"posix_fallocate", "samples">>
           /\ \E fd \in Resources!Fds : Lost(w, p.s, fd, sf)
        \/ p.fd \in Resources!Fds /\ p.name = sf /\ Made(w, p.s, p.fd, sf)
        \/ /\ p.fd \in Resources!Fds /\ p.name = Resources!Nameless
           /\ p.s \in Tables /\ w.open[p.fd] = Resources!Closed
           /\ p.s.open = [w.open EXCEPT ![p.fd] = cf]
           /\ p.s.files = w.files /\ p.s.lost = w.lost
    <3>1. SamplesOutcome(w, p, config.id, at)
      BY <2>1, <2>2, <2>4, SamplesMade DEF cf
    <3> QED BY <3>1 DEF SamplesOutcome, sf, cf
  <2> DEFINE v == Resources!cras_shm_info_cleanup(p.s, h)
  <2>6. CASE p.fd < 0
    <3>1. o.s = v /\ o.rc = -1
      BY <1>4, <1>6, <2>6
    <3>2. p.fd \notin Resources!Fds
      BY <2>6, ResourcesAssumption DEF Resources!Fds
    <3>3. p.s \in Tables
      BY <2>5, <3>2 DEF Same, Lost
    <3>4. /\ v \in Tables /\ v.open = [p.s.open EXCEPT ![hd] = Resources!Closed]
          /\ v.files = p.s.files \ {hf} /\ v.lost = p.s.lost
      BY <1>3, <3>3, Cleanup
    <3> HIDE DEF p, v, o
    <3>5. ASSUME Same(w, p.s) PROVE Same(s, v)
      <4>1. v.open = s.open
        BY <1>0, <1>1, <2>1, <2>2, <3>4, <3>5, Reclosed DEF Same
      <4>2. Same(s, v)
        BY <2>2, <3>4, <3>5, <4>1 DEF Same
      <4> QED BY <4>2
    <3>6. ASSUME NEW fd \in Resources!Fds, Lost(w, p.s, fd, sf), at = <<"posix_fallocate", "samples">>
          PROVE  Lost(s, v, fd, sf) /\ at[1] = "posix_fallocate"
      <4>1. fd # hd
        BY <1>1, <2>3, <3>6 DEF Lost
      <4>2. s.open[fd] = Resources!Closed /\ sf \notin s.files
        BY <1>0, <2>1, <2>2, <3>6, <4>1 DEF Lost
      <4>3. v.open = [s.open EXCEPT ![fd] = sf]
        BY <1>0, <1>1, <2>1, <2>2, <3>4, <3>6, <4>1 DEF Lost
      <4>4. v.files = s.files \union {sf}
        BY <1>1, <2>2, <3>4, <3>6 DEF Lost
      <4> QED BY <2>2, <3>4, <3>6, <4>2, <4>3, <4>4 DEF Lost
    <3>7. \/ Same(s, o.s)
          \/ at[1] = "posix_fallocate" /\ \E fd \in Resources!Fds : Lost(s, o.s, fd, sf)
      <4>1. CASE Same(w, p.s)
        <5>1. Same(s, v)
          BY <3>5, <4>1
        <5> QED BY <3>1, <5>1
      <4>2. CASE ~ Same(w, p.s)
        <5>1. PICK fd \in Resources!Fds : Lost(w, p.s, fd, sf)
          BY <2>5, <3>2, <4>2
        <5>2. at = <<"posix_fallocate", "samples">>
          BY <2>5, <3>2, <4>2
        <5>3. Lost(s, v, fd, sf) /\ at[1] = "posix_fallocate"
          BY <3>6, <5>1, <5>2
        <5> QED BY <3>1, <5>3
      <4> QED BY <4>1, <4>2
    <3> QED BY <3>1, <3>7 DEF o, sf
  <2>7. CASE ~(p.fd < 0)
    <3>1. o = Resources!cras_audio_shm_create(p.s, h, p, at)
      BY <1>4, <1>6, <2>7
    <3> HIDE DEF o, p
    <3>2. /\ p.fd \in Resources!Fds /\ p.s \in Tables /\ w.open[p.fd] = Resources!Closed
          /\ p.s.lost = s.lost
      BY <2>2, <2>5, <2>7 DEF Made
    <3>3. hd # p.fd /\ s.open[p.fd] = Resources!Closed
      BY <1>0, <1>1, <2>1, <2>2, <2>3, <3>2
    <3>4. CASE p.name = sf /\ Made(w, p.s, p.fd, sf)
      <4>1. p.s.open = [s.open EXCEPT ![hd] = hf, ![p.fd] = sf]
        BY <2>2, <3>4 DEF Made
      <4>2. p.s.files = s.files \union ({h.name, p.name} \ {Resources!Nameless}) /\ p.name \notin s.files
        BY <1>1, <1>3, <2>2, <3>4 DEF Made
      <4>3. \/ o.rc = -1 /\ Same(s, o.s)
            \/ o.rc = 0 /\ Built(s, o.s, config.id, hd, p.fd, o)
        <5>1. Ready(s, p.s, config.id, h, p, hd, p.fd, sf)
          BY <1>3, <2>1, <2>2, <3>2, <3>3, <3>4, <4>1, <4>2 DEF Ready, hf, sf
        <5>2. Created(s, o, config.id, hd, p.fd)
          BY <2>1, <3>1, <3>2, <5>1, CreateShm
        <5> QED BY <5>2 DEF Created
      <4> QED BY <2>1, <3>2, <4>3 DEF o
    <3>5. CASE /\ p.name = Resources!Nameless
               /\ p.s.open = [w.open EXCEPT ![p.fd] = cf] /\ p.s.files = w.files
      <4>1. p.s.open = [s.open EXCEPT ![hd] = hf, ![p.fd] = cf]
        BY <2>2, <3>5
      <4>2. p.s.files = s.files \union ({h.name, p.name} \ {Resources!Nameless})
        BY <1>1, <1>3, <2>2, <3>5
      <4>3. \/ o.rc = -1 /\ Same(s, o.s)
            \/ o.rc = 0 /\ Built(s, o.s, config.id, hd, p.fd, o)
        <5>1. Ready(s, p.s, config.id, h, p, hd, p.fd, cf)
          BY <1>3, <2>1, <2>2, <3>2, <3>3, <3>5, <4>1, <4>2 DEF Ready, hf, cf
        <5>2. Created(s, o, config.id, hd, p.fd)
          BY <2>1, <3>1, <3>2, <5>1, CreateShm
        <5> QED BY <5>2 DEF Created
      <4> QED BY <2>1, <3>2, <4>3 DEF o
    <3> QED BY <2>5, <2>7, <3>4, <3>5
  <2> QED BY <2>6, <2>7
<1> QED BY <1>5, <1>6

(* A new stream t owns three descriptors that were free, and its memory.   *)
Added(s, u, t) ==
  /\ t.id \in Ids
  /\ u \in Tables
  /\ t.fd \in Resources!Fds /\ t.header.fd \in Resources!Fds /\ t.samples.fd \in Resources!Fds
  /\ t.fd # t.header.fd /\ t.fd # t.samples.fd /\ t.header.fd # t.samples.fd
  /\ s.open[t.fd] = Resources!Closed /\ s.open[t.header.fd] = Resources!Closed
  /\ s.open[t.samples.fd] = Resources!Closed
  /\ t.header.name = Resources!File("header", t.id) /\ t.header.name \notin s.files
  /\ t.maps[1] = Resources!File("header", t.id)
  /\ \/ /\ t.samples.name = Resources!File("samples", t.id) /\ t.samples.name \notin s.files
        /\ t.maps[2] = Resources!File("samples", t.id)
     \/ t.samples.name = Resources!Nameless /\ t.maps[2] = Resources!File("client_shm", t.id)
  /\ u.open = [s.open EXCEPT ![t.fd] = Resources!File("audio", t.id),
                             ![t.header.fd] = t.maps[1], ![t.samples.fd] = t.maps[2]]
  /\ u.files = s.files \union ({t.header.name, t.samples.name} \ {Resources!Nameless})
  /\ u.lost = s.lost

(* Stream t gives up what it owns. *)
Gone(s, u, t) ==
  /\ u \in Tables
  /\ u.open = [s.open EXCEPT ![t.fd] = Resources!Closed, ![t.samples.fd] = Resources!Closed,
                             ![t.header.fd] = Resources!Closed]
  /\ u.files = s.files \ {t.samples.name, t.header.name} /\ u.lost = s.lost

LEMMA DestroyStream ==
  ASSUME NEW s \in Tables, NEW t
  PROVE  Gone(s, Resources!cras_rstream_destroy(s, t), t)
<1> DEFINE w == Resources!Close(s, t.fd)
           u == Resources!cras_audio_shm_destroy(w, t.header, t.samples)
<1>1. /\ w \in Tables /\ w.files = s.files /\ w.lost = s.lost
      /\ w.open = [s.open EXCEPT ![t.fd] = Resources!Closed]
  BY ClosedTable
<1>2. Resources!cras_rstream_destroy(s, t) = u
  BY DEF Resources!cras_rstream_destroy
<1> HIDE DEF w
<1>3. Destroyed(w, u, t.header, t.samples)
  BY <1>1, DestroyShm
<1> HIDE DEF u
<1> QED BY <1>1, <1>2, <1>3 DEF Destroyed, Gone

(* The table with the descriptors a and b closed. *)
Shut(s, u, a, b) ==
  /\ u \in Tables
  /\ u.open = [s.open EXCEPT ![a] = Resources!Closed, ![b] = Resources!Closed]
  /\ u.files = s.files /\ u.lost = s.lost

LEMMA CleanupConfig ==
  ASSUME NEW s \in Tables, NEW config
  PROVE  Shut(s, Resources!cras_rstream_config_cleanup(s, config), config.audio_fd, config.client_shm_fd)
<1> DEFINE w == Resources!Close(s, config.audio_fd)
           u == Resources!Close(w, config.client_shm_fd)
<1>1. /\ w \in Tables /\ w.files = s.files /\ w.lost = s.lost
      /\ w.open = [s.open EXCEPT ![config.audio_fd] = Resources!Closed]
  BY ClosedTable
<1>2. Resources!cras_rstream_config_cleanup(s, config) = u
  BY DEF Resources!cras_rstream_config_cleanup
<1> HIDE DEF w
<1>3. /\ u \in Tables /\ u.files = w.files /\ u.lost = w.lost
      /\ u.open = [w.open EXCEPT ![config.client_shm_fd] = Resources!Closed]
  BY <1>1, ClosedTable
<1> HIDE DEF u
<1> QED BY <1>1, <1>2, <1>3 DEF Shut

(* The descriptors that come with the message: the audio socket and, if    *)
(* the client brings its own memory, that.                                 *)
Received(s, u, id, a, b) ==
  /\ u \in Tables
  /\ a \in Resources!Fds /\ s.open[a] = Resources!Closed
  /\ \/ b = -1
     \/ b \in Resources!Fds /\ b # a /\ s.open[b] = Resources!Closed
  /\ u.open = [s.open EXCEPT ![a] = Resources!File("audio", id), ![b] = Resources!File("client_shm", id)]
  /\ u.files = s.files /\ u.lost = s.lost

LEMMA MessageReceived ==
  ASSUME NEW s \in Tables, Room(s, 4), NEW id \in Ids, NEW own \in BOOLEAN
  PROVE  LET af == Resources!File("audio", id)
             cf == Resources!File("client_shm", id)
             u == IF own THEN Resources!Opened(Resources!Opened(s, af), cf) ELSE Resources!Opened(s, af)
             b == IF own THEN Resources!Lowest(Resources!Opened(s, Resources!Nameless)) ELSE -1
         IN  Received(s, u, id, Resources!Lowest(s), b) /\ Room(u, 2)
<1> DEFINE af == Resources!File("audio", id)
           cf == Resources!File("client_shm", id)
           a  == Resources!Lowest(s)
           w  == Resources!Opened(s, af)
           v  == Resources!Opened(w, cf)
           c  == Resources!Lowest(w)
           n  == Resources!Opened(s, Resources!Nameless)
<1>0. s.open \in [Resources!Fds -> Files]
  BY DEF Tables
<1>1. af \in Files /\ cf \in Files /\ af # Resources!Closed /\ cf # Resources!Closed
  BY FileFacts DEF Kinds
<1> HIDE DEF af, cf
<1>2. /\ a \in Resources!Fds /\ s.open[a] = Resources!Closed
      /\ w \in Tables /\ w.open = [s.open EXCEPT ![a] = af]
      /\ w.files = s.files /\ w.lost = s.lost /\ Room(w, 4 - 1)
  BY <1>1, OpenedTable
<1>3. Room(w, 3)
  BY <1>2
<1> HIDE DEF w, a
<1>4. /\ c \in Resources!Fds /\ w.open[c] = Resources!Closed
      /\ v \in Tables /\ v.open = [w.open EXCEPT ![c] = cf]
      /\ v.files = w.files /\ v.lost = w.lost /\ Room(v, 3 - 1)
  <2>1. w \in Tables
    BY <1>2
  <2> QED BY <1>1, <1>3, <2>1, OpenedTable
<1>5. Resources!Lowest(n) = c
  <2>1. n = [s EXCEPT !.open[a] = Resources!Nameless]
    BY DEF Resources!Opened, a
  <2>2. Resources!Nameless # Resources!Closed
    BY DEF Resources!Nameless, Resources!Closed
  <2>3. \A x \in Resources!Fds : (n.open[x] = Resources!Closed) <=> (w.open[x] = Resources!Closed)
    <3> TAKE x \in Resources!Fds
    <3> HIDE DEF n
    <3>1. n.open = [s.open EXCEPT ![a] = Resources!Nameless]
      BY <2>1 DEF Tables
    <3> QED BY <1>0, <1>1, <1>2, <2>2, <3>1
  <2> HIDE DEF n
  <2>4. {x \in Resources!Fds : n.open[x] = Resources!Closed} = {x \in Resources!Fds : w.open[x] = Resources!Closed}
    BY <2>3
  <2> QED BY <2>4 DEF Resources!Lowest, c
<1> HIDE DEF c, v, n
<1>6. c # a /\ s.open[c] = Resources!Closed
  BY <1>0, <1>1, <1>2, <1>4
<1>7. Received(s, v, id, a, c) /\ Room(v, 2)
  BY <1>2, <1>4, <1>6 DEF Received, af, cf
<1>8. Received(s, w, id, a, -1)
  <2>1. -1 \notin Resources!Fds
    BY ResourcesAssumption DEF Resources!Fds
  <2>2. w.open = [s.open EXCEPT ![a] = af, ![-1] = cf]
    BY <1>0, <1>2, <2>1
  <2> QED BY <1>2, <2>2 DEF Received, af, cf
<1>9. Room(w, 2)
  <2>1. Cardinality(Free(w)) \in Nat
    BY <1>3, FS_CardinalityType DEF Room
  <2> QED BY <1>3, <2>1 DEF Room
<1>10. CASE own
  BY <1>5, <1>7, <1>10 DEF a, c, v, w, af, cf, n
<1>11. CASE ~ own
  BY <1>8, <1>9, <1>11 DEF a, w, af
<1> QED BY <1>10, <1>11

(* Closing the message's descriptors after a failure.                      *)
LEMMA FailedCleanup ==
  ASSUME NEW s \in Tables, NEW m, NEW id \in Ids, NEW a, NEW b, Received(s, m, id, a, b), NEW u, NEW v,
         Shut(u, v, a, b)
  PROVE  /\ Same(m, u) => Same(s, v)
         /\ \A fd \in Resources!Fds, k \in {"header", "samples"} :
              Lost(m, u, fd, Resources!File(k, id)) => Lost(s, v, fd, Resources!File(k, id))
<1>0. s.open \in [Resources!Fds -> Files]
  BY DEF Tables
<1>1. /\ Resources!File("audio", id) \in Files /\ Resources!File("client_shm", id) \in Files
      /\ Resources!File("audio", id) # Resources!Closed
      /\ Resources!File("client_shm", id) # Resources!Closed
  BY FileFacts DEF Kinds
<1>2. ASSUME Same(m, u) PROVE Same(s, v)
  <2>1. v.open = s.open
    BY <1>0, <1>1, <1>2 DEF Received, Same, Shut
  <2> QED BY <1>2, <2>1 DEF Received, Same, Shut
<1>3. ASSUME NEW fd \in Resources!Fds, NEW k \in {"header", "samples"},
             Lost(m, u, fd, Resources!File(k, id))
      PROVE  Lost(s, v, fd, Resources!File(k, id))
  <2> DEFINE f == Resources!File(k, id)
  <2>1. f \in Files
    BY FileFacts DEF Kinds
  <2> HIDE DEF f
  <2>2. m.open[fd] = Resources!Closed
    BY <1>3 DEF Lost
  <2>3. fd # a /\ fd # b /\ s.open[fd] = Resources!Closed
    BY <1>0, <1>1, <2>2 DEF Received
  <2>4. u.open = [m.open EXCEPT ![fd] = f] /\ u.files = m.files \union {f} /\ f \notin m.files
    BY <1>3 DEF Lost, f
  <2>5. v.open = [s.open EXCEPT ![fd] = f]
    BY <1>0, <1>1, <2>1, <2>3, <2>4 DEF Received, Shut
  <2> QED BY <1>3, <2>3, <2>5, <2>4 DEF Lost, Received, Shut, f
<1> QED BY <1>2, <1>3

(* The memory made after the message, and the message's copy closed.       *)
LEMMA StreamMade ==
  ASSUME NEW s \in Tables, NEW m, NEW id \in Ids, NEW a, NEW b, Received(s, m, id, a, b), NEW u, NEW o,
         NEW hd \in Resources!Fds, NEW sd \in Resources!Fds, Built(m, u, id, hd, sd, o),
         NEW t, t.id = id, t.fd = a, t.header = o.header, t.samples = o.samples, t.maps = o.maps,
         NEW v, Resources!Nameless \notin s.files
  PROVE  /\ Shut(u, v, -1, b) => Added(s, v, t)
         /\ \A w : Gone(u, w, t) /\ Shut(w, v, -1, b) => Same(s, v)
<1> DEFINE hf == o.maps[1]
           g  == o.maps[2]
<1>0. s.open \in [Resources!Fds -> Files] /\ -1 \notin Resources!Fds
  BY ResourcesAssumption DEF Tables, Resources!Fds
<1>1. /\ Resources!File("audio", id) \in Files /\ Resources!File("client_shm", id) \in Files
      /\ Resources!File("audio", id) # Resources!Closed
      /\ Resources!File("client_shm", id) # Resources!Closed
      /\ hf \in Files /\ g \in Files
  BY FileFacts DEF Kinds, Built
<1>2. /\ m.open[hd] = Resources!Closed /\ m.open[sd] = Resources!Closed /\ hd # sd
      /\ t.header.fd = hd /\ t.samples.fd = sd
      /\ u.open = [m.open EXCEPT ![hd] = hf, ![sd] = g]
  BY DEF Built
<1>3. /\ hd # a /\ hd # b /\ sd # a /\ sd # b
      /\ s.open[hd] = Resources!Closed /\ s.open[sd] = Resources!Closed
      /\ a \in Resources!Fds /\ s.open[a] = Resources!Closed
      /\ m.open = [s.open EXCEPT ![a] = Resources!File("audio", id), ![b] = Resources!File("client_shm", id)]
      /\ b = -1 \/ (b \in Resources!Fds /\ b # a /\ s.open[b] = Resources!Closed)
  BY <1>0, <1>1, <1>2 DEF Received
<1>4. ASSUME Shut(u, v, -1, b) PROVE Added(s, v, t)
  <2>0. v.open = [u.open EXCEPT ![-1] = Resources!Closed, ![b] = Resources!Closed]
    BY <1>4 DEF Shut
  <2> HIDE DEF hf, g
  <2>1. v.open = [s.open EXCEPT ![a] = Resources!File("audio", id), ![hd] = hf, ![sd] = g]
    BY <1>0, <1>1, <1>2, <1>3, <2>0
  <2>2. v \in Tables /\ v.files = u.files /\ v.lost = u.lost /\ m.files = s.files /\ m.lost = s.lost
    BY <1>4 DEF Shut, Received
  <2> QED BY <1>2, <1>3, <2>1, <2>2 DEF Added, Built, hf, g
<1>5. ASSUME NEW w, Gone(u, w, t), Shut(w, v, -1, b) PROVE Same(s, v)
  <2>0. /\ v.open = [w.open EXCEPT ![-1] = Resources!Closed, ![b] = Resources!Closed]
        /\ w.open = [u.open EXCEPT ![a] = Resources!Closed, ![sd] = Resources!Closed, ![hd] = Resources!Closed]
    BY <1>2, <1>5 DEF Shut, Gone
  <2> HIDE DEF hf, g
  <2>1. v.open = s.open
    BY <1>0, <1>1, <1>2, <1>3, <2>0
  <2>2. /\ v \in Tables /\ v.files = u.files \ {o.samples.name, o.header.name}
        /\ v.lost = u.lost /\ m.files = s.files /\ m.lost = s.lost
    BY <1>5 DEF Shut, Gone, Received
  <2>3. /\ u.files = m.files \union ({o.header.name, o.samples.name} \ {Resources!Nameless})
        /\ u.lost = m.lost /\ o.header.name \notin m.files
        /\ o.samples.name \notin m.files \/ o.samples.name = Resources!Nameless
    BY DEF Built
  <2>4. v.files = s.files
    BY <2>2, <2>3
  <2> QED BY <2>1, <2>2, <2>3, <2>4 DEF Same
<1> QED BY <1>4, <1>5

(* A message to connect a stream leaves the table as it was, loses a file  *)
(* or adds a stream.                                                       *)
LEMMA Connected ==
  ASSUME r \in Tables, Room(r, 4), Resources!Nameless \notin r.files,
         NEW id \in Ids, NEW own \in BOOLEAN, NEW at, NEW err \in Nat \ {0},
         Resources!rclient_handle_client_stream_connect(id, own, at, err)
  PROVE  /\ deleting' = deleting
         /\ \/ Same(r, r') /\ streams' = streams
            \/ /\ Cardinality(r.lost.fds) < MaxLeaks /\ streams' = streams
               /\ \E fd \in Resources!Fds, k \in {"header", "samples"} :
                    Lost(r, r', fd, Resources!File(k, id))
            \/ \E t : Added(r, r', t) /\ streams' = streams \union {t}
<1> DEFINE af == Resources!File("audio", id)
           cf == Resources!File("client_shm", id)
           m  == IF own THEN Resources!Opened(Resources!Opened(r, af), cf) ELSE Resources!Opened(r, af)
           a  == Resources!Lowest(r)
           b  == IF own THEN Resources!Lowest(Resources!Opened(r, Resources!Nameless)) ELSE -1
           config == [id |-> id, audio_fd |-> a, client_shm_fd |-> b]
           c  == Resources!cras_rstream_create(m, config, at, err)
           o  == Resources!setup_shm_area(m, config, at, err)
           x  == IF at[1] = "validate" THEN m ELSE c.s
           w  == Resources!cras_rstream_destroy(c.s, c.stream)
<1>1. /\ at[1] = "posix_fallocate" => Resources!Cardinality(r.lost.fds) < MaxLeaks
      /\ IF at = <<"validate", "params">> \/ c.rc < 0
         THEN r' = Resources!cras_rstream_config_cleanup(x, config) /\ UNCHANGED streams
         ELSE IF at[1] \in {"added", "send"}
              THEN r' = Resources!cras_rstream_config_cleanup(w, c.config) /\ UNCHANGED streams
              ELSE /\ r' = Resources!cras_rstream_config_cleanup(c.s, c.config)
                   /\ streams' = streams \union {c.stream}
      /\ UNCHANGED deleting
  BY DEF Resources!rclient_handle_client_stream_connect
<1>2. Received(r, m, id, a, b) /\ Room(m, 2)
  BY MessageReceived
<1> HIDE DEF m, a, b
<1>3. m \in Tables /\ m.files = r.files
  BY <1>2 DEF Received
<1>4. config.id = id /\ config.audio_fd = a /\ config.client_shm_fd = b
  OBVIOUS
<1>5. \/ b = -1
      \/ b \in Resources!Fds /\ m.open[b] = Resources!File("client_shm", id)
  <2>1. r.open \in [Resources!Fds -> Files]
    BY DEF Tables
  <2> QED BY <1>2, <2>1 DEF Received
<1>6. \/ o.rc = -1 /\ Same(m, o.s)
      \/ /\ o.rc = -1 /\ at[1] = "posix_fallocate"
         /\ \E fd \in Resources!Fds, k \in {"header", "samples"} :
              Lost(m, o.s, fd, Resources!File(k, id))
      \/ o.rc = 0 /\ \E hd, sd \in Resources!Fds : Built(m, o.s, id, hd, sd, o)
  <2> HIDE DEF config
  <2> QED BY <1>2, <1>3, <1>4, <1>5, SetupShm
<1>7. c = IF at = <<"verify", "config">> THEN [s |-> m, rc |-> -1, config |-> config]
          ELSE IF o.rc < 0 THEN [s |-> o.s, rc |-> -1, config |-> config]
          ELSE [s |-> o.s, rc |-> 0, config |-> [config EXCEPT !.audio_fd = -1],
                stream |-> [id |-> config.id, fd |-> config.audio_fd, header |-> o.header,
                            samples |-> o.samples, maps |-> o.maps]]
  BY DEF Resources!cras_rstream_create
<1> HIDE DEF o, c
<1>8. CASE at = <<"validate", "params">> \/ c.rc < 0
  <2>1. r' = Resources!cras_rstream_config_cleanup(x, config) /\ UNCHANGED <<streams, deleting>>
    BY <1>1, <1>8
  <2>2. \/ Same(m, x)
        \/ /\ at[1] = "posix_fallocate"
           /\ \E fd \in Resources!Fds, k \in {"header", "samples"} :
                Lost(m, x, fd, Resources!File(k, id))
    <3>1. Same(m, m)
      BY <1>3 DEF Same
    <3>2. CASE at = <<"verify", "config">> \/ at[1] = "validate"
      <4>1. x = m
        BY <1>7, <3>2
      <4> QED BY <3>1, <4>1
    <3>3. CASE ~(at = <<"verify", "config">> \/ at[1] = "validate")
      <4>0. at # <<"validate", "params">>
        BY <3>3
      <4>1. c.rc < 0
        BY <1>8, <4>0
      <4>2. o.rc < 0
        BY <1>7, <3>3, <4>1
      <4>3. x = o.s
        BY <1>7, <3>3, <4>2
      <4> HIDE DEF x
      <4> QED BY <1>6, <4>2, <4>3
    <3> QED BY <3>2, <3>3
  <2>3. x \in Tables
    BY <2>2 DEF Same, Lost
  <2> HIDE DEF x, config
  <2>4. Shut(x, r', a, b)
    BY <1>4, <2>1, <2>3, CleanupConfig
  <2>5. /\ Same(m, x) => Same(r, r')
        /\ \A fd \in Resources!Fds, k \in {"header", "samples"} :
              Lost(m, x, fd, Resources!File(k, id)) => Lost(r, r', fd, Resources!File(k, id))
    BY <1>2, <2>4, FailedCleanup
  <2>6. at[1] = "posix_fallocate" => Cardinality(r.lost.fds) < MaxLeaks
    BY <1>1, SameCardinality
  <2> QED BY <2>1, <2>2, <2>5, <2>6
<1>9. CASE ~(at = <<"validate", "params">> \/ c.rc < 0)
  <2>1. ~(o.rc < 0) /\ at # <<"verify", "config">>
    BY <1>7, <1>9
  <2>2. /\ c.s = o.s /\ c.config.audio_fd = -1 /\ c.config.client_shm_fd = b
        /\ c.stream.id = id /\ c.stream.fd = a /\ c.stream.header = o.header
        /\ c.stream.samples = o.samples /\ c.stream.maps = o.maps
    BY <1>7, <2>1
  <2>3. PICK hd, sd \in Resources!Fds : Built(m, o.s, id, hd, sd, o)
    BY <1>6, <2>1
  <2>4. c.s \in Tables
    BY <2>2, <2>3 DEF Built
  <2>5. /\ Shut(c.s, r', -1, b) => Added(r, r', c.stream)
        /\ \A v : Gone(c.s, v, c.stream) /\ Shut(v, r', -1, b) => Same(r, r')
    <3>1. Built(m, c.s, id, hd, sd, o)
      BY <2>2, <2>3
    <3> QED BY <1>2, <2>2, <3>1, StreamMade
  <2>6. CASE at[1] \in {"added", "send"}
    <3>1. r' = Resources!cras_rstream_config_cleanup(w, c.config) /\ UNCHANGED <<streams, deleting>>
      BY <1>1, <1>9, <2>6
    <3>2. Gone(c.s, w, c.stream)
      BY <2>4, DestroyStream
    <3> HIDE DEF w
    <3>3. w \in Tables
      BY <3>2 DEF Gone
    <3>4. Shut(w, r', -1, b)
      BY <2>2, <3>1, <3>3, CleanupConfig
    <3> QED BY <2>5, <3>1, <3>2, <3>4
  <2>7. CASE at[1] \notin {"added", "send"}
    <3>1. r' = Resources!cras_rstream_config_cleanup(c.s, c.config)
      BY <1>1, <1>9, <2>7
    <3>2. streams' = streams \union {c.stream} /\ UNCHANGED deleting
      BY <1>1, <1>9, <2>7
    <3>3. Shut(c.s, r', -1, b)
      BY <2>2, <2>4, <3>1, CleanupConfig
    <3> QED BY <2>5, <3>2, <3>3
  <2> QED BY <2>6, <2>7
<1> QED BY <1>8, <1>9

LEMMA UnionBound ==
  ASSUME NEW S, NEW T, IsFiniteSet(S), IsFiniteSet(T)
  PROVE  /\ IsFiniteSet(S \union T) /\ Cardinality(S \union T) \in Nat
         /\ Cardinality(S) \in Nat /\ Cardinality(T) \in Nat
         /\ Cardinality(S \union T) <= Cardinality(S) + Cardinality(T)
<1>1. /\ IsFiniteSet(S \union T) /\ IsFiniteSet(S \intersect T)
      /\ Cardinality(S \union T) = Cardinality(S) + Cardinality(T) - Cardinality(S \intersect T)
  BY FS_Union, FS_Intersection
<1>2. /\ Cardinality(S) \in Nat /\ Cardinality(T) \in Nat /\ Cardinality(S \intersect T) \in Nat
      /\ Cardinality(S \union T) \in Nat
  BY <1>1, FS_CardinalityType
<1> QED BY <1>1, <1>2

(* There is room for the four descriptors of a new stream.                 *)
LEMMA RoomForStream ==
  ASSUME NEW s, NEW L, Sound(s, L)
  PROVE  Room(s, 4)
<1> DEFINE S == Ids \X (1..3)
           of(id) == CHOOSE t \in L : t.id = id
           F == [p \in S |-> IF p[2] = 1 THEN of(p[1]).fd
                             ELSE IF p[2] = 2 THEN of(p[1]).header.fd ELSE of(p[1]).samples.fd]
           T == {F[p] : p \in S}
           n == Cardinality(Ids)
           U == s.lost.fds \union T
           V == U \union {0}
<1>1. IsFiniteSet(Ids) /\ n \in Nat /\ MaxLeaks \in Nat /\ MaxFd \in Nat /\ MaxFd >= 3 * n + MaxLeaks + 4
  BY ResourcesAssumption, FS_CardinalityType
<1>2. IsFiniteSet(1..3) /\ Cardinality(1..3) = 3
  <2>1. \A j \in Int : /\ IsFiniteSet(1..j)
                      /\ Cardinality(1..j) = IF 1 > j THEN 0 ELSE j - 1 + 1
    BY FS_Interval
  <2>2. 3 \in Int /\ ~(1 > 3) /\ 3 - 1 + 1 = 3
    OBVIOUS
  <2> QED BY <2>1, <2>2
<1>3. IsFiniteSet(S) /\ Cardinality(S) = n * 3
  BY <1>1, <1>2, FS_Product
<1>4. F \in Surjection(S, T)
  BY DEF Surjection
<1>5. IsFiniteSet(T) /\ Cardinality(T) <= n * 3 /\ Cardinality(T) \in Nat
  <2> HIDE DEF S, F, T
  <2>1. IsFiniteSet(T) /\ Cardinality(T) <= Cardinality(S)
    BY <1>3, <1>4, FS_Surjection
  <2>2. Cardinality(T) \in Nat
    BY <2>1, FS_CardinalityType
  <2> QED BY <1>3, <2>1, <2>2
<1>6. ASSUME NEW t \in L PROVE Resources!Owned(t) \subseteq T
  <2>1. t.id \in Ids
    BY DEF Sound, Whole
  <2>2. of(t.id) = t
    BY DEF Sound
  <2>3. /\ <<t.id, 1>> \in S /\ <<t.id, 2>> \in S /\ <<t.id, 3>> \in S
    BY <2>1
  <2> HIDE DEF of, S
  <2>4. F[<<t.id, 1>>] = t.fd /\ F[<<t.id, 2>>] = t.header.fd /\ F[<<t.id, 3>>] = t.samples.fd
    BY <2>2, <2>3
  <2> HIDE DEF F
  <2> QED BY <2>3, <2>4 DEF Resources!Owned
<1>7. Resources!Fds \subseteq V \union Free(s)
  <2> SUFFICES ASSUME NEW fd \in Resources!Fds, fd # 0, s.open[fd] # Resources!Closed PROVE fd \in V
    BY DEF Free
  <2>1. fd \in s.lost.fds \/ \E t \in L : fd \in Resources!Owned(t)
    BY DEF Sound
  <2> HIDE DEF T
  <2> QED BY <1>6, <2>1
<1> HIDE DEF S, F, T, of
<1>8. IsFiniteSet(s.lost.fds) /\ Cardinality(s.lost.fds) <= MaxLeaks
  BY DEF Sound, LossesKept
<1>9. /\ IsFiniteSet(U) /\ Cardinality(U) \in Nat /\ Cardinality(s.lost.fds) \in Nat
      /\ Cardinality(U) <= Cardinality(s.lost.fds) + Cardinality(T)
  BY <1>5, <1>8, UnionBound
<1> HIDE DEF U
<1>10. /\ IsFiniteSet(V) /\ Cardinality(V) \in Nat /\ Cardinality(V) <= Cardinality(U) + 1
  <2>1. IsFiniteSet({0}) /\ Cardinality({0}) = 1
    BY FS_Singleton
  <2>2. IsFiniteSet(V) /\ Cardinality(V) \in Nat /\ Cardinality(V) <= Cardinality(U) + Cardinality({0})
    BY <1>9, <2>1, UnionBound
  <2> QED BY <2>1, <2>2
<1> HIDE DEF V
<1>11. IsFiniteSet(Resources!Fds) /\ Cardinality(Resources!Fds) = MaxFd + 1
  BY <1>1, FS_Interval DEF Resources!Fds
<1>12. IsFiniteSet(Free(s))
  BY <1>11, FS_Subset DEF Free
<1>13. /\ IsFiniteSet(V \union Free(s)) /\ Cardinality(V \union Free(s)) \in Nat
       /\ Cardinality(Free(s)) \in Nat
       /\ Cardinality(V \union Free(s)) <= Cardinality(V) + Cardinality(Free(s))
  BY <1>10, <1>12, UnionBound
<1>14. Cardinality(Resources!Fds) <= Cardinality(V \union Free(s))
  BY <1>7, <1>13, FS_Subset
<1>15. Cardinality(Free(s)) >= 4
  <2> HIDE DEF n
  <2> QED BY <1>1, <1>5, <1>8, <1>9, <1>10, <1>11, <1>13, <1>14
<1> QED BY <1>12, <1>15 DEF Room

(* Sound depends on the fields of the table only. *)
LEMMA SameSound ==
  ASSUME NEW s, NEW u, NEW L, Sound(s, L), Same(s, u)
  PROVE  Sound(u, L)
BY DEF Sound, Same, Whole, LossesKept

(* A name of a file tells its stream and its use. *)
LEMMA NamesDiffer ==
  ASSUME NEW k \in Kinds, NEW j \in Kinds, NEW id \in Ids, NEW jd \in Ids,
         Resources!File(k, id) = Resources!File(j, jd)
  PROVE  k = j /\ id = jd
<1>1. Resources!File(k, id).k = k /\ Resources!File(k, id).id = id
  BY FileFacts
<1>2. Resources!File(j, jd).k = j /\ Resources!File(j, jd).id = jd
  BY FileFacts
<1> QED BY <1>1, <1>2

LEMMA NamelessNoFile ==
  ASSUME NEW s, NEW L, Sound(s, L)
  PROVE  Resources!Nameless \notin s.files
<1>1. \A k \in {"header", "samples"}, id \in Ids : Resources!File(k, id) # Resources!Nameless
  BY FileFacts DEF Kinds
<1> QED BY <1>1 DEF Sound

(* Losing a file that cannot have its size disturbs no stream. *)
LEMMA LostSound ==
  ASSUME NEW s, NEW u, NEW L, Sound(s, L), NEW fd, NEW k \in {"header", "samples"}, NEW id \in Ids,
         Lost(s, u, fd, Resources!File(k, id)), Cardinality(s.lost.fds) < MaxLeaks
  PROVE  Sound(u, L)
<1> DEFINE f == Resources!File(k, id)
<1>0. /\ s \in Tables /\ s.open \in [Resources!Fds -> Files]
      /\ \A t \in L : Whole(s, t)
      /\ LossesKept(s)
  BY DEF Sound, Tables
<1>1. /\ u \in Tables /\ fd \in Resources!Fds /\ s.open[fd] = Resources!Closed /\ f \notin s.files
      /\ u.open = [s.open EXCEPT ![fd] = f] /\ u.files = s.files \union {f}
      /\ u.lost.fds = s.lost.fds \union {fd} /\ u.lost.files = s.lost.files \union {f}
  BY DEF Lost
<1>2. f # Resources!Closed /\ f # Resources!Nameless /\ f \in Files
  BY FileFacts DEF Kinds
<1>3. u.files \subseteq {Resources!File(j, i) : j \in {"header", "samples"}, i \in Ids}
  BY <1>1 DEF Sound
<1> HIDE DEF f
<1>4. fd # 0
  <2>1. Resources!File("stdin", "none") # Resources!Closed
    BY FileFacts DEF Kinds
  <2> QED BY <1>1, <2>1 DEF Sound
<1>5. 0 \in Resources!Fds
  BY ResourcesAssumption DEF Resources!Fds
<1>6. u.open[0] = Resources!File("stdin", "none")
  BY <1>0, <1>1, <1>4, <1>5 DEF Sound
<1>7. LossesKept(u)
  <2>1. fd \notin s.lost.fds
    BY <1>0, <1>1 DEF LossesKept
  <2>2. /\ IsFiniteSet(s.lost.fds \union {fd})
        /\ Cardinality(s.lost.fds \union {fd}) = Cardinality(s.lost.fds) + 1
        /\ Cardinality(s.lost.fds) \in Nat
    BY <1>0, <2>1, FS_AddElement, FS_CardinalityType DEF LossesKept
  <2>3. MaxLeaks \in Nat
    BY ResourcesAssumption
  <2>4. \A x \in u.lost.fds : u.open[x] # Resources!Closed
    <3>1. s.lost.fds \subseteq Resources!Fds
      BY <1>0 DEF Tables
    <3> QED BY <1>0, <1>1, <1>2, <3>1 DEF LossesKept
  <2> QED BY <1>0, <1>1, <1>4, <2>2, <2>3, <2>4 DEF LossesKept
<1>8. ASSUME NEW t \in L PROVE Whole(u, t)
  <2>1. Whole(s, t)
    BY <1>0
  <2>2. /\ Resources!File("audio", t.id) # Resources!Closed
        /\ Resources!File("header", t.id) # Resources!Closed
        /\ Resources!File("samples", t.id) # Resources!Closed
        /\ Resources!File("client_shm", t.id) # Resources!Closed
    BY <2>1, FileFacts DEF Whole, Kinds
  <2>3. t.fd # fd /\ t.header.fd # fd /\ t.samples.fd # fd
    BY <1>1, <2>1, <2>2 DEF Whole
  <2>4. f \notin Resources!Names(t)
    BY <1>1, <1>2, <2>1 DEF Whole
  <2>5. /\ u.open[t.fd] = s.open[t.fd] /\ u.open[t.header.fd] = s.open[t.header.fd]
        /\ u.open[t.samples.fd] = s.open[t.samples.fd]
    BY <1>0, <1>1, <2>1, <2>3 DEF Whole
  <2>6. /\ Resources!Owned(t) \intersect u.lost.fds = {}
        /\ Resources!Names(t) \intersect u.lost.files = {}
        /\ Resources!Names(t) \ {Resources!Nameless} \subseteq u.files
    BY <1>1, <2>1, <2>3, <2>4 DEF Whole, Resources!Owned
  <2> QED BY <2>1, <2>5, <2>6 DEF Whole
<1>9. ASSUME NEW x \in Resources!Fds \ {0}, u.open[x] # Resources!Closed
      PROVE  x \in u.lost.fds \/ \E t \in L : x \in Resources!Owned(t)
  BY <1>0, <1>1, <1>9 DEF Sound
<1>10. ASSUME NEW g \in u.files
       PROVE  g \in u.lost.files \/ \E t \in L : g \in Resources!Names(t)
  BY <1>1, <1>10 DEF Sound
<1> QED BY <1>1, <1>3, <1>6, <1>7, <1>8, <1>9, <1>10 DEF Sound

(* A new stream gets an id, descriptors and files that no other one has.   *)
LEMMA AddedSound ==
  ASSUME NEW s, NEW u, NEW L, Sound(s, L), NEW t, Added(s, u, t)
  PROVE  Sound(u, L \union {t}) /\ t \notin L
<1> DEFINE a == t.fd
           h == t.header.fd
           m == t.samples.fd
           af == Resources!File("audio", t.id)
           hf == Resources!File("header", t.id)
           sf == Resources!File("samples", t.id)
           cf == Resources!File("client_shm", t.id)
<1>0. /\ s \in Tables /\ s.open \in [Resources!Fds -> Files]
      /\ \A v \in L : Whole(s, v)
      /\ LossesKept(s)
  BY DEF Sound, Tables
<1>1. /\ u \in Tables /\ a \in Resources!Fds /\ h \in Resources!Fds /\ m \in Resources!Fds
      /\ a # h /\ a # m /\ h # m
      /\ s.open[a] = Resources!Closed /\ s.open[h] = Resources!Closed /\ s.open[m] = Resources!Closed
      /\ u.open = [s.open EXCEPT ![a] = af, ![h] = t.maps[1], ![m] = t.maps[2]]
      /\ u.lost = s.lost /\ t.id \in Ids /\ t.maps[1] = hf /\ t.maps[2] \in {sf, cf}
      /\ t.header.name = hf /\ hf \notin s.files
      /\ t.samples.name \in {sf, Resources!Nameless}
      /\ t.samples.name = sf => sf \notin s.files
      /\ u.files = s.files \union ({t.header.name, t.samples.name} \ {Resources!Nameless})
  <2>1. t.id \in Ids
    BY DEF Added
  <2>2. sf # Resources!Nameless
    BY <2>1, FileFacts DEF Kinds
  <2> QED BY <2>2 DEF Added
<1>2. /\ af # Resources!Closed /\ hf # Resources!Closed /\ sf # Resources!Closed /\ cf # Resources!Closed
      /\ hf # Resources!Nameless /\ sf # Resources!Nameless
      /\ Resources!File("stdin", "none") # Resources!Closed
      /\ af \in Files /\ hf \in Files /\ sf \in Files /\ cf \in Files
  BY <1>1, FileFacts DEF Kinds
<1>3. u.files \subseteq {Resources!File(j, i) : j \in {"header", "samples"}, i \in Ids}
  <2>1. s.files \subseteq {Resources!File(j, i) : j \in {"header", "samples"}, i \in Ids}
    BY DEF Sound
  <2>2. /\ hf \in {Resources!File(j, i) : j \in {"header", "samples"}, i \in Ids}
        /\ sf \in {Resources!File(j, i) : j \in {"header", "samples"}, i \in Ids}
    BY <1>1
  <2> HIDE DEF hf, sf
  <2> QED BY <1>1, <2>1, <2>2
<1>4. 0 \in Resources!Fds /\ a # 0 /\ h # 0 /\ m # 0
  <2>1. 0 \in Resources!Fds
    BY ResourcesAssumption DEF Resources!Fds
  <2> QED BY <1>1, <1>2, <2>1 DEF Sound
<1>5. Resources!Nameless \notin s.files
  BY NamelessNoFile
<1> HIDE DEF a, h, m, af, hf, sf, cf
<1>6. \A x \in Resources!Fds :
         u.open[x] = IF x = a THEN af ELSE IF x = h THEN hf ELSE IF x = m THEN t.maps[2] ELSE s.open[x]
  BY <1>0, <1>1, <1>2
<1>7. u.open[0] = Resources!File("stdin", "none")
  BY <1>4, <1>6 DEF Sound
<1>8. LossesKept(u)
  <2>1. \A x \in u.lost.fds : u.open[x] # Resources!Closed
    <3>1. s.lost.fds \subseteq Resources!Fds
      BY <1>0 DEF Tables
    <3> QED BY <1>0, <1>1, <1>2, <1>6, <3>1 DEF LossesKept
  <2> QED BY <1>0, <1>1, <2>1 DEF LossesKept
<1>9. ASSUME NEW v \in L
      PROVE  /\ Whole(u, v) /\ v.id # t.id
             /\ Resources!Owned(v) \intersect Resources!Owned(t) = {}
  <2>1. Whole(s, v)
    BY <1>0
  <2>2. /\ Resources!File("audio", v.id) # Resources!Closed
        /\ Resources!File("header", v.id) # Resources!Closed
        /\ Resources!File("samples", v.id) # Resources!Closed
        /\ Resources!File("client_shm", v.id) # Resources!Closed
        /\ Resources!File("header", v.id) # Resources!Nameless
    BY <2>1, FileFacts DEF Whole, Kinds
  <2>3. /\ v.fd \notin {a, h, m} /\ v.header.fd \notin {a, h, m} /\ v.samples.fd \notin {a, h, m}
    BY <1>1, <2>1, <2>2 DEF Whole
  <2>4. v.id # t.id
    <3>1. Resources!File("header", v.id) \in s.files
      BY <2>1, <2>2 DEF Whole, Resources!Names
    <3> QED BY <1>1, <3>1 DEF hf
  <2>5. /\ u.open[v.fd] = s.open[v.fd] /\ u.open[v.header.fd] = s.open[v.header.fd]
        /\ u.open[v.samples.fd] = s.open[v.samples.fd]
    BY <1>6, <2>1, <2>3 DEF Whole
  <2>6. Whole(u, v)
    BY <1>1, <2>1, <2>5 DEF Whole
  <2>7. Resources!Owned(v) \intersect Resources!Owned(t) = {}
    BY <2>3 DEF Resources!Owned, a, h, m
  <2> QED BY <2>4, <2>6, <2>7
<1>10. Whole(u, t)
  <2>1. /\ t.id \in Ids
        /\ t.fd \in Resources!Fds \ {0} /\ t.header.fd \in Resources!Fds \ {0}
        /\ t.samples.fd \in Resources!Fds \ {0}
        /\ t.fd # t.header.fd /\ t.fd # t.samples.fd /\ t.header.fd # t.samples.fd
    BY <1>1, <1>4 DEF a, h, m
  <2>2. Resources!Owned(t) \intersect u.lost.fds = {}
    BY <1>0, <1>1 DEF LossesKept, Resources!Owned, a, h, m
  <2>3. /\ t.header.name = Resources!File("header", t.id)
        /\ t.samples.name \in {Resources!File("samples", t.id), Resources!Nameless}
        /\ t.maps[1] = Resources!File("header", t.id)
        /\ t.maps[2] \in {Resources!File("samples", t.id), Resources!File("client_shm", t.id)}
    BY <1>1 DEF hf, sf, cf
  <2>4. Resources!Names(t) \intersect u.lost.files = {}
    BY <1>0, <1>1, <1>5 DEF LossesKept, Resources!Names
  <2>5. Resources!Names(t) \ {Resources!Nameless} \subseteq u.files
    BY <1>1 DEF Resources!Names
  <2>6. u.open[a] = af /\ u.open[h] = hf /\ u.open[m] = t.maps[2]
    BY <1>1, <1>6
  <2> QED BY <1>1, <2>1, <2>2, <2>3, <2>4, <2>5, <2>6 DEF Whole, a, h, m, af, hf
<1>11. ASSUME NEW x \in Resources!Fds \ {0}, u.open[x] # Resources!Closed
       PROVE  x \in u.lost.fds \/ \E v \in L \union {t} : x \in Resources!Owned(v)
  <2>1. CASE x \in {a, h, m}
    BY <2>1 DEF Resources!Owned, a, h, m
  <2>2. CASE x \notin {a, h, m}
    <3>1. s.open[x] # Resources!Closed
      BY <1>6, <1>11, <2>2
    <3> QED BY <1>1, <3>1 DEF Sound
  <2> QED BY <2>1, <2>2
<1>12. ASSUME NEW g \in u.files
       PROVE  g \in u.lost.files \/ \E v \in L \union {t} : g \in Resources!Names(v)
  <2>1. CASE g \in s.files
    BY <1>1, <2>1 DEF Sound
  <2>2. CASE g \notin s.files
    <3>1. g \in Resources!Names(t)
      BY <1>1, <1>12, <2>2 DEF Resources!Names
    <3> QED BY <3>1
  <2> QED BY <2>1, <2>2
<1>13. \A v, w \in L \union {t} : v # w =>
          Resources!Owned(v) \intersect Resources!Owned(w) = {} /\ v.id # w.id
  <2>1. \A v, w \in L : v # w =>
          Resources!Owned(v) \intersect Resources!Owned(w) = {} /\ v.id # w.id
    BY DEF Sound
  <2> QED BY <1>9, <2>1
<1>14. t \notin L
  BY <1>9
<1>15. \A v \in L \union {t} : Whole(u, v)
  BY <1>9, <1>10
<1> QED BY <1>1, <1>3, <1>7, <1>8, <1>11, <1>12, <1>13, <1>14, <1>15 DEF Sound

(* Destroying a stream takes nothing from another and leaves nothing.      *)
LEMMA GoneSound ==
  ASSUME NEW s, NEW u, NEW L, Sound(s, L), NEW t \in L, Gone(s, u, t)
  PROVE  Sound(u, L \ {t})
<1> DEFINE a == t.fd
           h == t.header.fd
           m == t.samples.fd
<1>0. /\ s \in Tables /\ s.open \in [Resources!Fds -> Files]
      /\ \A v \in L : Whole(s, v)
      /\ LossesKept(s) /\ Whole(s, t)
  BY DEF Sound, Tables
<1>1. /\ u \in Tables /\ u.files = s.files \ {t.samples.name, t.header.name} /\ u.lost = s.lost
      /\ u.open = [s.open EXCEPT ![a] = Resources!Closed, ![m] = Resources!Closed, ![h] = Resources!Closed]
  BY DEF Gone
<1>2. /\ a \in Resources!Fds \ {0} /\ h \in Resources!Fds \ {0} /\ m \in Resources!Fds \ {0}
      /\ {a, h, m} \intersect s.lost.fds = {}
      /\ {t.samples.name, t.header.name} \intersect s.lost.files = {}
      /\ t.header.name = Resources!File("header", t.id) /\ t.id \in Ids
      /\ t.samples.name \in {Resources!File("samples", t.id), Resources!Nameless}
  BY <1>0 DEF Whole, Resources!Owned, Resources!Names
<1> HIDE DEF a, h, m
<1>3. \A x \in Resources!Fds :
         u.open[x] = IF x \in {a, h, m} THEN Resources!Closed ELSE s.open[x]
  BY <1>0, <1>1, <1>2
<1>4. 0 \in Resources!Fds
  BY ResourcesAssumption DEF Resources!Fds
<1>5. u.open[0] = Resources!File("stdin", "none")
  BY <1>2, <1>3, <1>4 DEF Sound
<1>6. LossesKept(u)
  <2>1. s.lost.fds \subseteq Resources!Fds
    BY <1>0 DEF Tables
  <2>2. \A x \in u.lost.fds : u.open[x] # Resources!Closed
    BY <1>0, <1>1, <1>2, <1>3, <2>1 DEF LossesKept
  <2>3. u.lost.files \subseteq u.files
    BY <1>0, <1>1, <1>2 DEF LossesKept
  <2> QED BY <1>0, <1>1, <2>2, <2>3 DEF LossesKept
<1>7. ASSUME NEW v \in L \ {t} PROVE Whole(u, v)
  <2>1. Whole(s, v) /\ v.id # t.id /\ Resources!Owned(v) \intersect Resources!Owned(t) = {}
    BY <1>0 DEF Sound
  <2>2. /\ v.fd \notin {a, h, m} /\ v.header.fd \notin {a, h, m} /\ v.samples.fd \notin {a, h, m}
    BY <2>1 DEF Resources!Owned, a, h, m
  <2>3. /\ u.open[v.fd] = s.open[v.fd] /\ u.open[v.header.fd] = s.open[v.header.fd]
        /\ u.open[v.samples.fd] = s.open[v.samples.fd]
    BY <1>3, <2>1, <2>2 DEF Whole
  <2>4. Resources!Names(v) \ {Resources!Nameless} \subseteq u.files
    <3>1. \A k, j \in {"header", "samples"} : Resources!File(k, v.id) # Resources!File(j, t.id)
      BY <1>2, <2>1, NamesDiffer DEF Whole, Kinds
    <3>2. \A g \in Resources!Names(v) \ {Resources!Nameless} :
             g \notin {t.samples.name, t.header.name} /\ g \in s.files
      BY <1>2, <2>1, <3>1 DEF Whole, Resources!Names
    <3> QED BY <1>1, <3>2
  <2> QED BY <1>1, <2>1, <2>3, <2>4 DEF Whole
<1>8. ASSUME NEW x \in Resources!Fds \ {0}, u.open[x] # Resources!Closed
      PROVE  x \in u.lost.fds \/ \E v \in L \ {t} : x \in Resources!Owned(v)
  <2>1. x \notin {a, h, m} /\ s.open[x] # Resources!Closed
    BY <1>3, <1>8
  <2>2. x \notin Resources!Owned(t)
    BY <2>1 DEF Resources!Owned, a, h, m
  <2> QED BY <1>1, <2>1, <2>2 DEF Sound
<1>9. ASSUME NEW g \in u.files
      PROVE  g \in u.lost.files \/ \E v \in L \ {t} : g \in Resources!Names(v)
  <2>1. g \in s.files /\ g \notin Resources!Names(t)
    BY <1>1, <1>9 DEF Resources!Names
  <2> QED BY <1>1, <2>1 DEF Sound
<1>10. u.files \subseteq {Resources!File(j, i) : j \in {"header", "samples"}, i \in Ids}
  BY <1>1 DEF Sound
<1>11. \A v, w \in L \ {t} : v # w =>
          Resources!Owned(v) \intersect Resources!Owned(w) = {} /\ v.id # w.id
  BY DEF Sound
<1> QED BY <1>1, <1>5, <1>6, <1>7, <1>8, <1>9, <1>10, <1>11 DEF Sound

LEMMA InitOwned == Resources!Init => OwnedInv
<1> SUFFICES ASSUME Resources!Init PROVE OwnedInv
  OBVIOUS
<1> DEFINE stdin == Resources!File("stdin", "none")
<1>1. streams = {} /\ deleting = {} /\ Resources!Live = {}
  BY DEF Resources!Init, Resources!Live
<1>2. stdin \in Files /\ Resources!Closed \in Files
  BY FileFacts DEF Kinds, Resources!Closed, Files
<1>3. /\ r.open = [fd \in Resources!Fds |-> IF fd = 0 THEN stdin ELSE Resources!Closed]
      /\ r.files = {} /\ r.lost.fds = {} /\ r.lost.files = {}
  BY DEF Resources!Init
<1>4. r \in Tables
  BY <1>2 DEF Resources!Init, Tables
<1> HIDE DEF stdin
<1>5. 0 \in Resources!Fds
  BY ResourcesAssumption DEF Resources!Fds
<1>6. r.open[0] = stdin
  BY <1>3, <1>5
<1>7. \A fd \in Resources!Fds \ {0} : r.open[fd] = Resources!Closed
  BY <1>3
<1>8. LossesKept(r)
  BY <1>3, FS_EmptySet, ResourcesAssumption DEF LossesKept
<1> QED BY <1>1, <1>3, <1>4, <1>6, <1>7, <1>8 DEF OwnedInv, Sound, stdin

(* A message that may not carry descriptors: they are closed at once.      *)
LEMMA ReadError ==
  ASSUME r \in Tables, Room(r, 4), Resources!handle_message_read_error
  PROVE  Same(r, r')
<1> DEFINE f == Resources!File("audio", "none")
           a == Resources!Lowest(r)
           u == Resources!Opened(r, f)
           v == Resources!Close(u, a)
           w == Resources!Close(v, a)
<1>0. r.open \in [Resources!Fds -> Files]
  BY DEF Tables
<1>1. f \in Files /\ f # Resources!Closed
  BY FileFacts DEF Kinds
<1>2. r' = w
  BY DEF Resources!handle_message_read_error
<1> HIDE DEF f
<1>3. /\ a \in Resources!Fds /\ r.open[a] = Resources!Closed
      /\ u \in Tables /\ u.open = [r.open EXCEPT ![a] = f] /\ u.files = r.files /\ u.lost = r.lost
  BY <1>1, OpenedTable
<1> HIDE DEF u
<1>4. /\ v \in Tables /\ v.files = u.files /\ v.lost = u.lost
      /\ v.open = [u.open EXCEPT ![a] = Resources!Closed]
  BY <1>3, ClosedTable
<1> HIDE DEF v
<1>5. /\ w \in Tables /\ w.files = v.files /\ w.lost = v.lost
      /\ w.open = [v.open EXCEPT ![a] = Resources!Closed]
  BY <1>4, ClosedTable
<1> HIDE DEF w, a
<1>6. w.open = r.open
  BY <1>0, <1>1, <1>3, <1>4, <1>5
<1> QED BY <1>2, <1>3, <1>4, <1>5, <1>6 DEF Same

LEMMA NextOwned ==
  ASSUME Errnos \subseteq Nat \ {0}, OwnedInv, [Resources!Next]_resourceVars
  PROVE  OwnedInv'
<1> USE DEF OwnedInv
<1>0. r \in Tables /\ Room(r, 4) /\ Resources!Nameless \notin r.files
  BY RoomForStream, NamelessNoFile DEF Sound
<1>1. ASSUME NEW id \in Ids, NEW own \in BOOLEAN, NEW at \in Resources!Failures, NEW err \in Errnos,
             Resources!rclient_handle_client_stream_connect(id, own, at, err)
      PROVE  OwnedInv'
  <2>0. /\ deleting' = deleting
        /\ \/ Same(r, r') /\ streams' = streams
           \/ /\ Cardinality(r.lost.fds) < MaxLeaks /\ streams' = streams
              /\ \E fd \in Resources!Fds, k \in {"header", "samples"} :
                   Lost(r, r', fd, Resources!File(k, id))
           \/ \E t : Added(r, r', t) /\ streams' = streams \union {t}
    BY <1>0, <1>1, Connected
  <2>1. CASE Same(r, r') /\ streams' = streams
    <3>1. Resources!Live' = Resources!Live
      BY <2>0, <2>1 DEF Resources!Live
    <3> QED BY <2>0, <2>1, <3>1, SameSound
  <2>2. CASE /\ Cardinality(r.lost.fds) < MaxLeaks /\ streams' = streams
             /\ \E fd \in Resources!Fds, k \in {"header", "samples"} :
                  Lost(r, r', fd, Resources!File(k, id))
    <3>1. Resources!Live' = Resources!Live
      BY <2>0, <2>2 DEF Resources!Live
    <3>2. PICK fd \in Resources!Fds, k \in {"header", "samples"} :
             Lost(r, r', fd, Resources!File(k, id))
      BY <2>2
    <3>3. Sound(r', Resources!Live)
      BY <2>2, <3>2, LostSound
    <3> QED BY <2>0, <2>2, <3>1, <3>3
  <2>3. CASE \E t : Added(r, r', t) /\ streams' = streams \union {t}
    <3>1. PICK t : Added(r, r', t) /\ streams' = streams \union {t}
      BY <2>3
    <3>2. Resources!Live' = Resources!Live \union {t}
      BY <2>0, <3>1 DEF Resources!Live
    <3>3. Sound(r', Resources!Live \union {t}) /\ t \notin Resources!Live
      BY <3>1, AddedSound
    <3>4. streams' \intersect deleting' = {}
      BY <2>0, <3>1, <3>3 DEF Resources!Live
    <3> QED BY <3>2, <3>3, <3>4
  <2> QED BY <2>0, <2>1, <2>2, <2>3
<1>2. ASSUME NEW stream \in streams, NEW drains \in BOOLEAN,
             Resources!rclient_handle_client_stream_disconnect(stream, drains)
      PROVE  OwnedInv'
  <2>1. CASE drains
    <3>1. /\ streams' = streams \ {stream} /\ deleting' = deleting \union {stream} /\ r' = r
      BY <1>2, <2>1 DEF Resources!rclient_handle_client_stream_disconnect
    <3>2. Resources!Live' = Resources!Live
      BY <3>1 DEF Resources!Live
    <3> QED BY <3>1, <3>2
  <2>2. CASE ~ drains
    <3>1. /\ streams' = streams \ {stream} /\ deleting' = deleting
          /\ r' = Resources!cras_rstream_destroy(r, stream)
      BY <1>2, <2>2 DEF Resources!rclient_handle_client_stream_disconnect
    <3>2. Resources!Live' = Resources!Live \ {stream} /\ stream \in Resources!Live
      BY <3>1 DEF Resources!Live
    <3>3. Gone(r, r', stream)
      BY <1>0, <3>1, DestroyStream
    <3>4. Sound(r', Resources!Live \ {stream})
      BY <3>2, <3>3, GoneSound
    <3> QED BY <3>1, <3>2, <3>4
  <2> QED BY <2>1, <2>2
<1>3. ASSUME NEW stream \in deleting, Resources!delete_streams(stream)
      PROVE  OwnedInv'
  <2>1. /\ deleting' = deleting \ {stream} /\ streams' = streams
        /\ r' = Resources!cras_rstream_destroy(r, stream)
    BY <1>3 DEF Resources!delete_streams
  <2>2. Resources!Live' = Resources!Live \ {stream} /\ stream \in Resources!Live
    BY <2>1 DEF Resources!Live
  <2>3. Gone(r, r', stream)
    BY <1>0, <2>1, DestroyStream
  <2>4. Sound(r', Resources!Live \ {stream})
    BY <2>2, <2>3, GoneSound
  <2> QED BY <2>1, <2>2, <2>4
<1>4. CASE Resources!handle_message_read_error
  <2>1. deleting' = deleting \union streams /\ streams' = {}
    BY <1>4 DEF Resources!handle_message_read_error
  <2>2. Resources!Live' = Resources!Live
    BY <2>1 DEF Resources!Live
  <2>3. Sound(r', Resources!Live)
    BY <1>0, <1>4, ReadError, SameSound
  <2> QED BY <2>1, <2>2, <2>3
<1>5. CASE UNCHANGED resourceVars
  BY <1>5 DEF resourceVars, Resources!Live
<1> QED BY <1>1, <1>2, <1>3, <1>4, <1>5 DEF Resources!Next

(* For any ids and any order of messages, as long as an error of           *)
(* posix_fallocate is reported as one: whatever call fails while a stream  *)
(* is made, a live stream keeps its socket and its memory, and no          *)
(* descriptor or file is left that is not of a live stream.                *)
THEOREM ResourcesKept ==
  ASSUME Errnos \subseteq Nat \ {0}
  PROVE  MCSpec => []ResourcesOwned
<1>1. MCInit => OwnedInv
  BY InitOwned DEF MCInit
<1>2. OwnedInv /\ [MCNext]_mcVars => OwnedInv'
  <2> SUFFICES ASSUME OwnedInv, [MCNext]_mcVars PROVE OwnedInv'
    OBVIOUS
  <2>1. [Resources!Next]_resourceVars
    BY DEF MCNext, mcVars
  <2> QED BY <2>1, NextOwned
<1>3. OwnedInv => ResourcesOwned
  BY DEF OwnedInv, Sound, Whole, ResourcesOwned, StreamsIntact, Resources!StreamsIntact,
         Resources!NothingLeftBehind
<1> QED BY <1>1, <1>2, <1>3, PTL DEF MCSpec
=============================================================================
