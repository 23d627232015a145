------------------------------ MODULE InputDev ------------------------------
(***************************************************************************)
(* The capture path of one input device: capture_to_streams of dev_io.c,   *)
(* the input buffers of cras_iodev.c, the float buffer of input_data.c and *)
(* the processing of cras_apm_list.c.  Frames are numbered by the          *)
(* hardware; each carries how often the device's DSP was applied to it.    *)
(* TRIGGER_ONLY streams, which have no place in buf_state, are left out.   *)
(***************************************************************************)
EXTENDS Integers, Sequences, SequencesExt, FiniteSets, FiniteSetsExt

CONSTANTS Streams,      \* capture streams
          ApmStreams,   \* those with echo cancellation
          BufferSize,   \* frames of the hardware buffer
          CbThreshold,  \* frames of a callback, for every stream
          ApmFrames,    \* frames of one block of audio processing
          DropLevel,    \* frames queued at which samples are dropped
          MaxFrames,    \* frames captured in a behaviour
          MaxChanges    \* streams added and removed in a behaviour

VARIABLES idev,     \* the hardware buffer and the device's marks on it
          list,     \* iodev->streams, in order
          stream,   \* per stream: its place in the device buffer and in its own
          changes

vars == <<idev, list, stream, changes>>

Detached == [off |-> 0, room |-> 0, apmIn |-> <<>>, apmOut |-> <<>>, got |-> 0, raw |-> FALSE, again |-> FALSE,
             failed |-> FALSE]
Attached == Range(list)
Lesser(a, b) == IF a < b THEN a ELSE b
Greater(a, b) == IF a > b THEN a ELSE b
From(s, n) == SubSeq(s, n + 1, Len(s))
First(s, n) == SubSeq(s, 1, n)
Ids(s) == [i \in 1..Len(s) |-> s[i].id]

\* get_stream_limit: what every stream still takes
get_stream_limit == Min({stream[s].room : s \in Attached} \cup {Len(idev.queue)})

\* mutant: the DSP runs over the whole buffer again
cras_iodev_get_input_buffer_all(d, n) ==
  LET todo == d.dsp_offset + 1 .. n
  IN [d EXCEPT !.frames_read = n,
               !.queue = [i \in DOMAIN d.queue |-> IF i <= n THEN [d.queue[i] EXCEPT !.dsp = @ + 1] ELSE d.queue[i]],
               !.fbuf = d.fbuf \o [i \in 1..Cardinality(todo) |-> d.queue[d.dsp_offset + i].id]]

\* The DSP runs over the frames it has not seen and hands them to input_data
cras_iodev_get_input_buffer(d, n) ==
  LET todo == d.dsp_offset + 1 .. n
  IN [d EXCEPT !.frames_read = n,
               !.queue = [i \in DOMAIN d.queue |-> IF i \in todo THEN [d.queue[i] EXCEPT !.dsp = @ + 1] ELSE d.queue[i]],
               !.fbuf = d.fbuf \o [i \in 1..Cardinality(todo) |-> d.queue[d.dsp_offset + i].id]]

\* frames: what was copied to the stream.  raw notes a frame the DSP missed, again one that was given
\* before although the stream's audio processing never failed
Deliver(t, frames) ==
  [t EXCEPT !.room = @ - Len(frames),
            !.got = IF frames = <<>> THEN @ ELSE frames[Len(frames)].id,
            !.again = ~t.failed /\ frames # <<>> /\ frames[1].id <= t.got,
            !.raw = \E i \in DOMAIN frames : frames[i].dsp # 1]

\* A stream without processing reads the hardware buffer behind its offset
dev_stream_capture(t, d, n) ==
  LET from == Lesser(t.off, n)
      k == Lesser(n - from, t.room)
  IN [Deliver(t, SubSeq(d.queue, from + 1, from + k)) EXCEPT !.off = @ + k]

\* The block of the stream with what it takes of the float buffer, and whether it is processed now:
\* when it is full and the last one was read
Taken(t, d) == Lesser(Len(d.fbuf) - t.off, ApmFrames - Len(t.apmIn))
Block(t, d) == t.apmIn \o SubSeq(d.fbuf, t.off + 1, t.off + Taken(t, d))
Runs(t, d) == Len(Block(t, d)) = ApmFrames /\ t.apmOut = <<>>

cras_apm_list_process(t, d) ==
  [t EXCEPT !.off = @ + Taken(t, d),
            !.apmIn = IF Runs(t, d) THEN <<>> ELSE Block(t, d),
            !.apmOut = IF Runs(t, d) THEN Block(t, d) ELSE @]

\* webrtc_apm_process_stream_f returns an error: the block has the frames and stays full, but the
\* stream's offset does not move.  input_data_get_for_stream asks to remove the processing with the
\* object where the device is expected, which removes nothing, and leaves the area of the stream
\* before in place: this one is given k frames of that.
cras_apm_list_process_fails(t, d, k) ==
  [t EXCEPT !.apmIn = Block(t, d), !.failed = TRUE, !.room = @ - Lesser(k, @)]

\* mutant: the processed frames stay
cras_apm_list_put_processed_not(t) ==
  LET k == Lesser(Len(t.apmOut), t.room)
  IN [Deliver(t, [i \in 1..k |-> [id |-> t.apmOut[i], dsp |-> 1]]) EXCEPT !.apmOut = @]

cras_apm_list_put_processed(t) ==
  LET k == Lesser(Len(t.apmOut), t.room)
  IN [Deliver(t, [i \in 1..k |-> [id |-> t.apmOut[i], dsp |-> 1]]) EXCEPT !.apmOut = From(@, k)]

\* err: the streams whose processing fails, and what they are given instead
input_data_get_for_stream(s, d, n, err) ==
  CASE s \notin ApmStreams -> dev_stream_capture(stream[s], d, n)
    [] s \in ApmStreams /\ s \in DOMAIN err /\ Runs(stream[s], d) ->
         cras_apm_list_process_fails(stream[s], d, err[s])
    [] OTHER -> cras_apm_list_put_processed(cras_apm_list_process(stream[s], d))

\* mutant: what some streams have not read goes too
input_data_set_all_streams_read_reset(fbuf, n) == <<>>

input_data_set_all_streams_read(fbuf, n) == IF Len(fbuf) < n THEN <<>> ELSE From(fbuf, n)

\* Frames all streams have read leave the hardware buffer
cras_iodev_put_input_buffer(d, n) ==
  [d EXCEPT !.dsp_offset = Greater(d.frames_read, @) - n,
            !.fbuf = input_data_set_all_streams_read(@, n),
            !.queue = From(@, n)]

-----------------------------------------------------------------------------
Init == /\ idev = [queue |-> <<>>, captured |-> 0, dsp_offset |-> 0, frames_read |-> 0, fbuf |-> <<>>]
        /\ list = <<>>
        /\ stream = [s \in Streams |-> Detached]
        /\ changes = 0

HardwareCaptures ==
  /\ idev.captured < MaxFrames
  /\ Len(idev.queue) < BufferSize
  /\ idev' = [idev EXCEPT !.captured = @ + 1,
                          !.queue = Append(@, [id |-> idev.captured + 1, dsp |-> 0])]
  /\ UNCHANGED <<list, stream, changes>>

\* Streams whose audio processing may fail and the server goes on: for the first of the list the area
\* is NULL and the behaviour ends with the server
MayFail == IF list = <<>> THEN {} ELSE (Attached \cap ApmStreams) \ {Head(list)}

\* One pass of the loop of capture_to_streams; the hardware gives n of the frames at a time
capture_to_streams ==
  \E n \in 1..get_stream_limit, failing \in SUBSET MayFail : \E err \in [failing -> 0..CbThreshold] :
    LET d == cras_iodev_get_input_buffer(idev, n)
        t == [s \in Streams |-> IF s \in Attached THEN input_data_get_for_stream(s, d, n, err) ELSE stream[s]]
        read == IF list = <<>> THEN n ELSE Min({t[s].off : s \in Attached})
    IN /\ idev' = cras_iodev_put_input_buffer(d, read)
       /\ stream' = [s \in Streams |-> IF s \in Attached THEN [t[s] EXCEPT !.off = @ - read] ELSE t[s]]
       /\ UNCHANGED <<list, changes>>

\* The client has read its buffer
ClientReads(s) ==
  /\ s \in Attached
  /\ stream[s].room < CbThreshold
  /\ stream' = [stream EXCEPT ![s].room = CbThreshold]
  /\ UNCHANGED <<idev, list, changes>>

\* The first stream flushes what the device has queued; a later one joins at the offset of the first
dev_io_append_stream(s) ==
  /\ changes < MaxChanges
  /\ s \notin Attached
  /\ idev' = [idev EXCEPT !.queue = IF list = <<>> THEN <<>> ELSE @]
  /\ list' = Append(list, s)
  /\ stream' = [stream EXCEPT ![s] = [Detached EXCEPT
        !.room = CbThreshold,
        !.off = IF list = <<>> THEN 0 ELSE Lesser(stream[Head(list)].off, CbThreshold)]]
  /\ changes' = changes + 1

cras_iodev_rm_stream(s) ==
  /\ changes < MaxChanges
  /\ s \in Attached
  /\ list' = RemoveAt(list, CHOOSE i \in DOMAIN list : list[i] = s)
  /\ stream' = [stream EXCEPT ![s] = Detached]
  /\ changes' = changes + 1
  /\ UNCHANGED idev

\* dev_io_send_captured_samples: a device that fell behind drops frames down to one callback
dev_io_drop_samples ==
  /\ list # <<>>
  /\ Len(idev.queue) >= DropLevel /\ Len(idev.queue) > CbThreshold
  /\ idev' = [idev EXCEPT !.queue = From(@, Len(@) - CbThreshold)]
  /\ UNCHANGED <<list, stream, changes>>

Next == \/ HardwareCaptures
        \/ capture_to_streams
        \/ \E s \in Streams : ClientReads(s)
        \/ \E s \in Streams : dev_io_append_stream(s)
        \/ \E s \in Streams : cras_iodev_rm_stream(s)
        \/ dev_io_drop_samples

Spec == Init /\ [][Next]_vars

-----------------------------------------------------------------------------
\* The DSP never runs twice over a frame, whichever streams read it when:
\* input_dsp_offset is kept across partial reads, joins, removals and drops.
ProcessedAtMostOnce == \A i \in DOMAIN idev.queue : idev.queue[i].dsp <= 1

\* cras_apm_list_process never finds less in the float buffer than the stream
\* has read, which would leave the stream without an audio area.
ApmHasInput == \A s \in Attached \cap ApmStreams : stream[s].off <= Len(idev.fbuf)

\* No stream is given a frame again or an older frame after a newer one, as long as its audio
\* processing does not fail: after a failure the frames of the block are taken a second time
\* (cras_apm_list.c:657, input_data.c:167).
DeliveredInOrder == \A s \in Streams : ~stream[s].again

\* Every frame a stream without audio processing is given went through the DSP.
AllProcessed == \A s \in Streams : ~stream[s].raw

=============================================================================
