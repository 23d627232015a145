----------------------------- MODULE OutputDev -----------------------------
(***************************************************************************)
(* One output device in time: the run states of cras_iodev.c, the write    *)
(* and wake schedule of dev_io.c, the fetch schedule of dev_stream.c and   *)
(* the mute and volume ramps of cras_ramp.c.  Time is counted in frames:   *)
(* a Tick plays one frame.  Time stamps are relative to now.               *)
(***************************************************************************)
EXTENDS Integers, FiniteSets, FiniteSetsExt

CONSTANTS Streams,        \* the output streams
          CbThreshold,    \* frames a stream asks its client for, per stream
          BufferSize,     \* frames of the hardware buffer
          NormalWakeUp,   \* dev_normal_run_wake_up_time, in frames
          NoStreamWakeUp, \* dev_no_stream_wake_up_time, in frames
          RampFrames,     \* frames of a ramp
          MaxChanges      \* stream, mute and power changes of a behaviour

VARIABLES odev,     \* the cras_iodev and its open_dev entry
          stream,   \* the dev_streams
          system,   \* the system mute, the pending alert and main message
          changes   \* changes made so far

vars == <<odev, stream, system, changes>>

Absent == [st |-> "absent", frames |-> 0, cb |-> 0, off |-> 0, pending |-> FALSE, fed |-> FALSE, draining |-> FALSE]
Running(m, s) == m.stream[s].st = "running"
RunningStreams(m) == {s \in Streams : Running(m, s)}
Attached(m) == {s \in Streams : m.stream[s].st # "absent"}
Open(m) == m.odev.state # "CLOSE"

Least(S, d) == IF S = {} THEN d ELSE Min(S)
Greater(a, b) == IF a > b THEN a ELSE b
Lesser(a, b) == IF a < b THEN a ELSE b

\* F of the value of e, evaluated once
With(e, F(_)) == CHOOSE r \in {F(v) : v \in {e}} : TRUE

-----------------------------------------------------------------------------
(* Ramps. *)

NoRamp == [active |-> FALSE, left |-> 0, tellsMain |-> FALSE]

cras_ramp_start(m, tells) ==
  [m EXCEPT !.odev.ramp = [active |-> TRUE, left |-> RampFrames, tellsMain |-> tells]]

cras_ramp_update_ramped_frames(m, n) ==
  LET left == m.odev.ramp.left - n
      done == m.odev.ramp.active /\ left <= 0
  IN [m EXCEPT !.odev.ramp.left = IF m.odev.ramp.active THEN Greater(left, 0) ELSE @,
               !.odev.ramp.active = @ /\ ~done,
               !.system.message = @ \/ (done /\ m.odev.ramp.tellsMain)]

\* mutant: the main thread is not told of the end of the ramp
cras_iodev_start_ramp_untold(m, request) ==
  IF ~Open(m) THEN m
  ELSE LET r == cras_ramp_start(m, FALSE)
       IN [r EXCEPT !.system.message = @ \/ (request = "UP_UNMUTE")]

\* The requests of a device that starts (START_PLAYBACK, RESUME_MUTE, SWITCH_MUTE, as initial_ramp_request
\* has it) differ in their scale and length only
cras_iodev_start_ramp(m, request) ==
  IF ~Open(m) THEN m
  ELSE LET r == cras_ramp_start(m, request = "DOWN_MUTE")
       IN [r EXCEPT !.system.message = @ \/ (request = "UP_UNMUTE")]

-----------------------------------------------------------------------------
(* Writing to the device. *)

put_output_buffer(m, n) ==
  cras_ramp_update_ramped_frames([m EXCEPT !.odev.level = @ + n], n)

cras_iodev_buffer_avail(m) == BufferSize - m.odev.level

cras_iodev_fill_odev_zeros(m, n) == put_output_buffer(m, Lesser(n, cras_iodev_buffer_avail(m)))

cras_iodev_output_underrun(m) ==
  cras_iodev_fill_odev_zeros(m, m.odev.min_cb)

\* no_stream(odev, 1): zeros up to twice the callback level
default_no_stream_playback(m) ==
  LET u == IF m.odev.level = 0 THEN cras_iodev_output_underrun(m) ELSE m
      target == 2 * u.odev.min_cb
  IN IF u.odev.level > target THEN u ELSE cras_iodev_fill_odev_zeros(u, target - u.odev.level)

cras_iodev_no_stream_playback_transition(m, enable) ==
  IF m.odev.state \notin {"NORMAL_RUN", "NO_STREAM_RUN"} THEN m
  ELSE IF enable
       THEN [default_no_stream_playback(m) EXCEPT !.odev.state = "NO_STREAM_RUN"]
       ELSE [m EXCEPT !.odev.state = "NORMAL_RUN"]

\* Frames every stream that still plays can give; 0 when one of them is empty
dev_playback_frames(m) ==
  LET R == RunningStreams(m)
      has == {s \in R : m.stream[s].frames > 0}
  IN IF \E s \in R : m.stream[s].frames = 0 /\ ~m.stream[s].draining THEN 0
     ELSE Least({m.stream[s].frames : s \in has}, 0)

cras_iodev_output_event_sample_ready(m) ==
  LET r == IF system.mute THEN m ELSE cras_iodev_start_ramp(m, "UP_START_PLAYBACK")
  IN IF m.odev.state = "OPEN"
     THEN [cras_iodev_fill_odev_zeros(r, r.odev.min_cb) EXCEPT !.odev.state = "NORMAL_RUN"]
     ELSE cras_iodev_no_stream_playback_transition(r, FALSE)

cras_iodev_prepare_output_before_write_samples(m) ==
  IF m.odev.state \in {"OPEN", "NO_STREAM_RUN"} /\ dev_playback_frames(m) > 0
  THEN cras_iodev_output_event_sample_ready(m)
  ELSE IF m.odev.state = "NO_STREAM_RUN" THEN default_no_stream_playback(m) ELSE m

-----------------------------------------------------------------------------
(* Streams of the device. *)

\* every stream of S, none of which is running
cras_iodev_start_stream(m, S) ==
  [m EXCEPT !.stream = [s \in Streams |-> IF s \in S THEN [@[s] EXCEPT !.st = "running", !.off = 0] ELSE @[s]],
            !.odev.min_cb = Min({CbThreshold[s] : s \in S} \cup {@}),
            !.odev.max_cb = Max({CbThreshold[s] : s \in S} \cup {@})]

\* every stream of S; earliest is the callback time of the running streams that stay
\* mutant: the device stays in normal run
cras_iodev_rm_stream_normal(m, S) ==
  LET R == RunningStreams(m) \ S
      d == [m EXCEPT !.stream = [s \in Streams |-> IF s \in S THEN Absent ELSE @[s]],
                     !.odev.min_cb = Least({CbThreshold[r] : r \in R} \cup {BufferSize \div 2}, 0),
                     !.odev.max_cb = IF R = {} THEN 0 ELSE Max({CbThreshold[r] : r \in R})]
      earliest == Least({d.stream[r].cb : r \in R}, 0)
  IN IF S \cap Attached(m) = {} THEN m
     ELSE IF Attached(d) = {}
     THEN d
     ELSE [d EXCEPT !.stream = [r \in Streams |->
             IF R # {} /\ @[r].st = "waiting" THEN [@[r] EXCEPT !.cb = earliest] ELSE @[r]]]

cras_iodev_rm_stream(m, S) ==
  LET R == RunningStreams(m) \ S
      d == [m EXCEPT !.stream = [s \in Streams |-> IF s \in S THEN Absent ELSE @[s]],
                     !.odev.min_cb = Least({CbThreshold[r] : r \in R} \cup {BufferSize \div 2}, 0),
                     !.odev.max_cb = IF R = {} THEN 0 ELSE Max({CbThreshold[r] : r \in R})]
      earliest == Least({d.stream[r].cb : r \in R}, 0)
  IN IF S \cap Attached(m) = {} THEN m
     ELSE IF Attached(d) = {}
     THEN IF d.odev.state = "NORMAL_RUN" THEN cras_iodev_no_stream_playback_transition(d, TRUE) ELSE d
     ELSE [d EXCEPT !.stream = [r \in Streams |->
             IF R # {} /\ @[r].st = "waiting" THEN [@[r] EXCEPT !.cb = earliest] ELSE @[r]]]

\* A new stream is fetched with the earliest of the others, or when the device is down to its threshold
dev_io_append_stream(m, s) ==
  LET cb == IF Attached(m) # {} THEN Min({m.stream[r].cb : r \in Attached(m)})
            ELSE Greater(m.odev.level - CbThreshold[s], 0)
  IN [m EXCEPT !.stream[s] = [Absent EXCEPT !.st = "waiting", !.cb = cb]]

dev_io_remove_stream(m, S) == cras_iodev_rm_stream(m, S)

-----------------------------------------------------------------------------
(* One pass of the audio thread over the device. *)

dev_io_check_dev_stream_start(m) ==
  LET due == {s \in Streams : m.stream[s].st = "waiting" /\ m.stream[s].cb <= 0}
  IN cras_iodev_start_stream(m, due)

dev_stream_update_next_wake_time(d, s) ==
  [d EXCEPT !.cb = IF @ + CbThreshold[s] < 0 THEN CbThreshold[s] ELSE @ + CbThreshold[s]]

\* gone: the client whose socket is closed, so that the request fails
fetch_streams(m, gone) ==
  [m EXCEPT !.stream = [s \in Streams |->
     LET d == @[s] IN
     IF d.st # "running" \/ d.cb > 0 \/ d.draining \/ d.pending THEN d
     ELSE IF d.frames > CbThreshold[s] THEN dev_stream_update_next_wake_time(d, s)
     ELSE IF s \in gone THEN [d EXCEPT !.draining = TRUE]
     ELSE [dev_stream_update_next_wake_time(d, s) EXCEPT !.pending = TRUE]]]

\* A draining stream leaves when it is empty and limits the others only when nobody else plays; one that
\* leaves is still part of that limit, so that nothing is written in its pass
write_streams(m, limit) ==
  LET empty == {s \in RunningStreams(m) : m.stream[s].draining /\ m.stream[s].frames = 0}
  IN With(dev_io_remove_stream(m, empty), LAMBDA e :
       LET R == RunningStreams(e)
           playing == {s \in R : ~e.stream[s].draining}
       IN With(Min({m.stream[s].frames : s \in IF playing = {} THEN RunningStreams(m) ELSE playing} \cup {limit}), LAMBDA w :
            With([s \in R |-> IF e.stream[s].off >= w THEN 0 ELSE Lesser(e.stream[s].frames, w - e.stream[s].off)], LAMBDA n :
              With(Least({e.stream[s].off + n[s] : s \in R}, 0), LAMBDA point :
                [m |-> [e EXCEPT !.stream = [s \in Streams |->
                          IF s \notin R THEN @[s]
                          ELSE [@[s] EXCEPT !.fed = @ \/ n[s] > 0, !.frames = @ - n[s], !.off = @ + n[s] - point]]],
                 written |-> point]))))

cras_iodev_odev_should_wake(m) == m.odev.state \in {"NORMAL_RUN", "NO_STREAM_RUN"}

\* mutant: sleeps until no-stream playback has run out
frames_to_play_in_sleep_whole(m) ==
  LET level == m.odev.level
      low == Lesser(m.odev.min_cb, NoStreamWakeUp)
  IN IF Attached(m) # {}
     THEN IF level > m.odev.min_cb /\ dev_playback_frames(m) > 0 THEN level - m.odev.min_cb
          ELSE IF level > NormalWakeUp THEN level - NormalWakeUp ELSE level
     ELSE level

cras_iodev_default_frames_to_play_in_sleep(m) ==
  LET level == m.odev.level
      low == Lesser(m.odev.min_cb, NoStreamWakeUp)
  IN IF Attached(m) # {}
     THEN IF level > m.odev.min_cb /\ dev_playback_frames(m) > 0 THEN level - m.odev.min_cb
          ELSE IF level > NormalWakeUp THEN level - NormalWakeUp ELSE level
     ELSE IF level > low THEN level - low ELSE 0

update_dev_wakeup_time(m) == [m EXCEPT !.odev.wake = cras_iodev_default_frames_to_play_in_sleep(m)]

\* Frames until the audio thread has to run again; a pending stream is waited for on its socket
dev_io_next_output_wake(m) ==
  LET timed == {s \in Attached(m) : ~m.stream[s].draining /\ ~m.stream[s].pending}
  IN Least({m.stream[s].cb : s \in timed}
           \cup (IF cras_iodev_odev_should_wake(m) THEN {m.odev.wake} ELSE {}), BufferSize)

-----------------------------------------------------------------------------
M == [odev |-> odev, stream |-> stream, system |-> system]

Become(m) == \E n \in {m} : odev' = n.odev /\ stream' = n.stream /\ system' = n.system

\* The audio thread takes commands while it waits and runs the devices after each of them
Waits == odev.pc = "sleep"
Handled(m) == [m EXCEPT !.odev.pc = "fetch"]

Change == changes < MaxChanges /\ changes' = changes + 1

Closed == [state |-> "CLOSE", level |-> 0, min_cb |-> 0, max_cb |-> 0, wake |-> 0,
           ramp |-> NoRamp, hwMute |-> FALSE, pc |-> "sleep", written |-> 0, poked |-> FALSE]

Init == /\ odev = Closed
        /\ stream = [s \in Streams |-> Absent]
        /\ system = [mute |-> FALSE, alert |-> FALSE, message |-> FALSE]
        /\ changes = 0

\* The device is opened for a stream and started by its first samples; a device
\* without a start operation, which runs at once, is opened in no-stream state
cras_iodev_open(hasStart) ==
  /\ Change
  /\ odev.state = "CLOSE"
  /\ \E cb_level \in {CbThreshold[s] : s \in Streams} :
       LET min_cb == Lesser(BufferSize \div 2, cb_level)
           d == [Closed EXCEPT !.state = IF hasStart THEN "OPEN" ELSE "NO_STREAM_RUN", !.min_cb = min_cb,
                               !.hwMute = system.mute]
       IN Become(IF hasStart THEN [M EXCEPT !.odev = d]
                 ELSE update_dev_wakeup_time(cras_iodev_fill_odev_zeros([M EXCEPT !.odev = d], min_cb)))

cras_iodev_close ==
  /\ Change
  /\ Open(M) /\ Waits
  /\ odev' = [Closed EXCEPT !.hwMute = odev.hwMute]
  /\ stream' = [s \in Streams |-> Absent]
  /\ UNCHANGED system

thread_add_stream(s) ==
  /\ Change
  /\ Open(M) /\ Waits
  /\ stream[s].st = "absent"
  /\ Become(Handled(dev_io_append_stream(M, s)))

\* The client's output is drained: the stream plays what it has and is then removed
thread_drain_stream(s) ==
  /\ Change
  /\ Waits
  /\ stream[s].st # "absent" /\ ~stream[s].draining
  /\ Become(Handled(IF stream[s].st = "running" /\ stream[s].frames > 0
                    THEN [M EXCEPT !.stream[s].draining = TRUE]
                    ELSE dev_io_remove_stream(M, {s})))

SetMute ==
  /\ Change
  /\ system' = [system EXCEPT !.mute = ~@, !.alert = TRUE]
  /\ UNCHANGED <<odev, stream>>

\* Only a running stream that is heard (no ramp, or volume 0, otherwise) is ramped; else the mute is set at once
thread_dev_start_ramp(m, request, heard) ==
  IF m.odev.state = "NORMAL_RUN" /\ heard THEN cras_iodev_start_ramp(m, request)
  ELSE [m EXCEPT !.system.message = TRUE]

sys_mute_change ==
  /\ system.alert /\ Waits
  /\ \E heard \in BOOLEAN :
       LET m == [M EXCEPT !.system.alert = FALSE]
       IN Become(IF Open(m)
                 THEN Handled(thread_dev_start_ramp(m, IF system.mute THEN "DOWN_MUTE" ELSE "UP_UNMUTE", heard))
                 ELSE m)
  /\ UNCHANGED changes

\* The message a ramp sent is handled by the main thread
cras_iodev_list_set_dev_mute ==
  /\ system.message
  /\ system' = [system EXCEPT !.message = FALSE]
  /\ odev' = [odev EXCEPT !.hwMute = IF Open(M) THEN system.mute ELSE @]
  /\ UNCHANGED <<stream, changes>>

ClientReply(s) ==
  /\ stream[s].pending
  /\ stream' = [stream EXCEPT ![s].pending = FALSE, ![s].frames = @ + CbThreshold[s]]
  /\ odev' = [odev EXCEPT !.poked = TRUE]
  /\ UNCHANGED <<system, changes>>

Due == Open(M) /\ (odev.pc # "sleep" \/ odev.poked \/ dev_io_next_output_wake(M) <= 0)

\* dev_io_run: start and fetch streams; some clients may be gone
dev_io_playback_fetch ==
  /\ odev.pc \in {"sleep", "fetch"} /\ Due
  /\ \E gone \in SUBSET (IF changes < MaxChanges THEN Streams ELSE {}) :
       /\ changes' = IF gone = {} THEN changes ELSE changes + 1
       /\ Become([fetch_streams(dev_io_check_dev_stream_start(M), gone) EXCEPT !.odev.pc = "prepare", !.odev.poked = FALSE])

\* dev_io_playback_write, in three steps: the run state, the samples, the next wake
PrepareOutput ==
  /\ odev.pc = "prepare"
  /\ \E m \in {cras_iodev_prepare_output_before_write_samples(M)} :
       Become([m EXCEPT !.odev.pc = IF m.odev.state = "NORMAL_RUN" THEN "write" ELSE "wake",
                        !.odev.written = 0])
  /\ UNCHANGED changes

write_output_samples ==
  /\ odev.pc = "write"
  /\ \E w \in {write_streams(M, cras_iodev_buffer_avail(M))} :
       Become([put_output_buffer(w.m, w.written) EXCEPT !.odev.pc = "wake", !.odev.written = w.written])
  /\ UNCHANGED changes

ScheduleWake ==
  /\ odev.pc = "wake"
  /\ Become([IF ~cras_iodev_odev_should_wake(M) THEN M
              ELSE update_dev_wakeup_time(IF odev.level <= odev.written THEN cras_iodev_output_underrun(M) ELSE M)
              EXCEPT !.odev.pc = "sleep", !.odev.written = 0])
  /\ UNCHANGED changes

AudioThreadRuns == dev_io_playback_fetch \/ PrepareOutput \/ write_output_samples \/ ScheduleWake

\* One frame is played; the audio thread wakes when it asked to and clients answer within a frame
Tick ==
  /\ Open(M) /\ ~Due
  /\ \A s \in Streams : ~stream[s].pending
  /\ odev' = [odev EXCEPT !.level = IF cras_iodev_odev_should_wake(M) THEN Greater(@ - 1, 0) ELSE @,
                          !.wake = Greater(@ - 1, 0)]
  /\ stream' = [s \in Streams |->
                  IF stream[s].st = "absent" THEN stream[s]
                  ELSE [stream[s] EXCEPT !.cb = Greater(@ - 1, -CbThreshold[s])]]
  /\ UNCHANGED <<system, changes>>

Next == \/ \E h \in BOOLEAN : cras_iodev_open(h)
        \/ cras_iodev_close
        \/ \E s \in Streams : thread_add_stream(s)
        \/ \E s \in Streams : thread_drain_stream(s)
        \/ SetMute
        \/ sys_mute_change
        \/ cras_iodev_list_set_dev_mute
        \/ \E s \in Streams : ClientReply(s)
        \/ AudioThreadRuns
        \/ Tick

Fairness == /\ WF_vars(Tick)
            /\ WF_vars(AudioThreadRuns)
            /\ SF_vars(sys_mute_change)
            /\ WF_vars(cras_iodev_list_set_dev_mute)
            /\ WF_vars(\E s \in Streams : ClientReply(s))

Spec == Init /\ [][Next]_vars /\ Fairness

-----------------------------------------------------------------------------
\* As long as the audio thread runs when it asked to and clients answer within
\* a frame, the hardware buffer never runs empty: neither while a stream
\* plays, nor in no-stream playback, nor across any transition between them.
\* Excepted is the time in which no stream of the device has played yet: when
\* the last running stream goes, one that has not started keeps the callback
\* time it took from that stream, and the device may run out before it starts.
NeverEmpty == /\ odev.pc = "sleep"
              /\ cras_iodev_odev_should_wake(M)
              /\ Attached(M) = {} \/ \E s \in RunningStreams(M) : stream[s].fed
              => odev.level > 0

\* A device without streams is not in normal run, where nobody would feed it
\* zeros: also when its last stream drained and left in the middle of a write.
IdleIsFed == Attached(M) = {} => odev.state # "NORMAL_RUN"

\* When the mute switch is left alone the hardware mute of an open device
\* comes to agree with it, whatever ramps replaced each other on the way.
MuteSettles == <>[](system.mute = odev.hwMute \/ odev.state = "CLOSE")

=============================================================================
