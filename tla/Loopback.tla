------------------------------ MODULE Loopback ------------------------------
(***************************************************************************)
(* A loopback device (cras_loopback_iodev.c): an input device that records *)
(* what the first enabled output device plays.  The output's hooks and the *)
(* enabled and disabled callbacks of cras_iodev_list.c move it from one    *)
(* output to the next; the samples go through a byte_buffer.h ring.        *)
(***************************************************************************)
EXTENDS Integers, Sequences, SequencesExt, FiniteSets

CONSTANTS Outputs,      \* output devices
          Size,         \* frames of the loopback's buffer
          Burst,        \* frames an output writes at once
          MaxFrames,    \* frames played in a behaviour
          MaxTime,      \* frames of time that pass
          MaxChanges    \* devices enabled, disabled, opened and closed

VARIABLES enabled,   \* enabled output devices, in order
          open,      \* open output devices
          hooks,     \* per output: how often the loopback is in its list of loopbacks
          kept,      \* outputs disabled while a pinned stream had them open
          failed,    \* enabled outputs whose opening failed
          loop,      \* struct loopback_iodev with its buffer
          sent,      \* frames the loopback's outputs have played, numbered
          changes

vars == <<enabled, open, hooks, kept, failed, loop, sent, changes>>

None == "none"
Lesser(a, b) == IF a < b THEN a ELSE b
Zero == 0

Init ==
  /\ enabled = <<>> /\ open = {} /\ kept = {} /\ failed = {}
  /\ hooks = [o \in Outputs |-> 0]
  /\ loop = [open |-> FALSE, started |-> FALSE, sender |-> None, read |-> 0, time |-> 0,
             ring |-> [i \in 0..(Size - 1) |-> Zero], read_idx |-> 0, write_idx |-> 0, level |-> 0, lacks |-> FALSE, twice |-> FALSE]
  /\ sent = 0 /\ changes = 0

-----------------------------------------------------------------------------
(* byte_buffer.h, in frames *)

buf_writable(b) ==
  IF b.level >= Size THEN 0 ELSE IF b.write_idx < b.read_idx THEN b.read_idx - b.write_idx ELSE Size - b.write_idx

buf_readable(b) ==
  IF b.level = 0 THEN 0 ELSE IF b.read_idx < b.write_idx THEN b.write_idx - b.read_idx ELSE Size - b.read_idx

Write(b, frames) ==
  [b EXCEPT !.ring = [i \in DOMAIN @ |-> LET k == (i - b.write_idx) % Size
                                         IN IF k < Len(frames) THEN frames[k + 1] ELSE @[i]],
            !.write_idx = (@ + Len(frames)) % Size,
            !.level = Lesser(@ + Len(frames), Size)]

-----------------------------------------------------------------------------
(* Hooks *)

\* mutant: the place left in the buffer is not looked at
sample_hook_all(b, frames) == Write(b, frames)

\* What fits up to the end of the ring is copied, the rest is not
sample_hook(b, frames) ==
  LET n == Lesser(buf_writable(b), Len(frames))
  IN [Write(b, SubSeq(frames, 1, n)) EXCEPT !.lacks = @ \/ n < Lesser(Size - b.level, Len(frames))]

\* hook_control of the receivers of an output
sample_hook_start(l, o, start) == IF hooks[o] > 0 THEN [l EXCEPT !.started = start] ELSE l

\* A device is told at once when the output runs; it may be in the list already
cras_iodev_list_register_loopback(m, o, opened) ==
  [hooks |-> [m.hooks EXCEPT ![o] = @ + 1],
   loop |-> [m.loop EXCEPT !.sender = o, !.started = @ \/ o \in opened]]

cras_iodev_list_unregister_loopback(m) ==
  [m EXCEPT !.hooks = [o \in Outputs |-> IF o = m.loop.sender THEN 0 ELSE @[o]]]

update_first_output_to_loopback(m, devs, opened) ==
  IF devs = <<>> THEN m ELSE cras_iodev_list_register_loopback(m, devs[1], opened)

M == [hooks |-> hooks, loop |-> loop]
Become(m) == hooks' = m.hooks /\ loop' = m.loop
Change == changes < MaxChanges /\ changes' = changes + 1

-----------------------------------------------------------------------------
(* Output devices *)

\* The callback comes after the streams were attached; a device that does not open
\* stays enabled and nobody is told
enable_device(o, streams, fails) ==
  LET l == IF streams THEN sample_hook_start(loop, o, TRUE) ELSE loop
      on == Append(enabled, o)
      opened == IF streams /\ ~fails THEN open \cup {o} ELSE open
  IN /\ Change /\ o \notin Range(enabled) /\ (fails => streams /\ o \notin open)
     /\ enabled' = on /\ open' = opened
     /\ failed' = IF fails THEN failed \cup {o} ELSE failed \ {o}
     /\ kept' = kept \ {o}
     /\ IF fails \/ ~loop.open THEN Become([M EXCEPT !.loop = l])
        ELSE Become(update_first_output_to_loopback([M EXCEPT !.loop = l], on, opened))
     /\ UNCHANGED sent

\* mutant: the loopback is not moved to the next output
device_disabled_hook_only(m, o, devs) ==
  IF m.loop.sender # o THEN m ELSE cras_iodev_list_unregister_loopback(m)

device_disabled_hook(m, o, devs) ==
  IF m.loop.sender # o THEN m
  ELSE update_first_output_to_loopback(cras_iodev_list_unregister_loopback(m), devs, open)

\* With a pinned stream left the device stays open; else callbacks, and then the close
disable_device(o, pinned) ==
  LET on == SelectSeq(enabled, LAMBDA d : d # o)
      m == IF loop.open THEN device_disabled_hook(M, o, on) ELSE M
  IN /\ Change /\ o \in Range(enabled) /\ (pinned => o \in open)
     /\ enabled' = on
     /\ failed' = failed \ {o}
     /\ kept' = IF pinned THEN kept \cup {o} ELSE kept
     /\ IF pinned THEN Become(M) /\ open' = open
        ELSE /\ open' = open \ {o}
             /\ Become([m EXCEPT !.loop.started = @ /\ ~(m.hooks[o] > 0 /\ o \in open)])
     /\ UNCHANGED sent

\* A first stream opens the device, which may fail after the hooks were told
cras_iodev_open(o, fails) ==
  /\ Change /\ o \in Range(enabled) \ open
  /\ open' = IF fails THEN open ELSE open \cup {o}
  /\ loop' = sample_hook_start(loop, o, TRUE)
  /\ UNCHANGED <<enabled, hooks, kept, failed, sent>>

\* The idle time is over, or the pinned stream is gone
cras_iodev_close(o) ==
  /\ Change /\ o \in open
  /\ open' = open \ {o}
  /\ loop' = sample_hook_start(loop, o, FALSE)
  /\ UNCHANGED <<enabled, hooks, kept, failed, sent>>

\* The frames go to the receivers before or after the DSP
cras_iodev_put_output_buffer(o) ==
  /\ o \in open /\ sent + Burst <= MaxFrames
  /\ LET frames == [i \in 1..Burst |-> sent + i]
         l == IF hooks[o] = 0 THEN loop ELSE sample_hook(loop, frames)
     IN loop' = IF hooks[o] > 1 THEN [sample_hook(l, frames) EXCEPT !.twice = TRUE] ELSE l
  /\ sent' = sent + Burst
  /\ UNCHANGED <<enabled, open, hooks, kept, failed, changes>>

-----------------------------------------------------------------------------
(* The loopback device *)

configure_record_dev ==
  /\ Change /\ ~loop.open
  /\ Become(update_first_output_to_loopback(
       [M EXCEPT !.loop.open = TRUE, !.loop.read = 0, !.loop.time = 0, !.loop.started = FALSE], enabled, open))
  /\ UNCHANGED <<enabled, open, kept, failed, sent>>

\* mutant: the loopback stays in the output's list
close_record_dev_kept ==
  /\ Change /\ loop.open
  /\ hooks' = hooks
  /\ loop' = [loop EXCEPT !.open = FALSE, !.sender = None, !.read_idx = 0, !.write_idx = 0, !.level = 0]
  /\ UNCHANGED <<enabled, open, kept, failed, sent>>

close_record_dev ==
  /\ Change /\ loop.open
  /\ hooks' = cras_iodev_list_unregister_loopback(M).hooks
  /\ loop' = [loop EXCEPT !.open = FALSE, !.sender = None, !.read_idx = 0, !.write_idx = 0, !.level = 0]
  /\ UNCHANGED <<enabled, open, kept, failed, sent>>

\* While the output does not run zeros stand for what it would have played
frames_queued ==
  /\ loop.open /\ ~loop.started /\ loop.time > loop.read
  /\ LET n == Lesser(buf_writable(loop), loop.time - loop.read)
     IN loop' = Write(loop, [i \in 1..n |-> Zero])
  /\ UNCHANGED <<enabled, open, hooks, kept, failed, sent, changes>>

\* The stream takes what get_record_buffer offers
put_record_buffer ==
  /\ loop.open /\ loop.level > 0
  /\ \E n \in 1..buf_readable(loop) :
       loop' = [loop EXCEPT !.read_idx = (@ + n) % Size, !.level = @ - n,
                           !.read = Lesser(@ + n, MaxTime)]
  /\ UNCHANGED <<enabled, open, hooks, kept, failed, sent, changes>>

Tick ==
  /\ loop.open /\ loop.time < MaxTime
  /\ loop' = [loop EXCEPT !.time = @ + 1]
  /\ UNCHANGED <<enabled, open, hooks, kept, failed, sent, changes>>

Next ==
  \/ \E o \in Outputs, streams, fails \in BOOLEAN : enable_device(o, streams, fails)
  \/ \E o \in Outputs, pinned \in BOOLEAN : disable_device(o, pinned)
  \/ \E o \in Outputs, fails \in BOOLEAN : cras_iodev_open(o, fails)
  \/ \E o \in Outputs : cras_iodev_close(o) \/ cras_iodev_put_output_buffer(o)
  \/ configure_record_dev \/ close_record_dev \/ frames_queued \/ put_record_buffer \/ Tick

Spec == Init /\ [][Next]_vars

-----------------------------------------------------------------------------
\* The frames in the buffer, oldest first
Buffered == SelectSeq([i \in 1..loop.level |-> loop.ring[(loop.read_idx + i - 1) % Size]], LAMBDA f : f # Zero)

\* Once the loopback is open it is hooked to the first enabled output and to no other,
\* and closed to none, whatever was enabled and disabled before: unless a pinned stream
\* kept a disabled output open (no callback is called then) or the output did not open.
FollowsFirstOutput ==
  kept = {} =>
    IF ~loop.open THEN \A o \in Outputs : hooks[o] = 0
    ELSE enabled # <<>> /\ enabled[1] \notin failed =>
           \A o \in Outputs : hooks[o] > 0 <=> o = enabled[1]

\* As long as no output had it in its list twice, what the loopback holds is in the
\* order in which it was played, whichever outputs played it: nothing unread is written
\* over, round the ring and between zeros (sample_hook, frames_queued).
RecordedInOrder ==
  ~loop.twice => LET f == Buffered IN \A i, k \in DOMAIN f : i < k => f[i] < f[k]

\* "started - True to indicate the target device is running, otherwise false."
StartedWhileRunning == loop.open /\ loop.started => loop.sender \in open

\* "receivers who wants a copy of the audio sending through this iodev": a frame is left
\* out only when the buffer has no place for it.
WholeCopy == ~loop.lacks

\* ... and is not copied twice
HookedOnce == \A o \in Outputs : hooks[o] <= 1
=============================================================================
