---------------------------- MODULE AlsaFreeRun ----------------------------
(***************************************************************************)
(* The buffer of an ALSA playback device (cras_alsa_io.c and the mmap      *)
(* helpers of cras_alsa_helpers.c).  The hardware plays round the ring and *)
(* never stops at the application pointer.  With no stream left the device *)
(* drains its samples behind zeros and then runs free over a ring full of  *)
(* zeros; a stream that comes back takes over in the middle of either.     *)
(***************************************************************************)
EXTENDS Integers, FiniteSets

CONSTANTS BufferSize,       \* frames in the ring
          MinBufferLevel,   \* min_buffer_level
          MinCbLevel,       \* min_cb_level
          FillZeros,        \* frames of no_stream_fill_zeros_duration
          SevereFrames,     \* severe_underrun_frames
          MaxSwitches       \* stream changes, suspends and late wakes in a behaviour

VARIABLES pcm,      \* the ring, hw pointer, level (appl pointer - hw pointer), suspended
          aio,      \* struct alsa_io: state, free_running, filled_zeros_for_draining
          late,     \* the audio thread woke too late, or the card was suspended
          noise,    \* a frame was played a second time
          lost,     \* a frame was erased before it was played, without an underrun
          switches

vars == <<pcm, aio, late, noise, lost, switches>>

Cells == 0..(BufferSize - 1)
Larger(a, b) == IF a > b THEN a ELSE b
Smaller(a, b) == IF a < b THEN a ELSE b

\* The cells from the hardware pointer on that hold the next n frames
Ahead(p, from, n) == {(p.hw + from + i) % BufferSize : i \in 0..(n - 1)}

\* close_dev, open_dev and configure_dev; start fills min_cb_level zeros
Opened == [ring |-> [i \in Cells |-> "zero"], hw |-> 0, level |-> MinCbLevel, suspended |-> FALSE]
Configured == [state |-> "normal", free_running |-> FALSE, filled |-> 0]

Init ==
  /\ pcm = Opened
  /\ aio = Configured
  /\ late = FALSE /\ noise = FALSE /\ lost = FALSE
  /\ switches = 0

-----------------------------------------------------------------------------
(* cras_alsa_helpers.c *)

\* snd_pcm_resume fails on most cards: the PCM is prepared and started again
cras_alsa_attempt_resume(p) == [p EXCEPT !.suspended = FALSE, !.level = 0]

\* What frames_queued reports: a full buffer after a resume, -1 (EPIPE) when severe
cras_alsa_get_avail_frames(p) ==
  IF p.suspended THEN BufferSize
  ELSE IF 0 - p.level > SevereFrames THEN -1
  ELSE Larger(p.level, 0)

AfterAvail(p) == IF p.suspended THEN cras_alsa_attempt_resume(p) ELSE p

\* Moves the application pointer to this many frames ahead of the hardware
cras_alsa_resume_appl_ptr(p, ahead) ==
  IF p.suspended THEN cras_alsa_attempt_resume(p) ELSE [p EXCEPT !.level = ahead]

\* get_buffer, put_buffer: n frames at the application pointer
mmap_write(p, n, what) ==
  LET at == Ahead(p, p.level, n)
  IN [p EXCEPT !.ring = [i \in Cells |-> IF i \in at THEN what ELSE p.ring[i]], !.level = @ + n]

fill_whole_buffer_with_zeros(p) == [p EXCEPT !.ring = [i \in Cells |-> "zero"]]

alsa_output_underrun(p) ==
  cras_alsa_resume_appl_ptr(fill_whole_buffer_with_zeros(p), MinBufferLevel + MinCbLevel + MinCbLevel \div 2)

\* Frames that were written and not played
Fresh(p) == {i \in Cells : p.ring[i] = "new"}

-----------------------------------------------------------------------------
(* The audio thread *)

\* cras_iodev_reset_request: the main thread closes the device and opens it again
Reset ==
  /\ pcm' = Opened /\ aio' = Configured /\ late' = FALSE
  /\ UNCHANGED <<noise, lost, switches>>

\* A stream's frames are mixed into the buffer; a level that fell too low is an underrun.
\* The code writes first and then finds the level no higher than what it wrote; the zeros
\* replace those frames, so the underrun alone is the step
write_output_samples ==
  /\ aio.state = "normal"
  /\ \E level \in {cras_alsa_get_avail_frames(pcm)} : \E p \in {AfterAvail(pcm)} :
       \/ level < 0 /\ Reset
       \/ /\ level >= 0 /\ level <= MinBufferLevel
          /\ pcm' = alsa_output_underrun(p)
          /\ late' = FALSE
          /\ UNCHANGED <<aio, noise, lost, switches>>
       \/ /\ level > MinBufferLevel /\ level < BufferSize
          /\ \E n \in 1..(BufferSize - level) : pcm' = mmap_write(p, n, "new")
          /\ UNCHANGED <<aio, late, noise, lost, switches>>
       \/ level = BufferSize /\ p # pcm /\ pcm' = p /\ UNCHANGED <<aio, late, noise, lost, switches>>

\* mutant: the drained frames are counted from when the device was opened
leave_free_run_kept ==
  /\ aio.state = "no_stream" /\ switches < MaxSwitches
  /\ \E level \in {cras_alsa_get_avail_frames(pcm)} : \E p \in {AfterAvail(pcm)} :
       LET offset == Larger(MinBufferLevel + MinCbLevel, Larger(level - aio.filled, 0))
           padded == IF offset > level THEN mmap_write(p, offset - level, "zero") ELSE p
       IN \/ /\ aio.free_running \/ level >= 0
             /\ pcm' = IF aio.free_running THEN cras_alsa_resume_appl_ptr(pcm, MinBufferLevel + MinCbLevel)
                       ELSE IF level <= MinBufferLevel THEN alsa_output_underrun(p)
                       ELSE cras_alsa_resume_appl_ptr(padded, offset)
             /\ aio' = [aio EXCEPT !.state = "normal", !.free_running = FALSE]
             /\ late' = (late /\ ~aio.free_running /\ level > MinBufferLevel)
             /\ switches' = switches + 1
             /\ UNCHANGED <<noise, lost>>
          \/ ~aio.free_running /\ level < 0 /\ Reset

\* adjust_appl_ptr_for_leaving_free_run or adjust_appl_ptr_samples_remaining: the
\* valid samples stay queued, with at least a callback's worth of frames
leave_free_run ==
  /\ aio.state = "no_stream" /\ switches < MaxSwitches
  /\ \E level \in {cras_alsa_get_avail_frames(pcm)} : \E p \in {AfterAvail(pcm)} :
       LET offset == Larger(MinBufferLevel + MinCbLevel, Larger(level - aio.filled, 0))
           padded == IF offset > level THEN mmap_write(p, offset - level, "zero") ELSE p
       IN \/ /\ aio.free_running \/ level >= 0
             /\ pcm' = IF aio.free_running THEN cras_alsa_resume_appl_ptr(pcm, MinBufferLevel + MinCbLevel)
                       ELSE IF level <= MinBufferLevel THEN alsa_output_underrun(p)
                       ELSE cras_alsa_resume_appl_ptr(padded, offset)
             /\ aio' = Configured
             /\ late' = (late /\ ~aio.free_running /\ level > MinBufferLevel)
             /\ switches' = switches + 1
             /\ UNCHANGED <<noise, lost>>
          \/ ~aio.free_running /\ level < 0 /\ Reset

\* The last stream goes: no_stream is called at once and in every cycle after
no_stream_playback_transition ==
  /\ aio.state = "normal" /\ switches < MaxSwitches
  /\ aio' = [aio EXCEPT !.state = "no_stream"]
  /\ switches' = switches + 1
  /\ UNCHANGED <<pcm, late, noise, lost>>

\* mutant: the device runs free over what its buffer holds
possibly_enter_free_run_unfilled ==
  /\ aio.state = "no_stream" /\ ~aio.free_running
  /\ \E level \in {cras_alsa_get_avail_frames(pcm)} : \E p \in {AfterAvail(pcm)} :
       \/ level < 0 /\ Reset
       \/ /\ level >= 0 /\ level <= MinBufferLevel
          /\ pcm' = alsa_output_underrun(p)
          /\ aio' = [aio EXCEPT !.free_running = TRUE]
          /\ late' = FALSE
          /\ UNCHANGED <<noise, lost, switches>>
       \/ /\ level > MinBufferLevel /\ level <= aio.filled
          /\ pcm' = p
          /\ aio' = [aio EXCEPT !.free_running = TRUE]
          /\ lost' = lost
          /\ late' = FALSE
          /\ UNCHANGED <<noise, switches>>
       \/ /\ level > MinBufferLevel /\ level > aio.filled
          /\ LET n == Smaller(FillZeros, BufferSize - level)
             IN /\ pcm' = mmap_write(p, n, "zero")
                /\ aio' = [aio EXCEPT !.filled = @ + n]
                /\ <<pcm', aio'>> # <<pcm, aio>>
          /\ UNCHANGED <<late, noise, lost, switches>>

\* mutant: only the zeros written last are counted
possibly_enter_free_run_last ==
  /\ aio.state = "no_stream" /\ ~aio.free_running
  /\ \E level \in {cras_alsa_get_avail_frames(pcm)} : \E p \in {AfterAvail(pcm)} :
       \/ level < 0 /\ Reset
       \/ /\ level >= 0 /\ level <= MinBufferLevel
          /\ pcm' = alsa_output_underrun(p)
          /\ aio' = [aio EXCEPT !.free_running = TRUE]
          /\ late' = FALSE
          /\ UNCHANGED <<noise, lost, switches>>
       \/ /\ level > MinBufferLevel /\ level <= aio.filled
          /\ pcm' = fill_whole_buffer_with_zeros(p)
          /\ aio' = [aio EXCEPT !.free_running = TRUE]
          /\ lost' = (lost \/ Fresh(p) # {})
          /\ late' = FALSE
          /\ UNCHANGED <<noise, switches>>
       \/ /\ level > MinBufferLevel /\ level > aio.filled
          /\ LET n == Smaller(FillZeros, BufferSize - level)
             IN /\ pcm' = mmap_write(p, n, "zero")
                /\ aio' = [aio EXCEPT !.filled = n]
                /\ <<pcm', aio'>> # <<pcm, aio>>
          /\ UNCHANGED <<late, noise, lost, switches>>

\* Zeros behind the samples until only zeros are left, then zeros everywhere
possibly_enter_free_run ==
  /\ aio.state = "no_stream" /\ ~aio.free_running
  /\ \E level \in {cras_alsa_get_avail_frames(pcm)} : \E p \in {AfterAvail(pcm)} :
       \/ level < 0 /\ Reset
       \/ /\ level >= 0 /\ level <= MinBufferLevel
          /\ pcm' = alsa_output_underrun(p)
          /\ aio' = [aio EXCEPT !.free_running = TRUE]
          /\ late' = FALSE
          /\ UNCHANGED <<noise, lost, switches>>
       \/ /\ level > MinBufferLevel /\ level <= aio.filled
          /\ pcm' = fill_whole_buffer_with_zeros(p)
          /\ aio' = [aio EXCEPT !.free_running = TRUE]
          /\ lost' = (lost \/ Fresh(p) # {})
          /\ late' = FALSE
          /\ UNCHANGED <<noise, switches>>
       \/ /\ level > MinBufferLevel /\ level > aio.filled
          /\ LET n == Smaller(FillZeros, BufferSize - level)
             IN /\ pcm' = mmap_write(p, n, "zero")
                /\ aio' = [aio EXCEPT !.filled = @ + n]
                /\ <<pcm', aio'>> # <<pcm, aio>>
          /\ UNCHANGED <<late, noise, lost, switches>>

-----------------------------------------------------------------------------
(* The hardware *)

\* One frame is played, whether or not the application pointer was reached
PlayFrame(p) ==
  [p EXCEPT !.ring[p.hw] = IF @ = "new" THEN "old" ELSE @,
            !.hw = (@ + 1) % BufferSize,
            !.level = Larger(@ - 1, 0 - SevereFrames - 1)]

Play ==
  /\ ~pcm.suspended
  /\ aio.free_running \/ pcm.level > 0 \/ late
  /\ pcm' = PlayFrame(pcm)
  /\ noise' = (noise \/ (pcm.ring[pcm.hw] = "old" /\ ~late))
  /\ UNCHANGED <<aio, late, lost, switches>>

\* The audio thread oversleeps
Late ==
  /\ ~late /\ ~aio.free_running /\ pcm.level = 0 /\ switches < MaxSwitches
  /\ late' = TRUE /\ switches' = switches + 1
  /\ UNCHANGED <<pcm, aio, noise, lost>>

Suspend ==
  /\ ~pcm.suspended /\ switches < MaxSwitches
  /\ pcm' = [pcm EXCEPT !.suspended = TRUE]
  /\ late' = TRUE /\ switches' = switches + 1
  /\ UNCHANGED <<aio, noise, lost>>

Next ==
  \/ write_output_samples
  \/ leave_free_run
  \/ no_stream_playback_transition
  \/ possibly_enter_free_run
  \/ Play
  \/ Late \/ Suspend

Spec == Init /\ [][Next]_vars /\ WF_vars(Play) /\ WF_vars(possibly_enter_free_run)

-----------------------------------------------------------------------------
\* As long as the audio thread wakes in time no frame is played twice: the ring is
\* overwritten or zeroed before the hardware comes round (alsa_output_underrun,
\* possibly_enter_free_run, adjust_appl_ptr_samples_remaining)
NothingPlayedTwice == ~noise

\* A frame that was written is played: it is not erased by the zeros of free run and
\* the pointer never moves back over it (filled_zeros_for_draining counts the zeros)
QueuedIsPlayed == late \/ (~lost /\ Fresh(pcm) \subseteq Ahead(pcm, 0, Larger(pcm.level, 0)))

\* A device without a stream ends in free run, where it needs no more wakes, unless a
\* stream comes back (possibly_enter_free_run)
DrainEnds == aio.state = "no_stream" ~> (aio.free_running \/ aio.state = "normal")
=============================================================================
