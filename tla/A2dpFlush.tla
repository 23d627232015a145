------------------------------ MODULE A2dpFlush ------------------------------
(***************************************************************************)
(* The A2DP output device (cras_a2dp_iodev, cras_a2dp_info): PCM is encoded *)
(* into one packet at a time, which is sent when its time has come.  The   *)
(* socket holds little and may block; then the device polls it and asks    *)
(* the main thread to suspend the connection unless it recovers.  Time and *)
(* audio are in SBC frames.                                                *)
(***************************************************************************)
EXTENDS Integers

CONSTANTS
    WriteBlock,     \* write_block, also min_buffer_level
    PcmSize,        \* PCM_BUF_MAX_SIZE_FRAMES
    SockDepth,      \* packets the socket holds
    MaxLag          \* how far the flush may fall behind its time (bound)

VARIABLES
    a2dp,       \* struct a2dp_io, see IoType
    socket,     \* packets in the socket
    suspend,    \* the suspend timer of the device: none, armed (5 s) or now
    flush       \* packets sent by the call of encode_and_flush under way, or -1

afVars == <<a2dp, socket, suspend, flush>>

\* lag is the time since next_flush_time, negative before it; samples is what is
\* encoded; polls says whether the socket's callback is enabled.
IoType == [state: {"closed", "open", "no_stream", "normal"}, pcm: 0..PcmSize,
           samples: 0..WriteBlock, lag: Int, polls: BOOLEAN]

a2dp_reset == [state |-> "closed", pcm |-> 0, samples |-> 0, lag |-> 0, polls |-> FALSE]

Running(io) == io.state \in {"normal", "no_stream"}

bt_local_queued_frames(io) == io.samples + io.pcm

Least(a, b) == IF a < b THEN a ELSE b

-----------------------------------------------------------------------------
(* encode_and_flush, one packet at a time.                                 *)

\* As much as the packet takes.
encode_a2dp_packet(io) ==
    LET n == Least(io.pcm, WriteBlock - io.samples)
    IN  [io EXCEPT !.pcm = @ - n, !.samples = @ + n]

\* Nothing is flushed before start().
encode_and_flush(io) ==
    /\ flush = -1
    /\ IF Running(io) THEN a2dp' = encode_a2dp_packet(io) /\ flush' = 0
       ELSE a2dp' = io /\ UNCHANGED flush
    /\ UNCHANGED <<socket, suspend>>

MayFlush_any(io) == TRUE

\* The time is checked before every packet.  The clock is that of the check, which
\* is 1 ms (flush_wake_fuzz_ts) ahead: a packet may go out that much early.
MayFlush(io) == io.lag >= 0

GoOn_close(io) == WriteBlock < io.pcm

\* More is written only while the PCM left keeps above min_buffer_level.
GoOn(io) == WriteBlock + WriteBlock < io.pcm

TooEarly ==
    /\ flush >= 0 /\ ~MayFlush(a2dp)
    /\ flush' = -1
    /\ UNCHANGED <<a2dp, socket, suspend>>

\* a2dp_write returns 0 while the packet is not full.
NotFull ==
    /\ flush >= 0 /\ MayFlush(a2dp) /\ a2dp.samples < WriteBlock
    /\ a2dp' = [a2dp EXCEPT !.polls = FALSE]
    /\ suspend' = "none"
    /\ flush' = -1
    /\ UNCHANGED socket

WouldBlock_unwatched ==
    /\ flush >= 0 /\ MayFlush(a2dp) /\ a2dp.samples = WriteBlock
    /\ socket = SockDepth
    /\ a2dp' = [a2dp EXCEPT !.polls = TRUE]
    /\ flush' = -1
    /\ UNCHANGED <<socket, suspend>>

\* EAGAIN: a timer that is armed already goes on.
WouldBlock ==
    /\ flush >= 0 /\ MayFlush(a2dp) /\ a2dp.samples = WriteBlock
    /\ socket = SockDepth
    /\ suspend' = IF suspend = "none" THEN "armed" ELSE suspend
    /\ a2dp' = [a2dp EXCEPT !.polls = TRUE]
    /\ flush' = -1
    /\ UNCHANGED socket

WriteFails ==
    /\ flush >= 0 /\ MayFlush(a2dp) /\ a2dp.samples = WriteBlock
    /\ suspend' = "now"
    /\ a2dp' = [a2dp EXCEPT !.polls = FALSE]
    /\ flush' = -1
    /\ UNCHANGED socket

Written ==
    LET w == [a2dp EXCEPT !.samples = 0, !.lag = @ - WriteBlock, !.polls = FALSE]
    IN  /\ flush >= 0 /\ MayFlush(a2dp) /\ a2dp.samples = WriteBlock
        /\ socket < SockDepth
        /\ socket' = socket + 1
        /\ suspend' = "none"
        /\ IF GoOn(w) THEN a2dp' = encode_a2dp_packet(w) /\ flush' = flush + 1
           ELSE a2dp' = w /\ flush' = -1

Flush == TooEarly \/ NotFull \/ WouldBlock \/ WriteFails \/ Written

-----------------------------------------------------------------------------
(* The operations of the device.                                           *)

configure_dev ==
    /\ a2dp.state = "closed"
    /\ a2dp' = [a2dp EXCEPT !.state = "open"]
    /\ socket' = 0
    /\ UNCHANGED <<suspend, flush>>

\* start(), once samples are there.
start ==
    /\ a2dp.state = "open" /\ a2dp.pcm > 0 /\ flush = -1
    /\ a2dp' = [a2dp EXCEPT !.state = "normal", !.lag = 0]
    /\ UNCHANGED <<socket, suspend, flush>>

put_buffer(n) ==
    /\ a2dp.state \in {"open", "normal"}
    /\ a2dp.pcm + n <= PcmSize
    /\ encode_and_flush([a2dp EXCEPT !.pcm = @ + n])

\* fill_zeros_to_min_buffer_level
ZerosToMin(io) ==
    LET have == bt_local_queued_frames(io)
    IN  IF have < WriteBlock THEN [io EXCEPT !.pcm = @ + WriteBlock - have] ELSE io

enter_no_stream ==
    /\ Running(a2dp)
    /\ encode_and_flush([ZerosToMin(a2dp) EXCEPT !.state = "no_stream"])

leave_no_stream ==
    /\ a2dp.state = "no_stream"
    /\ encode_and_flush([ZerosToMin(a2dp) EXCEPT !.state = "normal"])

\* cras_iodev_fill_odev_zeros of min_cb_level, when it is a true underrun.
output_underrun ==
    /\ a2dp.state = "normal" /\ bt_local_queued_frames(a2dp) <= WriteBlock
    /\ encode_and_flush([a2dp EXCEPT !.pcm = Least(@ + WriteBlock, PcmSize)])

a2dp_socket_write_cb ==
    /\ a2dp.polls /\ socket < SockDepth
    /\ encode_and_flush(a2dp)

close_dev ==
    /\ a2dp.state # "closed" /\ flush = -1
    /\ a2dp' = a2dp_reset
    /\ suspend' = "none"
    /\ UNCHANGED <<socket, flush>>

\* The timer destroys the device in the main thread.
bt_device_suspend_cb == suspend # "none" /\ close_dev

RadioSends ==
    /\ socket > 0
    /\ socket' = socket - 1
    /\ UNCHANGED <<a2dp, suspend, flush>>

Tick ==
    /\ Running(a2dp) /\ a2dp.lag < MaxLag
    /\ a2dp' = [a2dp EXCEPT !.lag = @ + 1]
    /\ UNCHANGED <<socket, suspend, flush>>

Init ==
    /\ a2dp = a2dp_reset
    /\ socket = 0
    /\ suspend = "none"
    /\ flush = -1

Next ==
    \/ Flush
    \/ configure_dev \/ start \/ close_dev
    \/ \E n \in {1, WriteBlock} : put_buffer(n)
    \/ enter_no_stream \/ leave_no_stream \/ output_underrun
    \/ a2dp_socket_write_cb \/ bt_device_suspend_cb
    \/ RadioSends \/ Tick

\* The audio thread ends its calls and the main loop runs its timers; the radio
\* may stall for ever.
Fairness == WF_afVars(Flush) /\ SF_afVars(bt_device_suspend_cb)

Spec == Init /\ [][Next]_afVars /\ Fairness

-----------------------------------------------------------------------------
\* Packets are sent at the rate they are played, also when the flush has fallen
\* behind and catches up: by encode_and_flush's clock, 1 ms ahead of the true one,
\* next_flush_time is at most one packet ahead.
Paced == a2dp.lag >= -WriteBlock

\* Sending several packets in one call never takes what is left below
\* min_buffer_level, so catching up does not cause an underrun.
NoSelfUnderrun == flush > 0 => a2dp.pcm + a2dp.samples > WriteBlock + WriteBlock

\* A socket that blocks is not polled for ever: it takes data again, or the
\* connection is suspended.
StallEnds == a2dp.polls ~> ~a2dp.polls
=============================================================================
