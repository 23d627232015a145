------------------------------- MODULE HfpInfo -------------------------------
(***************************************************************************)
(* HFP audio over SCO with mSBC (cras_hfp_info, and hfp_iodev on top).     *)
(* The audio thread reads one packet at a time.  A packet may not arrive,  *)
(* arrive flagged or undecodable; two bits of sequence number tell how     *)
(* many were lost, and each lost frame is concealed.  For every packet     *)
(* read one is written.  Lengths are in mSBC frames.                       *)
(***************************************************************************)
EXTENDS Naturals, Sequences

CONSTANTS
    BufFrames,      \* MAX_HFP_BUF_SIZE_BYTES / MSBC_CODE_SIZE
    MinLevel,       \* min_cb_level of the output device
    MaxFrames       \* frames the headset sends in one connection (bound)

VARIABLES
    info,       \* struct hfp_info and the output's hfp_io, see InfoType
    sent,       \* frames the headset has sent on this connection
    taken,      \* frames that left capture_buf on this connection
    slipped,    \* a frame was counted and not put in capture_buf
    cut         \* leaving the no-stream state dropped data of a stream

hiVars == <<info, sent, taken, slipped, cut>>

\* Devices of either direction; capture_buf holds the number of each frame, 0 for a
\* concealed one, playback_buf whether a frame is data of a stream or zeros;
\* msbc_num_in_frames; filled_zeros and drain_complete; whether the output device is
\* in normal run rather than in no-stream run.
InfoType == [started: BOOLEAN, devs: SUBSET {"input", "output"},
             capture_buf: Seq(Nat), playback_buf: Seq(BOOLEAN), num_in: Nat,
             filled_zeros: Nat, drain_complete: BOOLEAN, normal: BOOLEAN]

hfp_info_create == [started |-> FALSE, devs |-> {}, capture_buf |-> <<>>,
                    playback_buf |-> <<>>, num_in |-> 0, filled_zeros |-> 0,
                    drain_complete |-> FALSE, normal |-> FALSE]

Frames(what, n) == [k \in 1..n |-> what]

Least(a, b) == IF a < b THEN a ELSE b

Greatest(a, b) == IF a > b THEN a ELSE b

-----------------------------------------------------------------------------
(* Reading.                                                                *)

HasRoom(i) == Len(i.capture_buf) < BufFrames

\* A lost frame is counted whether or not there is room to conceal it.
handle_packet_loss(i) ==
    IF HasRoom(i)
    THEN [i EXCEPT !.num_in = @ + 1, !.capture_buf = Append(@, 0)]
    ELSE [i EXCEPT !.num_in = @ + 1]

Conceal_once(i, seq) == IF seq = i.num_in % 4 THEN i ELSE handle_packet_loss(i)

\* The loop that takes frames for lost until the sequence numbers agree, which
\* they do after at most three.
Conceal(i, seq) ==
    LET step(j) == IF seq = j.num_in % 4 THEN j ELSE handle_packet_loss(j)
    IN  step(step(step(i)))

\* Frame n arrives.  A good one that finds no room is not counted: it is taken for
\* lost when the next one arrives.
hfp_read_msbc(i, n, kind) ==
    LET c == Conceal(i, n % 4)
    IN  CASE kind = "flagged" -> handle_packet_loss(i)
          [] kind # "flagged" /\ ~HasRoom(c) -> c
          [] kind = "corrupt" /\ HasRoom(c) -> handle_packet_loss(c)
          [] OTHER -> [c EXCEPT !.capture_buf = Append(@, n + 1), !.num_in = @ + 1]

-----------------------------------------------------------------------------
(* Writing.                                                                *)

Room(i) == BufFrames - Len(i.playback_buf)

hfp_fill_output_with_zeros(i, n) ==
    [i EXCEPT !.playback_buf = @ \o Frames(FALSE, Least(n, Room(i)))]

\* buf_adjust_readable; what is added is what the ring held, zeros by then.
hfp_force_output_level(i, n) ==
    IF n <= Len(i.playback_buf)
    THEN [i EXCEPT !.playback_buf = SubSeq(@, 1, n)]
    ELSE hfp_fill_output_with_zeros(i, n - Len(i.playback_buf))

\* One packet, of zeros when nothing is queued.
hfp_write_msbc(i) ==
    IF i.playback_buf = <<>> THEN i ELSE [i EXCEPT !.playback_buf = Tail(@)]

-----------------------------------------------------------------------------
(* The audio thread.                                                       *)

\* Packets vanish, then one arrives.  Fewer than four are unaccounted for, or two
\* bits cannot tell how many.
hfp_info_callback ==
    \E vanished \in 0..3, kind \in {"good", "flagged", "corrupt"} :
        LET n == sent + vanished
            read == hfp_read_msbc(info, n, kind)
            got == Len(read.capture_buf) - Len(info.capture_buf)
            drop == IF "input" \in info.devs THEN 0 ELSE got
            kept == [read EXCEPT !.capture_buf = SubSeq(@, drop + 1, Len(@))]
            out == IF "output" \in info.devs THEN kept
                   ELSE hfp_fill_output_with_zeros(kept, got)
        IN  /\ info.started
            /\ n < MaxFrames /\ n - info.num_in <= 3
            /\ info' = hfp_write_msbc(out)
            /\ sent' = n + 1
            /\ taken' = taken + drop
            /\ slipped' = (slipped \/ read.num_in - info.num_in > got)
            /\ UNCHANGED cut

\* The socket failed or was hung up: it is closed under the devices.
read_write_error ==
    /\ info.started
    /\ info' = [info EXCEPT !.started = FALSE]
    /\ UNCHANGED <<sent, taken, slipped, cut>>

\* put_buffer of the input device, after it has read n frames; flush_buffer takes
\* all that is queued.
put_buffer_input(n) ==
    /\ info.started /\ "input" \in info.devs /\ n \in 1..Len(info.capture_buf)
    /\ info' = [info EXCEPT !.capture_buf = SubSeq(@, n + 1, Len(@))]
    /\ taken' = taken + n
    /\ UNCHANGED <<sent, slipped, cut>>

\* Data of the streams, or the zeros of output_underrun.
put_buffer_output(n, data) ==
    /\ info.started /\ "output" \in info.devs /\ n \in 1..Room(info)
    /\ info.normal
    /\ info' = [info EXCEPT !.playback_buf = @ \o Frames(data, n)]
    /\ UNCHANGED <<sent, taken, slipped, cut>>

enter_no_stream(i) ==
    LET hw == Len(i.playback_buf)
        f == hfp_fill_output_with_zeros(i, BufFrames)
    IN  [f EXCEPT !.drain_complete = @ \/ hw <= i.filled_zeros,
                  !.filled_zeros = @ + Room(i)]

leave_no_stream_short(i) ==
    [hfp_force_output_level(i, MinLevel) EXCEPT !.drain_complete = FALSE,
                                                !.filled_zeros = 0]

\* What is left of the stream's data stays, and zeros up to the level.
leave_no_stream(i) ==
    LET hw == Len(i.playback_buf)
        valid == IF hw > i.filled_zeros THEN hw - i.filled_zeros ELSE 0
        target == Greatest(MinLevel, valid)
        l == IF i.drain_complete THEN hfp_force_output_level(i, MinLevel)
             ELSE hfp_force_output_level(i, target)
    IN  [l EXCEPT !.drain_complete = FALSE, !.filled_zeros = 0]

Data(i) == Len(SelectSeq(i.playback_buf, LAMBDA d : d))

\* Entered when the last stream has gone and again at every wake-up without one;
\* left when samples are ready.
no_stream(enable) ==
    /\ info.started /\ "output" \in info.devs
    /\ enable => info.filled_zeros <= 2 * BufFrames
    /\ ~enable => ~info.normal
    /\ info' = [IF enable THEN enter_no_stream(info) ELSE leave_no_stream(info)
                   EXCEPT !.normal = ~enable]
    /\ cut' = (cut \/ Data(info') < Data(info))
    /\ UNCHANGED <<sent, taken, slipped>>

-----------------------------------------------------------------------------
(* The devices.                                                            *)

\* It cannot fail; a socket that does not connect leaves all as it was.  Only the
\* counters of the device that starts it are reset.
hfp_info_start(i, dir) ==
    [i EXCEPT !.started = TRUE, !.capture_buf = <<>>, !.playback_buf = <<>>,
              !.num_in = 0,
              !.filled_zeros = IF dir = "output" THEN 0 ELSE @,
              !.drain_complete = @ /\ dir # "output"]

\* The buffer of the device's direction starts empty.
hfp_info_add_iodev(i, dir) ==
    [i EXCEPT !.devs = @ \cup {dir},
              !.playback_buf = IF dir = "output" THEN <<>> ELSE @,
              !.capture_buf = IF dir = "input" THEN <<>> ELSE @,
              !.normal = @ /\ dir # "output"]

configure_dev(dir) ==
    /\ dir \notin info.devs
    /\ IF info.started
       THEN /\ info' = hfp_info_add_iodev(info, dir)
            /\ taken' = IF dir = "input" THEN taken + Len(info.capture_buf) ELSE taken
            /\ UNCHANGED <<sent, slipped>>
       ELSE /\ info' = hfp_info_add_iodev(hfp_info_start(info, dir), dir)
            /\ sent' = 0 /\ taken' = 0 /\ slipped' = FALSE
    /\ UNCHANGED cut

\* hfp_info_rm_iodev silences the playback buffer; the last device stops.
close_dev(dir) ==
    /\ dir \in info.devs
    /\ info' = [info EXCEPT
            !.devs = @ \ {dir},
            !.started = @ /\ info.devs # {dir},
            !.playback_buf = IF dir = "output" THEN Frames(FALSE, Len(@)) ELSE @]
    /\ UNCHANGED <<sent, taken, slipped, cut>>

Init ==
    /\ info = hfp_info_create
    /\ sent = 0
    /\ taken = 0
    /\ slipped = FALSE
    /\ cut = FALSE

Next ==
    \/ hfp_info_callback
    \/ read_write_error
    \/ \E n \in 1..BufFrames : put_buffer_input(n)
    \/ \E n \in 1..BufFrames, data \in BOOLEAN : put_buffer_output(n, data)
    \/ \E enable \in BOOLEAN : no_stream(enable)
    \/ \E dir \in {"input", "output"} : configure_dev(dir) \/ close_dev(dir)

Spec == Init /\ [][Next]_hiVars

-----------------------------------------------------------------------------
\* Every captured frame is in its place in time, with a concealed frame for each
\* one that was lost or damaged, as long as the input device leaves room; and after
\* a frame found no room, the next good one is counted right again.
InSequence ==
    LET c == info.capture_buf
    IN  /\ c # <<>> /\ c[Len(c)] = sent => info.num_in = sent
        /\ ~slipped => \A k \in 1..Len(c) : c[k] # 0 => c[k] = taken + k

\* Leaving the no-stream state drops zeros only, never what a stream has written.
NoDataCut == ~cut
=============================================================================
