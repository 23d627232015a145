------------------------------- MODULE HfpSlc -------------------------------
(***************************************************************************)
(* The service level connection of HFP: the hands-free device (HF) sends   *)
(* AT commands over RFCOMM in pieces of any size, the main thread collects *)
(* them in a buffer, handles the complete ones and answers; it reports the *)
(* state of calls, negotiates the codec before a SCO connection and tells  *)
(* the audio gateway when the connection is initialised.                   *)
(***************************************************************************)
EXTENDS Naturals, Sequences

CONSTANTS
    BufSize,        \* SLC_BUF_SIZE_BYTES - 1, in cells
    MaxCommands,    \* commands the HF sends (bound)
    MaxCalls,       \* changes of the call state by the telephony API (bound)
    HfIndicators    \* whether the HF supports HF indicators

VARIABLES
    rfcomm,         \* cells sent by the HF and not read yet
    slc,            \* struct hfp_slc_handle, see HandleType
    telephony,      \* struct cras_telephony_handle: call, callsetup, callheld
    view,           \* the HF's view of the indicators, where it is known
    sco,            \* codec of the audio gateway's hfp_info and of the SCO socket
    setup,          \* hfp_slc_codec_connection_setup: idle, waiting, again
    hf              \* how many commands the HF sent, those not handled yet, whether
                    \* one was taken for another, AT+CMER handled, calls so far,
                    \* whether the handling of one failed

slcVars == <<rfcomm, slc, telephony, view, sco, setup, hf>>

Codecs == 0..2      \* HFP_CODEC_UNUSED, HFP_CODEC_ID_CVSD, HFP_CODEC_ID_MSBC

CVSD == 1

MSBC == 2

\* INVALID is a command whose handler returns an error: AT+CMER without its
\* parameters, or a key that cannot be passed on.
Commands == {"CMER_ON", "CMER_OFF", "INVALID", "BIND?", "CIND?", "BAC_MSBC", "BCS_CVSD",
             "BCS_MSBC", "BCC", "ATA", "ATD", "CHUP", "OTHER"}

\* A command is two cells, its text and the carriage return that ends it, which is
\* overwritten by "NUL" when the command is handled.
HandleType == [buf: Seq(Commands \cup {"CR", "NUL"}), read_idx: Nat, parsing: BOOLEAN,
               init_cb: BOOLEAN, timer: BOOLEAN, report: BOOLEAN,
               preferred: Codecs, selected: Codecs]

Indicators == {"call", "callsetup", "callheld"}

-----------------------------------------------------------------------------
(* Indicators.  An event report that is sent is seen by the HF.            *)

hfp_send_ind_event_report(ind, t) ==
    IF slc.report THEN [view EXCEPT ![ind] = {t[ind]}]
    ELSE [view EXCEPT ![ind] = {}]

\* Several reports, for the indicators that an event announces.
Report(inds, t) ==
    view' = [i \in Indicators |->
                IF i \in inds THEN hfp_send_ind_event_report(i, t)[i] ELSE view[i]]

cras_telephony_event_answer_call_quiet ==
    LET t == [telephony EXCEPT !.call = 1, !.callsetup = 0]
    IN  telephony' = t /\ Report(IF telephony.call = 0 THEN {"call"} ELSE {}, t)

cras_telephony_event_answer_call ==
    LET t == [telephony EXCEPT !.call = 1, !.callsetup = 0]
        inds == {"callsetup"} \cup (IF telephony.call = 0 THEN {"call"} ELSE {})
    IN  telephony' = t /\ Report(inds, t)

cras_telephony_event_terminate_call ==
    LET t == [telephony EXCEPT !.call = 0, !.callsetup = 0]
        inds == {i \in {"call", "callsetup"} : telephony[i] # 0}
    IN  telephony' = t /\ Report(inds, t)

\* dial_number and last_dialed_number
dial_number ==
    LET t == [telephony EXCEPT !.callsetup = 2]
    IN  telephony' = t /\ Report({"callsetup"}, t)

-----------------------------------------------------------------------------
(* AT commands.  Each gives the handle after it, and what else changes.     *)

initialize_slc_handle(h) == [h EXCEPT !.init_cb = FALSE]

event_reporting_untimed(h, on) ==
    LET r == [h EXCEPT !.report = on]
    IN  IF HfIndicators THEN r ELSE initialize_slc_handle(r)

\* AT+CMER: with HF indicators the timer waits for AT+BIND.
event_reporting(h, on) ==
    LET r == [h EXCEPT !.report = on]
    IN  IF HfIndicators THEN [r EXCEPT !.timer = TRUE] ELSE initialize_slc_handle(r)

available_codecs(h) == [h EXCEPT !.preferred = MSBC]

bluetooth_codec_selection(h, codec) == [h EXCEPT !.selected = codec]

bluetooth_codec_connection(h) == [h EXCEPT !.selected = 0]

\* handle_at_command, for what it does to the handle h.
handle_at_command(h, c) ==
    CASE c \in {"CMER_ON", "CMER_OFF"} -> event_reporting(h, c = "CMER_ON")
      [] c = "BIND?" -> initialize_slc_handle(h)
      [] c = "BAC_MSBC" -> available_codecs(h)
      [] c = "BCS_CVSD" -> bluetooth_codec_selection(h, CVSD)
      [] c = "BCS_MSBC" -> bluetooth_codec_selection(h, MSBC)
      [] c = "BCC" -> bluetooth_codec_connection(h)
      [] OTHER -> h

\* And to the calls and the HF's view of them; AT+CIND? reads all indicators.
CallEffect(c) ==
    CASE c = "ATA" -> cras_telephony_event_answer_call
      [] c = "CHUP" -> cras_telephony_event_terminate_call
      [] c = "ATD" -> dial_number
      [] c = "CIND?" -> /\ view' = [i \in Indicators |-> {telephony[i]}]
                        /\ UNCHANGED telephony
      [] c = "CMER_OFF" -> /\ view' = [i \in Indicators |-> {}]
                           /\ UNCHANGED telephony
      [] OTHER -> UNCHANGED <<telephony, view>>

-----------------------------------------------------------------------------
(* The buffer.                                                             *)

hfp_slc_get_selected_codec(h) == IF h.selected = 0 THEN h.preferred ELSE h.selected

\* The read at the head of process_at_commands, of as much as there is and fits.
Read ==
    \E n \in 1..Len(rfcomm) :
        /\ Len(slc.buf) + n <= BufSize
        /\ slc' = [slc EXCEPT !.buf = @ \o SubSeq(rfcomm, 1, n), !.parsing = TRUE]
        /\ rfcomm' = SubSeq(rfcomm, n + 1, Len(rfcomm))

\* slc_watch_callback, when the main loop polls the socket.
slc_watch_callback ==
    /\ ~slc.parsing /\ setup = "idle"
    /\ Read
    /\ UNCHANGED <<telephony, view, sco, setup, hf>>

\* strchr: the command from read_idx on ends at cell i, unless a NUL comes before.
EndsAt(i) ==
    /\ i \in slc.read_idx + 1 .. Len(slc.buf) /\ slc.buf[i] = "CR"
    /\ \A j \in slc.read_idx + 1 .. i - 1 : slc.buf[j] \notin {"CR", "NUL"}

HasCommand == \E i \in 1..Len(slc.buf) : EndsAt(i)

\* The read index moves behind the command; an empty buffer starts over.
Shift(h, i) ==
    IF i = Len(h.buf) THEN [h EXCEPT !.read_idx = 0, !.buf = <<>>]
    ELSE [h EXCEPT !.read_idx = i]

Connect(h) ==
    /\ setup' = "idle"
    /\ sco' = [sco EXCEPT !.socket = hfp_slc_get_selected_codec(h)]

\* An error ends process_at_commands where it is: the read index stays before the
\* command, whose end cannot be found any more, and a negotiation ends with it.
process_at_command ==
    \E i \in 1..Len(slc.buf) :
        LET c == slc.buf[slc.read_idx + 1]
        IN  /\ slc.parsing /\ EndsAt(i)
            /\ \/ /\ c # "INVALID"
                  /\ slc' = Shift(handle_at_command(slc, c), i)
                  /\ CallEffect(c)
                  /\ UNCHANGED <<sco, setup>>
               \/ /\ c = "INVALID"
                  /\ slc' = [slc EXCEPT !.buf[i] = "NUL", !.parsing = FALSE]
                  /\ IF setup = "again" THEN Connect(slc) ELSE UNCHANGED <<sco, setup>>
                  /\ UNCHANGED <<telephony, view>>
            /\ hf' = [hf EXCEPT !.pending = IF @ = <<>> THEN @ ELSE Tail(@),
                                !.mixed = @ \/ hf.pending = <<>> \/ Head(hf.pending) # c,
                                !.cmer = @ \/ c \in {"CMER_ON", "CMER_OFF"},
                                !.failed = @ \/ c = "INVALID"]
            /\ UNCHANGED rfcomm

\* The end of process_at_commands: a full buffer is moved to its start, or thrown
\* away when it holds no command.
Compact_cleared(h) == IF Len(h.buf) # BufSize THEN h ELSE [h EXCEPT !.buf = <<>>]

Compact(h) ==
    IF Len(h.buf) # BufSize THEN h
    ELSE IF h.read_idx > 0
         THEN [h EXCEPT !.buf = SubSeq(@, h.read_idx + 1, Len(@)), !.read_idx = 0]
         ELSE [h EXCEPT !.buf = <<>>]

process_at_commands_end ==
    /\ slc.parsing /\ ~HasCommand
    /\ slc' = [Compact(slc) EXCEPT !.parsing = FALSE]
    /\ UNCHANGED <<rfcomm, telephony, view, sco, setup, hf>>

HF_INDICATORS_TIMEOUT ==
    /\ slc.timer /\ ~slc.parsing /\ setup = "idle"
    /\ slc' = initialize_slc_handle([slc EXCEPT !.timer = FALSE])
    /\ UNCHANGED <<rfcomm, telephony, view, sco, setup, hf>>

-----------------------------------------------------------------------------
(* Codec negotiation, from hfp_iodev's configure_dev.                       *)

\* cras_hfp_ag_start creates hfp_info for the codec known at that time.
cras_hfp_ag_start ==
    /\ ~slc.init_cb /\ sco.info = 0
    /\ sco' = [sco EXCEPT !.info = hfp_slc_get_selected_codec(slc)]
    /\ UNCHANGED <<rfcomm, slc, telephony, view, setup, hf>>

\* configure_dev: negotiation is skipped when it has been done once.
hfp_slc_codec_connection_setup ==
    /\ sco.info # 0 /\ sco.socket = 0 /\ setup = "idle" /\ ~slc.parsing
    /\ IF slc.selected = slc.preferred
       THEN /\ sco' = [sco EXCEPT !.socket = hfp_slc_get_selected_codec(slc)]
            /\ UNCHANGED setup
       ELSE setup' = "waiting" /\ UNCHANGED sco
    /\ UNCHANGED <<rfcomm, slc, telephony, view, hf>>

\* Data arrived in time; the second round does not wait for it.
CodecConnData ==
    /\ setup = "waiting" /\ ~slc.parsing
    /\ Read
    /\ setup' = "again"
    /\ UNCHANGED <<telephony, view, sco, hf>>

CodecConnProcessed ==
    /\ setup = "again" /\ ~slc.parsing
    /\ \/ /\ slc.selected = slc.preferred \/ rfcomm = <<>>
          /\ Connect(slc) /\ UNCHANGED <<rfcomm, slc>>
       \/ slc.selected # slc.preferred /\ Read /\ UNCHANGED <<setup, sco>>
    /\ UNCHANGED <<telephony, view, hf>>

\* The first negotiation that times out falls back to CVSD.
CodecConnTimeout ==
    LET h == IF slc.selected = 0 THEN [slc EXCEPT !.preferred = CVSD] ELSE slc
    IN  /\ setup = "waiting" /\ ~slc.parsing
        /\ slc' = h /\ Connect(h)
        /\ UNCHANGED <<rfcomm, telephony, view, hf>>

\* hfp_info_stop: the last HFP device was closed.
hfp_info_stop ==
    /\ sco.socket # 0
    /\ sco' = [sco EXCEPT !.socket = 0]
    /\ UNCHANGED <<rfcomm, slc, telephony, view, setup, hf>>

-----------------------------------------------------------------------------
(* The HF, and the telephony API on D-Bus.                                  *)

HfSends(c) ==
    /\ hf.sent < MaxCommands
    /\ rfcomm' = rfcomm \o <<c, "CR">>
    /\ hf' = [hf EXCEPT !.sent = @ + 1, !.pending = Append(@, c)]
    /\ UNCHANGED <<slc, telephony, view, sco, setup>>

\* handle_incoming_call, handle_set_callheld, AnswerCall and TerminateCall.
Telephony ==
    /\ hf.calls < MaxCalls /\ ~slc.parsing /\ setup = "idle"
    /\ hf' = [hf EXCEPT !.calls = @ + 1]
    /\ \/ LET t == [telephony EXCEPT !.callsetup = 1]
          IN  telephony' = t /\ Report({"callsetup"}, t)
       \/ LET t == [telephony EXCEPT !.callheld = 1 - @]
          IN  telephony' = t /\ Report({"callheld"}, t)
       \/ cras_telephony_event_answer_call
       \/ cras_telephony_event_terminate_call
    /\ UNCHANGED <<rfcomm, slc, sco, setup>>

Init ==
    /\ rfcomm = <<>>
    /\ slc = [buf |-> <<>>, read_idx |-> 0, parsing |-> FALSE, init_cb |-> TRUE,
              timer |-> FALSE, report |-> FALSE, preferred |-> CVSD, selected |-> 0]
    /\ telephony = [i \in Indicators |-> 0]
    /\ view = [i \in Indicators |-> {}]
    /\ sco = [info |-> 0, socket |-> 0]
    /\ setup = "idle"
    /\ hf = [sent |-> 0, pending |-> <<>>, mixed |-> FALSE, cmer |-> FALSE, calls |-> 0,
           failed |-> FALSE]

\* What the main thread does on its own.
Main ==
    \/ slc_watch_callback \/ process_at_command \/ process_at_commands_end
    \/ HF_INDICATORS_TIMEOUT
    \/ CodecConnData \/ CodecConnProcessed \/ CodecConnTimeout

Next ==
    \/ Main
    \/ cras_hfp_ag_start \/ hfp_slc_codec_connection_setup \/ hfp_info_stop
    \/ \E c \in Commands : HfSends(c)
    \/ Telephony

\* The main loop polls the socket and runs its timers; a poll in the negotiation
\* ends with data or with the timeout.
Fairness ==
    /\ WF_slcVars(process_at_command \/ process_at_commands_end)
    /\ SF_slcVars(slc_watch_callback)
    /\ SF_slcVars(HF_INDICATORS_TIMEOUT)
    /\ WF_slcVars(CodecConnData \/ CodecConnProcessed \/ CodecConnTimeout)

Spec == Init /\ [][Next]_slcVars /\ Fairness

-----------------------------------------------------------------------------
\* Every command is handled, once and in the order sent, however its bytes arrive
\* and wherever they end in the buffer, up to one whose handling fails: from there
\* on none is found before the buffer is full and thrown away.
CommandsHandled == []<>(hf.pending = <<>> \/ hf.failed) /\ [](hf.mixed => hf.failed)

\* Where the HF was told an indicator, and reports are on, it has the value the
\* telephony handle has, whichever of HF and telephony API changed it.
IndicatorsAgree ==
    \A i \in Indicators : view[i] \subseteq {telephony[i]}

\* Once AT+CMER has been handled the audio gateway is told of the connection, with
\* or without the HF's indicators.
SlcInitialized == hf.cmer ~> ~slc.init_cb

\* hfp_info encodes for the codec that the SCO socket was connected with: the
\* comment in hfp_slc_codec_connection_setup says that after a timeout the AG side
\* falls back to use CVSD.
CodecAgrees == sco.socket # 0 => sco.socket = sco.info
=============================================================================
