--------------------------- MODULE HotwordStreams ---------------------------
(***************************************************************************)
(* server/cras_iodev_list.c: hotword streams.  They pin the hotword device *)
(* (hotword), which cannot run while an input device with the              *)
(* preempt-hotword label (mic) records.  Opening mic runs                  *)
(* cras_iodev_list_suspend_hotword_streams first, as pre_open_iodev_hook,  *)
(* and closing it runs cras_iodev_list_resume_hotword_stream, as           *)
(* post_close_iodev_hook; in between the streams are on empty_hotword_dev  *)
(* (empty).                                                                *)
(*                                                                         *)
(* The default streams that open and close mic are outside this module:    *)
(* when it opens and closes is up to them.  The hotword device is never    *)
(* selected, so it is never enabled.                                       *)
(***************************************************************************)
EXTENDS Naturals

CONSTANTS Streams,  \* hotword streams clients may add
          Flaky     \* the hotword device may fail to open, or meet errors

Devs == {"hotword", "empty"}

VARIABLES listed,            \* the hotword streams in stream_list
          attached,          \* <<s, d>>: stream s is on device d
          open,              \* devices that are open
          thread_open,       \* devices the audio thread has
          in_list,           \* find_dev finds the hotword device
          retry,             \* init_retries holds a record for it
          mic_open,          \* the preempting input device is open
          hotword_suspended,
          suspended,         \* stream_list_suspended
          skipped,           \* history: streams added while suspended, and
                             \* not moved to a device since
          mic_failed         \* history: the last open of mic failed

vars == <<listed, attached, open, thread_open, in_list, retry, mic_open,
          hotword_suspended, suspended, skipped, mic_failed>>

Init ==
  /\ listed = {} /\ attached = {} /\ open = {} /\ thread_open = {}
  /\ in_list = TRUE /\ retry = FALSE /\ mic_open = FALSE
  /\ hotword_suspended = FALSE /\ suspended = FALSE
  /\ skipped = {} /\ mic_failed = FALSE
-----------------------------------------------------------------------------
(* What an attempt to open the device may give. *)
Outcomes(d) == IF Flaky /\ d = "hotword" THEN BOOLEAN ELSE {TRUE}

(* The devices open and in the thread after init_pinned_device. *)
OpenAfter(d, ok) == IF ok THEN open \union {d} ELSE open
ThreadAfter(d, ok) == IF ok /\ d \notin open THEN thread_open \union {d} ELSE thread_open

(* init_device cancels the retries of a device it tries to open. *)
RetryAfter(d) == retry /\ ~ (d = "hotword" /\ d \notin open)

Others(S) == {p \in attached : p[1] \notin S}

(* Mutant: hotword_suspended is not looked at. *)
find_pinned_device_plain == IF in_list THEN {"hotword"} ELSE {}

(* The device a hotword stream goes to, if there is one. *)
find_pinned_device ==
  IF hotword_suspended THEN {"empty"} ELSE IF in_list THEN {"hotword"} ELSE {}

(* pinned_stream_added.  Without a device the stream is destroyed; a       *)
(* device that does not open is retried.                                   *)
stream_list_add(s) ==
  /\ s \notin listed
  /\ ~ suspended
  /\ \E d \in find_pinned_device, ok \in BOOLEAN :
       /\ ok \in Outcomes(d) \/ d \in open
       /\ LET up == ok \/ d \in open IN
          /\ listed' = listed \union {s}
          /\ open' = OpenAfter(d, up)
          /\ thread_open' = ThreadAfter(d, up)
          /\ attached' = IF d \in thread_open' THEN attached \union {<<s, d>>} ELSE attached
          /\ retry' = (RetryAfter(d) \/ ~ up)
  /\ UNCHANGED <<in_list, mic_open, hotword_suspended, suspended, skipped, mic_failed>>

(* stream_added_cb does nothing while the system is suspended. *)
stream_list_add_suspended(s) ==
  /\ s \notin listed
  /\ suspended
  /\ listed' = listed \union {s}
  /\ skipped' = skipped \union {s}
  /\ UNCHANGED <<attached, open, thread_open, in_list, retry, mic_open,
                 hotword_suspended, suspended, mic_failed>>

(* stream_removed_cb; an input stream is not drained.  The device to close *)
(* is the one a stream would go to now, and no stream ever names empty as  *)
(* the device it pins.                                                     *)
stream_list_rm(s) ==
  LET left == listed \ {s}
      closing == {d \in find_pinned_device : d = "empty" \/ left = {}}
  IN /\ s \in listed
     /\ listed' = left
     /\ attached' = {p \in Others({s}) : p[2] \notin closing}
     /\ open' = open \ closing
     /\ thread_open' = thread_open \ closing
     /\ skipped' = skipped \ {s}
     /\ UNCHANGED <<in_list, retry, mic_open, hotword_suspended, suspended, mic_failed>>

(* Move all hotword streams from one device to the other, as both hooks    *)
(* do; up says that the device to go to could be opened.  Nothing is       *)
(* retried.                                                                *)
MoveStreams(from, to, up) ==
  /\ open' = OpenAfter(to, up) \ {from}
  /\ thread_open' = ThreadAfter(to, up) \ {from}
  /\ attached' = {p \in attached : p[2] # from}
                   \union {p \in listed \X {to} : to \in thread_open'}
  /\ retry' = RetryAfter(to)
  /\ skipped' = {}

HotwordUnchanged == UNCHANGED <<open, thread_open, attached, retry, skipped>>

(* find_hotword_stream_dev fails once the device is gone. *)
cras_iodev_list_suspend_hotword_streams ==
  \/ /\ listed = {}
     /\ hotword_suspended' = TRUE
     /\ HotwordUnchanged
  \/ /\ listed # {} /\ ~ in_list
     /\ HotwordUnchanged /\ UNCHANGED hotword_suspended
  \/ /\ listed # {} /\ in_list
     /\ MoveStreams("hotword", "empty", TRUE)
     /\ hotword_suspended' = TRUE

(* Mutant: the streams are not moved back. *)
resume_hotword_stream_flag_only ==
  hotword_suspended' = FALSE /\ HotwordUnchanged

(* Mutant: the hotword device is not opened for them. *)
resume_hotword_stream_unopened ==
  /\ IF listed = {} THEN HotwordUnchanged ELSE MoveStreams("empty", "hotword", "hotword" \in open)
  /\ hotword_suspended' = FALSE

cras_iodev_list_resume_hotword_stream ==
  \/ /\ listed = {}
     /\ hotword_suspended' = FALSE
     /\ HotwordUnchanged
  \/ /\ listed # {} /\ ~ in_list
     /\ HotwordUnchanged /\ UNCHANGED hotword_suspended
  \/ /\ listed # {} /\ in_list
     /\ \E ok \in Outcomes("hotword") : MoveStreams("empty", "hotword", ok \/ "hotword" \in open)
     /\ hotword_suspended' = FALSE

(* cras_iodev_open of mic: the hook runs before the device is opened, and  *)
(* nothing undoes it when that fails.                                      *)
cras_iodev_open ==
  /\ ~ mic_open /\ ~ suspended
  /\ cras_iodev_list_suspend_hotword_streams
  /\ mic_open' \in BOOLEAN
  /\ mic_failed' = ~ mic_open'
  /\ UNCHANGED <<listed, in_list, suspended>>

cras_iodev_close ==
  /\ mic_open
  /\ mic_open' = FALSE
  /\ cras_iodev_list_resume_hotword_stream
  /\ UNCHANGED <<listed, in_list, suspended, mic_failed>>

(* System suspend leaves hotword streams alone, but closes mic. *)
suspend_devs ==
  /\ suspended' = TRUE
  /\ mic_open' = FALSE
  /\ IF mic_open THEN cras_iodev_list_resume_hotword_stream
                 ELSE HotwordUnchanged /\ UNCHANGED hotword_suspended
  /\ UNCHANGED <<listed, in_list, mic_failed>>

(* Hotword streams are not added again. *)
resume_devs ==
  /\ suspended' = FALSE
  /\ UNCHANGED <<listed, attached, open, thread_open, in_list, retry, mic_open,
                 hotword_suspended, skipped, mic_failed>>

(* The retry opens the device and attaches every stream that pins it,      *)
(* whatever hotword_suspended says; it is not tried again.                 *)
init_device_cb ==
  /\ retry
  /\ retry' = FALSE
  /\ \/ /\ ~ in_list \/ "hotword" \in open \/ suspended \/ listed = {}
        /\ UNCHANGED <<open, thread_open, attached, skipped>>
     \/ /\ in_list /\ "hotword" \notin open /\ ~ suspended /\ listed # {}
        /\ \E ok \in Outcomes("hotword") :
             /\ open' = OpenAfter("hotword", ok)
             /\ thread_open' = ThreadAfter("hotword", ok)
             /\ attached' = IF ok THEN attached \union (listed \X {"hotword"}) ELSE attached
             /\ skipped' = IF ok THEN {} ELSE skipped
  /\ UNCHANGED <<listed, in_list, mic_open, hotword_suspended, suspended, mic_failed>>

(* The audio thread drops the hotword device after an I/O error. *)
handle_dev_err ==
  /\ Flaky
  /\ "hotword" \in thread_open
  /\ thread_open' = thread_open \ {"hotword"}
  /\ attached' = {p \in attached : p[2] # "hotword"}
  /\ UNCHANGED <<listed, open, in_list, retry, mic_open, hotword_suspended, suspended, skipped,
                 mic_failed>>

(* cras_iodev_list_rm_input: a retry is left in the list. *)
cras_iodev_list_rm_input ==
  /\ in_list
  /\ in_list' = FALSE
  /\ attached' = {p \in attached : p[2] # "hotword"}
  /\ open' = open \ {"hotword"}
  /\ thread_open' = thread_open \ {"hotword"}
  /\ UNCHANGED <<listed, retry, mic_open, hotword_suspended, suspended, skipped, mic_failed>>

Next ==
  \/ \E s \in Streams : stream_list_add(s) \/ stream_list_add_suspended(s) \/ stream_list_rm(s)
  \/ cras_iodev_open
  \/ cras_iodev_close
  \/ suspend_devs
  \/ resume_devs
  \/ init_device_cb
  \/ handle_dev_err
  \/ cras_iodev_list_rm_input

Spec == Init /\ [][Next]_vars
-----------------------------------------------------------------------------
(* The audio thread has open devices and listed streams only, and the      *)
(* empty device is open only while hotword streams are suspended: the      *)
(* removal of streams, of the device and of mic in any order never leaves  *)
(* it behind.                                                              *)
EmptyOnlyInSuspend ==
  /\ thread_open \subseteq open
  /\ attached \subseteq listed \X thread_open
  /\ "empty" \in open => hotword_suspended

(* The hotword device and the preempting input device are never open at    *)
(* the same time.                                                          *)
MicExcludesHotword == ~ (mic_open /\ "hotword" \in open)

(* While mic is closed every listed stream is on the hotword device, or a  *)
(* retry is pending.  Left out are the streams added during a system       *)
(* suspend, and the time after an open of mic that failed: nothing undoes  *)
(* the hook that ran before it (cras_iodev_open), so the streams stay on   *)
(* the empty device until mic is opened and closed once.                   *)
ArmedUnlessPreempted ==
  in_list /\ (hotword_suspended => ~ mic_open /\ ~ mic_failed)
    => \A s \in listed \ skipped : <<s, "hotword">> \in attached \/ retry

(* "The empty hotword iodev is used to hold all hotword streams during     *)
(* suspend".                                                               *)
HeldDuringSuspend ==
  in_list /\ hotword_suspended
    => \A s \in listed \ skipped : <<s, "empty">> \in attached
=============================================================================
