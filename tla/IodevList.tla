----------------------------- MODULE IodevList ------------------------------
(***************************************************************************)
(* server/cras_iodev_list.c and server/stream_list.c: which devices are    *)
(* enabled, which are open, and which streams the audio thread plays on    *)
(* them, for one direction.                                                *)
(*                                                                         *)
(* The main thread runs every handler here to completion, and each message *)
(* it sends to the audio thread is answered before it goes on, so a        *)
(* handler is one step.  Between two handlers the audio thread may drop a  *)
(* device after an I/O error, timers may fire, and a reset request may     *)
(* wait in the main message queue while other handlers run.                *)
(*                                                                         *)
(* Handlers are compositions of functions of the source.  Each is an       *)
(* operator from a state record to a state record; VARIABLES are the       *)
(* fields of that record and Become installs the result.  The loops over   *)
(* device and stream lists do the same to every element, so an operator    *)
(* takes the set.  Hotword streams are in HotwordStreams.                  *)
(***************************************************************************)
EXTENDS Naturals, FiniteSets

CONSTANTS RealDevs,   \* indexes of the devices cards and profiles add
          Fallback,   \* fallback_devs[dir], the empty device
          Streams,    \* streams clients may create
          PinnedTo,   \* the index a pinned stream names; NoDev for others
          NoDev,
          Fragile,    \* streams dev_io_append_stream may fail for
          Output      \* the direction is CRAS_STREAM_OUTPUT

ASSUME IodevListAssumption ==
  /\ Fallback \notin RealDevs
  /\ NoDev \notin RealDevs \union {Fallback}
  /\ PinnedTo \in [Streams -> RealDevs \union {NoDev}]
  /\ Fragile \subseteq Streams
  /\ Output \in BOOLEAN

Devs == RealDevs \union {Fallback}

VARIABLES devs,        \* devs[dir].iodevs
          removed,     \* indexes given out and taken back; never reused
          enabled,     \* enabled_devs[dir]
          open,        \* state is not CRAS_IODEV_STATE_CLOSE
          thread_open, \* open_devs[dir] of the audio thread
          attached,    \* <<s, d>>: stream s is in d->streams
          retries,     \* records in init_retries, per device
          idle,        \* idle_timeout is set
          expired,     \* idle_timeout has passed
          idle_timer,  \* idle_timer is not NULL
          stray,       \* timers of idle_dev_check that idle_timer lost
          list,        \* stream_list->streams
          to_delete,   \* stream_list->streams_to_delete
          drain_timer, \* stream_list->drain_timer is not NULL
          suspended,   \* stream_list_suspended
          resets       \* RESET_DEVICE messages the main thread has not read

vars == <<devs, removed, enabled, open, thread_open, attached, retries, idle,
          expired, idle_timer, stray, list, to_delete, drain_timer, suspended, resets>>

State ==
  [devs |-> devs, enabled |-> enabled, open |-> open, thread_open |-> thread_open,
   attached |-> attached, retries |-> retries, idle |-> idle, expired |-> expired,
   idle_timer |-> idle_timer, stray |-> stray, list |-> list,
   to_delete |-> to_delete, drain_timer |-> drain_timer, suspended |-> suspended]

Become(st) ==
  /\ devs' = st.devs /\ enabled' = st.enabled
  /\ open' = st.open /\ thread_open' = st.thread_open
  /\ attached' = st.attached /\ retries' = st.retries
  /\ idle' = st.idle /\ expired' = st.expired
  /\ idle_timer' = st.idle_timer /\ stray' = st.stray
  /\ list' = st.list /\ to_delete' = st.to_delete
  /\ drain_timer' = st.drain_timer /\ suspended' = st.suspended

(* State once cras_iodev_list_init has enabled the fallback device. *)
Init ==
  /\ devs = {} /\ removed = {}
  /\ enabled = {Fallback}
  /\ open = {} /\ thread_open = {} /\ attached = {}
  /\ retries = [d \in Devs |-> 0]
  /\ idle = {} /\ expired = {} /\ idle_timer = FALSE /\ stray = FALSE
  /\ list = {} /\ to_delete = {} /\ drain_timer = FALSE
  /\ suspended = FALSE
  /\ resets = {}
-----------------------------------------------------------------------------
(* Streams and what the audio thread does with them. *)

is_pinned(s) == PinnedTo[s] # NoDev

stream_list_has_pinned_stream(st, d) == \E s \in st.list : PinnedTo[s] = d

(* What a handler meets when it opens devices of D and appends streams:    *)
(* e.ok are those that open, e.bad the streams dev_io_append_stream fails  *)
(* for.  The empty device always opens.                                    *)
Outcomes(D) == [ok : SUBSET D, bad : SUBSET Fragile]

(* audio_thread_add_stream for every pair: a device the thread does not    *)
(* hold is skipped, and a failure takes the stream off all devices.        *)
audio_thread_add_stream(st, pairs, e) ==
  LET new == {p \in pairs : p[2] \in st.thread_open /\ p \notin st.attached}
      failed == {p[1] : p \in new} \intersect e.bad
  IN [st EXCEPT !.attached = {p \in @ \union new : p[1] \notin failed}]

audio_thread_disconnect_streams(st, S, D) ==
  [st EXCEPT !.attached = {p \in @ : ~ (p[1] \in S /\ p[2] \in D)}]
-----------------------------------------------------------------------------
(* Closing, and the devices left idle. *)

(* Mutant: audio_thread_rm_open_dev is not called. *)
close_dev_without_idle_check_no_rm(st, D) ==
  [st EXCEPT !.open = @ \ D, !.idle = @ \ D, !.expired = @ \ D]

(* close_dev_without_idle_check on open devices: audio_thread_rm_open_dev  *)
(* takes all streams off.                                                  *)
close_dev_without_idle_check(st, D) ==
  [st EXCEPT !.open = @ \ D,
             !.thread_open = @ \ D,
             !.attached = {p \in @ : p[2] \notin D},
             !.idle = @ \ D,
             !.expired = @ \ D]

(* A device that is already closed keeps its expired idle_timeout. *)
idle_dev_check(st) ==
  LET c == close_dev_without_idle_check(st, st.enabled \intersect st.expired \intersect st.open)
  IN [c EXCEPT !.idle_timer = c.enabled \intersect (c.idle \ c.expired) # {}]

(* Mutant: the timer is cancelled and idle_dev_check is not called again. *)
close_dev_no_check(st, D) ==
  IF D \intersect st.open = {} THEN st
  ELSE [close_dev_without_idle_check(st, D \intersect st.open) EXCEPT !.idle_timer = FALSE]

(* close_dev on each of D; the pending idle_timer is cancelled, not lost. *)
close_dev(st, D) ==
  IF D \intersect st.open = {} THEN st
  ELSE idle_dev_check(close_dev_without_idle_check(st, D \intersect st.open))

(* Mutant: the device is closed whether streams are pinned to it or not. *)
disable_device_no_pin_check(st, D, force) ==
  LET off == [st EXCEPT !.enabled = @ \ D]
  IN close_dev(audio_thread_disconnect_streams(off, st.list, D), D)

(* Mutant: a device that stays open for a pinned stream keeps the others. *)
disable_device_no_disconnect(st, D, force) ==
  LET off == [st EXCEPT !.enabled = @ \ D,
                        !.retries = [d \in Devs |-> IF force /\ d \in D THEN 0 ELSE @[d]]]
  IN close_dev(off, {d \in D : force \/ ~ stream_list_has_pinned_stream(st, d)})

(* disable_device on each of D. *)
disable_device(st, D, force) ==
  LET off == [st EXCEPT !.enabled = @ \ D,
                        !.retries = [d \in Devs |-> IF force /\ d \in D THEN 0 ELSE @[d]]]
      pulled == {s \in st.list : force \/ ~ is_pinned(s)}
  IN close_dev(audio_thread_disconnect_streams(off, pulled, D),
               {d \in D : force \/ ~ stream_list_has_pinned_stream(st, d)})

possibly_disable_fallback(st) ==
  disable_device(st, {Fallback} \intersect st.enabled, FALSE)
-----------------------------------------------------------------------------
(* Opening. *)

(* Mutant: the flag is cleared and the deadline is not. *)
exit_idle_deadline_kept(st, D) == [st EXCEPT !.idle = @ \ D]

(* Mutant: a device that is used again stays idle. *)
exit_idle_not(st, D) == st

exit_idle(st, D) == [st EXCEPT !.idle = @ \ D, !.expired = @ \ D]

(* Mutant: pending retries are not cancelled. *)
init_device_keeps_retries(st, D, opens) ==
  LET try == D \ st.open IN
  [exit_idle(st, D) EXCEPT
     !.open = @ \union (try \intersect opens),
     !.thread_open = @ \union (try \intersect opens)]

(* init_device on each of D, of which those in opens can be opened. *)
init_device(st, D, opens) ==
  LET try == D \ st.open IN
  [exit_idle(st, D) EXCEPT
     !.retries = [d \in Devs |-> IF d \in try THEN 0 ELSE @[d]],
     !.open = @ \union (try \intersect opens),
     !.thread_open = @ \union (try \intersect opens)]

schedule_init_device_retry(st, D) ==
  [st EXCEPT !.retries = [d \in Devs |-> IF d \in D THEN @[d] + 1 ELSE @[d]]]

(* Mutant: stream_list_suspended is not looked at. *)
CanAttach_suspended(st, d) ==
  {s \in st.list : IF is_pinned(s) THEN d \in {PinnedTo[s], Fallback}
                                   ELSE d \in st.enabled}

(* The streams init_and_attach_streams would attach to the device. *)
CanAttach(st, d) ==
  IF st.suspended THEN {}
  ELSE {s \in st.list : IF is_pinned(s) THEN d \in {PinnedTo[s], Fallback}
                                        ELSE d \in st.enabled}

(* init_and_attach_streams returns 0. *)
AttachOk(st, d, e) ==
  CanAttach(st, d) = {} \/ d \in st.open \union e.ok \union {Fallback}

init_and_attach_streams(st, d, e) ==
  LET opened == init_device(st, {d}, e.ok \union {Fallback})
  IN CASE CanAttach(st, d) = {} -> st
       [] CanAttach(st, d) # {} /\ AttachOk(st, d, e) ->
            audio_thread_add_stream(opened, CanAttach(st, d) \X {d}, e)
       [] OTHER -> opened

(* enable_device returns 0. *)
EnableOk(st, d, e) ==
  d \notin st.enabled /\ AttachOk([st EXCEPT !.enabled = @ \union {d}], d, e)

enable_device(st, d, e) ==
  LET on == [st EXCEPT !.enabled = @ \union {d}]
      up == init_and_attach_streams(on, d, e)
  IN CASE d \in st.enabled -> st
       [] d \notin st.enabled /\ AttachOk(on, d, e) -> up
       [] OTHER -> schedule_init_device_retry(up, {d})

possibly_enable_fallback(st, e) == enable_device(st, Fallback, e)

(* The devices a stream goes to: the one it pins, or all that are enabled. *)
Targets(st, s) ==
  IF is_pinned(s) THEN {PinnedTo[s]} \intersect st.devs ELSE st.enabled

(* stream_added_cb for each stream of X in turn.  A device may fail to     *)
(* open for some and open for the next one; late are the pairs <<s, d>>    *)
(* for which d is open by the time s is added.  A device that never opens  *)
(* is retried; a default stream that got no device enables the fallback.   *)
streams_added(st, X, late, e) ==
  LET wanted == UNION {Targets(st, s) : s \in X}
      routes == {p \in X \X wanted : /\ p[2] \in Targets(st, p[1])
                                     /\ p[2] \in st.open \union {Fallback} \/ p \in late}
      reached == {p[2] : p \in routes}
      opened == init_device(st, wanted, reached)
      routed == audio_thread_add_stream(schedule_init_device_retry(opened, wanted \ (st.open \union reached)),
                                        routes, e)
      stranded == {s \in X : ~ is_pinned(s) /\ \A p \in routes : p[1] # s}
  IN CASE st.suspended -> st
       [] ~ st.suspended /\ stranded = {} -> routed
       [] OTHER -> possibly_enable_fallback(routed, e)
-----------------------------------------------------------------------------
(* Operations on devices. *)

cras_iodev_list_add(d) ==
  /\ d \notin devs \union removed
  /\ Become([State EXCEPT !.devs = @ \union {d}])
  /\ UNCHANGED <<removed, resets>>

(* The fallback is enabled before the last enabled device is disabled; a   *)
(* device that is not enabled only loses the streams pinned to it.         *)
cras_iodev_list_disable_dev(st, d, force, e) ==
  LET last == st.enabled = {d}
      covered == IF last THEN enable_device(st, Fallback, e) ELSE st
      pulled == {s \in st.list : PinnedTo[s] = d}
  IN CASE d \in st.enabled -> disable_device(covered, {d}, force)
       [] d \notin st.enabled /\ force ->
            close_dev(audio_thread_disconnect_streams(st, pulled, {d}), {d})
       [] OTHER -> st

(* cras_iodev_list_rm_active_node, or with force the unplugging of the     *)
(* active node (cras_iodev_set_node_plugged).                              *)
DisableDev(d, force, e) ==
  /\ d \in devs
  /\ Become(cras_iodev_list_disable_dev(State, d, force, e))
  /\ UNCHANGED <<removed, resets>>

cras_iodev_list_rm(d, e) ==
  LET off == cras_iodev_list_disable_dev(State, d, TRUE, e)
      busy == d \in off.open
  IN /\ d \in devs
     /\ Become(IF busy THEN off ELSE [off EXCEPT !.devs = @ \ {d}])
     /\ removed' = IF busy THEN removed ELSE removed \union {d}
     /\ UNCHANGED resets

(* select_node(d) picks the active node of d or another node of it; NoDev  *)
(* is node 0, or a node that is gone.                                      *)
cras_iodev_list_select_node(d, same_node, e) ==
  LET already == d \in enabled /\ same_node
      st1 == IF already THEN State ELSE possibly_enable_fallback(State, e)
      st2 == disable_device(st1, st1.enabled \ {d, Fallback}, FALSE)
      st3 == IF already THEN st2 ELSE disable_device(st2, st2.enabled \intersect {d}, TRUE)
      st4 == enable_device(st3, d, e)
  IN /\ d \in devs \union {NoDev}
     /\ Become(CASE already \/ d = NoDev -> st3
                 [] ~ already /\ d # NoDev /\ EnableOk(st3, d, e) -> possibly_disable_fallback(st4)
                 [] OTHER -> st4)
     /\ UNCHANGED <<removed, resets>>

cras_iodev_list_add_active_node(d, same_node, e) ==
  LET off == IF d \in enabled THEN cras_iodev_list_disable_dev(State, d, TRUE, e) ELSE State
  IN /\ d \in devs
     /\ ~ (d \in enabled /\ same_node)
     /\ Become(enable_device(possibly_disable_fallback(off), d, e))
     /\ UNCHANGED <<removed, resets>>

(* The streams suspend_dev pulls before it closes the device; for pinned   *)
(* streams the comparison selects those pinned elsewhere.                  *)
cras_iodev_list_suspend_dev(st, d) ==
  LET pulled == {s \in st.list : \/ d \in st.enabled /\ ~ is_pinned(s)
                                 \/ is_pinned(s) /\ PinnedTo[s] # d}
  IN close_dev(audio_thread_disconnect_streams(st, pulled, {d}), {d})

cras_iodev_list_resume_dev(st, d, e) ==
  LET up == init_and_attach_streams(st, d, e) IN
  CASE ~ AttachOk(st, d, e) -> schedule_init_device_retry(up, {d})
    [] AttachOk(st, d, e) /\ stream_list_has_pinned_stream(st, d) -> up
    [] OTHER -> possibly_disable_fallback(up)

(* A Bluetooth profile switch closes the device and reopens it later. *)
SuspendDev(d) ==
  /\ d \in devs
  /\ Become(cras_iodev_list_suspend_dev(State, d))
  /\ UNCHANGED <<removed, resets>>

ResumeDev(d, e) ==
  /\ d \in devs
  /\ Become(cras_iodev_list_resume_dev(State, d, e))
  /\ UNCHANGED <<removed, resets>>

(* The audio thread meets an I/O error and lets go of the device, which    *)
(* the main thread still sees as open; a severe underrun asks for a reset. *)
handle_dev_err(d, severe) ==
  /\ d \in thread_open \intersect RealDevs
  /\ Become([State EXCEPT !.thread_open = @ \ {d},
                          !.attached = {p \in @ : p[2] # d}])
  /\ resets' = IF severe THEN resets \union {d} ELSE resets
  /\ UNCHANGED removed

(* RESET_DEVICE: suspend_dev and resume_dev, if the index is still there. *)
handle_device_message(d, e) ==
  /\ d \in resets
  /\ resets' = resets \ {d}
  /\ Become(IF d \in devs
            THEN cras_iodev_list_resume_dev(cras_iodev_list_suspend_dev(State, d), d, e)
            ELSE State)
  /\ UNCHANGED removed

(* A retry opens and fills the device, then drops the fallback. *)
init_device_cb(d, e) ==
  LET popped == [State EXCEPT !.retries[d] = @ - 1]
      up == init_and_attach_streams(popped, d, e)
  IN /\ retries[d] > 0
     /\ Become(CASE d \notin devs \/ d \in open -> popped
                 [] d \in devs \ open /\ AttachOk(popped, d, e) -> possibly_disable_fallback(up)
                 [] OTHER -> up)
     /\ UNCHANGED <<removed, resets>>
-----------------------------------------------------------------------------
(* Operations on streams. *)

(* A stream pinned to a missing device, or one the thread could not take,  *)
(* is destroyed at once.                                                   *)
stream_list_add(s, late, e) ==
  LET st == streams_added([State EXCEPT !.list = @ \union {s}], {s}, late, e)
      refused == ~ suspended /\ \/ is_pinned(s) /\ PinnedTo[s] \notin devs
                                \/ s \in e.bad /\ Targets(State, s) \intersect st.thread_open # {}
  IN /\ s \notin list \union to_delete
     /\ Become(IF refused THEN [st EXCEPT !.list = @ \ {s}] ELSE st)
     /\ UNCHANGED <<removed, resets>>

(* Mutant: the device of the last pinned stream is not closed. *)
pinned_stream_removed_not(st, S) == st

(* The device is not enabled and nobody listed pins it any more. *)
pinned_stream_removed(st, S) ==
  close_dev(st, {d \in st.devs \ st.enabled :
                   /\ \E s \in S : PinnedTo[s] = d
                   /\ ~ stream_list_has_pinned_stream(st, d)})

(* Output devices get time to drain; input devices close at once.  Each    *)
(* call of idle_dev_check overwrites idle_timer without cancelling it, and *)
(* closes the expired devices the loop has not come to yet.                *)
possibly_close_enabled_devs(st) ==
  LET D == {d \in st.enabled : ~ stream_list_has_pinned_stream(st, d)}
      passed == (st.enabled \intersect st.expired \intersect st.open) \ {CHOOSE d \in D : TRUE}
  IN CASE D = {} \/ (\E s \in st.list : ~ is_pinned(s)) -> st
       [] D # {} /\ (\A s \in st.list : is_pinned(s)) /\ ~ Output -> close_dev(st, D)
       [] OTHER -> [close_dev_without_idle_check(st, passed) EXCEPT
                      !.idle = @ \union D, !.expired = @ \ D,
                      !.idle_timer = TRUE, !.stray = TRUE]

(* Mutant: the timer is not started again for what is left. *)
delete_streams_once(st, left) ==
  LET done == st.to_delete \ left
      gone == [audio_thread_disconnect_streams(st, done, Devs) EXCEPT
                 !.to_delete = left, !.drain_timer = FALSE]
  IN IF done = {} THEN gone
     ELSE possibly_close_enabled_devs(pinned_stream_removed(gone, done))

(* left are the streams that still have samples to play. *)
delete_streams(st, left) ==
  LET done == st.to_delete \ left
      gone == [audio_thread_disconnect_streams(st, done, Devs) EXCEPT
                 !.to_delete = left, !.drain_timer = left # {}]
  IN IF done = {} THEN gone
     ELSE possibly_close_enabled_devs(pinned_stream_removed(gone, done))

(* Only an output stream the thread has on a device is drained. *)
MayDrain(X) == IF Output THEN {s \in X : \E p \in attached : p[1] = s} ELSE {}

(* stream_list_rm of one stream, or all streams of a client.  A pending    *)
(* drain_timer is replaced.                                                *)
stream_list_rm(S, left) ==
  /\ S # {} /\ S \subseteq list
  /\ left \subseteq MayDrain(to_delete \union S)
  /\ Become(delete_streams([State EXCEPT !.list = @ \ S, !.to_delete = @ \union S], left))
  /\ UNCHANGED <<removed, resets>>

DrainTimer(left) ==
  /\ drain_timer
  /\ left \subseteq MayDrain(to_delete)
  /\ Become(delete_streams(State, left))
  /\ UNCHANGED <<removed, resets>>
-----------------------------------------------------------------------------
(* System suspend, and the idle timers. *)

(* suspend_devs and resume_devs.  A pinned stream's device is closed       *)
(* unless it is enabled, and then with the others.                         *)
sys_suspend_change(on, late, e) ==
  LET pins == {PinnedTo[s] : s \in list} \intersect devs
      off == [State EXCEPT !.attached = {p \in @ : ~ (p[1] \in list /\ PinnedTo[p[1]] \in {p[2], NoDev})},
                           !.suspended = TRUE]
  IN /\ Become(IF on
               THEN close_dev(off, pins \union enabled)
               ELSE streams_added([State EXCEPT !.suspended = FALSE], list, late, e))
     /\ UNCHANGED <<removed, resets>>

(* The idle_timeout of a device passes. *)
IdleExpires(d) ==
  /\ d \in idle \ expired
  /\ Become([State EXCEPT !.expired = @ \union {d}])
  /\ UNCHANGED <<removed, resets>>

IdleTimer ==
  /\ idle_timer
  /\ Become(idle_dev_check(State))
  /\ UNCHANGED <<removed, resets>>

(* A timer idle_timer no longer names; there may be more. *)
StrayIdleTimer ==
  /\ stray
  /\ \E more \in BOOLEAN :
       Become([idle_dev_check(State) EXCEPT !.stray = more \/ idle_timer])
  /\ UNCHANGED <<removed, resets>>
-----------------------------------------------------------------------------
Next ==
  \/ \E d \in RealDevs :
       \/ cras_iodev_list_add(d)
       \/ SuspendDev(d)
       \/ \E severe \in BOOLEAN : handle_dev_err(d, severe)
       \/ \E e \in Outcomes({}) :
            \/ cras_iodev_list_rm(d, e)
            \/ \E force \in BOOLEAN : DisableDev(d, force, e)
       \/ \E e \in Outcomes({d}) :
            \/ ResumeDev(d, e)
            \/ handle_device_message(d, e)
            \/ init_device_cb(d, e)
            \/ \E same_node \in BOOLEAN :
                 \/ cras_iodev_list_select_node(d, same_node, e)
                 \/ cras_iodev_list_add_active_node(d, same_node, e)
  \/ \E e \in Outcomes({}) :
       \/ cras_iodev_list_select_node(NoDev, FALSE, e)
       \/ \E s \in Streams, D \in SUBSET (devs \ open) : stream_list_add(s, {s} \X D, e)
       \/ \E late \in SUBSET (list \X (devs \ open)) : sys_suspend_change(FALSE, late, e)
  \/ sys_suspend_change(TRUE, {}, [ok |-> {}, bad |-> {}])
  \/ \E S \in SUBSET list : \E left \in SUBSET (to_delete \union S) : stream_list_rm(S, left)
  \/ \E left \in SUBSET to_delete : DrainTimer(left)
  \/ \E d \in idle : IdleExpires(d)
  \/ IdleTimer
  \/ StrayIdleTimer

Spec == Init /\ [][Next]_vars
-----------------------------------------------------------------------------
TypeOK ==
  /\ devs \subseteq RealDevs /\ removed \subseteq RealDevs
  /\ enabled \subseteq Devs /\ open \subseteq Devs /\ thread_open \subseteq Devs
  /\ attached \subseteq Streams \X Devs
  /\ retries \in [Devs -> Nat]
  /\ idle \subseteq Devs /\ expired \subseteq idle
  /\ idle_timer \in BOOLEAN /\ stray \in BOOLEAN
  /\ list \subseteq Streams /\ to_delete \subseteq Streams
  /\ drain_timer \in BOOLEAN
  /\ suspended \in BOOLEAN
  /\ resets \subseteq RealDevs

(* The audio thread only holds devices the main thread has open, and only  *)
(* streams stream_list has not destroyed: no handler frees a stream or     *)
(* closes a device under the audio thread.                                 *)
ThreadHoldsLive ==
  /\ thread_open \subseteq open
  /\ \A p \in attached : p[2] \in thread_open /\ p[1] \in list \union to_delete

(* A pinned stream is only played by its own device or, while the fallback *)
(* is enabled, by that; any other listed stream only by enabled devices.   *)
Placement ==
  \A p \in attached :
    IF is_pinned(p[1]) THEN p[2] = PinnedTo[p[1]] \/ (p[2] = Fallback /\ Fallback \in enabled)
                       ELSE p[2] \in enabled \/ p[1] \in to_delete

(* Appending to init_retries never leaves two records for a device: every  *)
(* path to schedule_init_device_retry first cancels in init_device.        *)
OneRetry == \A d \in Devs : retries[d] <= 1

(* A device that is open but not enabled is there for a pinned stream that *)
(* is listed or draining: no order of stream removals, node selections,    *)
(* retries and errors leaves a device open for nobody.                     *)
NoLeakedOpen ==
  \A d \in open \ enabled : \E s \in list \union to_delete : PinnedTo[s] = d

(* An idle device that idle_dev_check may close has no listed stream; a    *)
(* pinned stream may only lose the fallback it was on for the time being.  *)
IdleUnused ==
  \A p \in attached :
    p[2] \in idle => p[1] \in to_delete \/ (p[2] = Fallback /\ is_pinned(p[1]))

(* While the system is not suspended, an enabled device that is open and   *)
(* idle is not forgotten: idle_timer is pending, although idle_dev_check   *)
(* overwrites it and close_dev cancels it.                                 *)
IdleHasTimer ==
  ~ suspended /\ enabled \intersect idle \intersect open # {} => idle_timer

(* During a system suspend no listed stream is on any device, whatever is  *)
(* selected, enabled, retried or reset meanwhile.                          *)
SuspendedSilent == suspended => \A p \in attached : p[1] \in to_delete

(* Selecting a node never takes a listed pinned stream off a device other  *)
(* than the selected one, whichever opens fail: disabled devices stay open *)
(* for their pinned streams.  (A stream the audio thread cannot append to  *)
(* the fallback leaves all devices; such a stream is not pinned here.)     *)
PinnedUndisturbed ==
  [][\A d \in devs \union {NoDev}, same_node \in BOOLEAN :
       (\E p \in attached \ attached' : is_pinned(p[1]) /\ p[1] \in list /\ p[2] \notin {d, Fallback})
         => ~ \E e \in Outcomes({d} \intersect RealDevs) : cras_iodev_list_select_node(d, same_node, e)]_vars

(* A removed stream that still drains has a drain_timer to come back to    *)
(* it, although every removal cancels the timer and delete_streams clears  *)
(* it.                                                                     *)
DrainHasTimer == to_delete # {} => drain_timer

(* Streams are where routing puts them, through selections, idle time-outs *)
(* and system suspends; and nothing waits for an event that will not come: *)
(* no device is open for nobody or idle without a timer, no stream drains  *)
(* without one, and no open is retried twice.                              *)
DevicesSettled ==
  /\ Placement /\ IdleUnused /\ SuspendedSilent
  /\ NoLeakedOpen /\ IdleHasTimer /\ DrainHasTimer /\ OneRetry

(* "There is always something to play to or capture from": while there are *)
(* default streams, some device is enabled.                                *)
AlwaysSomethingEnabled ==
  ~ suspended /\ (\E s \in list : ~ is_pinned(s)) => enabled # {}
=============================================================================
