-------------------------- MODULE BtProfileSwitch --------------------------
(***************************************************************************)
(* A headset that offers A2DP and HFP is one output and one input device   *)
(* (cras_bt_io) on top of the devices of its profiles.  Output prefers     *)
(* A2DP, input needs HFP, and only one profile is active: opening and      *)
(* closing the input asks the main thread, by a message, to switch.  The   *)
(* switch closes both devices, reopens the input at once and the output    *)
(* after a delay; meanwhile streams come and go and the profile may change *)
(* again.                                                                  *)
(***************************************************************************)
EXTENDS Naturals

CONSTANTS
    MaxEvents,      \* streams added or removed, profiles come or gone (bound)
    MaxFailures,    \* opens that fail in one behaviour (bound)
    MaxMsgs         \* switch messages in flight (bound)

VARIABLES
    io,             \* the headset, see IoType
    budget          \* events and failures that remain

swVars == <<io, budget>>

Directions == {"output", "input"}

Profiles == {"a2dp", "hfp"}

\* The active_profile of the device; by direction the profiles that have a device,
\* the profile the active node points to, whether the bt_io is open, how many
\* streams want it and whether a retry is due; the profile devices that are open;
\* switch messages in flight and the timer that delays the output.
IoType == [active: Profiles, nodes: [Directions -> SUBSET Profiles],
           node: [Directions -> Profiles], open: [Directions -> BOOLEAN],
           hw: SUBSET (Directions \X Profiles), streams: [Directions -> Nat],
           retry: [Directions -> BOOLEAN], msgs: Nat, timer: BOOLEAN]

-----------------------------------------------------------------------------
(* cras_bt_io.                                                             *)

cras_bt_device_has_a2dp(s) == "a2dp" \in s.nodes["output"]

bt_possibly_switch_to_a2dp(s) ==
    IF ~cras_bt_device_has_a2dp(s) THEN s
    ELSE [s EXCEPT !.active = "a2dp", !.msgs = @ + 1]

\* The active node of a direction follows the active profile.
update_active_node(s, dir) ==
    IF s.active \in s.nodes[dir] THEN [s EXCEPT !.node[dir] = s.active] ELSE s

\* open_dev and configure_dev; fail says which of them fails, if any.
open_dev(s, dir, fail) ==
    CASE dir = "input" /\ s.active = "a2dp" ->
            [s EXCEPT !.active = "hfp", !.msgs = @ + 1]
      [] ~(dir = "input" /\ s.active = "a2dp") /\ fail = "open" ->
            IF dir = "input" THEN bt_possibly_switch_to_a2dp(s) ELSE s
      [] ~(dir = "input" /\ s.active = "a2dp") /\ fail = "configure" -> s
      [] OTHER -> [s EXCEPT !.open[dir] = TRUE, !.hw = @ \cup {<<dir, s.node[dir]>>}]

\* The device that the active node points to now is the one that is closed.
close_dev(s, dir) ==
    LET t == IF dir = "input" /\ s.active = "hfp"
             THEN bt_possibly_switch_to_a2dp(s) ELSE s
    IN  IF ~s.open[dir] THEN s
        ELSE [t EXCEPT !.open[dir] = FALSE, !.hw = @ \ {<<dir, s.node[dir]>>}]

-----------------------------------------------------------------------------
(* cras_iodev_list, for the two devices of the headset.                    *)

\* init_device; the caller schedules a retry when it fails.
init_device(s, dir, fail) ==
    LET t == open_dev([s EXCEPT !.retry[dir] = FALSE], dir, fail)
    IN  IF s.open[dir] THEN s
        ELSE [t EXCEPT !.retry[dir] = ~t.open[dir]]

cras_iodev_list_suspend_dev(s, dir) == update_active_node(close_dev(s, dir), dir)

cras_iodev_list_resume_dev(s, dir, fail) ==
    LET t == update_active_node(s, dir)
    IN  IF t.streams[dir] = 0 THEN t ELSE init_device(t, dir, fail)

-----------------------------------------------------------------------------
(* cras_bt_device.                                                         *)

bt_device_switch_profile_closed(s, fail) ==
    LET closed == cras_iodev_list_suspend_dev(
                    cras_iodev_list_suspend_dev(s, "output"), "input")
    IN  cras_iodev_list_resume_dev(closed, "input", fail)

bt_device_switch_profile(s, fail) ==
    LET closed == cras_iodev_list_suspend_dev(
                    cras_iodev_list_suspend_dev(s, "output"), "input")
    IN  [cras_iodev_list_resume_dev(closed, "input", fail) EXCEPT !.timer = TRUE]

\* A failure, if the behaviour has one left.
Failing(fail) ==
    /\ io'.msgs <= MaxMsgs
    /\ fail # "none" => budget.failures > 0
    /\ budget' = [budget EXCEPT !.failures = IF fail = "none" THEN @ ELSE @ - 1]

Event ==
    /\ io'.msgs <= MaxMsgs
    /\ budget.events > 0
    /\ budget' = [budget EXCEPT !.events = @ - 1]

Failures == {"none", "open", "configure"}

\* BT_DEVICE_SWITCH_PROFILE and BT_DEVICE_SWITCH_PROFILE_ENABLE_DEV.
bt_device_process_msg ==
    /\ io.msgs > 0
    /\ \E fail \in Failures :
        /\ io' = bt_device_switch_profile([io EXCEPT !.msgs = @ - 1], fail)
        /\ Failing(fail)

DelayedOutput(s, fail) ==
    cras_iodev_list_resume_dev(
        update_active_node([s EXCEPT !.timer = FALSE], "output"), "output", fail)

profile_switch_delay_cb ==
    /\ io.timer
    /\ \E fail \in Failures : io' = DelayedOutput(io, fail) /\ Failing(fail)

\* init_device_cb, for the retry that a failed open has left.
init_device_cb(dir) ==
    /\ io.retry[dir]
    /\ \E fail \in Failures :
        /\ LET t == [io EXCEPT !.retry[dir] = FALSE]
           IN  io' = IF t.open[dir] \/ t.streams[dir] = 0 THEN t
                     ELSE open_dev(t, dir, fail)
        /\ Failing(fail)

-----------------------------------------------------------------------------
(* Streams, and A2DP connected after HFP or lost before it.                *)

stream_added_cb(dir) ==
    /\ io' = init_device([io EXCEPT !.streams[dir] = @ + 1], dir, "none")
    /\ Event

\* The last stream of a direction closes its device.
stream_removed_cb(dir) ==
    /\ io.streams[dir] > 0
    /\ LET t == [io EXCEPT !.streams[dir] = @ - 1]
       IN  io' = IF t.streams[dir] > 0 THEN t
                 ELSE close_dev([t EXCEPT !.retry[dir] = FALSE], dir)
    /\ Event

\* cras_bt_io_append of A2DP; cras_bt_device_can_switch_to_a2dp.
cras_bt_io_append ==
    /\ ~cras_bt_device_has_a2dp(io)
    /\ LET t == [io EXCEPT !.nodes["output"] = @ \cup {"a2dp"}]
       IN  io' = IF io.open["input"] THEN t ELSE bt_possibly_switch_to_a2dp(t)
    /\ Event

\* cras_bt_device_rm_iodev of A2DP: the output goes back to HFP before the node
\* is removed.
cras_bt_device_rm_iodev ==
    /\ cras_bt_device_has_a2dp(io)
    /\ LET t == IF io.node["output"] = "hfp" THEN io
                ELSE bt_device_switch_profile([io EXCEPT !.active = "hfp"], "none")
       IN  io' = update_active_node([t EXCEPT !.nodes["output"] = @ \ {"a2dp"},
                                              !.node["output"] = "hfp",
                                              !.hw = @ \ {<<"output", "a2dp">>}],
                                    "output")
    /\ Event

-----------------------------------------------------------------------------
Init ==
    /\ io = [active |-> "hfp", nodes |-> [d \in Directions |-> {"hfp"}],
             node |-> [d \in Directions |-> "hfp"],
             open |-> [d \in Directions |-> FALSE], hw |-> {},
             streams |-> [d \in Directions |-> 0],
             retry |-> [d \in Directions |-> FALSE], msgs |-> 0, timer |-> FALSE]
    /\ budget = [events |-> MaxEvents, failures |-> MaxFailures]

MainThread ==
    \/ bt_device_process_msg
    \/ profile_switch_delay_cb
    \/ \E dir \in Directions : init_device_cb(dir)

Next ==
    \/ MainThread
    \/ \E dir \in Directions : stream_added_cb(dir) \/ stream_removed_cb(dir)
    \/ cras_bt_io_append
    \/ cras_bt_device_rm_iodev

\* The main loop reads its messages and runs its timers.
Fairness ==
    /\ WF_swVars(bt_device_process_msg)
    /\ WF_swVars(profile_switch_delay_cb)
    /\ \A dir \in Directions : WF_swVars(init_device_cb(dir))

Spec == Init /\ [][Next]_swVars /\ Fairness

-----------------------------------------------------------------------------
\* The device that is open under a bt_io is the one its active node points to, so
\* that audio and a later close reach it: the comment in profile_switch_delay_cb
\* wants the active node of an enabled device left alone.
OpenOnActiveNode ==
    \A dir \in Directions : io.open[dir] =>
        {p \in Profiles : <<dir, p>> \in io.hw} = {io.node[dir]}

\* No device of a profile stays open under a bt_io that is closed.
NothingLeftOpen ==
    \A dir \in Directions, p \in Profiles :
        <<dir, p>> \in io.hw => io.open[dir]

\* Switching comes to an end once streams and profiles no longer change.
SwitchingEnds == <>[](io.msgs = 0)

\* A stream without an open device is being waited for, as long as no open has
\* failed: by a message, the delayed output or a retry.  No sequence of switches
\* loses one.
StreamsServed ==
    \A dir \in Directions :
        /\ io.streams[dir] > 0 /\ ~io.open[dir]
        /\ budget.failures = MaxFailures
        => io.msgs > 0 \/ io.retry[dir] \/ (dir = "output" /\ io.timer)
=============================================================================
