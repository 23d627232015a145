----------------------------- MODULE BtDevices -----------------------------
(***************************************************************************)
(* The main thread's view of Bluetooth: devices, the A2DP endpoint and its *)
(* transports, and the audio gateways of HFP.  BlueZ reports devices,      *)
(* properties, transports and connections in an order of its own; a timer  *)
(* watches until all profiles of a device are connected and then exposes   *)
(* it, in the place of the headset exposed so far; a device that lost a    *)
(* profile is disconnected by a second timer, which messages of the audio  *)
(* thread also arm and cancel.                                             *)
(*                                                                         *)
(* A handler is an operator from state to state, so that a handler that    *)
(* calls another one is the composition of the two.  A pointer to a device *)
(* that was freed is remembered in `dangling`; a behaviour ends, with      *)
(* `stray`, where the code uses one: what it does then is undefined.       *)
(***************************************************************************)
EXTENDS Integers, Sequences, FiniteSets

CONSTANTS
    Devices,
    CONN_WATCH_MAX_RETRIES,
    MaxEvents,              \* messages of BlueZ in one behaviour (bound)
    MaxMessages,            \* messages of the audio thread in flight (bound)
    NULL

VARIABLES
    bt,         \* what the main thread keeps, see StateType
    dangling,   \* what still points to a device that was freed, see DanglingType
    stray,      \* such a pointer was used
    bluez,      \* by device, what BlueZ has exported: transport, configuration
    msgs,       \* messages from the audio thread, oldest first
    events      \* messages of BlueZ so far

btVars == <<bt, dangling, stray, bluez, msgs, events>>

Profiles == {"a2dp", "hfp"}

\* struct cras_bt_device; suspend says which delay the timer was armed with, lost
\* that a watch timer runs that conn_watch_timer does not name any more, and
\* retries is -1 once the count went below zero.
DeviceType == [known: BOOLEAN, connected: BOOLEAN, profiles: SUBSET Profiles,
               connected_profiles: SUBSET Profiles, watch: BOOLEAN,
               lost: BOOLEAN, retries: -1..CONN_WATCH_MAX_RETRIES,
               suspend: {"none", "now", "delayed"}, dropped: BOOLEAN]

\* transports has one object per device; endpoint is cras_a2dp_endpoint.transport,
\* a2dp is connected_a2dp.device when there is an iodev, ags is connected_ags.
StateType == [dev: [Devices -> DeviceType],
              transports: [Devices -> [exists: BOOLEAN, endpoint: BOOLEAN,
                                       removed: BOOLEAN]],
              endpoint: Devices \cup {NULL}, a2dp: Devices \cup {NULL},
              ags: [Devices -> {"none", "slc", "initialized", "started"}]]

\* The transports and the lost timers, by device, and connected_a2dp.device.
DanglingType == [transports: SUBSET Devices, timers: SUBSET Devices, a2dp: BOOLEAN]

NoDevice == [known |-> FALSE, connected |-> FALSE, profiles |-> {},
             connected_profiles |-> {}, watch |-> FALSE, lost |-> FALSE,
             retries |-> 0,
             suspend |-> "none", dropped |-> FALSE]

NoTransport == [exists |-> FALSE, endpoint |-> FALSE, removed |-> FALSE]

-----------------------------------------------------------------------------
(* Timers of a device.                                                     *)

bt_device_schedule_suspend(s, d, when) ==
    IF s.dev[d].suspend # "none" THEN s
    ELSE [s EXCEPT !.dev[d].suspend = when]

bt_device_cancel_suspend(s, d) == [s EXCEPT !.dev[d].suspend = "none"]

cras_bt_device_start_new_conn_watch_timer(s, d) ==
    [s EXCEPT !.dev[d].watch = TRUE, !.dev[d].retries = CONN_WATCH_MAX_RETRIES]

\* connected_profiles &= !profile leaves no profile connected.
cras_bt_device_notify_profile_dropped(s, d) ==
    LET t == [s EXCEPT !.dev[d].connected_profiles = {}]
    IN  IF ~s.dev[d].connected THEN t
        ELSE bt_device_schedule_suspend([t EXCEPT !.dev[d].dropped = TRUE],
                                        d, "delayed")

-----------------------------------------------------------------------------
(* A2DP and HFP resources.                                                 *)

cras_a2dp_suspend_connected_device(s, d) ==
    IF s.a2dp = d THEN [s EXCEPT !.a2dp = NULL] ELSE s

cras_a2dp_start(s, d) ==
    IF s.endpoint # d THEN s ELSE [s EXCEPT !.a2dp = d]

destroy_audio_gateway(s, d) == [s EXCEPT !.ags[d] = "none"]

\* cras_hfp_ag_request_disconnection and cras_hfp_ag_slc_disconnected
DropGateway(s, d) ==
    IF s.ags[d] = "none" THEN s
    ELSE cras_bt_device_notify_profile_dropped(destroy_audio_gateway(s, d), d)

cras_hfp_ag_start(s, d) ==
    CASE s.ags[d] = "none" -> bt_device_schedule_suspend(s, d, "now")
      [] s.ags[d] = "started" -> s
      [] OTHER -> [s EXCEPT !.ags[d] = "started"]

\* cras_hfp_ag_remove_conflict: every other gateway is dropped.
RemoveGateways(s, d) ==
    LET gone == {x \in Devices \ {d} : s.ags[x] # "none"}
        drop(x) == cras_bt_device_notify_profile_dropped(s, x).dev[x]
    IN  [s EXCEPT !.dev = [x \in Devices |-> IF x \in gone THEN drop(x) ELSE @[x]],
                  !.ags = [x \in Devices |-> IF x \in gone THEN "none" ELSE @[x]]]

bt_device_remove_conflict_a2dp(s, d) ==
    IF s.a2dp \in {NULL, d} THEN s
    ELSE cras_a2dp_suspend_connected_device(s, s.a2dp)

bt_device_remove_conflict(s, d) ==
    bt_device_remove_conflict_a2dp(RemoveGateways(s, d), d)

bt_device_conn_watch_cb_endless(s, d) ==
    LET p == s.dev[d]
        t == [s EXCEPT !.dev[d].watch = FALSE]
        c == bt_device_remove_conflict(t, d)
        a == IF "a2dp" \in p.connected_profiles THEN cras_a2dp_start(c, d) ELSE c
    IN  IF p.profiles # p.connected_profiles
        THEN [t EXCEPT !.dev[d].watch = TRUE]
        ELSE IF "hfp" \in p.connected_profiles THEN cras_hfp_ag_start(a, d) ELSE a

\* The callback of the watch timer.  The request to BlueZ to connect the missing
\* profile is not awaited: BlueZ may connect a profile whenever it likes.
bt_device_conn_watch_cb(s, d) ==
    LET p == s.dev[d]
        t == [s EXCEPT !.dev[d].watch = FALSE]
        retry == [t EXCEPT !.dev[d].retries = IF @ > 0 THEN @ - 1 ELSE -1]
        c == bt_device_remove_conflict(t, d)
        a == IF "a2dp" \in p.connected_profiles THEN cras_a2dp_start(c, d) ELSE c
    IN  CASE p.profiles = {} -> t
          [] p.profiles # {} /\ p.profiles # p.connected_profiles ->
               IF retry.dev[d].retries # 0 THEN [retry EXCEPT !.dev[d].watch = TRUE]
               ELSE bt_device_schedule_suspend(retry, d, "now")
          [] OTHER ->
               IF "hfp" \in p.connected_profiles THEN cras_hfp_ag_start(a, d) ELSE a

bt_device_suspend_cb(s, d) ==
    LET t == [s EXCEPT !.dev[d].suspend = "none", !.dev[d].dropped = FALSE]
    IN  destroy_audio_gateway(cras_a2dp_suspend_connected_device(t, d), d)

-----------------------------------------------------------------------------
(* Where a handler uses a pointer to a device that was freed.              *)

\* bt_device_conn_watch_cb finds all profiles connected and exposes the device.
Exposes(s, d) ==
    s.dev[d].profiles # {} /\ s.dev[d].profiles = s.dev[d].connected_profiles

\* It compares connected_a2dp.device, and the device of the endpoint's transport.
WatchUsesFreed(s, d) ==
    /\ Exposes(s, d)
    /\ \/ dangling.a2dp
       \/ "a2dp" \in s.dev[d].connected_profiles /\ s.endpoint \in dangling.transports

\* cras_a2dp_suspend of the endpoint's transport.
SuspendUsesFreed ==
    bt.endpoint # NULL /\ (dangling.a2dp \/ bt.endpoint \in dangling.transports)

\* After the step: nothing stray, or the behaviour ends here.
Uses(freed) == ~stray /\ stray' = freed

\* destroy_audio_gateway frees the gateway whose device is read next; what is read
\* may be the device still, or not.
ReadsFreed(freed) == ~stray /\ IF freed THEN stray' \in BOOLEAN ELSE stray' = stray

-----------------------------------------------------------------------------
(* Messages of BlueZ about devices (cras_bt_manager, cras_bt_device).      *)

cras_bt_device_set_connected(s, d, value) ==
    LET was == s.dev[d].connected
        t == IF was /\ ~value
             THEN bt_device_cancel_suspend(
                    [DropGateway(s, d) EXCEPT !.dev[d].connected_profiles = {}], d)
             ELSE s
    IN  [t EXCEPT !.dev[d].connected = value,
                  !.dev[d].dropped = @ /\ value,
                  !.dev[d].watch = @ /\ value]

\* The property Connected, then the UUIDs that are new.
cras_bt_device_update_properties(s, d, value, uuids) ==
    LET t == cras_bt_device_set_connected(s, d, value)
        new == uuids \ t.dev[d].profiles
        u == [t EXCEPT !.dev[d].profiles = @ \cup uuids]
    IN  IF value /\ (t.dev[d].profiles # {} \/ new # {})
        THEN cras_bt_device_start_new_conn_watch_timer(u, d)
        ELSE u

cras_bt_device_destroy(s, d) == [s EXCEPT !.dev[d] = NoDevice]

cras_bt_device_remove_only(s, d) == cras_bt_device_destroy(s, d)

cras_bt_device_remove(s, d) ==
    cras_bt_device_destroy(
        destroy_audio_gateway(cras_a2dp_suspend_connected_device(s, d), d), d)

FromBluez == events < MaxEvents /\ events' = events + 1

\* InterfacesAdded and PropertiesChanged of a device.
DeviceProperties(d, value, uuids) ==
    /\ FromBluez
    /\ bt' = cras_bt_device_update_properties(
                [bt EXCEPT !.dev[d].known = TRUE], d, value, uuids)
    /\ ReadsFreed(bt.dev[d].connected /\ ~value /\ bt.ags[d] # "none")
    /\ UNCHANGED <<dangling, bluez, msgs>>

\* InterfacesRemoved of a device, which may come before that of its transport: the
\* transport then points to a device that is gone.
DeviceRemoved(d) ==
    /\ FromBluez /\ bt.dev[d].known
    /\ Uses(dangling.a2dp)
    /\ bt' = cras_bt_device_remove(bt, d)
    /\ dangling' = [dangling EXCEPT
                      !.transports = @ \cup {x \in {d} : bt.transports[x].exists},
                      !.timers = @ \cup {x \in {d} : bt.dev[x].lost}]
    /\ UNCHANGED <<bluez, msgs>>

-----------------------------------------------------------------------------
(* The endpoint and its transports.                                        *)

cras_bt_transport_destroy(s, d) == [s EXCEPT !.transports[d] = NoTransport]

\* endpoint->suspend, then the transport is detached and, when it was removed,
\* destroyed.
cras_bt_endpoint_suspend(s) ==
    LET d == s.endpoint
        t == cras_bt_device_notify_profile_dropped(
                cras_a2dp_suspend_connected_device(s, d), d)
        u == [t EXCEPT !.transports[d].endpoint = FALSE, !.endpoint = NULL]
    IN  IF d = NULL THEN s
        ELSE IF s.transports[d].removed THEN cras_bt_transport_destroy(u, d) ELSE u

\* SetConfiguration creates the transport, and the device, if need be, and looks the
\* device of the transport up again.
cras_bt_endpoint_set_configuration(d) ==
    /\ FromBluez /\ ~bluez[d].configured
    /\ bluez' = [bluez EXCEPT ![d] = [transport |-> TRUE, configured |-> TRUE]]
    /\ bt' = [bt EXCEPT !.dev[d].known = TRUE,
                        !.dev[d].connected_profiles = @ \cup {"a2dp"},
                        !.transports[d] = [exists |-> TRUE, endpoint |-> TRUE,
                                           removed |-> @.exists /\ @.removed],
                        !.endpoint = d]
    /\ dangling' = [dangling EXCEPT !.transports = @ \ {d}]
    /\ Uses(FALSE)
    /\ UNCHANGED msgs

cras_bt_endpoint_clear_configuration(d) ==
    /\ FromBluez /\ bluez[d].configured
    /\ bluez' = [bluez EXCEPT ![d].configured = FALSE]
    /\ bt' = IF bt.endpoint = d THEN cras_bt_endpoint_suspend(bt) ELSE bt
    /\ Uses(bt.endpoint = d /\ SuspendUsesFreed)
    /\ UNCHANGED <<dangling, msgs>>

\* InterfacesRemoved of a transport.
cras_bt_transport_remove(d) ==
    /\ FromBluez /\ bluez[d].transport
    /\ bluez' = [bluez EXCEPT ![d].transport = FALSE]
    /\ bt' = IF bt.transports[d].endpoint
             THEN [bt EXCEPT !.transports[d].removed = TRUE]
             ELSE cras_bt_transport_destroy(bt, d)
    /\ Uses(~bt.transports[d].endpoint /\ d \in dangling.transports)
    /\ UNCHANGED <<dangling, msgs>>

cras_bt_endpoint_release ==
    /\ FromBluez /\ bt.endpoint # NULL
    /\ bt' = cras_bt_endpoint_suspend(bt)
    /\ Uses(SuspendUsesFreed)
    /\ UNCHANGED <<dangling, bluez, msgs>>

-----------------------------------------------------------------------------
(* HFP and HSP connections.                                                *)

cras_bt_device_has_a2dp(d) == bt.a2dp = d

check_for_conflict_ag(new) ==
    \/ \E x \in Devices : bt.ags[x] # "none" /\ cras_bt_device_has_a2dp(x)
    \/ bt.a2dp # NULL /\ "a2dp" \in bt.dev[new].profiles

cras_hfp_ag_new_connection(d) ==
    /\ FromBluez /\ bt.dev[d].known /\ bt.dev[d].connected
    /\ bt.ags[d] = "none" /\ ~check_for_conflict_ag(d)
    /\ bt' = [bt EXCEPT !.ags[d] = "slc"]
    /\ Uses(FALSE)
    /\ UNCHANGED <<dangling, bluez, msgs>>

\* cras_hfp_ag_slc_initialized; HSP calls it from the connection.  A device that did
\* not report the UUID of HFP is watched at once, and conn_watch_timer forgets a
\* timer that runs.
cras_bt_device_audio_gateway_initialized(d) ==
    LET t == [bt EXCEPT !.ags[d] = "initialized",
                        !.dev[d].connected_profiles = @ \cup {"hfp"}]
        u == [t EXCEPT !.dev[d].profiles = @ \cup {"hfp"},
                       !.dev[d].lost = @ \/ bt.dev[d].watch]
    IN  /\ bt.ags[d] = "slc"
        /\ \/ /\ "hfp" \in bt.dev[d].profiles
              /\ bt' = t
              /\ Uses(FALSE)
           \/ /\ "hfp" \notin bt.dev[d].profiles
              /\ bt' = bt_device_conn_watch_cb(u, d)
              /\ Uses(WatchUsesFreed(u, d))
        /\ UNCHANGED <<dangling, bluez, msgs, events>>

cras_hfp_ag_slc_disconnected(d) ==
    /\ bt.ags[d] # "none"
    /\ bt' = DropGateway(bt, d)
    /\ ReadsFreed(TRUE)
    /\ UNCHANGED <<dangling, bluez, msgs, events>>

\* cras_hfp_ag_release
cras_bt_profile_release ==
    /\ FromBluez /\ \E d \in Devices : bt.ags[d] # "none"
    /\ bt' = [bt EXCEPT !.ags = [d \in Devices |-> "none"]]
    /\ Uses(FALSE)
    /\ UNCHANGED <<dangling, bluez, msgs>>

\* BlueZ's name changed its owner: everything is forgotten, in this order, but for
\* the A2DP iodev of a device that the endpoint is not configured for any more.
cras_bt_reset ==
    /\ FromBluez /\ \E d \in Devices : bt.dev[d].known
    /\ LET s == cras_bt_endpoint_suspend(bt)
       IN  /\ bt' = [s EXCEPT !.transports = [d \in Devices |-> NoTransport],
                           !.ags = [d \in Devices |-> "none"],
                           !.dev = [d \in Devices |-> NoDevice]]
           /\ dangling' = [transports |-> {}, a2dp |-> s.a2dp # NULL,
                           timers |-> dangling.timers \cup
                                        {d \in Devices : bt.dev[d].lost}]
    /\ Uses(SuspendUsesFreed \/ dangling.transports # {})
    /\ bluez' = [d \in Devices |-> [transport |-> FALSE, configured |-> FALSE]]
    /\ UNCHANGED msgs

-----------------------------------------------------------------------------
(* Timers, and messages of the audio thread (cras_a2dp_iodev): a write that *)
(* succeeds cancels the suspend, one that would block schedules it, an      *)
(* error cancels it and schedules it at once; closing the device cancels.   *)

conn_watch_timer(d) ==
    /\ bt.dev[d].watch
    /\ bt' = bt_device_conn_watch_cb(bt, d)
    /\ Uses(WatchUsesFreed(bt, d))
    /\ UNCHANGED <<dangling, bluez, msgs, events>>

\* A timer that conn_watch_timer does not name runs the callback too, for which
\* conn_watch_timer then forgets the timer that it names.
lost_timer(d) ==
    LET s == [bt EXCEPT !.dev[d].lost = bt.dev[d].watch]
    IN  \/ /\ bt.dev[d].lost
           /\ bt' = bt_device_conn_watch_cb(s, d)
           /\ Uses(WatchUsesFreed(s, d))
           /\ UNCHANGED <<dangling, bluez, msgs, events>>
        \/ /\ d \in dangling.timers
           /\ Uses(TRUE)
           /\ UNCHANGED <<bt, dangling, bluez, msgs, events>>

suspend_timer(d) ==
    /\ bt.dev[d].suspend # "none"
    /\ bt' = bt_device_suspend_cb(bt, d)
    /\ Uses(dangling.a2dp)
    /\ UNCHANGED <<dangling, bluez, msgs, events>>

Send(d, m) ==
    /\ Uses(FALSE) /\ bt.a2dp = d
    /\ Len(msgs) < MaxMessages
    /\ msgs' = Append(msgs, [device |-> d, cmd |-> m])
    /\ UNCHANGED <<bt, dangling, bluez, events>>

\* The message names its device, which may be gone.
bt_device_process_msg ==
    LET m == Head(msgs)
    IN  /\ Uses(FALSE) /\ msgs # <<>>
        /\ msgs' = Tail(msgs)
        /\ bt' = CASE ~bt.dev[m.device].known -> bt
                   [] bt.dev[m.device].known /\ m.cmd = "cancel" ->
                        bt_device_cancel_suspend(bt, m.device)
                   [] OTHER -> bt_device_schedule_suspend(bt, m.device, m.cmd)
        /\ UNCHANGED <<dangling, bluez, events>>

-----------------------------------------------------------------------------
Init ==
    /\ bt = [dev |-> [d \in Devices |-> NoDevice],
             transports |-> [d \in Devices |-> NoTransport],
             endpoint |-> NULL, a2dp |-> NULL,
             ags |-> [d \in Devices |-> "none"]]
    /\ dangling = [transports |-> {}, timers |-> {}, a2dp |-> FALSE]
    /\ stray = FALSE
    /\ bluez = [d \in Devices |-> [transport |-> FALSE, configured |-> FALSE]]
    /\ msgs = <<>>
    /\ events = 0

Timers ==
    \E d \in Devices : conn_watch_timer(d) \/ lost_timer(d) \/ suspend_timer(d)

Next ==
    \/ \E d \in Devices :
        \/ \E value \in BOOLEAN, uuids \in SUBSET Profiles :
                DeviceProperties(d, value, uuids)
        \/ DeviceRemoved(d)
        \/ cras_bt_endpoint_set_configuration(d)
        \/ cras_bt_endpoint_clear_configuration(d)
        \/ cras_bt_transport_remove(d)
        \/ cras_hfp_ag_new_connection(d)
        \/ cras_bt_device_audio_gateway_initialized(d)
        \/ cras_hfp_ag_slc_disconnected(d)
        \/ \E m \in {"cancel", "delayed", "now"} : Send(d, m)
    \/ cras_bt_endpoint_release
    \/ cras_bt_profile_release
    \/ cras_bt_reset
    \/ bt_device_process_msg
    \/ Timers

\* The main loop runs the callbacks of timers that have expired.
Fairness ==
    \A d \in Devices : /\ WF_btVars(conn_watch_timer(d)) /\ WF_btVars(lost_timer(d))
                       /\ WF_btVars(suspend_timer(d))

Spec == Init /\ [][Next]_btVars /\ Fairness

-----------------------------------------------------------------------------
\* What the main thread points to is there, until a pointer to a freed device is
\* used: the configured endpoint has its transport, and a gateway, the transport and
\* the A2DP iodev have their device, but for a transport whose device was removed
\* first and an iodev that cras_bt_reset left behind.
PointersLive ==
    stray \/
    /\ bt.endpoint # NULL =>
        /\ bt.transports[bt.endpoint].exists
        /\ bt.dev[bt.endpoint].known \/ bt.endpoint \in dangling.transports
    /\ bt.a2dp # NULL => bt.dev[bt.a2dp].known \/ dangling.a2dp
    /\ \A d \in Devices : bt.ags[d] # "none" => bt.dev[d].known

\* Only one headset has audio devices, the latest that was connected: a device
\* that takes over leaves neither an A2DP iodev nor a gateway of another one.
OneHeadset ==
    stray \/
    Cardinality({d \in Devices : bt.a2dp = d \/ bt.ags[d] = "started"}) <= 1

\* The watch for a device's profiles ends, with the device exposed or given up,
\* unless two timers counted the retries below zero.
WatchGivesUp ==
    \A d \in Devices :
        bt.dev[d].watch ~> ~bt.dev[d].watch \/ bt.dev[d].retries = -1 \/ stray

\* A device that lost a profile while it was connected is about to be disconnected
\* until it is: this is what the comment in cras_bt_device_notify_profile_dropped
\* promises.
DroppedIsDisconnected ==
    \A d \in Devices : bt.dev[d].dropped => bt.dev[d].suspend # "none"

\* A transport that BlueZ has removed and whose configuration it has cleared is
\* destroyed, as the comment in cras_bt_transport_remove expects.
TransportsReleased ==
    \A d \in Devices :
        bt.transports[d].exists => bluez[d].transport \/ bluez[d].configured
=============================================================================
