---------------------------- MODULE A2dpTransport ----------------------------
(***************************************************************************)
(* The transport of an A2DP headset (cras_bt_transport), the iodev on top  *)
(* of it and BlueZ on the other side of the bus.  Messages of BlueZ and    *)
(* the calls CRAS does not wait for are two queues; a call CRAS waits for  *)
(* is answered after all that was sent before it, and before messages that *)
(* wait to be dispatched.  The headset and the user both set the volume,   *)
(* in different scales.                                                    *)
(***************************************************************************)
EXTENDS Integers, Sequences

CONSTANTS
    Descriptors,    \* file descriptors, positive; the kernel gives the least free one
    NodeVolumes,    \* volumes the user sets, of 0..100
    HeadsetVolumes, \* volumes the headset sets, of 0..127
    MaxVolumes,     \* changes of the volume in one behaviour (bound)
    MaxBluez,       \* other messages of BlueZ in one behaviour (bound)
    MaxQueue        \* messages in flight either way (bound)

VARIABLES
    transport,      \* struct cras_bt_transport, see TransportType
    dev,            \* the headset's output devices, see DevType
    fds,            \* descriptors that CRAS has open for the transport
    calls,          \* to BlueZ, not waited for, oldest first
    signals,        \* from BlueZ, not dispatched yet, oldest first
    bluez,          \* what BlueZ keeps
    sent,           \* messages of BlueZ of its own accord so far, without volumes
    changes         \* changes of the volume so far

btpVars == <<transport, dev, fds, calls, signals, bluez, sent, changes>>

\* fd is -1 when the transport is not acquired, volume is -1 before BlueZ reports one.
TransportType == [exists: BOOLEAN, endpoint: BOOLEAN, removed: BOOLEAN,
                  fd: Descriptors \cup {-1}, state: {"idle", "pending", "active"},
                  volume: {-1} \cup 0..127]

\* The A2DP iodev, with the volume of its own node; the volume of the node of the
\* bt_io, which the user sees; the callback of the audio thread, by its descriptor.
DevType == [a2dp: {"none", "closed", "open"}, a2dpVolume: 0..100, volume: 0..100,
            callback: Descriptors \cup {-1}, use_hardware_volume: BOOLEAN]

BluezType == [exported: BOOLEAN, configured: BOOLEAN, acquired: BOOLEAN,
              volume: {-1} \cup 0..127]

NoTransport == [exists |-> FALSE, endpoint |-> FALSE, removed |-> FALSE, fd |-> -1,
                state |-> "idle", volume |-> -1]

NoIodev == [a2dp |-> "none", a2dpVolume |-> 100, volume |-> 100, callback |-> -1,
            use_hardware_volume |-> FALSE]

NoSession == [exported |-> FALSE, configured |-> FALSE, acquired |-> FALSE,
              volume |-> -1]

State == [t |-> transport, d |-> dev, fds |-> fds, calls |-> calls]

NewDescriptor(s) ==
    CHOOSE n \in Descriptors \ s.fds : \A m \in Descriptors \ s.fds : n <= m

-----------------------------------------------------------------------------
(* Volume.                                                                 *)

ToHeadset(v) == (v * 127) \div 100

ToNode(v) == (v * 100) \div 127

\* The answer is only logged.
cras_bt_transport_set_volume(s, v) ==
    [s EXCEPT !.calls = Append(@, [call |-> "Set", volume |-> v])]

\* set_volume of the A2DP iodev: the volume of its own node.
set_volume(s) ==
    IF ~s.d.use_hardware_volume THEN s
    ELSE cras_bt_transport_set_volume(s, ToHeadset(s.d.a2dpVolume))

\* set_bt_volume of the bt_io, whose software_volume_needed is the inverse of
\* use_hardware_volume.
set_bt_volume(s) == set_volume([s EXCEPT !.d.a2dpVolume = s.d.volume])

\* cras_bt_device_update_hardware_volume is for the bt_io, when there is one.
cras_bt_transport_update_device(s) ==
    [s EXCEPT !.d.use_hardware_volume = TRUE,
              !.d.volume = IF s.d.a2dp = "none" THEN @ ELSE ToNode(s.t.volume)]

-----------------------------------------------------------------------------
(* Release, and the end of the iodev and of the transport.                 *)

\* The descriptor is closed whatever BlueZ answers.  An iodev that is being
\* destroyed does not wait for the answer.
cras_bt_transport_release(s, blocking) ==
    IF s.t.fd = -1 THEN s
    ELSE [s EXCEPT !.fds = @ \ {s.t.fd}, !.t.fd = -1,
                   !.calls = IF blocking THEN @
                             ELSE Append(@, [call |-> "Release", volume |-> -1])]

close_dev_polled(s, blocking) ==
    cras_bt_transport_release([s EXCEPT !.d.a2dp = "closed"], blocking)

\* The audio thread is synchronised with before the release.
close_dev(s, blocking) ==
    cras_bt_transport_release([s EXCEPT !.d.a2dp = "closed", !.d.callback = -1], blocking)

\* The bt_io goes with its only profile device.
a2dp_iodev_destroy(s) ==
    LET c == IF s.d.a2dp = "open" THEN close_dev(s, FALSE) ELSE s
    IN  [c EXCEPT !.d = [NoIodev EXCEPT !.use_hardware_volume = s.d.use_hardware_volume]]

cras_a2dp_suspend_connected_device(s) ==
    IF s.d.a2dp = "none" THEN s ELSE a2dp_iodev_destroy(s)

cras_bt_transport_destroy(s) ==
    [s EXCEPT !.fds = @ \ {s.t.fd}, !.t = NoTransport,
              !.d.use_hardware_volume = FALSE]

cras_bt_transport_remove(s) ==
    CASE ~s.t.exists -> s
      [] s.t.exists /\ s.t.endpoint -> [s EXCEPT !.t.removed = TRUE]
      [] OTHER -> cras_bt_transport_destroy(s)

cras_bt_endpoint_suspend(s) ==
    LET u == [cras_a2dp_suspend_connected_device(s) EXCEPT !.t.endpoint = FALSE]
    IN  CASE ~s.t.endpoint -> s
          [] s.t.endpoint /\ s.t.removed -> cras_bt_transport_destroy(u)
          [] OTHER -> u

\* cras_bt_endpoint_reset and cras_bt_transport_reset of cras_bt_reset.
cras_bt_transport_reset(s) ==
    LET u == cras_bt_endpoint_suspend(s)
    IN  IF u.t.exists THEN cras_bt_transport_destroy(u) ELSE u

-----------------------------------------------------------------------------
(* Messages of BlueZ.                                                      *)

\* SetConfiguration: the transport is created and its properties are set; the
\* property Volume is there when the headset has absolute volume.
cras_bt_endpoint_set_configuration(s, v) ==
    LET u == [s EXCEPT !.t = [NoTransport EXCEPT !.exists = TRUE, !.endpoint = TRUE,
                                                 !.volume = v]]
    IN  IF v = -1 THEN u ELSE cras_bt_transport_update_device(u)

\* The descriptor of TryAcquire is not needed.
cras_bt_transport_try_acquire(s) ==
    LET n == NewDescriptor(s)
        opened == [s EXCEPT !.fds = @ \cup {n}]
    IN  IF s.t.fd # n THEN [opened EXCEPT !.fds = @ \ {n}] ELSE opened

\* a2dp_transport_state_changed
WantsTryAcquire(s, value) ==
    /\ s.t.state # value /\ value = "pending"
    /\ s.t.endpoint /\ s.d.a2dp # "none" /\ s.t.fd # -1

\* The properties that change while a transport exists.
cras_bt_transport_update_properties(s, m) ==
    CASE ~s.t.exists -> s
      [] s.t.exists /\ m.signal = "State" -> [s EXCEPT !.t.state = m.state]
      [] s.t.exists /\ m.signal = "Volume" ->
            cras_bt_transport_update_device([s EXCEPT !.t.volume = m.value])

Become(s) ==
    /\ transport' = s.t
    /\ dev' = s.d
    /\ fds' = s.fds
    /\ calls' = s.calls

\* BlueZ grants Acquire and TryAcquire.
Available == bluez.exported /\ bluez.configured

\* One message is dispatched.  The handler of State may wait for TryAcquire.
Dispatch ==
    LET m == Head(signals)
        try == m.signal = "State" /\ WantsTryAcquire(State, m.state)
        handled ==
            CASE m.signal \in {"State", "Volume"} ->
                    cras_bt_transport_update_properties(State, m)
              [] m.signal = "SetConfiguration" ->
                    cras_bt_endpoint_set_configuration(State, m.value)
              [] m.signal = "ClearConfiguration" -> cras_bt_endpoint_suspend(State)
              [] m.signal = "InterfacesRemoved" -> cras_bt_transport_remove(State)
              [] m.signal = "NameOwnerChanged" -> cras_bt_transport_reset(State)
    IN  /\ signals # <<>>
        /\ signals' = Tail(signals)
        /\ try => calls = <<>>
        /\ Become(IF try /\ Available THEN cras_bt_transport_try_acquire(handled)
                  ELSE handled)
        /\ bluez' = [bluez EXCEPT !.acquired = @ \/ (try /\ Available)]
        /\ UNCHANGED <<sent, changes>>

-----------------------------------------------------------------------------
(* The main thread of its own accord.                                      *)

\* cras_a2dp_start, for the watch of the device; it replaces the iodev.
cras_a2dp_start ==
    /\ transport.endpoint /\ Len(calls) < MaxQueue
    /\ Become([cras_a2dp_suspend_connected_device(State) EXCEPT !.d.a2dp = "closed"])
    /\ UNCHANGED <<signals, bluez, sent, changes>>

\* A transport that is acquired is not acquired again.
cras_bt_transport_acquire(s) ==
    IF s.t.fd # -1 THEN s
    ELSE LET n == NewDescriptor(s)
         IN  [s EXCEPT !.t.fd = n, !.fds = @ \cup {n}]

configure_dev_quiet(acquired, memory) ==
    LET s == cras_bt_transport_acquire(State)
        ready == [s EXCEPT !.d.a2dp = "open", !.d.callback = s.t.fd]
    IN  IF ~acquired THEN State ELSE IF memory THEN ready ELSE s

\* The state after configure_dev; without memory it fails after the acquisition.
configure_dev(acquired, memory) ==
    LET s == set_volume(cras_bt_transport_acquire(State))
        ready == [s EXCEPT !.d.a2dp = "open", !.d.callback = s.t.fd]
    IN  IF ~acquired THEN State ELSE IF memory THEN ready ELSE s

Open ==
    /\ dev.a2dp = "closed"
    /\ calls = <<>>
    /\ \E memory \in BOOLEAN : Become(configure_dev(Available \/ transport.fd # -1, memory))
    /\ bluez' = [bluez EXCEPT !.acquired = @ \/ (Available /\ transport.fd = -1)]
    /\ UNCHANGED <<signals, sent, changes>>

Close ==
    /\ dev.a2dp = "open"
    /\ calls = <<>>
    /\ Become(close_dev(State, TRUE))
    /\ bluez' = [bluez EXCEPT !.acquired = FALSE]
    /\ UNCHANGED <<signals, sent, changes>>

\* bt_device_suspend_cb
Suspend ==
    /\ dev.a2dp # "none" /\ Len(calls) < MaxQueue
    /\ Become(cras_a2dp_suspend_connected_device(State))
    /\ UNCHANGED <<signals, bluez, sent, changes>>

VolumeChange == changes < MaxVolumes /\ changes' = changes + 1

\* The user sets the volume of the node.
set_node_volume(v) ==
    /\ dev.a2dp # "none" /\ Len(calls) < MaxQueue /\ VolumeChange
    /\ Become(set_bt_volume([State EXCEPT !.d.volume = v]))
    /\ UNCHANGED <<signals, bluez, sent>>

\* update_active_node of the bt_io when the headset returns to A2DP from HFP.
update_active_node ==
    /\ dev.a2dp = "closed" /\ Len(calls) < MaxQueue /\ VolumeChange
    /\ Become(set_bt_volume(State))
    /\ UNCHANGED <<signals, bluez, sent>>

-----------------------------------------------------------------------------
(* BlueZ: external, as far as CRAS relies on it.  It reports every change of *)
(* the volume, its own and those CRAS asked for, but may refuse to set the   *)
(* volume while the transport is not acquired.                               *)

Send(message) == Len(signals) < MaxQueue /\ signals' = Append(signals, message)

Signal(name, value) == Send([signal |-> name, value |-> value])

BluezConfigures ==
    /\ ~bluez.exported /\ ~bluez.configured
    /\ \E v \in HeadsetVolumes \cup {-1} :
        /\ bluez' = [exported |-> TRUE, configured |-> TRUE, acquired |-> FALSE,
                     volume |-> v]
        /\ Signal("SetConfiguration", v)

BluezState ==
    /\ bluez.exported
    /\ \E s \in {"pending", "active", "idle"} : Send([signal |-> "State", state |-> s])
    /\ UNCHANGED bluez

HeadsetVolume(v) ==
    /\ bluez.exported /\ bluez.volume # v
    /\ bluez' = [bluez EXCEPT !.volume = v]
    /\ Signal("Volume", v)
    /\ VolumeChange
    /\ UNCHANGED <<transport, dev, fds, calls, sent>>

BluezClears ==
    /\ bluez.configured
    /\ bluez' = [bluez EXCEPT !.configured = FALSE, !.acquired = FALSE]
    /\ Signal("ClearConfiguration", -1)

BluezRemoves ==
    /\ bluez.exported
    /\ bluez' = [bluez EXCEPT !.exported = FALSE, !.acquired = FALSE]
    /\ Signal("InterfacesRemoved", -1)

BluezRestarts ==
    /\ bluez.exported
    /\ bluez' = NoSession
    /\ Signal("NameOwnerChanged", -1)

Bluez ==
    /\ sent < MaxBluez /\ sent' = sent + 1
    /\ BluezConfigures \/ BluezState \/ BluezClears \/ BluezRemoves \/ BluezRestarts
    /\ UNCHANGED <<transport, dev, fds, calls, changes>>

BluezAnswers ==
    LET c == Head(calls)
        sets == /\ c.call = "Set" /\ bluez.exported
                /\ bluez.volume \notin {-1, c.volume}
        set == [bluez EXCEPT !.volume = c.volume]
    IN  /\ calls # <<>>
        /\ calls' = Tail(calls)
        /\ \/ sets /\ bluez' = set /\ Signal("Volume", c.volume)
           \/ (~sets \/ ~bluez.acquired) /\ UNCHANGED signals
                /\ bluez' = IF c.call = "Release" THEN [bluez EXCEPT !.acquired = FALSE]
                            ELSE bluez
        /\ UNCHANGED <<transport, dev, fds, sent, changes>>

-----------------------------------------------------------------------------
Init ==
    /\ transport = NoTransport /\ dev = NoIodev /\ fds = {}
    /\ calls = <<>> /\ signals = <<>>
    /\ bluez = NoSession /\ sent = 0 /\ changes = 0

Next ==
    \/ Dispatch
    \/ cras_a2dp_start \/ Open \/ Close \/ Suspend \/ update_active_node
    \/ \E v \in NodeVolumes : set_node_volume(v)
    \/ \E v \in HeadsetVolumes : HeadsetVolume(v)
    \/ Bluez \/ BluezAnswers

Spec == Init /\ [][Next]_btpVars

-----------------------------------------------------------------------------
\* The descriptors of the transport are owned: at most the one the transport keeps is
\* open, the audio thread polls no other, and an iodev has its transport under it,
\* whatever BlueZ withdraws while the device is open, acquired again or fails to open.
DescriptorsOwned ==
    /\ fds = {transport.fd} \ {-1}
    /\ dev.callback # -1 => dev.callback = transport.fd
    /\ dev.a2dp = "open" => transport.fd # -1
    /\ dev.a2dp # "none" => transport.endpoint

\* When nothing is in flight, the device is open and BlueZ keeps its transport, the
\* volume the user sees is that of the headset, up to the rounding of one of the two
\* conversions, however the changes of both sides crossed.
VolumesAgree ==
    LET settled == signals = <<>> /\ calls = <<>> /\ dev.a2dp = "open" /\ bluez.acquired
    IN  settled /\ dev.use_hardware_volume =>
            \/ bluez.volume = ToHeadset(dev.volume)
            \/ dev.volume = ToNode(bluez.volume)

\* Opening the device sends the volume the user sees.  The code does not have this: a
\* change on the headset reaches the node of the bt_io alone, and configure_dev sends
\* the older volume of the A2DP node.
OpenKeepsVolume ==
    dev.a2dp = "closed" /\ dev.use_hardware_volume => dev.a2dpVolume = dev.volume
=============================================================================
