-------------------------- MODULE BluetoothProofs ---------------------------
(***************************************************************************)
(* Proofs about Bluetooth as MCBluetooth composes it, for any devices,     *)
(* descriptors, packet and queue sizes: the pace of the A2DP packets, the  *)
(* descriptors of a transport that BlueZ withdraws, and the one headset    *)
(* that has audio devices.                                                 *)
(***************************************************************************)
EXTENDS MCBluetooth, Integers, FiniteSetTheorems, WellFoundedInduction, TLAPS

-----------------------------------------------------------------------------
(* The A2DP packets (A2dpFlush).                                           *)

IoRecord == [state: {"closed", "open", "no_stream", "normal"}, pcm: Int, samples: Int,
             lag: Int, polls: BOOLEAN]

(* Next to the property: a packet being sent leaves the PCM as it was      *)
(* checked, because no other call of the device comes in between.          *)
FlushInv ==
  /\ a2dp \in IoRecord /\ flush \in Int
  /\ FlushPaced

LEMMA EncodeKeepsSum ==
  ASSUME NEW x \in IoRecord
  PROVE  /\ A2dp!encode_a2dp_packet(x) \in IoRecord
         /\ A2dp!encode_a2dp_packet(x).pcm + A2dp!encode_a2dp_packet(x).samples = x.pcm + x.samples
         /\ A2dp!encode_a2dp_packet(x).lag = x.lag
<1> DEFINE n == A2dp!Least(x.pcm, WriteBlock - x.samples)
           y == [x EXCEPT !.pcm = x.pcm - n, !.samples = x.samples + n]
<1>1. A2dp!encode_a2dp_packet(x) = y
  BY DEF A2dp!encode_a2dp_packet
<1>2. x.pcm \in Int /\ x.samples \in Int /\ n \in Int
  BY BluetoothAssumption DEF IoRecord, A2dp!Least
<1> HIDE DEF n
<1>3. x.pcm - n \in Int /\ x.samples + n \in Int
  BY <1>2
<1>4. y \in IoRecord
  BY <1>3, Zenon DEF IoRecord
<1>5. y.pcm = x.pcm - n /\ y.samples = x.samples + n /\ y.lag = x.lag
  BY DEF IoRecord
<1> HIDE DEF y
<1> QED BY <1>1, <1>2, <1>4, <1>5

LEMMA FlushStarts ==
  ASSUME FlushInv, NEW x \in IoRecord, x.lag = a2dp.lag, A2dp!encode_and_flush(x)
  PROVE  FlushInv'
<1>1. flush' \in {-1, 0} /\ a2dp' \in IoRecord /\ a2dp'.lag = a2dp.lag
  BY EncodeKeepsSum DEF A2dp!encode_and_flush
<1> QED BY <1>1 DEF FlushInv, FlushPaced, A2dp!Paced, A2dp!NoSelfUnderrun

LEMMA InitFlushInv == A2dp!Init => FlushInv
  BY BluetoothAssumption
     DEF A2dp!Init, A2dp!a2dp_reset, FlushInv, IoRecord, FlushPaced, A2dp!Paced, A2dp!NoSelfUnderrun

LEMMA NextFlushInv ==
  ASSUME FlushInv, [A2dp!Next]_afVars
  PROVE  FlushInv'
<1>0. /\ a2dp \in IoRecord /\ flush \in Int /\ WriteBlock \in Nat /\ PcmSize \in Nat
      /\ a2dp.lag >= -WriteBlock /\ (flush > 0 => a2dp.pcm + a2dp.samples > WriteBlock + WriteBlock)
  BY BluetoothAssumption DEF FlushInv, FlushPaced, A2dp!Paced, A2dp!NoSelfUnderrun
<1> DEFINE Good == /\ a2dp' \in IoRecord /\ flush' \in Int /\ a2dp'.lag >= -WriteBlock
                   /\ flush' > 0 => a2dp'.pcm + a2dp'.samples > WriteBlock + WriteBlock
<1>a. Good => FlushInv'
  BY DEF FlushInv, FlushPaced, A2dp!Paced, A2dp!NoSelfUnderrun
<1>1. CASE A2dp!TooEarly \/ A2dp!NotFull \/ A2dp!WouldBlock \/ A2dp!WriteFails
  <2>1. \/ a2dp' = a2dp
        \/ \E p \in BOOLEAN : a2dp' = [a2dp EXCEPT !.polls = p]
    BY <1>1, Zenon DEF A2dp!TooEarly, A2dp!NotFull, A2dp!WouldBlock, A2dp!WriteFails
  <2>2. a2dp' \in IoRecord /\ flush' = -1 /\ a2dp'.lag = a2dp.lag
    BY <1>0, <1>1, <2>1 DEF A2dp!TooEarly, A2dp!NotFull, A2dp!WouldBlock, A2dp!WriteFails, IoRecord
  <2> QED BY <1>0, <1>a, <2>2
<1>2. CASE A2dp!Written
  <2> DEFINE w == [a2dp EXCEPT !.samples = 0, !.lag = @ - WriteBlock, !.polls = FALSE]
  <2>0. a2dp.lag >= 0 /\ a2dp.lag \in Int /\ a2dp.lag - WriteBlock \in Int
    BY <1>0, <1>2 DEF A2dp!Written, A2dp!MayFlush, IoRecord
  <2>b. w \in IoRecord
    <3>1. 0 \in Int /\ FALSE \in BOOLEAN
      OBVIOUS
    <3> QED BY <1>0, <2>0, <3>1, Zenon DEF IoRecord
  <2>1. /\ w \in IoRecord /\ w.lag = a2dp.lag - WriteBlock /\ w.samples = 0 /\ a2dp.lag >= 0
    BY <1>0, <2>0, <2>b DEF IoRecord
  <2>2. \/ A2dp!GoOn(w) /\ a2dp' = A2dp!encode_a2dp_packet(w) /\ flush' = flush + 1
        \/ a2dp' = w /\ flush' = -1
    BY <1>2 DEF A2dp!Written
  <2>a. w.pcm \in Int /\ w.lag >= -WriteBlock
    BY <1>0, <2>1 DEF IoRecord
  <2> HIDE DEF w
  <2>3. CASE A2dp!GoOn(w) /\ a2dp' = A2dp!encode_a2dp_packet(w) /\ flush' = flush + 1
    <3>1. w.pcm + w.samples > WriteBlock + WriteBlock
      BY <1>0, <2>1, <2>a, <2>3 DEF A2dp!GoOn
    <3>2. Good
      BY <1>0, <2>1, <2>a, <2>3, <3>1, EncodeKeepsSum
    <3> QED BY <1>a, <3>2
  <2>4. CASE a2dp' = w /\ flush' = -1
    BY <1>a, <2>1, <2>a, <2>4
  <2> QED BY <2>2, <2>3, <2>4
<1>3. CASE A2dp!configure_dev \/ A2dp!Tick \/ A2dp!RadioSends
  <2>1. Good
    BY <1>0, <1>3 DEF A2dp!configure_dev, A2dp!Tick, A2dp!RadioSends, IoRecord
  <2> QED BY <1>a, <2>1
<1>4. CASE A2dp!start
  <2>1. a2dp' = [a2dp EXCEPT !.state = "normal", !.lag = 0] /\ flush' = -1
    BY <1>4 DEF A2dp!start
  <2>2. "normal" \in {"closed", "open", "no_stream", "normal"} /\ 0 \in Int
    OBVIOUS
  <2>3. a2dp' \in IoRecord
    BY <1>0, <2>1, <2>2, Zenon DEF IoRecord
  <2>4. a2dp'.lag = 0
    BY <1>0, <2>1 DEF IoRecord
  <2> QED BY <1>0, <1>a, <2>1, <2>3, <2>4
<1>b. CASE A2dp!close_dev \/ A2dp!bt_device_suspend_cb
  <2>1. a2dp' = A2dp!a2dp_reset /\ flush' = -1
    BY <1>0, <1>b DEF A2dp!close_dev, A2dp!bt_device_suspend_cb
  <2>2. A2dp!a2dp_reset \in IoRecord /\ A2dp!a2dp_reset.lag = 0
    BY DEF A2dp!a2dp_reset, IoRecord
  <2> QED BY <1>0, <1>a, <2>1, <2>2
<1>5. ASSUME NEW n \in {1, WriteBlock}, A2dp!put_buffer(n) PROVE FlushInv'
  <2>1. [a2dp EXCEPT !.pcm = @ + n] \in IoRecord /\ [a2dp EXCEPT !.pcm = @ + n].lag = a2dp.lag
    BY <1>0 DEF IoRecord
  <2> QED BY <1>5, <2>1, FlushStarts DEF A2dp!put_buffer
<1>6. ASSUME NEW z \in {"no_stream", "normal"}
      PROVE  /\ [A2dp!ZerosToMin(a2dp) EXCEPT !.state = z] \in IoRecord
             /\ [A2dp!ZerosToMin(a2dp) EXCEPT !.state = z].lag = a2dp.lag
  BY <1>0 DEF IoRecord, A2dp!ZerosToMin, A2dp!bt_local_queued_frames
<1>7. CASE A2dp!enter_no_stream
  BY <1>6, <1>7, FlushStarts DEF A2dp!enter_no_stream
<1>8. CASE A2dp!leave_no_stream
  BY <1>6, <1>8, FlushStarts DEF A2dp!leave_no_stream
<1>9. CASE A2dp!output_underrun
  <2> DEFINE x == [a2dp EXCEPT !.pcm = A2dp!Least(@ + WriteBlock, PcmSize)]
  <2>1. x \in IoRecord /\ x.lag = a2dp.lag
    BY <1>0 DEF IoRecord, A2dp!Least
  <2> HIDE DEF x
  <2> QED BY <1>9, <2>1, FlushStarts DEF A2dp!output_underrun, x
<1>10. CASE A2dp!a2dp_socket_write_cb
  BY <1>0, <1>10, FlushStarts DEF A2dp!a2dp_socket_write_cb
<1>11. CASE UNCHANGED afVars
  BY <1>0, <1>a, <1>11 DEF afVars
<1> QED
  BY <1>1, <1>2, <1>3, <1>4, <1>b, <1>5, <1>7, <1>8, <1>9, <1>10, <1>11 DEF A2dp!Next, A2dp!Flush

(* Packets are sent at most one ahead of the rate they are played at, and  *)
(* catching up leaves what an underrun needs (a2dp flush_data).            *)
THEOREM FlushKeepsPace == MCSpec => []FlushPaced
<1>1. MCInit => FlushInv
  BY InitFlushInv DEF MCInit
<1>2. FlushInv /\ [MCNext]_mcVars => FlushInv'
  <2> SUFFICES ASSUME FlushInv, [MCNext]_mcVars PROVE FlushInv'
    OBVIOUS
  <2>1. [A2dp!Next]_afVars
    BY DEF MCNext, mcVars
  <2> QED BY <2>1, NextFlushInv
<1>3. FlushInv => FlushPaced
  BY DEF FlushInv
<1> QED BY <1>1, <1>2, <1>3, PTL DEF MCSpec

-----------------------------------------------------------------------------
(* The descriptors of the A2DP transport (A2dpTransport).                  *)

TransportRec == [exists: BOOLEAN, endpoint: BOOLEAN, removed: BOOLEAN, fd: Int,
                 state: {"idle", "pending", "active"}, volume: Int]
IodevRec == [a2dp: {"none", "closed", "open"}, a2dpVolume: Int, volume: Int, callback: Int,
             use_hardware_volume: BOOLEAN]
CallRec == [call: {"Set", "Release"}, volume: Int]
StateRec == [t: TransportRec, d: IodevRec, fds: SUBSET Int, calls: Seq(CallRec)]
SignalRec ==
  [signal: {"State"}, state: {"idle", "pending", "active"}]
  \union [signal: {"Volume", "SetConfiguration", "ClearConfiguration", "InterfacesRemoved",
                   "NameOwnerChanged"}, value: Int]
SessionRec == [exported: BOOLEAN, configured: BOOLEAN, acquired: BOOLEAN, volume: Int]

(* DescriptorsOwned of a record of the handlers, with what makes it        *)
(* inductive: only an open iodev is polled, and a transport that is gone   *)
(* keeps nothing.                                                          *)
Owned(s) ==
  /\ s.fds = {s.t.fd} \ {-1}
  /\ s.d.callback # -1 => s.d.callback = s.t.fd /\ s.d.a2dp = "open"
  /\ s.d.a2dp = "open" => s.t.fd # -1
  /\ s.d.a2dp # "none" => s.t.endpoint
  /\ s.t.endpoint => s.t.exists
  /\ s.t.removed => s.t.endpoint
  /\ ~s.t.exists => s.t.fd = -1

Sound(s) == s \in StateRec /\ Owned(s)

(* Where a transport is between SetConfiguration and its end, as CRAS      *)
(* keeps it and as BlueZ does.                                             *)
Phases == {"none", "configured", "cleared", "removed"}
Phase(t) ==
  IF ~t.exists THEN "none" ELSE IF ~t.endpoint THEN "cleared"
  ELSE IF t.removed THEN "removed" ELSE "configured"
SessionPhase ==
  IF session.exported THEN IF session.configured THEN "configured" ELSE "cleared"
  ELSE IF session.configured THEN "removed" ELSE "none"

(* The messages of BlueZ that may come in phase p, and the phase they lead *)
(* to.                                                                     *)
Leads(m, p, q) ==
  \/ m.signal \in {"State", "Volume"} /\ q = p
  \/ m.signal = "SetConfiguration" /\ p = "none" /\ q = "configured"
  \/ m.signal = "ClearConfiguration" /\ p = "configured" /\ q = "cleared"
  \/ m.signal = "ClearConfiguration" /\ p = "removed" /\ q = "none"
  \/ m.signal = "InterfacesRemoved" /\ p = "configured" /\ q = "removed"
  \/ m.signal = "InterfacesRemoved" /\ p = "cleared" /\ q = "none"
  \/ m.signal = "NameOwnerChanged" /\ p \in {"configured", "cleared"} /\ q = "none"

(* The messages on their way lead from what CRAS has to what BlueZ has. *)
Announced ==
  \E p \in [1 .. Len(signals) + 1 -> Phases] :
    /\ p[1] = Phase(transport) /\ p[Len(signals) + 1] = SessionPhase
    /\ \A i \in 1..Len(signals) : Leads(signals[i], p[i], p[i + 1])

TransportInv ==
  /\ Sound(Transport!State)
  /\ signals \in Seq(SignalRec) /\ session \in SessionRec
  /\ Announced

-----------------------------------------------------------------------------
(* Sound records through the handlers. *)

LEMMA StateFields ==
  ASSUME NEW s \in StateRec
  PROVE  /\ s.t \in TransportRec /\ s.d \in IodevRec /\ s.fds \in SUBSET Int
         /\ s.calls \in Seq(CallRec) /\ s.t.fd \in Int /\ s.d.callback \in Int
         /\ s.t.volume \in Int /\ s.d.volume \in Int /\ s.d.a2dpVolume \in Int
  BY DEF StateRec, TransportRec, IodevRec

LEMMA ReleaseSound ==
  ASSUME NEW s, Sound(s), NEW blocking \in BOOLEAN, s.d.callback = -1, s.d.a2dp # "open"
  PROVE  LET u == Transport!cras_bt_transport_release(s, blocking) IN
         /\ Sound(u) /\ u.t.fd = -1 /\ u.d = s.d /\ u.t.exists = s.t.exists
         /\ u.t.endpoint = s.t.endpoint /\ u.t.removed = s.t.removed
<1> DEFINE u == Transport!cras_bt_transport_release(s, blocking)
           c == IF blocking THEN s.calls
                ELSE Append(s.calls, [call |-> "Release", volume |-> -1])
<1>0. s \in StateRec
  BY DEF Sound
<1>1. CASE s.t.fd = -1
  BY <1>1 DEF Transport!cras_bt_transport_release
<1>2. CASE s.t.fd # -1
  <2>1. u = [s EXCEPT !.fds = s.fds \ {s.t.fd}, !.t.fd = -1, !.calls = c]
    BY <1>2 DEF Transport!cras_bt_transport_release
  <2>2. /\ [s.t EXCEPT !.fd = -1] \in TransportRec
        /\ [s.t EXCEPT !.fd = -1].fd = -1
        /\ [s.t EXCEPT !.fd = -1].exists = s.t.exists
        /\ [s.t EXCEPT !.fd = -1].endpoint = s.t.endpoint
        /\ [s.t EXCEPT !.fd = -1].removed = s.t.removed
    BY <1>0 DEF StateRec, TransportRec
  <2>3. c \in Seq(CallRec)
    <3>1. s.calls \in Seq(CallRec)
      BY <1>0 DEF StateRec
    <3>2. [call |-> "Release", volume |-> -1] \in CallRec
      BY DEF CallRec
    <3> QED BY <3>1, <3>2
  <2>4. s.fds \ {s.t.fd} \in SUBSET Int
    BY <1>0 DEF StateRec
  <2>5. u.t = [s.t EXCEPT !.fd = -1] /\ u.d = s.d /\ u.fds = s.fds \ {s.t.fd}
    BY <1>0, <2>1 DEF StateRec
  <2> HIDE DEF c
  <2>6. u \in StateRec
    <3> DEFINE t == [s.t EXCEPT !.fd = -1]
               f == s.fds \ {s.t.fd}
    <3>1. u = [s EXCEPT !.fds = f, !.t = t, !.calls = c]
      BY <2>1
    <3>2. t \in TransportRec /\ f \in SUBSET Int
      BY <2>2, <2>4
    <3> HIDE DEF t, f
    <3> QED BY <1>0, <2>3, <3>1, <3>2, Zenon DEF StateRec
  <2> HIDE DEF u
  <2>7. Owned(u)
    BY <1>2, <2>2, <2>5 DEF Sound, Owned
  <2> QED BY <2>2, <2>5, <2>6, <2>7 DEF Sound, u
<1> QED BY <1>1, <1>2

LEMMA NoIodevRec ==
  ASSUME NEW h \in BOOLEAN
  PROVE  LET n == [Transport!NoIodev EXCEPT !.use_hardware_volume = h] IN
         n \in IodevRec /\ n.a2dp = "none" /\ n.callback = -1
<1>1. Transport!NoIodev \in IodevRec
  BY DEF Transport!NoIodev, IodevRec
<1>2. [Transport!NoIodev EXCEPT !.use_hardware_volume = h] \in IodevRec
  BY <1>1, Zenon DEF IodevRec
<1>3. /\ [Transport!NoIodev EXCEPT !.use_hardware_volume = h].a2dp = "none"
      /\ [Transport!NoIodev EXCEPT !.use_hardware_volume = h].callback = -1
  BY DEF Transport!NoIodev
<1> QED BY <1>2, <1>3

LEMMA CloseSound ==
  ASSUME NEW s, Sound(s), NEW blocking \in BOOLEAN, s.d.a2dp = "open"
  PROVE  LET u == Transport!close_dev(s, blocking) IN
         /\ Sound(u) /\ u.t.fd = -1 /\ u.d.a2dp = "closed" /\ u.d.callback = -1
         /\ u.t.exists = s.t.exists /\ u.t.endpoint = s.t.endpoint /\ u.t.removed = s.t.removed
<1> DEFINE d == [s.d EXCEPT !.a2dp = "closed", !.callback = -1]
           c == [s EXCEPT !.d.a2dp = "closed", !.d.callback = -1]
<1>0. s \in StateRec
  BY DEF Sound
<1>1. d.a2dp = "closed" /\ d.callback = -1 /\ d.use_hardware_volume = s.d.use_hardware_volume
  BY <1>0 DEF StateRec, IodevRec
<1>2. d \in IodevRec
  <2>1. s.d \in IodevRec /\ "closed" \in {"none", "closed", "open"} /\ -1 \in Int
    BY <1>0 DEF StateRec
  <2> QED BY <2>1, Zenon DEF IodevRec
<1>3. c.t = s.t /\ c.fds = s.fds /\ c.d = d
  BY <1>0 DEF StateRec, IodevRec
<1> HIDE DEF d
<1>4. c \in StateRec
  <2>1. c = [s EXCEPT !.d = d]
    BY DEF d
  <2> QED BY <1>0, <1>2, <2>1, Zenon DEF StateRec
<1> HIDE DEF c
<1>5. Sound(c)
  BY <1>1, <1>3, <1>4 DEF Sound, Owned
<1>6. Transport!close_dev(s, blocking) = Transport!cras_bt_transport_release(c, blocking)
  BY DEF Transport!close_dev, c
<1> QED BY <1>1, <1>3, <1>5, <1>6, ReleaseSound

LEMMA SuspendSound ==
  ASSUME NEW s, Sound(s)
  PROVE  LET u == Transport!cras_a2dp_suspend_connected_device(s) IN
         /\ Sound(u) /\ u.d.a2dp = "none" /\ u.d.callback = -1 /\ u.t.exists = s.t.exists
         /\ u.t.endpoint = s.t.endpoint /\ u.t.removed = s.t.removed
<1>0. s \in StateRec
  BY DEF Sound
<1>1. CASE s.d.a2dp = "none"
  BY <1>0, <1>1 DEF Transport!cras_a2dp_suspend_connected_device, Sound, Owned
<1>2. CASE s.d.a2dp # "none"
  <2> DEFINE c == IF s.d.a2dp = "open" THEN Transport!close_dev(s, FALSE) ELSE s
             n == [Transport!NoIodev EXCEPT !.use_hardware_volume = s.d.use_hardware_volume]
  <2>1. Transport!cras_a2dp_suspend_connected_device(s) = [c EXCEPT !.d = n]
    BY <1>2 DEF Transport!cras_a2dp_suspend_connected_device, Transport!a2dp_iodev_destroy
  <2>2. /\ Sound(c) /\ c.t.exists = s.t.exists /\ c.t.endpoint = s.t.endpoint
        /\ c.t.removed = s.t.removed
    BY CloseSound
  <2>3. n \in IodevRec /\ n.a2dp = "none" /\ n.callback = -1
    <3>1. s.d.use_hardware_volume \in BOOLEAN
      BY <1>0, Zenon DEF StateRec, IodevRec
    <3> QED BY <3>1, NoIodevRec
  <2> HIDE DEF c, n
  <2> DEFINE u == [c EXCEPT !.d = n]
  <2>4. u \in StateRec /\ u.t = c.t /\ u.fds = c.fds /\ u.d = n
    BY <2>2, <2>3 DEF Sound, StateRec
  <2> HIDE DEF u
  <2>5. Sound(u)
    BY <2>2, <2>3, <2>4 DEF Sound, Owned
  <2> QED BY <2>1, <2>2, <2>3, <2>4, <2>5 DEF u
<1> QED BY <1>1, <1>2

LEMMA DestroySound ==
  ASSUME NEW s \in StateRec, s.fds = {s.t.fd} \ {-1}, s.d.a2dp = "none", s.d.callback = -1
  PROVE  LET u == Transport!cras_bt_transport_destroy(s) IN
         Sound(u) /\ u.t = Transport!NoTransport
<1> DEFINE u == Transport!cras_bt_transport_destroy(s)
           d == [s.d EXCEPT !.use_hardware_volume = FALSE]
<1>1. u = [s EXCEPT !.fds = s.fds \ {s.t.fd}, !.t = Transport!NoTransport, !.d = d]
  BY DEF Transport!cras_bt_transport_destroy
<1>2. d \in IodevRec
  <2>1. s.d \in IodevRec /\ FALSE \in BOOLEAN
    BY DEF StateRec
  <2> QED BY <2>1, Zenon DEF IodevRec
<1>3. d.a2dp = "none" /\ d.callback = -1
  BY DEF StateRec, IodevRec
<1>4. Transport!NoTransport \in TransportRec /\ s.fds \ {s.t.fd} \in SUBSET Int
  BY DEF Transport!NoTransport, TransportRec, StateRec
<1> HIDE DEF d
<1>5. u.d = d /\ u.t = Transport!NoTransport /\ u.fds = s.fds \ {s.t.fd}
  BY <1>1 DEF StateRec
<1>6. u \in StateRec
  BY <1>1, <1>2, <1>4, Zenon DEF StateRec
<1> HIDE DEF u
<1>7. Owned(u)
  BY <1>3, <1>5 DEF Owned, Transport!NoTransport
<1> QED BY <1>5, <1>6, <1>7 DEF Sound, u

(* The end of the transport, in the two orders BlueZ has for it. *)
LEMMA ClearSound ==
  ASSUME NEW s, Sound(s)
  PROVE  LET u == Transport!cras_bt_endpoint_suspend(s) IN
         /\ Sound(u) /\ ~u.t.endpoint
         /\ Phase(s.t) = "configured" => Phase(u.t) = "cleared"
         /\ Phase(s.t) = "removed" => Phase(u.t) = "none"
<1>0. s \in StateRec
  BY DEF Sound
<1>1. CASE ~s.t.endpoint
  BY <1>1 DEF Transport!cras_bt_endpoint_suspend, Phase
<1>2. CASE s.t.endpoint
  <2> DEFINE c == Transport!cras_a2dp_suspend_connected_device(s)
             t == [c.t EXCEPT !.endpoint = FALSE]
             u == [c EXCEPT !.t.endpoint = FALSE]
  <2>1. /\ Sound(c) /\ c.d.a2dp = "none" /\ c.d.callback = -1 /\ c.t.exists = s.t.exists
        /\ c.t.endpoint = s.t.endpoint /\ c.t.removed = s.t.removed /\ c.t \in TransportRec
        /\ c \in StateRec
    BY SuspendSound DEF Sound, StateRec
  <2>2. Transport!cras_bt_endpoint_suspend(s) =
          IF s.t.removed THEN Transport!cras_bt_transport_destroy(u) ELSE u
    BY <1>2 DEF Transport!cras_bt_endpoint_suspend
  <2> HIDE DEF c
  <2>3. t \in TransportRec
    <3>1. FALSE \in BOOLEAN
      OBVIOUS
    <3> QED BY <2>1, <3>1, Zenon DEF TransportRec
  <2>4. ~t.endpoint /\ t.exists = c.t.exists /\ t.removed = c.t.removed /\ t.fd = c.t.fd
    BY <2>1 DEF TransportRec
  <2>5. u = [c EXCEPT !.t = t]
    OBVIOUS
  <2> HIDE DEF t, u
  <2>6. u \in StateRec /\ u.t = t /\ u.d = c.d /\ u.fds = c.fds
    BY <2>1, <2>3, <2>5 DEF StateRec
  <2>7. s.t.exists
    BY <1>2 DEF Sound, Owned
  <2>8. CASE s.t.removed
    <3> DEFINE v == Transport!cras_bt_transport_destroy(u)
    <3>1. Sound(v) /\ v.t = Transport!NoTransport
      BY <2>1, <2>4, <2>6, DestroySound DEF Sound, Owned
    <3> HIDE DEF v
    <3> QED BY <1>2, <2>2, <2>7, <2>8, <3>1 DEF v, Phase, Transport!NoTransport
  <2>9. CASE ~s.t.removed
    <3>1. Sound(u)
      BY <2>1, <2>4, <2>6, <2>7, <2>9 DEF Sound, Owned
    <3> QED BY <1>2, <2>1, <2>2, <2>4, <2>6, <2>7, <2>9, <3>1 DEF Phase
  <2> QED BY <2>8, <2>9
<1> QED BY <1>1, <1>2

LEMMA RemoveSound ==
  ASSUME NEW s, Sound(s)
  PROVE  LET u == Transport!cras_bt_transport_remove(s) IN
         /\ Sound(u)
         /\ Phase(s.t) = "configured" => Phase(u.t) = "removed"
         /\ Phase(s.t) = "cleared" => Phase(u.t) = "none"
<1>0. s \in StateRec /\ s.t \in TransportRec
  BY DEF Sound, StateRec
<1>1. CASE ~s.t.exists
  BY <1>1 DEF Transport!cras_bt_transport_remove, Phase
<1>2. CASE s.t.exists /\ s.t.endpoint
  <2> DEFINE t == [s.t EXCEPT !.removed = TRUE]
             u == [s EXCEPT !.t = t]
  <2>1. Transport!cras_bt_transport_remove(s) = u
    BY <1>2 DEF Transport!cras_bt_transport_remove
  <2>2. t \in TransportRec
    <3>1. TRUE \in BOOLEAN
      OBVIOUS
    <3> QED BY <1>0, <3>1, Zenon DEF TransportRec
  <2>3. t.removed /\ t.endpoint = s.t.endpoint /\ t.exists = s.t.exists /\ t.fd = s.t.fd
    BY <1>0 DEF TransportRec
  <2> HIDE DEF t
  <2>4. u \in StateRec /\ u.t = t /\ u.d = s.d /\ u.fds = s.fds
    BY <1>0, <2>2 DEF StateRec
  <2> HIDE DEF u
  <2>5. Sound(u)
    BY <1>2, <2>3, <2>4 DEF Sound, Owned
  <2> QED BY <1>2, <2>1, <2>3, <2>4, <2>5 DEF Phase
<1>3. CASE s.t.exists /\ ~s.t.endpoint
  <2> DEFINE u == Transport!cras_bt_transport_destroy(s)
  <2>1. Transport!cras_bt_transport_remove(s) = u
    BY <1>3 DEF Transport!cras_bt_transport_remove
  <2>2. s.d.a2dp = "none" /\ s.d.callback = -1 /\ s.fds = {s.t.fd} \ {-1}
    BY <1>3 DEF Sound, Owned
  <2>3. Sound(u) /\ u.t = Transport!NoTransport
    BY <1>0, <2>2, DestroySound
  <2> HIDE DEF u
  <2> QED BY <1>3, <2>1, <2>3 DEF Phase, Transport!NoTransport
<1> QED BY <1>1, <1>2, <1>3

LEMMA ResetSound ==
  ASSUME NEW s, Sound(s)
  PROVE  LET u == Transport!cras_bt_transport_reset(s) IN
         Sound(u) /\ Phase(u.t) = "none"
<1> DEFINE c == Transport!cras_bt_endpoint_suspend(s)
           u == Transport!cras_bt_transport_destroy(c)
<1>1. Sound(c) /\ ~c.t.endpoint
  BY ClearSound
<1>2. Transport!cras_bt_transport_reset(s) = IF c.t.exists THEN u ELSE c
  BY DEF Transport!cras_bt_transport_reset
<1>3. c.d.a2dp = "none" /\ c.d.callback = -1 /\ c.fds = {c.t.fd} \ {-1} /\ c \in StateRec
  BY <1>1 DEF Sound, Owned
<1> HIDE DEF c
<1>4. Sound(u) /\ u.t = Transport!NoTransport
  BY <1>3, DestroySound
<1> HIDE DEF u
<1> QED BY <1>1, <1>2, <1>4 DEF Phase, Transport!NoTransport

(* The volume, which goes to the headset as a call. *)
LEMMA SetVolumeSound ==
  ASSUME NEW s, Sound(s)
  PROVE  LET u == Transport!set_volume(s) IN Sound(u) /\ u.t = s.t /\ u.d = s.d /\ u.fds = s.fds
<1> DEFINE call == [call |-> "Set", volume |-> Transport!ToHeadset(s.d.a2dpVolume)]
           c == Append(s.calls, call)
           u == [s EXCEPT !.calls = c]
<1>0. s \in StateRec /\ s.calls \in Seq(CallRec) /\ s.d.a2dpVolume \in Int
  BY StateFields DEF Sound
<1>1. Transport!set_volume(s) = IF s.d.use_hardware_volume THEN u ELSE s
  BY DEF Transport!set_volume, Transport!cras_bt_transport_set_volume
<1>2. Transport!ToHeadset(s.d.a2dpVolume) \in Int
  BY <1>0 DEF Transport!ToHeadset
<1>3. call \in CallRec
  BY <1>2 DEF CallRec
<1> HIDE DEF call
<1>4. c \in Seq(CallRec)
  BY <1>0, <1>3
<1> HIDE DEF c
<1>5. u \in StateRec /\ u.t = s.t /\ u.d = s.d /\ u.fds = s.fds
  BY <1>0, <1>4 DEF StateRec
<1> HIDE DEF u
<1>6. Sound(u)
  BY <1>5 DEF Sound, Owned
<1> QED BY <1>1, <1>5, <1>6

(* A change of the iodev that is not of its state and its callback. *)
LEMMA IodevSound ==
  ASSUME NEW s, Sound(s), NEW d \in IodevRec, d.a2dp = s.d.a2dp, d.callback = s.d.callback
  PROVE  LET u == [s EXCEPT !.d = d] IN Sound(u) /\ u.t = s.t /\ u.d = d /\ u.fds = s.fds
<1> DEFINE u == [s EXCEPT !.d = d]
<1>1. u \in StateRec /\ u.t = s.t /\ u.d = d /\ u.fds = s.fds
  BY DEF Sound, StateRec
<1> HIDE DEF u
<1>2. Sound(u)
  BY <1>1 DEF Sound, Owned
<1> QED BY <1>1, <1>2 DEF u

LEMMA SetBtVolumeSound ==
  ASSUME NEW s, Sound(s)
  PROVE  LET u == Transport!set_bt_volume(s) IN Sound(u) /\ u.t = s.t
<1> DEFINE d == [s.d EXCEPT !.a2dpVolume = s.d.volume]
           c == [s EXCEPT !.d = d]
<1>1. Transport!set_bt_volume(s) = Transport!set_volume(c)
  BY DEF Transport!set_bt_volume
<1>2. s.d \in IodevRec /\ s.d.volume \in Int
  BY StateFields DEF Sound
<1>3. d \in IodevRec /\ d.a2dp = s.d.a2dp /\ d.callback = s.d.callback
  BY <1>2 DEF IodevRec
<1> HIDE DEF d
<1>4. Sound(c) /\ c.t = s.t
  BY <1>3, IodevSound
<1> HIDE DEF c
<1> QED BY <1>1, <1>4, SetVolumeSound

(* BlueZ reports the volume. *)
LEMMA UpdateDeviceSound ==
  ASSUME NEW s, Sound(s)
  PROVE  LET u == Transport!cras_bt_transport_update_device(s) IN Sound(u) /\ u.t = s.t
<1> DEFINE v == IF s.d.a2dp = "none" THEN s.d.volume ELSE Transport!ToNode(s.t.volume)
           d == [s.d EXCEPT !.use_hardware_volume = TRUE, !.volume = v]
           u == [s EXCEPT !.d = d]
<1>1. Transport!cras_bt_transport_update_device(s) = u
  BY DEF Transport!cras_bt_transport_update_device
<1>2. s.d \in IodevRec /\ v \in Int
  BY StateFields DEF Sound, Transport!ToNode
<1> HIDE DEF v
<1>3. d \in IodevRec
  <2>1. TRUE \in BOOLEAN
    OBVIOUS
  <2> QED BY <1>2, <2>1, Zenon DEF IodevRec
<1>4. d.a2dp = s.d.a2dp /\ d.callback = s.d.callback
  BY <1>2 DEF IodevRec
<1> HIDE DEF d
<1> QED BY <1>1, <1>3, <1>4, IodevSound

LEMMA TransportSound ==
  ASSUME NEW s, Sound(s), NEW t \in TransportRec, t.exists = s.t.exists,
         t.endpoint = s.t.endpoint, t.removed = s.t.removed, t.fd = s.t.fd
  PROVE  LET u == [s EXCEPT !.t = t] IN
         Sound(u) /\ u.t = t /\ u.d = s.d /\ u.fds = s.fds /\ Phase(u.t) = Phase(s.t)
<1> DEFINE u == [s EXCEPT !.t = t]
<1>1. u \in StateRec /\ u.t = t /\ u.d = s.d /\ u.fds = s.fds
  BY DEF Sound, StateRec
<1> HIDE DEF u
<1>2. Sound(u) /\ Phase(u.t) = Phase(s.t)
  BY <1>1 DEF Sound, Owned, Phase
<1> QED BY <1>1, <1>2 DEF u

(* SetConfiguration finds no transport: nothing of an earlier one is lost. *)
LEMMA ConfigureSound ==
  ASSUME NEW s, Sound(s), NEW v \in Int, ~s.t.exists
  PROVE  LET u == Transport!cras_bt_endpoint_set_configuration(s, v) IN
         Sound(u) /\ Phase(u.t) = "configured"
<1> DEFINE t == [Transport!NoTransport EXCEPT !.exists = TRUE, !.endpoint = TRUE, !.volume = v]
           c == [s EXCEPT !.t = t]
<1>0. s \in StateRec
  BY DEF Sound
<1>1. t \in TransportRec
  <2>1. Transport!NoTransport \in TransportRec /\ TRUE \in BOOLEAN
    BY DEF Transport!NoTransport, TransportRec
  <2> QED BY <2>1, Zenon DEF TransportRec
<1>2. t.exists /\ t.endpoint /\ ~t.removed /\ t.fd = -1
  BY DEF Transport!NoTransport
<1>3. Transport!cras_bt_endpoint_set_configuration(s, v) =
        IF v = -1 THEN c ELSE Transport!cras_bt_transport_update_device(c)
  BY DEF Transport!cras_bt_endpoint_set_configuration
<1> HIDE DEF t
<1>4. c \in StateRec /\ c.t = t /\ c.d = s.d /\ c.fds = s.fds
  BY <1>0, <1>1 DEF StateRec
<1> HIDE DEF c
<1>5. Sound(c) /\ Phase(c.t) = "configured"
  BY <1>2, <1>4 DEF Sound, Owned, Phase
<1> QED BY <1>3, <1>5, UpdateDeviceSound

(* The kernel has a descriptor next to the one that is open. *)
LEMMA NewDescriptorFree ==
  ASSUME NEW s, Sound(s)
  PROVE  /\ Transport!NewDescriptor(s) \in Descriptors \ s.fds
         /\ Transport!NewDescriptor(s) \in Int /\ Transport!NewDescriptor(s) # -1
<1> DEFINE free == Descriptors \ s.fds
           R == {pair \in Nat \X Nat : pair[1] < pair[2]}
<1>1. free \subseteq Nat
  BY BluetoothAssumption
<1>2. free # {}
  <2>1. s.fds \subseteq {s.t.fd}
    BY DEF Sound, Owned
  <2> QED BY <2>1, BluetoothAssumption
<1>3. IsWellFoundedOn(R, Nat)
  BY NatLessThanWellFounded DEF OpToRel
<1> HIDE DEF free
<1>4. PICK n \in free : \A m \in free : ~(<<m, n>> \in R)
  BY <1>1, <1>2, <1>3, WFMin
<1>5. \A m \in free : n <= m
  <2> TAKE m \in free
  <2>1. n \in Nat /\ m \in Nat
    BY <1>1
  <2>2. ~(m < n)
    BY <1>4, <2>1
  <2> QED BY <2>1, <2>2
<1>6. Transport!NewDescriptor(s) \in free
  BY <1>5 DEF Transport!NewDescriptor, free
<1> QED BY <1>1, <1>6 DEF free

LEMMA AcquireSound ==
  ASSUME NEW s, Sound(s), s.t.exists, s.d.a2dp = "closed"
  PROVE  LET u == Transport!cras_bt_transport_acquire(s) IN
         Sound(u) /\ u.d = s.d /\ u.t.fd # -1 /\ Phase(u.t) = Phase(s.t)
<1>0. s \in StateRec
  BY DEF Sound
<1>1. CASE s.t.fd # -1
  BY <1>1 DEF Transport!cras_bt_transport_acquire
<1>2. CASE s.t.fd = -1
  <2> DEFINE n == Transport!NewDescriptor(s)
             t == [s.t EXCEPT !.fd = n]
             f == s.fds \union {n}
             u == [s EXCEPT !.t = t, !.fds = f]
  <2>1. Transport!cras_bt_transport_acquire(s) = u
    BY <1>2 DEF Transport!cras_bt_transport_acquire
  <2>2. n \in Int /\ n # -1 /\ n \notin s.fds
    BY NewDescriptorFree
  <2> HIDE DEF n
  <2>3. /\ t \in TransportRec /\ t.fd = n /\ t.exists = s.t.exists /\ t.endpoint = s.t.endpoint
        /\ t.removed = s.t.removed
    BY <1>0, <2>2 DEF StateRec, TransportRec
  <2>4. f \in SUBSET Int /\ f = {n}
    BY <1>0, <1>2, <2>2 DEF StateRec, Sound, Owned
  <2> HIDE DEF t, f
  <2>5. u \in StateRec
    BY <1>0, <2>3, <2>4, Zenon DEF StateRec
  <2>6. u.t = t /\ u.d = s.d /\ u.fds = f
    BY <1>0 DEF StateRec
  <2> HIDE DEF u
  <2>7. Sound(u)
    BY <1>2, <2>2, <2>3, <2>4, <2>5, <2>6 DEF Sound, Owned
  <2> QED BY <2>1, <2>2, <2>3, <2>6, <2>7 DEF Phase
<1> QED BY <1>1, <1>2

(* A descriptor that is not needed is closed, and no other. *)
LEMMA TryAcquireSound ==
  ASSUME NEW s, Sound(s)
  PROVE  LET u == Transport!cras_bt_transport_try_acquire(s) IN Sound(u) /\ u.t = s.t
<1> DEFINE n == Transport!NewDescriptor(s)
           f == (s.fds \union {n}) \ {n}
           u == [s EXCEPT !.fds = f]
<1>0. s \in StateRec /\ n \notin s.fds /\ n # -1 /\ s.fds \in SUBSET Int
  BY NewDescriptorFree, StateFields DEF Sound
<1>1. s.t.fd # n
  BY <1>0 DEF Sound, Owned
<1>2. Transport!cras_bt_transport_try_acquire(s) = u
  BY <1>0, <1>1 DEF Transport!cras_bt_transport_try_acquire, StateRec
<1>3. f = s.fds
  BY <1>0
<1> HIDE DEF n, f
<1>4. u \in StateRec /\ u.t = s.t /\ u.d = s.d /\ u.fds = s.fds
  BY <1>0, <1>3 DEF StateRec
<1> HIDE DEF u
<1>5. Sound(u)
  BY <1>4 DEF Sound, Owned
<1> QED BY <1>2, <1>4, <1>5

LEMMA OpenSound ==
  ASSUME NEW memory \in BOOLEAN, NEW acquired \in BOOLEAN, Sound(Transport!State), dev.a2dp = "closed"
  PROVE  LET u == Transport!configure_dev(acquired, memory) IN
         Sound(u) /\ Phase(u.t) = Phase(transport)
<1> DEFINE o == Transport!State
           a == Transport!cras_bt_transport_acquire(o)
           s == Transport!set_volume(a)
           d == [s.d EXCEPT !.a2dp = "open", !.callback = s.t.fd]
           u == [s EXCEPT !.d = d]
<1>1. Transport!configure_dev(acquired, memory) =
        IF ~acquired THEN o ELSE IF memory THEN u ELSE s
  BY DEF Transport!configure_dev
<1>2. o.t = transport /\ o.d = dev
  BY DEF Transport!State
<1>3. o.t.exists /\ o.d.a2dp = "closed"
  BY <1>2 DEF Sound, Owned
<1> HIDE DEF o
<1>4. Sound(a) /\ a.d = o.d /\ a.t.fd # -1 /\ Phase(a.t) = Phase(o.t)
  BY <1>3, AcquireSound DEF o
<1> HIDE DEF a
<1>5. Sound(s) /\ s.t = a.t /\ s.d = a.d
  BY <1>4, SetVolumeSound
<1> HIDE DEF s
<1>6. s \in StateRec /\ s.d \in IodevRec /\ s.t.fd \in Int
  BY <1>5, StateFields DEF Sound
<1>7. d \in IodevRec
  <2>1. "open" \in {"none", "closed", "open"}
    OBVIOUS
  <2> QED BY <1>6, <2>1, Zenon DEF IodevRec
<1>8. d.a2dp = "open" /\ d.callback = s.t.fd
  BY <1>6 DEF IodevRec
<1> HIDE DEF d
<1>9. u \in StateRec /\ u.t = s.t /\ u.d = d /\ u.fds = s.fds
  BY <1>6, <1>7 DEF StateRec
<1> HIDE DEF u
<1>10. Sound(u)
  <2>1. s.t.endpoint
    BY <1>3, <1>4, <1>5 DEF Sound, Owned
  <2> QED BY <1>4, <1>5, <1>8, <1>9, <2>1 DEF Sound, Owned
<1> QED BY <1>1, <1>2, <1>4, <1>5, <1>9, <1>10 DEF o
-----------------------------------------------------------------------------
(* The messages of BlueZ. *)

LEMMA PhaseRange == \A t : Phase(t) \in Phases
  BY DEF Phase, Phases

LEMMA SessionPhaseRange == SessionPhase \in Phases
  BY DEF SessionPhase, Phases

(* A message that leads to where BlueZ is now joins the queue. *)
LEMMA AnnouncedAppend ==
  ASSUME Announced, signals \in Seq(SignalRec), NEW m \in SignalRec,
         signals' = Append(signals, m), Phase(transport)' = Phase(transport),
         Leads(m, SessionPhase, SessionPhase')
  PROVE  Announced' /\ signals' \in Seq(SignalRec)
<1>1. PICK p \in [1 .. Len(signals) + 1 -> Phases] :
        /\ p[1] = Phase(transport) /\ p[Len(signals) + 1] = SessionPhase
        /\ \A i \in 1..Len(signals) : Leads(signals[i], p[i], p[i + 1])
  BY DEF Announced
<1> DEFINE n == Len(signals)
           q == [i \in 1 .. n + 2 |-> IF i = n + 2 THEN SessionPhase' ELSE p[i]]
<1>2. /\ n \in Nat /\ Len(signals') = n + 1 /\ signals' \in Seq(SignalRec)
      /\ signals'[n + 1] = m /\ \A i \in 1..n : signals'[i] = signals[i]
  OBVIOUS
<1>3. SessionPhase' \in Phases
  BY DEF SessionPhase, Phases
<1> HIDE DEF n
<1>4. q \in [1 .. Len(signals') + 1 -> Phases]
  BY <1>1, <1>2, <1>3 DEF n
<1>5. q[1] = Phase(transport)' /\ q[Len(signals') + 1] = SessionPhase'
  BY <1>1, <1>2 DEF n
<1>6. ASSUME NEW i \in 1..Len(signals') PROVE Leads(signals'[i], q[i], q[i + 1])
  <2>1. CASE i = n + 1
    <3>1. q[i] = p[n + 1] /\ q[i + 1] = SessionPhase'
      BY <1>2, <2>1
    <3> QED BY <1>1, <1>2, <2>1, <3>1 DEF n
  <2>2. CASE i # n + 1
    <3>1. i \in 1..n /\ q[i] = p[i] /\ q[i + 1] = p[i + 1]
      BY <1>2, <2>2
    <3> QED BY <1>1, <1>2, <3>1 DEF n
  <2> QED BY <2>1, <2>2
<1> HIDE DEF q
<1> QED BY <1>2, <1>4, <1>5, <1>6 DEF Announced

(* The oldest message is taken. *)
LEMMA AnnouncedTail ==
  ASSUME Announced, signals \in Seq(SignalRec), signals # << >>, signals' = Tail(signals),
         SessionPhase' = SessionPhase
  PROVE  /\ \E q \in Phases : Leads(Head(signals), Phase(transport), q)
         /\ signals' \in Seq(SignalRec) /\ Head(signals) \in SignalRec
         /\ (\A q \in Phases : Leads(Head(signals), Phase(transport), q) => Phase(transport)' = q)
              => Announced'
<1>1. PICK p \in [1 .. Len(signals) + 1 -> Phases] :
        /\ p[1] = Phase(transport) /\ p[Len(signals) + 1] = SessionPhase
        /\ \A i \in 1..Len(signals) : Leads(signals[i], p[i], p[i + 1])
  BY DEF Announced
<1> DEFINE n == Len(signals)
           q == [i \in 1 .. n |-> p[i + 1]]
<1>2. /\ n \in Nat \ {0} /\ Len(signals') = n - 1 /\ signals' \in Seq(SignalRec)
      /\ Head(signals) = signals[1] /\ Head(signals) \in SignalRec
      /\ \A i \in 1 .. n - 1 : signals'[i] = signals[i + 1]
  OBVIOUS
<1> HIDE DEF n
<1>3. p[2] \in Phases /\ Leads(Head(signals), Phase(transport), p[2])
  BY <1>1, <1>2 DEF n
<1>4. ASSUME \A x \in Phases : Leads(Head(signals), Phase(transport), x) => Phase(transport)' = x
      PROVE  Announced'
  <2>1. q \in [1 .. Len(signals') + 1 -> Phases]
    BY <1>1, <1>2 DEF n
  <2>2. q[1] = Phase(transport)' /\ q[Len(signals') + 1] = SessionPhase'
    <3>1. q[1] = p[2] /\ q[n] = p[n + 1] /\ Len(signals') + 1 = n
      BY <1>2
    <3> QED BY <1>1, <1>3, <1>4, <3>1 DEF n
  <2>3. ASSUME NEW i \in 1..Len(signals') PROVE Leads(signals'[i], q[i], q[i + 1])
    <3>1. q[i] = p[i + 1] /\ q[i + 1] = p[i + 1 + 1] /\ i + 1 \in 1..n /\ i \in 1 .. n - 1
      BY <1>2
    <3> QED BY <1>1, <1>2, <3>1 DEF n
  <2> HIDE DEF q
  <2> QED BY <2>1, <2>2, <2>3 DEF Announced
<1> QED BY <1>2, <1>3, <1>4

LEMMA BecomeSound ==
  ASSUME NEW u, Sound(u), Transport!Become(u)
  PROVE  Sound(Transport!State)' /\ transport' = u.t
<1>1. /\ transport' = u.t /\ dev' = u.d /\ fds' = u.fds /\ calls' = u.calls /\ u \in StateRec
  BY DEF Transport!Become, Sound
<1> DEFINE v == [t |-> u.t, d |-> u.d, fds |-> u.fds, calls |-> u.calls]
<1>2. v \in StateRec /\ v.t = u.t /\ v.d = u.d /\ v.fds = u.fds
  BY <1>1 DEF StateRec
<1> HIDE DEF v
<1>3. Sound(v)
  BY <1>2 DEF Sound, Owned
<1>4. Transport!State' = v
  BY <1>1 DEF Transport!State, v
<1>5. Sound(Transport!State')
  BY <1>3, <1>4
<1> QED BY <1>1, <1>5 DEF Sound, Owned

(* A step of the main thread: the messages stay as they are. *)
LEMMA MainThreadStep ==
  ASSUME TransportInv, NEW u, Sound(u), Transport!Become(u), Phase(u.t) = Phase(transport),
         UNCHANGED signals, session' \in SessionRec,
         session'.exported = session.exported, session'.configured = session.configured
  PROVE  TransportInv'
<1>1. Sound(Transport!State)' /\ Phase(transport)' = Phase(transport)
  BY BecomeSound DEF Phase
<1>2. SessionPhase' = SessionPhase
  BY DEF SessionPhase
<1>3. Announced'
  BY <1>1, <1>2 DEF TransportInv, Announced
<1> QED BY <1>1, <1>3 DEF TransportInv

LEMMA InitTransportInv == Transport!Init => TransportInv
<1> SUFFICES ASSUME Transport!Init PROVE TransportInv
  OBVIOUS
<1> DEFINE s == Transport!State
<1>1. /\ transport = Transport!NoTransport /\ dev = Transport!NoIodev /\ fds = {} /\ calls = << >>
      /\ signals = << >> /\ session = Transport!NoSession
  BY DEF Transport!Init
<1>2. transport \in TransportRec /\ dev \in IodevRec /\ session \in SessionRec
  BY <1>1 DEF Transport!NoTransport, Transport!NoIodev, Transport!NoSession, TransportRec,
              IodevRec, SessionRec
<1>3. s \in StateRec /\ s.t = transport /\ s.d = dev /\ s.fds = fds
  BY <1>1, <1>2 DEF StateRec, Transport!State
<1> HIDE DEF s
<1>4. Sound(s)
  BY <1>1, <1>3 DEF Sound, Owned, Transport!NoTransport, Transport!NoIodev
<1>5. Phase(transport) = "none" /\ SessionPhase = "none"
  BY <1>1 DEF Phase, SessionPhase, Transport!NoTransport, Transport!NoSession
<1>6. Announced
  <2> DEFINE p == [i \in 1 .. Len(signals) + 1 |-> "none"]
  <2>0. Len(signals) = 0
    BY <1>1
  <2>1. p \in [1 .. Len(signals) + 1 -> Phases] /\ p[1] = "none" /\ p[Len(signals) + 1] = "none"
    BY <2>0 DEF Phases
  <2> HIDE DEF p
  <2> QED BY <1>5, <2>0, <2>1 DEF Announced
<1>7. signals \in Seq(SignalRec)
  BY <1>1
<1> QED BY <1>2, <1>4, <1>6, <1>7 DEF TransportInv, s

LEMMA DispatchStep ==
  ASSUME TransportInv, Transport!Dispatch
  PROVE  TransportInv'
<1> DEFINE m == Head(signals)
           o == Transport!State
<1>0. /\ Sound(o) /\ o.t = transport /\ signals \in Seq(SignalRec) /\ Announced
      /\ session \in SessionRec /\ signals # << >> /\ signals' = Tail(signals)
  BY DEF TransportInv, Transport!State, Transport!Dispatch
<1>1. \E a \in BOOLEAN : session' = [session EXCEPT !.acquired = a]
  <2>1. \E a : session' = [session EXCEPT !.acquired = (session.acquired \/ a)]
    BY Zenon DEF Transport!Dispatch
  <2>2. ASSUME NEW a PROVE (session.acquired \/ a) \in BOOLEAN
    BY Zenon
  <2> QED BY <2>1, <2>2, Zenon
<1>2. /\ session' \in SessionRec /\ session'.exported = session.exported
      /\ session'.configured = session.configured
  BY <1>0, <1>1 DEF SessionRec
<1>3. SessionPhase' = SessionPhase
  BY <1>2 DEF SessionPhase
<1>4. /\ \E q \in Phases : Leads(m, Phase(transport), q)
      /\ signals' \in Seq(SignalRec) /\ m \in SignalRec
      /\ (\A q \in Phases : Leads(m, Phase(transport), q) => Phase(transport)' = q) => Announced'
  BY <1>0, <1>3, AnnouncedTail
<1>5. ASSUME NEW u, Sound(u), Transport!Become(u),
             \A q \in Phases : Leads(m, Phase(transport), q) => Phase(u.t) = q
      PROVE  TransportInv'
  <2>1. Sound(Transport!State)' /\ Phase(transport)' = Phase(u.t)
    BY <1>5, BecomeSound DEF Phase
  <2> QED BY <1>2, <1>4, <1>5, <2>1 DEF TransportInv
<1> DEFINE try == m.signal = "State" /\ Transport!WantsTryAcquire(o, m.state)
<1>6. CASE m.signal = "State"
  <2> DEFINE t == [o.t EXCEPT !.state = m.state]
             h == IF o.t.exists THEN [o EXCEPT !.t = t] ELSE o
  <2>1. Transport!Become(IF try /\ Transport!Available
                         THEN Transport!cras_bt_transport_try_acquire(h) ELSE h)
    <3>1. Transport!cras_bt_transport_update_properties(o, m) = h
      BY <1>6 DEF Transport!cras_bt_transport_update_properties
    <3> QED BY <1>6, <3>1 DEF Transport!Dispatch
  <2>2. m.state \in {"idle", "pending", "active"}
    BY <1>4, <1>6 DEF SignalRec
  <2>3. /\ t \in TransportRec /\ t.exists = o.t.exists /\ t.endpoint = o.t.endpoint
        /\ t.removed = o.t.removed /\ t.fd = o.t.fd
    BY <1>0, <2>2 DEF Sound, StateRec, TransportRec
  <2> HIDE DEF t, m, o, try
  <2>4. Sound(h) /\ Phase(h.t) = Phase(o.t)
    BY <1>0, <2>3, TransportSound
  <2> HIDE DEF h
  <2>5. /\ Sound(Transport!cras_bt_transport_try_acquire(h))
        /\ Transport!cras_bt_transport_try_acquire(h).t = h.t
    BY <2>4, TryAcquireSound
  <2>6. \A q \in Phases : Leads(m, Phase(transport), q) => Phase(h.t) = q
    BY <1>0, <1>6, <2>4 DEF Leads
  <2> QED BY <1>5, <2>1, <2>4, <2>5, <2>6
<1>7. CASE m.signal = "Volume"
  <2> DEFINE t == [o.t EXCEPT !.volume = m.value]
             c == [o EXCEPT !.t = t]
             h == IF o.t.exists THEN Transport!cras_bt_transport_update_device(c) ELSE o
  <2>1. Transport!Become(h)
    <3>1. Transport!cras_bt_transport_update_properties(o, m) = h
      BY <1>7 DEF Transport!cras_bt_transport_update_properties
    <3> QED BY <1>7, <3>1 DEF Transport!Dispatch
  <2>2. m.value \in Int
    BY <1>4, <1>7 DEF SignalRec
  <2>3. /\ t \in TransportRec /\ t.exists = o.t.exists /\ t.endpoint = o.t.endpoint
        /\ t.removed = o.t.removed /\ t.fd = o.t.fd
    BY <1>0, <2>2 DEF Sound, StateRec, TransportRec
  <2> HIDE DEF t, m, o, try
  <2>4. Sound(c) /\ Phase(c.t) = Phase(o.t)
    BY <1>0, <2>3, TransportSound
  <2> HIDE DEF c
  <2>5. Sound(h) /\ Phase(h.t) = Phase(o.t)
    BY <1>0, <2>4, UpdateDeviceSound
  <2> HIDE DEF h
  <2>6. \A q \in Phases : Leads(m, Phase(transport), q) => Phase(h.t) = q
    BY <1>0, <1>7, <2>5 DEF Leads
  <2> QED BY <1>5, <2>1, <2>5, <2>6
<1>8. CASE m.signal = "SetConfiguration"
  <2> DEFINE h == Transport!cras_bt_endpoint_set_configuration(o, m.value)
  <2>1. Transport!Become(h)
    BY <1>8 DEF Transport!Dispatch
  <2>2. m.value \in Int
    BY <1>4, <1>8 DEF SignalRec
  <2>3. ~o.t.exists
    BY <1>0, <1>4, <1>8 DEF Leads, Phase
  <2> HIDE DEF m, o, try
  <2>4. Sound(h) /\ Phase(h.t) = "configured"
    BY <1>0, <2>2, <2>3, ConfigureSound
  <2> HIDE DEF h
  <2>5. \A q \in Phases : Leads(m, Phase(transport), q) => Phase(h.t) = q
    BY <1>8, <2>4 DEF Leads
  <2> QED BY <1>5, <2>1, <2>4, <2>5
<1>9. CASE m.signal = "ClearConfiguration"
  <2> DEFINE h == Transport!cras_bt_endpoint_suspend(o)
  <2>1. Transport!Become(h)
    BY <1>9 DEF Transport!Dispatch
  <2> HIDE DEF m, o, try
  <2>2. /\ Sound(h)
        /\ Phase(o.t) = "configured" => Phase(h.t) = "cleared"
        /\ Phase(o.t) = "removed" => Phase(h.t) = "none"
    BY <1>0, ClearSound
  <2> HIDE DEF h
  <2>3. \A q \in Phases : Leads(m, Phase(transport), q) => Phase(h.t) = q
    BY <1>0, <1>9, <2>2 DEF Leads
  <2> QED BY <1>5, <2>1, <2>2, <2>3
<1>10. CASE m.signal = "InterfacesRemoved"
  <2> DEFINE h == Transport!cras_bt_transport_remove(o)
  <2>1. Transport!Become(h)
    BY <1>10 DEF Transport!Dispatch
  <2> HIDE DEF m, o, try
  <2>2. /\ Sound(h)
        /\ Phase(o.t) = "configured" => Phase(h.t) = "removed"
        /\ Phase(o.t) = "cleared" => Phase(h.t) = "none"
    BY <1>0, RemoveSound
  <2> HIDE DEF h
  <2>3. \A q \in Phases : Leads(m, Phase(transport), q) => Phase(h.t) = q
    BY <1>0, <1>10, <2>2 DEF Leads
  <2> QED BY <1>5, <2>1, <2>2, <2>3
<1>11. CASE m.signal = "NameOwnerChanged"
  <2> DEFINE h == Transport!cras_bt_transport_reset(o)
  <2>1. Transport!Become(h)
    BY <1>11 DEF Transport!Dispatch
  <2> HIDE DEF m, o, try
  <2>2. Sound(h) /\ Phase(h.t) = "none"
    BY <1>0, ResetSound
  <2> HIDE DEF h
  <2>3. \A q \in Phases : Leads(m, Phase(transport), q) => Phase(h.t) = q
    BY <1>0, <1>11, <2>2 DEF Leads
  <2> QED BY <1>5, <2>1, <2>2, <2>3
<1> QED BY <1>4, <1>6, <1>7, <1>8, <1>9, <1>10, <1>11 DEF Leads

LEMMA StartStep ==
  ASSUME TransportInv, Transport!cras_a2dp_start
  PROVE  TransportInv'
<1> DEFINE o == Transport!State
           c == Transport!cras_a2dp_suspend_connected_device(o)
           d == [c.d EXCEPT !.a2dp = "closed"]
           u == [c EXCEPT !.d = d]
<1>1. Transport!Become(u) /\ UNCHANGED <<signals, session>> /\ o.t.endpoint /\ o.t = transport
  BY DEF Transport!cras_a2dp_start, Transport!State
<1>2. Sound(o) /\ session \in SessionRec
  BY DEF TransportInv
<1> HIDE DEF o
<1>3. /\ Sound(c) /\ c.d.callback = -1 /\ c.t.exists = o.t.exists
      /\ c.t.endpoint = o.t.endpoint /\ c.t.removed = o.t.removed
  BY <1>2, SuspendSound
<1> HIDE DEF c
<1>4. c \in StateRec /\ c.d \in IodevRec
  BY <1>3, StateFields DEF Sound
<1>5. d \in IodevRec
  <2>1. "closed" \in {"none", "closed", "open"}
    OBVIOUS
  <2> QED BY <1>4, <2>1, Zenon DEF IodevRec
<1>6. d.a2dp = "closed" /\ d.callback = -1
  BY <1>3, <1>4 DEF IodevRec
<1> HIDE DEF d
<1>7. u \in StateRec /\ u.t = c.t /\ u.d = d /\ u.fds = c.fds
  BY <1>4, <1>5 DEF StateRec
<1> HIDE DEF u
<1>8. Sound(u)
  BY <1>1, <1>3, <1>6, <1>7 DEF Sound, Owned
<1>9. Phase(u.t) = Phase(transport)
  BY <1>1, <1>3, <1>7 DEF Phase
<1> QED BY <1>1, <1>2, <1>8, <1>9, MainThreadStep

LEMMA OpenStep ==
  ASSUME TransportInv, Transport!Open
  PROVE  TransportInv'
<1>1. PICK memory \in BOOLEAN :
        Transport!Become(Transport!configure_dev(Transport!Available \/ transport.fd # -1, memory))
  BY DEF Transport!Open
<1> DEFINE acquired == Transport!Available \/ transport.fd # -1
           u == Transport!configure_dev(acquired, memory)
<1>2. acquired \in BOOLEAN
  BY Zenon
<1>3. Sound(Transport!State) /\ dev.a2dp = "closed" /\ session \in SessionRec /\ UNCHANGED signals
  BY DEF TransportInv, Transport!Open
<1>4. Transport!Become(u)
  BY <1>1
<1> HIDE DEF acquired
<1>5. Sound(u) /\ Phase(u.t) = Phase(transport)
  BY <1>2, <1>3, OpenSound
<1> HIDE DEF u
<1>6. \E a \in BOOLEAN : session' = [session EXCEPT !.acquired = a]
  <2>1. \E a : session' = [session EXCEPT !.acquired = (session.acquired \/ a)]
    BY Zenon DEF Transport!Open
  <2>2. ASSUME NEW a PROVE (session.acquired \/ a) \in BOOLEAN
    BY Zenon
  <2> QED BY <2>1, <2>2, Zenon
<1>7. /\ session' \in SessionRec /\ session'.exported = session.exported
      /\ session'.configured = session.configured
  BY <1>3, <1>6 DEF SessionRec
<1> QED BY <1>3, <1>4, <1>5, <1>7, MainThreadStep

LEMMA CloseStep ==
  ASSUME TransportInv, Transport!Close
  PROVE  TransportInv'
<1> DEFINE o == Transport!State
           u == Transport!close_dev(o, TRUE)
<1>1. /\ Transport!Become(u) /\ UNCHANGED signals /\ o.t = transport /\ o.d.a2dp = "open"
      /\ session' = [session EXCEPT !.acquired = FALSE]
  BY DEF Transport!Close, Transport!State
<1>2. Sound(o) /\ session \in SessionRec
  BY DEF TransportInv
<1> HIDE DEF o
<1>3. /\ Sound(u) /\ u.t.exists = o.t.exists /\ u.t.endpoint = o.t.endpoint
      /\ u.t.removed = o.t.removed
  <2>1. TRUE \in BOOLEAN
    OBVIOUS
  <2> QED BY <1>1, <1>2, <2>1, CloseSound
<1> HIDE DEF u
<1>4. Phase(u.t) = Phase(transport)
  BY <1>1, <1>3 DEF Phase
<1>5. /\ session' \in SessionRec /\ session'.exported = session.exported
      /\ session'.configured = session.configured
  BY <1>1, <1>2 DEF SessionRec
<1> QED BY <1>1, <1>3, <1>4, <1>5, MainThreadStep

LEMMA SuspendStep ==
  ASSUME TransportInv, Transport!Suspend
  PROVE  TransportInv'
<1> DEFINE o == Transport!State
           u == Transport!cras_a2dp_suspend_connected_device(o)
<1>1. Transport!Become(u) /\ UNCHANGED <<signals, session>> /\ o.t = transport
  BY DEF Transport!Suspend, Transport!State
<1>2. Sound(o) /\ session \in SessionRec
  BY DEF TransportInv
<1> HIDE DEF o
<1>3. /\ Sound(u) /\ u.t.exists = o.t.exists /\ u.t.endpoint = o.t.endpoint
      /\ u.t.removed = o.t.removed
  BY <1>2, SuspendSound
<1> HIDE DEF u
<1>4. Phase(u.t) = Phase(transport)
  BY <1>1, <1>3 DEF Phase
<1> QED BY <1>1, <1>2, <1>3, <1>4, MainThreadStep

(* The volume of the user, and of an iodev that replaces another one. *)
LEMMA VolumeStep ==
  ASSUME TransportInv,
         \/ Transport!update_active_node
         \/ \E v \in NodeVolumes : Transport!set_node_volume(v)
  PROVE  TransportInv'
<1> DEFINE o == Transport!State
<1>1. UNCHANGED <<signals, session>> /\ o.t = transport /\ Sound(o) /\ session \in SessionRec
  BY DEF Transport!update_active_node, Transport!set_node_volume, Transport!State, TransportInv
<1>2. ASSUME NEW c, Sound(c), c.t = o.t, Transport!Become(Transport!set_bt_volume(c))
      PROVE  TransportInv'
  <2> DEFINE u == Transport!set_bt_volume(c)
  <2>1. Sound(u) /\ u.t = c.t
    BY <1>2, SetBtVolumeSound
  <2>2. Transport!Become(u)
    BY <1>2
  <2> HIDE DEF u, o
  <2> QED BY <1>1, <1>2, <2>1, <2>2, MainThreadStep
<1>3. CASE Transport!update_active_node
  BY <1>1, <1>2, <1>3 DEF Transport!update_active_node
<1>4. ASSUME NEW v \in NodeVolumes, Transport!set_node_volume(v) PROVE TransportInv'
  <2> DEFINE d == [o.d EXCEPT !.volume = v]
             c == [o EXCEPT !.d = d]
  <2>1. Transport!Become(Transport!set_bt_volume(c))
    BY <1>4 DEF Transport!set_node_volume
  <2> HIDE DEF o
  <2>2. v \in Int /\ o.d \in IodevRec
    BY <1>1, BluetoothAssumption, StateFields DEF Sound
  <2>3. d \in IodevRec /\ d.a2dp = o.d.a2dp /\ d.callback = o.d.callback
    BY <2>2 DEF IodevRec
  <2> HIDE DEF d
  <2>4. Sound(c) /\ c.t = o.t
    BY <1>1, <2>3, IodevSound
  <2> HIDE DEF c
  <2> QED BY <1>2, <2>1, <2>4
<1> QED BY <1>3, <1>4

(* BlueZ does something and may report it. *)
LEMMA BluezStep ==
  ASSUME TransportInv, UNCHANGED <<transport, dev, fds>>, calls' \in Seq(CallRec),
         session' \in SessionRec,
         \/ UNCHANGED signals /\ SessionPhase' = SessionPhase
         \/ \E m \in SignalRec :
              signals' = Append(signals, m) /\ Leads(m, SessionPhase, SessionPhase')
  PROVE  TransportInv'
<1> DEFINE o == Transport!State
           u == [o EXCEPT !.calls = calls']
<1>1. Sound(o) /\ o.t = transport /\ o.d = dev /\ o.fds = fds /\ signals \in Seq(SignalRec)
      /\ Announced
  BY DEF TransportInv, Transport!State
<1> HIDE DEF o
<1>2. u \in StateRec /\ u.t = o.t /\ u.d = o.d /\ u.fds = o.fds /\ u.calls = calls'
  BY <1>1 DEF Sound, StateRec
<1> HIDE DEF u
<1>3. Sound(u) /\ Transport!Become(u)
  BY <1>1, <1>2 DEF Sound, Owned, Transport!Become
<1>4. Sound(Transport!State)' /\ Phase(transport)' = Phase(transport)
  BY <1>3, BecomeSound DEF Phase
<1>5. CASE UNCHANGED signals /\ SessionPhase' = SessionPhase
  <2>1. Announced'
    BY <1>1, <1>4, <1>5 DEF Announced
  <2> QED BY <1>1, <1>4, <1>5, <2>1 DEF TransportInv
<1>6. CASE \E m \in SignalRec :
             signals' = Append(signals, m) /\ Leads(m, SessionPhase, SessionPhase')
  <2>1. Announced' /\ signals' \in Seq(SignalRec)
    BY <1>1, <1>4, <1>6, AnnouncedAppend
  <2> QED BY <1>4, <2>1 DEF TransportInv
<1> QED BY <1>5, <1>6

LEMMA BluezAnyStep ==
  ASSUME TransportInv, Transport!Bluez
  PROVE  TransportInv'
<1>1. /\ session \in SessionRec /\ UNCHANGED <<transport, dev, fds>> /\ calls' \in Seq(CallRec)
      /\ session.exported \in BOOLEAN /\ session.configured \in BOOLEAN
  <2>1. calls \in Seq(CallRec)
    BY StateFields DEF TransportInv, Sound, Transport!State
  <2>2. session \in SessionRec /\ UNCHANGED <<transport, dev, fds, calls>>
    BY DEF TransportInv, Transport!Bluez
  <2>3. session.exported \in BOOLEAN /\ session.configured \in BOOLEAN
    BY <2>2, Zenon DEF SessionRec
  <2> QED BY <2>1, <2>2, <2>3
<1>2. ASSUME NEW n, NEW v, Transport!Signal(n, v)
      PROVE  signals' = Append(signals, [signal |-> n, value |-> v])
  BY <1>2 DEF Transport!Signal, Transport!Send
<1>3. CASE Transport!BluezConfigures
  <2>1. PICK v \in HeadsetVolumes \cup {-1} :
          /\ session' = [exported |-> TRUE, configured |-> TRUE, acquired |-> FALSE, volume |-> v]
          /\ Transport!Signal("SetConfiguration", v)
    BY <1>3 DEF Transport!BluezConfigures
  <2>2. v \in Int
    BY BluetoothAssumption
  <2>3. session' \in SessionRec /\ SessionPhase = "none" /\ SessionPhase' = "configured"
    BY <1>3, <2>1, <2>2 DEF SessionRec, SessionPhase, Transport!BluezConfigures
  <2> DEFINE m == [signal |-> "SetConfiguration", value |-> v]
  <2>4. m \in SignalRec /\ Leads(m, SessionPhase, SessionPhase')
    BY <2>2, <2>3 DEF SignalRec, Leads
  <2>5. signals' = Append(signals, m)
    BY <1>2, <2>1
  <2> HIDE DEF m
  <2> QED BY <1>1, <2>3, <2>4, <2>5, BluezStep
<1>4. CASE Transport!BluezState
  <2>1. PICK v \in {"pending", "active", "idle"} : Transport!Send([signal |-> "State", state |-> v])
    BY <1>4 DEF Transport!BluezState
  <2>2. UNCHANGED session /\ SessionPhase' = SessionPhase
    BY <1>4 DEF Transport!BluezState, SessionPhase
  <2> DEFINE m == [signal |-> "State", state |-> v]
  <2>3. m \in SignalRec /\ Leads(m, SessionPhase, SessionPhase')
    BY <2>2 DEF SignalRec, Leads
  <2>4. signals' = Append(signals, m)
    BY <2>1 DEF Transport!Send
  <2> HIDE DEF m
  <2> QED BY <1>1, <2>2, <2>3, <2>4, BluezStep
<1>5. ASSUME NEW n \in {"ClearConfiguration", "InterfacesRemoved", "NameOwnerChanged"},
             Transport!Signal(n, -1), session' \in SessionRec,
             Leads([signal |-> n, value |-> -1], SessionPhase, SessionPhase')
      PROVE  TransportInv'
  <2> DEFINE m == [signal |-> n, value |-> -1]
  <2>1. m \in SignalRec /\ signals' = Append(signals, m)
    BY <1>2, <1>5 DEF SignalRec
  <2>2. Leads(m, SessionPhase, SessionPhase')
    BY <1>5
  <2> HIDE DEF m
  <2> QED BY <1>1, <1>5, <2>1, <2>2, BluezStep
<1>6. CASE Transport!BluezClears
  <2>1. session.configured /\ session' = [session EXCEPT !.configured = FALSE, !.acquired = FALSE]
    BY <1>6 DEF Transport!BluezClears
  <2>2. session' \in SessionRec /\ ~session'.configured /\ session'.exported = session.exported
    BY <1>1, <2>1 DEF SessionRec
  <2>3. \/ SessionPhase = "configured" /\ SessionPhase' = "cleared"
        \/ SessionPhase = "removed" /\ SessionPhase' = "none"
    BY <2>1, <2>2 DEF SessionPhase
  <2>4. Leads([signal |-> "ClearConfiguration", value |-> -1], SessionPhase, SessionPhase')
    BY <2>3 DEF Leads
  <2> QED BY <1>5, <1>6, <2>2, <2>4 DEF Transport!BluezClears
<1>7. CASE Transport!BluezRemoves
  <2>1. session.exported /\ session' = [session EXCEPT !.exported = FALSE, !.acquired = FALSE]
    BY <1>7 DEF Transport!BluezRemoves
  <2>2. session' \in SessionRec /\ ~session'.exported /\ session'.configured = session.configured
    BY <1>1, <2>1 DEF SessionRec
  <2>3. \/ SessionPhase = "configured" /\ SessionPhase' = "removed"
        \/ SessionPhase = "cleared" /\ SessionPhase' = "none"
    BY <2>1, <2>2 DEF SessionPhase
  <2>4. Leads([signal |-> "InterfacesRemoved", value |-> -1], SessionPhase, SessionPhase')
    BY <2>3 DEF Leads
  <2> QED BY <1>5, <1>7, <2>2, <2>4 DEF Transport!BluezRemoves
<1>8. CASE Transport!BluezRestarts
  <2>1. session.exported /\ session' = Transport!NoSession
    BY <1>8 DEF Transport!BluezRestarts
  <2>2. session' \in SessionRec /\ ~session'.exported /\ ~session'.configured
    BY <2>1 DEF SessionRec, Transport!NoSession
  <2>3. SessionPhase \in {"configured", "cleared"} /\ SessionPhase' = "none"
    BY <2>1, <2>2 DEF SessionPhase
  <2>4. Leads([signal |-> "NameOwnerChanged", value |-> -1], SessionPhase, SessionPhase')
    BY <2>3 DEF Leads
  <2> QED BY <1>5, <1>8, <2>2, <2>4 DEF Transport!BluezRestarts
<1> QED BY <1>3, <1>4, <1>6, <1>7, <1>8 DEF Transport!Bluez

LEMMA HeadsetVolumeStep ==
  ASSUME TransportInv, NEW v \in HeadsetVolumes, Transport!HeadsetVolume(v)
  PROVE  TransportInv'
<1> DEFINE m == [signal |-> "Volume", value |-> v]
<1>1. /\ UNCHANGED <<transport, dev, fds, calls>> /\ session \in SessionRec
      /\ session' = [session EXCEPT !.volume = v] /\ signals' = Append(signals, m)
  BY DEF TransportInv, Transport!HeadsetVolume, Transport!Signal, Transport!Send
<1>2. calls' \in Seq(CallRec)
  BY <1>1, StateFields DEF TransportInv, Sound, Transport!State
<1>3. v \in Int
  BY BluetoothAssumption
<1>4. /\ session' \in SessionRec /\ session'.exported = session.exported
      /\ session'.configured = session.configured
  BY <1>1, <1>3 DEF SessionRec
<1>5. SessionPhase' = SessionPhase
  BY <1>4 DEF SessionPhase
<1>6. m \in SignalRec /\ Leads(m, SessionPhase, SessionPhase')
  BY <1>3, <1>5 DEF SignalRec, Leads
<1> HIDE DEF m
<1> QED BY <1>1, <1>2, <1>4, <1>6, BluezStep

LEMMA BluezAnswersStep ==
  ASSUME TransportInv, Transport!BluezAnswers
  PROVE  TransportInv'
<1> DEFINE c == Head(calls)
           m == [signal |-> "Volume", value |-> c.volume]
<1>1. calls \in Seq(CallRec) /\ session \in SessionRec
  BY StateFields DEF TransportInv, Sound, Transport!State
<1>2. calls # << >> /\ calls' = Tail(calls) /\ UNCHANGED <<transport, dev, fds>>
  BY DEF Transport!BluezAnswers
<1>3. c \in CallRec /\ calls' \in Seq(CallRec)
  BY <1>1, <1>2
<1>4. \/ session' = [session EXCEPT !.volume = c.volume] /\ signals' = Append(signals, m)
      \/ UNCHANGED signals
           /\ (session' = session \/ session' = [session EXCEPT !.acquired = FALSE])
  BY DEF Transport!BluezAnswers, Transport!Signal, Transport!Send
<1>5. c.volume \in Int
  BY <1>3 DEF CallRec
<1>6. /\ session' \in SessionRec /\ session'.exported = session.exported
      /\ session'.configured = session.configured
  BY <1>1, <1>4, <1>5 DEF SessionRec
<1>7. SessionPhase' = SessionPhase
  BY <1>6 DEF SessionPhase
<1>8. m \in SignalRec /\ Leads(m, SessionPhase, SessionPhase')
  BY <1>5, <1>7 DEF SignalRec, Leads
<1> HIDE DEF m, c
<1> QED BY <1>2, <1>3, <1>4, <1>6, <1>7, <1>8, BluezStep

LEMMA NextTransportInv == TransportInv /\ [Transport!Next]_btpVars => TransportInv'
<1> SUFFICES ASSUME TransportInv, [Transport!Next]_btpVars PROVE TransportInv'
  OBVIOUS
<1>1. CASE UNCHANGED btpVars
  <2>1. Transport!Become(Transport!State) /\ UNCHANGED <<signals, session>>
    BY <1>1 DEF btpVars, Transport!Become, Transport!State
  <2>2. Sound(Transport!State) /\ session \in SessionRec
    BY DEF TransportInv
  <2>3. Transport!State.t = transport
    BY DEF Transport!State
  <2> QED BY <2>1, <2>2, <2>3, MainThreadStep
<1> QED
  BY <1>1, DispatchStep, StartStep, OpenStep, CloseStep, SuspendStep, VolumeStep,
     HeadsetVolumeStep, BluezAnyStep, BluezAnswersStep DEF Transport!Next

LEMMA TransportInvOwned == TransportInv => Transport!DescriptorsOwned
<1> SUFFICES ASSUME TransportInv PROVE Transport!DescriptorsOwned
  OBVIOUS
<1> DEFINE o == Transport!State
<1>1. o.t = transport /\ o.d = dev /\ o.fds = fds
  BY DEF Transport!State
<1>2. Owned(o)
  BY DEF TransportInv, Sound
<1> HIDE DEF o
<1> QED BY <1>1, <1>2 DEF Owned, Transport!DescriptorsOwned

-----------------------------------------------------------------------------
(* The main thread's devices (BtDevices).                                  *)

DeviceRec == [known: BOOLEAN, connected: BOOLEAN, profiles: SUBSET Profiles,
              connected_profiles: SUBSET Profiles, watch: BOOLEAN, lost: BOOLEAN,
              retries: Int,
              suspend: {"none", "now", "delayed"}, dropped: BOOLEAN]
LinkRec == [exists: BOOLEAN, endpoint: BOOLEAN, removed: BOOLEAN]
MainRec == [dev: [Devices -> DeviceRec], transports: [Devices -> LinkRec],
            endpoint: Devices \union {NULL}, a2dp: Devices \union {NULL},
            ags: [Devices -> {"none", "slc", "initialized", "started"}]]
MessageRec == [device: Devices, cmd: {"cancel", "delayed", "now"}]

(* A device with audio devices, of the state s of a handler. *)
Exposed(s, d) == s.a2dp = d \/ s.ags[d] = "started"

(* The part of the invariant that is about the main thread alone; g is     *)
(* what dangles.                                                           *)
Live(s, g) ==
  /\ s \in MainRec
  /\ s.endpoint # NULL => /\ s.transports[s.endpoint].exists
                          /\ s.transports[s.endpoint].endpoint
                          /\ s.dev[s.endpoint].known \/ s.endpoint \in g.transports
  /\ s.a2dp # NULL => s.dev[s.a2dp].known \/ g.a2dp
  /\ \A d \in Devices : s.ags[d] # "none" => s.dev[d].known
  /\ \A x, y \in Devices : Exposed(s, x) /\ Exposed(s, y) => x = y

DevicesInv ==
  /\ Live(bt, dangling)
  /\ dangling \in DanglingType
  /\ msgs \in Seq(MessageRec)

(* From s to u no device goes and nothing is exposed anew. *)
Fewer(s, u) ==
  /\ s \in MainRec /\ u \in MainRec
  /\ u.transports = s.transports /\ u.endpoint = s.endpoint
  /\ u.a2dp \in {s.a2dp, NULL}
  /\ \A d \in Devices : /\ s.dev[d].known => u.dev[d].known
                        /\ u.ags[d] \in {s.ags[d], "none"}

LEMMA FewerTrans ==
  ASSUME NEW s, NEW u, NEW v, Fewer(s, u), Fewer(u, v)
  PROVE  Fewer(s, v)
  BY DEF Fewer

LEMMA FewerLive ==
  ASSUME NEW s, NEW u, NEW g, Live(s, g), Fewer(s, u)
  PROVE  Live(u, g)
<1>1. u \in MainRec /\ s \in MainRec
  BY DEF Fewer
<1>2. ASSUME NEW x \in Devices, Exposed(u, x) PROVE Exposed(s, x)
  <2>1. x # NULL
    BY BluetoothAssumption
  <2> QED BY <1>2, <2>1 DEF Fewer, Exposed
<1>3. /\ u.endpoint # NULL => u.endpoint \in Devices
      /\ u.a2dp # NULL => u.a2dp \in Devices
  BY <1>1 DEF MainRec
<1>4. u.a2dp # NULL => u.dev[u.a2dp].known \/ g.a2dp
  BY <1>3 DEF Fewer, Live
<1> QED BY <1>1, <1>2, <1>3, <1>4 DEF Fewer, Live

LEMMA MainFields ==
  ASSUME NEW s \in MainRec, NEW d \in Devices
  PROVE  /\ s.dev[d] \in DeviceRec /\ s.transports[d] \in LinkRec
         /\ s.dev \in [Devices -> DeviceRec] /\ s.transports \in [Devices -> LinkRec]
         /\ s.ags \in [Devices -> {"none", "slc", "initialized", "started"}]
         /\ s.a2dp \in Devices \union {NULL} /\ s.endpoint \in Devices \union {NULL}
  BY DEF MainRec

(* The fields of a device but the one that says BlueZ has exported it. *)
LEMMA DeviceFields ==
  ASSUME NEW p \in DeviceRec
  PROVE  /\ \A b \in BOOLEAN :
              /\ [p EXCEPT !.watch = b] \in DeviceRec
              /\ [p EXCEPT !.lost = b] \in DeviceRec
              /\ [p EXCEPT !.connected = b] \in DeviceRec
              /\ [p EXCEPT !.dropped = b] \in DeviceRec
         /\ \A b : /\ [p EXCEPT !.watch = b].known = p.known
                   /\ [p EXCEPT !.lost = b].known = p.known
                   /\ [p EXCEPT !.connected = b].known = p.known
                   /\ [p EXCEPT !.dropped = b].known = p.known
                   /\ [p EXCEPT !.suspend = b].known = p.known
                   /\ [p EXCEPT !.retries = b].known = p.known
                   /\ [p EXCEPT !.connected_profiles = b].known = p.known
                   /\ [p EXCEPT !.profiles = b].known = p.known
         /\ \A w \in {"none", "now", "delayed"} : [p EXCEPT !.suspend = w] \in DeviceRec
         /\ \A n \in Int : [p EXCEPT !.retries = n] \in DeviceRec
         /\ \A c \in SUBSET Profiles : /\ [p EXCEPT !.connected_profiles = c] \in DeviceRec
                                       /\ [p EXCEPT !.profiles = c] \in DeviceRec
<1>1. \A b \in BOOLEAN :
        /\ [p EXCEPT !.watch = b] \in DeviceRec
        /\ [p EXCEPT !.lost = b] \in DeviceRec
        /\ [p EXCEPT !.connected = b] \in DeviceRec
        /\ [p EXCEPT !.dropped = b] \in DeviceRec
  BY Zenon DEF DeviceRec
<1>2. \A b : /\ [p EXCEPT !.watch = b].known = p.known
             /\ [p EXCEPT !.lost = b].known = p.known
             /\ [p EXCEPT !.connected = b].known = p.known
             /\ [p EXCEPT !.dropped = b].known = p.known
             /\ [p EXCEPT !.suspend = b].known = p.known
             /\ [p EXCEPT !.retries = b].known = p.known
             /\ [p EXCEPT !.connected_profiles = b].known = p.known
             /\ [p EXCEPT !.profiles = b].known = p.known
  BY DEF DeviceRec
<1>3. \A w \in {"none", "now", "delayed"} : [p EXCEPT !.suspend = w] \in DeviceRec
  BY Zenon DEF DeviceRec
<1>4. \A n \in Int : [p EXCEPT !.retries = n] \in DeviceRec
  BY Zenon DEF DeviceRec
<1>5. \A c \in SUBSET Profiles : /\ [p EXCEPT !.connected_profiles = c] \in DeviceRec
                                 /\ [p EXCEPT !.profiles = c] \in DeviceRec
  BY Zenon DEF DeviceRec
<1> QED BY <1>1, <1>2, <1>3, <1>4, <1>5

(* A change of one device. *)
LEMMA DeviceChange ==
  ASSUME NEW s \in MainRec, NEW d \in Devices, NEW r \in DeviceRec, s.dev[d].known => r.known
  PROVE  LET u == [s EXCEPT !.dev[d] = r] IN
         /\ Fewer(s, u) /\ u.ags = s.ags /\ u.a2dp = s.a2dp /\ u.dev[d] = r
<1> DEFINE f == [s.dev EXCEPT ![d] = r]
           u == [s EXCEPT !.dev = f]
<1>1. f \in [Devices -> DeviceRec] /\ f[d] = r
  BY MainFields
<1>2. \A x \in Devices : s.dev[x].known => f[x].known
  BY MainFields
<1> HIDE DEF f
<1>3. /\ u \in MainRec /\ u.dev = f /\ u.ags = s.ags /\ u.a2dp = s.a2dp
      /\ u.transports = s.transports /\ u.endpoint = s.endpoint
  BY <1>1 DEF MainRec
<1> HIDE DEF u
<1>4. Fewer(s, u)
  BY <1>2, <1>3 DEF Fewer
<1>5. u = [s EXCEPT !.dev[d] = r]
  BY DEF u, f
<1> QED BY <1>1, <1>3, <1>4, <1>5

LEMMA ScheduleFewer ==
  ASSUME NEW s \in MainRec, NEW d \in Devices, NEW w \in {"now", "delayed"}
  PROVE  LET u == bt_device_schedule_suspend(s, d, w) IN
         Fewer(s, u) /\ u.ags = s.ags /\ u.a2dp = s.a2dp
<1>1. CASE s.dev[d].suspend # "none"
  BY <1>1 DEF bt_device_schedule_suspend, Fewer
<1>2. CASE s.dev[d].suspend = "none"
  <2> DEFINE r == [s.dev[d] EXCEPT !.suspend = w]
  <2>1. r \in DeviceRec /\ r.known = s.dev[d].known
    BY MainFields, DeviceFields
  <2>2. bt_device_schedule_suspend(s, d, w) = [s EXCEPT !.dev[d] = r]
    BY <1>2 DEF bt_device_schedule_suspend
  <2> HIDE DEF r
  <2> QED BY <2>1, <2>2, DeviceChange
<1> QED BY <1>1, <1>2

LEMMA CancelFewer ==
  ASSUME NEW s \in MainRec, NEW d \in Devices
  PROVE  Fewer(s, bt_device_cancel_suspend(s, d))
<1> DEFINE r == [s.dev[d] EXCEPT !.suspend = "none"]
<1>1. r \in DeviceRec /\ r.known = s.dev[d].known
  BY MainFields, DeviceFields
<1>2. bt_device_cancel_suspend(s, d) = [s EXCEPT !.dev[d] = r]
  BY DEF bt_device_cancel_suspend
<1> HIDE DEF r
<1> QED BY <1>1, <1>2, DeviceChange

LEMMA WatchFewer ==
  ASSUME NEW s \in MainRec, NEW d \in Devices
  PROVE  Fewer(s, cras_bt_device_start_new_conn_watch_timer(s, d))
<1> DEFINE q == [s.dev[d] EXCEPT !.watch = TRUE]
           t == [s EXCEPT !.dev[d] = q]
           r == [t.dev[d] EXCEPT !.retries = CONN_WATCH_MAX_RETRIES]
           u == [t EXCEPT !.dev[d] = r]
<1>1. q \in DeviceRec /\ q.known = s.dev[d].known
  BY MainFields, DeviceFields
<1>2. cras_bt_device_start_new_conn_watch_timer(s, d) = u
  BY DEF cras_bt_device_start_new_conn_watch_timer
<1> HIDE DEF q
<1>3. Fewer(s, t) /\ t \in MainRec
  BY <1>1, DeviceChange DEF Fewer
<1> HIDE DEF t
<1>4. r \in DeviceRec /\ r.known = t.dev[d].known
  <2>1. CONN_WATCH_MAX_RETRIES \in Int
    BY BluetoothAssumption
  <2>2. t.dev[d] \in DeviceRec
    BY <1>3, MainFields
  <2> QED BY <2>1, <2>2, DeviceFields
<1> HIDE DEF r
<1>5. Fewer(t, u)
  BY <1>3, <1>4, DeviceChange
<1> QED BY <1>2, <1>3, <1>5, FewerTrans

LEMMA DroppedFewer ==
  ASSUME NEW s \in MainRec, NEW d \in Devices
  PROVE  LET u == cras_bt_device_notify_profile_dropped(s, d) IN
         Fewer(s, u) /\ u.ags = s.ags /\ u.a2dp = s.a2dp
<1> DEFINE q == [s.dev[d] EXCEPT !.connected_profiles = {}]
           t == [s EXCEPT !.dev[d] = q]
           r == [t.dev[d] EXCEPT !.dropped = TRUE]
           v == [t EXCEPT !.dev[d] = r]
<1>1. cras_bt_device_notify_profile_dropped(s, d) =
        IF ~s.dev[d].connected THEN t ELSE bt_device_schedule_suspend(v, d, "delayed")
  BY DEF cras_bt_device_notify_profile_dropped
<1>2. q \in DeviceRec /\ q.known = s.dev[d].known
  BY MainFields, DeviceFields
<1> HIDE DEF q
<1>3. Fewer(s, t) /\ t.ags = s.ags /\ t.a2dp = s.a2dp /\ t \in MainRec
  BY <1>2, DeviceChange DEF Fewer
<1> HIDE DEF t
<1>4. r \in DeviceRec /\ r.known = t.dev[d].known
  BY <1>3, MainFields, DeviceFields
<1> HIDE DEF r
<1>5. Fewer(t, v) /\ v.ags = t.ags /\ v.a2dp = t.a2dp /\ v \in MainRec
  BY <1>3, <1>4, DeviceChange DEF Fewer
<1> HIDE DEF v
<1> DEFINE w == bt_device_schedule_suspend(v, d, "delayed")
<1>6. Fewer(v, w) /\ w.ags = v.ags /\ w.a2dp = v.a2dp
  BY <1>5, ScheduleFewer
<1> HIDE DEF w
<1>7. Fewer(s, w)
  BY <1>3, <1>5, <1>6, FewerTrans
<1> QED BY <1>1, <1>3, <1>5, <1>6, <1>7 DEF w

LEMMA SuspendFewer ==
  ASSUME NEW s \in MainRec, NEW d \in Devices
  PROVE  LET u == cras_a2dp_suspend_connected_device(s, d) IN
         Fewer(s, u) /\ u.dev = s.dev /\ u.ags = s.ags /\ u.a2dp # d
<1> DEFINE u == [s EXCEPT !.a2dp = NULL]
<1>1. /\ u \in MainRec /\ u.dev = s.dev /\ u.ags = s.ags /\ u.a2dp = NULL
      /\ u.transports = s.transports /\ u.endpoint = s.endpoint
  BY DEF MainRec
<1> HIDE DEF u
<1>2. Fewer(s, u) /\ Fewer(s, s)
  BY <1>1 DEF Fewer
<1>3. NULL # d
  BY BluetoothAssumption
<1> QED BY <1>1, <1>2, <1>3 DEF cras_a2dp_suspend_connected_device, u

LEMMA DestroyGatewayFewer ==
  ASSUME NEW s \in MainRec, NEW d \in Devices
  PROVE  LET u == destroy_audio_gateway(s, d) IN
         Fewer(s, u) /\ u.dev = s.dev /\ u.ags[d] = "none" /\ u.a2dp = s.a2dp
<1> DEFINE g == [s.ags EXCEPT ![d] = "none"]
           u == [s EXCEPT !.ags = g]
<1>1. g \in [Devices -> {"none", "slc", "initialized", "started"}] /\ g[d] = "none"
      /\ \A x \in Devices : g[x] \in {s.ags[x], "none"}
  BY MainFields
<1> HIDE DEF g
<1>2. /\ u \in MainRec /\ u.dev = s.dev /\ u.ags = g /\ u.a2dp = s.a2dp
      /\ u.transports = s.transports /\ u.endpoint = s.endpoint
  BY <1>1 DEF MainRec
<1> HIDE DEF u
<1>3. Fewer(s, u)
  BY <1>1, <1>2 DEF Fewer
<1>4. destroy_audio_gateway(s, d) = u
  BY DEF destroy_audio_gateway, u, g
<1> QED BY <1>1, <1>2, <1>3, <1>4

LEMMA DropGatewayFewer ==
  ASSUME NEW s \in MainRec, NEW d \in Devices
  PROVE  Fewer(s, DropGateway(s, d))
<1> DEFINE g == destroy_audio_gateway(s, d)
<1>1. Fewer(s, g) /\ g \in MainRec
  BY DestroyGatewayFewer DEF Fewer
<1> HIDE DEF g
<1>2. Fewer(g, cras_bt_device_notify_profile_dropped(g, d))
  BY <1>1, DroppedFewer
<1>3. Fewer(s, cras_bt_device_notify_profile_dropped(g, d)) /\ Fewer(s, s)
  BY <1>1, <1>2, FewerTrans DEF Fewer
<1> QED BY <1>3 DEF DropGateway, g

(* The other headsets have nothing after cras_bt_device_remove_conflict. *)
LEMMA ConflictFewer ==
  ASSUME NEW s \in MainRec, NEW d \in Devices
  PROVE  LET u == bt_device_remove_conflict(s, d) IN
         /\ Fewer(s, u) /\ u.a2dp \in {d, NULL}
         /\ \A x \in Devices \ {d} : u.ags[x] = "none"
<1> DEFINE gone == {x \in Devices \ {d} : s.ags[x] # "none"}
           drop(x) == cras_bt_device_notify_profile_dropped(s, x).dev[x]
           f == [x \in Devices |-> IF x \in gone THEN drop(x) ELSE s.dev[x]]
           g == [x \in Devices |-> IF x \in gone THEN "none" ELSE s.ags[x]]
           r == [s EXCEPT !.dev = f, !.ags = g]
<1>1. RemoveGateways(s, d) = r
  BY DEF RemoveGateways
<1>2. ASSUME NEW x \in Devices PROVE drop(x) \in DeviceRec /\ (s.dev[x].known => drop(x).known)
  <2>1. Fewer(s, cras_bt_device_notify_profile_dropped(s, x))
    BY DroppedFewer
  <2> QED BY <2>1, MainFields DEF Fewer
<1> HIDE DEF drop
<1>3. f \in [Devices -> DeviceRec] /\ \A x \in Devices : s.dev[x].known => f[x].known
  BY <1>2, MainFields
<1>4. /\ g \in [Devices -> {"none", "slc", "initialized", "started"}]
      /\ \A x \in Devices : g[x] \in {s.ags[x], "none"}
      /\ \A x \in Devices \ {d} : g[x] = "none"
  BY MainFields
<1> HIDE DEF f, g
<1>5. /\ r \in MainRec /\ r.dev = f /\ r.ags = g /\ r.a2dp = s.a2dp
      /\ r.transports = s.transports /\ r.endpoint = s.endpoint
  BY <1>3, <1>4 DEF MainRec
<1> HIDE DEF r
<1>6. Fewer(s, r)
  BY <1>3, <1>4, <1>5 DEF Fewer
<1> DEFINE u == bt_device_remove_conflict_a2dp(r, d)
<1>7. Fewer(r, u) /\ u.a2dp \in {d, NULL} /\ u.ags = r.ags
  <2>1. CASE r.a2dp \in {NULL, d}
    BY <1>5, <2>1 DEF bt_device_remove_conflict_a2dp, Fewer
  <2>2. CASE r.a2dp \notin {NULL, d}
    <3>1. r.a2dp \in Devices /\ u = cras_a2dp_suspend_connected_device(r, r.a2dp)
      BY <1>5, <2>2, MainFields DEF bt_device_remove_conflict_a2dp
    <3> HIDE DEF u
    <3>2. Fewer(r, u) /\ u.ags = r.ags /\ u.a2dp # r.a2dp
      BY <1>5, <3>1, SuspendFewer
    <3> QED BY <3>2 DEF Fewer
  <2> QED BY <2>1, <2>2
<1>8. bt_device_remove_conflict(s, d) = u
  BY <1>1 DEF bt_device_remove_conflict
<1> HIDE DEF u
<1> QED BY <1>4, <1>5, <1>6, <1>7, <1>8, FewerTrans

(* Exposing d where no other headset is exposed. *)
LEMMA ExposeLive ==
  ASSUME NEW s, Live(s, dangling), NEW d \in Devices,
         s.a2dp \in {d, NULL}, \A x \in Devices \ {d} : s.ags[x] = "none"
  PROVE  /\ LET u == cras_a2dp_start(s, d) IN
            (s.endpoint = d => s.dev[d].known) =>
            /\ Live(u, dangling) /\ u.endpoint = s.endpoint /\ u.a2dp \in {d, NULL} /\ u.ags = s.ags
         /\ LET u == cras_hfp_ag_start(s, d) IN Live(u, dangling) /\ u.endpoint = s.endpoint
<1>0. s \in MainRec
  BY DEF Live
<1>1. ASSUME NEW u \in MainRec, u.a2dp \in {d, NULL}, \A x \in Devices \ {d} : u.ags[x] = "none",
             u.dev = s.dev, u.transports = s.transports, u.endpoint = s.endpoint,
             u.ags[d] # "none" => s.ags[d] # "none",
             u.a2dp # NULL => u.dev[u.a2dp].known \/ dangling.a2dp
      PROVE  Live(u, dangling)
  <2>1. ASSUME NEW x \in Devices, Exposed(u, x) PROVE x = d
    BY <1>1, <2>1, BluetoothAssumption DEF Exposed
  <2>2. \A x \in Devices : u.ags[x] # "none" => u.dev[x].known
    BY <1>1 DEF Live
  <2> QED BY <1>1, <2>1, <2>2 DEF Live
<1>2. LET u == cras_a2dp_start(s, d) IN
         (s.endpoint = d => s.dev[d].known) =>
         /\ Live(u, dangling) /\ u.endpoint = s.endpoint /\ u.a2dp \in {d, NULL} /\ u.ags = s.ags
  <2> DEFINE u == [s EXCEPT !.a2dp = d]
  <2>1. /\ u \in MainRec /\ u.a2dp = d /\ u.ags = s.ags /\ u.dev = s.dev
        /\ u.transports = s.transports /\ u.endpoint = s.endpoint
    BY <1>0 DEF MainRec
  <2> HIDE DEF u
  <2>2. s.dev[d].known => Live(u, dangling)
    BY <1>1, <2>1
  <2> QED BY <2>1, <2>2 DEF cras_a2dp_start, u
<1>3. LET u == cras_hfp_ag_start(s, d) IN Live(u, dangling) /\ u.endpoint = s.endpoint
  <2>1. CASE s.ags[d] = "none"
    <3>1. Fewer(s, bt_device_schedule_suspend(s, d, "now"))
      BY <1>0, ScheduleFewer
    <3> QED BY <2>1, <3>1, FewerLive DEF cras_hfp_ag_start, Fewer
  <2>2. CASE s.ags[d] # "none"
    <3> DEFINE g == [s.ags EXCEPT ![d] = "started"]
               u == [s EXCEPT !.ags = g]
    <3>1. /\ g \in [Devices -> {"none", "slc", "initialized", "started"}] /\ g[d] = "started"
          /\ \A x \in Devices \ {d} : g[x] = s.ags[x]
      BY <1>0, MainFields
    <3> HIDE DEF g
    <3>2. /\ u \in MainRec /\ u.a2dp = s.a2dp /\ u.ags = g /\ u.dev = s.dev
          /\ u.transports = s.transports /\ u.endpoint = s.endpoint
      BY <1>0, <3>1 DEF MainRec
    <3> HIDE DEF u
    <3>3. u.a2dp # NULL => u.dev[u.a2dp].known \/ dangling.a2dp
      BY <3>2 DEF Live
    <3>4. Live(u, dangling)
      BY <1>1, <2>2, <3>1, <3>2, <3>3
    <3> QED BY <2>2, <3>2, <3>4 DEF cras_hfp_ag_start, u, g
  <2> QED BY <2>1, <2>2
<1> QED BY <1>2, <1>3

(* The watch timer: the device is waited for, given up or exposed. *)
LEMMA WatchLive ==
  ASSUME NEW s, Live(s, dangling), NEW d \in Devices, ~WatchUsesFreed(s, d)
  PROVE  LET u == bt_device_conn_watch_cb(s, d) IN Live(u, dangling) /\ u.endpoint = s.endpoint
<1> DEFINE p == s.dev[d]
           t == [s EXCEPT !.dev[d] = [s.dev[d] EXCEPT !.watch = FALSE]]
           left == IF t.dev[d].retries > 0 THEN t.dev[d].retries - 1 ELSE -1
           retry == [t EXCEPT !.dev[d] = [t.dev[d] EXCEPT !.retries = left]]
           again == [retry EXCEPT !.dev[d] = [retry.dev[d] EXCEPT !.watch = TRUE]]
           given == bt_device_schedule_suspend(retry, d, "now")
           c == bt_device_remove_conflict(t, d)
           a == IF "a2dp" \in p.connected_profiles THEN cras_a2dp_start(c, d) ELSE c
           h == IF "hfp" \in p.connected_profiles THEN cras_hfp_ag_start(a, d) ELSE a
<1>0. s \in MainRec
  BY DEF Live
<1>1. \/ bt_device_conn_watch_cb(s, d) \in {t, again, given}
      \/ Exposes(s, d) /\ bt_device_conn_watch_cb(s, d) = h
  <2>1. CASE p.profiles = {}
    BY <2>1 DEF bt_device_conn_watch_cb
  <2>2. CASE p.profiles # {} /\ p.profiles # p.connected_profiles
    BY <2>2 DEF bt_device_conn_watch_cb
  <2>3. CASE p.profiles # {} /\ p.profiles = p.connected_profiles
    BY <2>3 DEF bt_device_conn_watch_cb, Exposes
  <2> QED BY <2>1, <2>2, <2>3
<1>2. /\ Live(t, dangling) /\ t.endpoint = s.endpoint /\ t \in MainRec
      /\ s.dev[d].known => t.dev[d].known
  <2> DEFINE r == [s.dev[d] EXCEPT !.watch = FALSE]
  <2>1. r \in DeviceRec /\ r.known = s.dev[d].known
    BY <1>0, MainFields, DeviceFields
  <2> HIDE DEF r
  <2>2. Fewer(s, [s EXCEPT !.dev[d] = r])
    BY <1>0, <2>1, DeviceChange
  <2> QED BY <2>2, FewerLive DEF Fewer, r
<1> HIDE DEF t, p
<1>3. Live(retry, dangling) /\ retry.endpoint = t.endpoint /\ retry \in MainRec
  <2> DEFINE r == [t.dev[d] EXCEPT !.retries = left]
  <2>1. t.dev[d] \in DeviceRec
    BY <1>2, MainFields
  <2>2. left \in Int
    BY <2>1 DEF DeviceRec
  <2> HIDE DEF left
  <2>3. r \in DeviceRec /\ r.known = t.dev[d].known
    BY <2>1, <2>2, DeviceFields
  <2> HIDE DEF r
  <2>4. Fewer(t, [t EXCEPT !.dev[d] = r])
    BY <1>2, <2>3, DeviceChange
  <2> QED BY <1>2, <2>4, FewerLive DEF Fewer, r
<1> HIDE DEF retry
<1>4. Live(again, dangling) /\ again.endpoint = retry.endpoint
  <2> DEFINE r == [retry.dev[d] EXCEPT !.watch = TRUE]
  <2>1. r \in DeviceRec /\ r.known = retry.dev[d].known
    BY <1>3, MainFields, DeviceFields
  <2> HIDE DEF r
  <2>2. Fewer(retry, [retry EXCEPT !.dev[d] = r])
    BY <1>3, <2>1, DeviceChange
  <2> QED BY <1>3, <2>2, FewerLive DEF Fewer, r
<1> HIDE DEF again
<1>5. Live(given, dangling) /\ given.endpoint = retry.endpoint
  <2>1. Fewer(retry, given)
    BY <1>3, ScheduleFewer
  <2> HIDE DEF given
  <2> QED BY <1>3, <2>1, FewerLive DEF Fewer
<1> HIDE DEF given
<1>6. ASSUME Exposes(s, d) PROVE Live(h, dangling) /\ h.endpoint = t.endpoint
  <2>1. /\ Fewer(t, c) /\ c.a2dp \in {d, NULL}
        /\ \A x \in Devices \ {d} : c.ags[x] = "none"
    BY <1>2, ConflictFewer
  <2> HIDE DEF c
  <2>2. Live(c, dangling) /\ c.endpoint = t.endpoint
    BY <1>2, <2>1, FewerLive DEF Fewer
  <2>3. "a2dp" \in p.connected_profiles => (c.endpoint = d => c.dev[d].known)
    <3>1. d # NULL
      BY BluetoothAssumption
    <3> QED BY <1>2, <1>6, <2>1, <2>2, <3>1 DEF Live, Fewer, WatchUsesFreed, p
  <2>4. /\ Live(a, dangling) /\ a.endpoint = t.endpoint /\ a.a2dp \in {d, NULL}
        /\ \A x \in Devices \ {d} : a.ags[x] = "none"
    BY <2>1, <2>2, <2>3, ExposeLive
  <2> HIDE DEF a
  <2> QED BY <2>4, ExposeLive
<1> HIDE DEF h
<1> QED BY <1>1, <1>2, <1>3, <1>4, <1>5, <1>6

LEMMA ConnectedFewer ==
  ASSUME NEW s \in MainRec, NEW d \in Devices, NEW value \in BOOLEAN
  PROVE  Fewer(s, cras_bt_device_set_connected(s, d, value))
<1> DEFINE g == DropGateway(s, d)
           c == [g EXCEPT !.dev[d] = [g.dev[d] EXCEPT !.connected_profiles = {}]]
           k == bt_device_cancel_suspend(c, d)
           t == IF s.dev[d].connected /\ ~value THEN k ELSE s
           q1 == [t.dev[d] EXCEPT !.connected = value]
           t1 == [t EXCEPT !.dev[d] = q1]
           q2 == [t1.dev[d] EXCEPT !.dropped = (t.dev[d].dropped /\ value)]
           t2 == [t1 EXCEPT !.dev[d] = q2]
           q3 == [t2.dev[d] EXCEPT !.watch = (t.dev[d].watch /\ value)]
           t3 == [t2 EXCEPT !.dev[d] = q3]
<1>1. cras_bt_device_set_connected(s, d, value) = t3
  BY DEF cras_bt_device_set_connected
<1>2. Fewer(s, t) /\ t \in MainRec
  <2>1. Fewer(s, g) /\ g \in MainRec
    BY DropGatewayFewer DEF Fewer
  <2> HIDE DEF g
  <2> DEFINE r == [g.dev[d] EXCEPT !.connected_profiles = {}]
  <2>2. r \in DeviceRec /\ r.known = g.dev[d].known
    BY <2>1, MainFields, DeviceFields
  <2> HIDE DEF r
  <2>3. Fewer(g, [g EXCEPT !.dev[d] = r])
    BY <2>1, <2>2, DeviceChange
  <2>4. Fewer(g, c) /\ c \in MainRec
    BY <2>3 DEF Fewer, r
  <2> HIDE DEF c
  <2>5. Fewer(c, k)
    BY <2>4, CancelFewer
  <2> HIDE DEF k
  <2>6. Fewer(s, k) /\ Fewer(s, s)
    BY <2>1, <2>4, <2>5, FewerTrans DEF Fewer
  <2>7. Fewer(s, t)
    BY <2>6
  <2> QED BY <2>7 DEF Fewer
<1> HIDE DEF t
<1>3. Fewer(t, t1) /\ t1 \in MainRec
  <2>1. q1 \in DeviceRec /\ q1.known = t.dev[d].known
    BY <1>2, MainFields, DeviceFields
  <2> HIDE DEF q1
  <2> QED BY <1>2, <2>1, DeviceChange DEF Fewer
<1> HIDE DEF t1
<1>4. Fewer(t1, t2) /\ t2 \in MainRec
  <2>1. (t.dev[d].dropped /\ value) \in BOOLEAN
    BY Zenon
  <2>2. q2 \in DeviceRec /\ q2.known = t1.dev[d].known
    <3> DEFINE b == t.dev[d].dropped /\ value
    <3> HIDE DEF b
    <3>1. b \in BOOLEAN
      BY <2>1 DEF b
    <3>2. /\ [t1.dev[d] EXCEPT !.dropped = b] \in DeviceRec
          /\ [t1.dev[d] EXCEPT !.dropped = b].known = t1.dev[d].known
      BY <1>3, <3>1, MainFields, DeviceFields
    <3> QED BY <3>2 DEF b
  <2> HIDE DEF q2
  <2> QED BY <1>3, <2>2, DeviceChange DEF Fewer
<1> HIDE DEF t2
<1>5. Fewer(t2, t3)
  <2>1. (t.dev[d].watch /\ value) \in BOOLEAN
    BY Zenon
  <2>2. q3 \in DeviceRec /\ q3.known = t2.dev[d].known
    <3> DEFINE b == t.dev[d].watch /\ value
    <3> HIDE DEF b
    <3>1. b \in BOOLEAN
      BY <2>1 DEF b
    <3>2. /\ [t2.dev[d] EXCEPT !.watch = b] \in DeviceRec
          /\ [t2.dev[d] EXCEPT !.watch = b].known = t2.dev[d].known
      BY <1>4, <3>1, MainFields, DeviceFields
    <3> QED BY <3>2 DEF b
  <2> HIDE DEF q3
  <2> QED BY <1>4, <2>2, DeviceChange
<1> HIDE DEF t3
<1>6. Fewer(s, t3)
  BY <1>2, <1>3, <1>4, <1>5, FewerTrans
<1> QED BY <1>1, <1>6

LEMMA PropertiesFewer ==
  ASSUME NEW s \in MainRec, NEW d \in Devices, NEW value \in BOOLEAN,
         NEW uuids \in SUBSET Profiles
  PROVE  Fewer(s, cras_bt_device_update_properties(s, d, value, uuids))
<1> DEFINE t == cras_bt_device_set_connected(s, d, value)
           r == [t.dev[d] EXCEPT !.profiles = t.dev[d].profiles \union uuids]
           u == [t EXCEPT !.dev[d] = r]
<1>1. cras_bt_device_update_properties(s, d, value, uuids) \in
        {cras_bt_device_start_new_conn_watch_timer(u, d), u}
  BY DEF cras_bt_device_update_properties
<1>2. Fewer(s, t) /\ t \in MainRec
  BY ConnectedFewer DEF Fewer
<1> HIDE DEF t
<1>3. r \in DeviceRec /\ r.known = t.dev[d].known
  <2>1. t.dev[d] \in DeviceRec
    BY <1>2, MainFields
  <2>2. t.dev[d].profiles \union uuids \in SUBSET Profiles
    BY <2>1 DEF DeviceRec
  <2> QED BY <2>1, <2>2, DeviceFields
<1> HIDE DEF r
<1>4. Fewer(t, u) /\ u \in MainRec
  BY <1>2, <1>3, DeviceChange DEF Fewer
<1> HIDE DEF u
<1>5. Fewer(u, cras_bt_device_start_new_conn_watch_timer(u, d))
  BY <1>4, WatchFewer
<1> QED BY <1>1, <1>2, <1>4, <1>5, FewerTrans

(* endpoint->suspend leaves the endpoint without a transport. *)
LEMMA EndpointSuspendLive ==
  ASSUME NEW s, Live(s, dangling)
  PROVE  LET u == cras_bt_endpoint_suspend(s) IN Live(u, dangling) /\ u.endpoint = NULL
<1>1. CASE s.endpoint = NULL
  BY <1>1 DEF cras_bt_endpoint_suspend
<1>2. CASE s.endpoint # NULL
  <2> DEFINE d == s.endpoint
             c == cras_a2dp_suspend_connected_device(s, d)
             t == cras_bt_device_notify_profile_dropped(c, d)
             l == [t.transports EXCEPT ![d] = [t.transports[d] EXCEPT !.endpoint = FALSE]]
             u == [t EXCEPT !.transports = l, !.endpoint = NULL]
             k == [u.transports EXCEPT ![d] = NoTransport]
             w == [u EXCEPT !.transports = k]
  <2>0. s \in MainRec /\ d \in Devices
    BY <1>2 DEF Live, MainRec
  <2>1. cras_bt_endpoint_suspend(s) \in {u, w}
    BY <1>2 DEF cras_bt_endpoint_suspend, cras_bt_transport_destroy
  <2> HIDE DEF d
  <2>2. Fewer(s, c) /\ c \in MainRec
    BY <2>0, SuspendFewer DEF Fewer
  <2> HIDE DEF c
  <2>3. Fewer(c, t) /\ t \in MainRec
    BY <2>0, <2>2, DroppedFewer DEF Fewer
  <2> HIDE DEF t
  <2>4. Live(t, dangling)
    BY <2>2, <2>3, FewerLive
  <2>5. l \in [Devices -> LinkRec]
    <3>1. t.transports[d] \in LinkRec /\ t.transports \in [Devices -> LinkRec]
      BY <2>0, <2>3, MainFields
    <3> DEFINE n == [t.transports[d] EXCEPT !.endpoint = FALSE]
    <3>2. n \in LinkRec
      BY <3>1 DEF LinkRec
    <3> HIDE DEF n
    <3>3. [t.transports EXCEPT ![d] = n] \in [Devices -> LinkRec]
      BY <3>1, <3>2
    <3> QED BY <3>3 DEF n
  <2> HIDE DEF l
  <2>6. u \in MainRec /\ u.endpoint = NULL /\ u.dev = t.dev /\ u.ags = t.ags /\ u.a2dp = t.a2dp
    BY <2>3, <2>5 DEF MainRec
  <2> HIDE DEF u
  <2>7. k \in [Devices -> LinkRec]
    <3>1. NoTransport \in LinkRec
      BY DEF NoTransport, LinkRec
    <3> QED BY <2>0, <2>6, <3>1, MainFields
  <2> HIDE DEF k
  <2>8. w \in MainRec /\ w.endpoint = NULL /\ w.dev = t.dev /\ w.ags = t.ags /\ w.a2dp = t.a2dp
    BY <2>6, <2>7 DEF MainRec
  <2> HIDE DEF w
  <2>9. Live(u, dangling) /\ Live(w, dangling)
    BY <2>4, <2>6, <2>8 DEF Live, Exposed
  <2> QED BY <2>1, <2>6, <2>8, <2>9
<1> QED BY <1>1, <1>2

-----------------------------------------------------------------------------
(* The steps of BtDevices. *)

LEMMA InitDevicesInv == Init => DevicesInv
<1> SUFFICES ASSUME Init PROVE DevicesInv
  OBVIOUS
<1>1. NoDevice \in DeviceRec /\ NoTransport \in LinkRec
  BY DEF NoDevice, NoTransport, DeviceRec, LinkRec
<1> DEFINE f == [d \in Devices |-> NoDevice]
           l == [d \in Devices |-> NoTransport]
           g == [d \in Devices |-> "none"]
<1>2. /\ f \in [Devices -> DeviceRec] /\ l \in [Devices -> LinkRec]
      /\ g \in [Devices -> {"none", "slc", "initialized", "started"}]
      /\ \A d \in Devices : g[d] = "none"
  BY <1>1
<1>3. bt = [dev |-> f, transports |-> l, endpoint |-> NULL, a2dp |-> NULL, ags |-> g]
  BY DEF Init
<1> HIDE DEF f, l, g
<1>4. bt \in MainRec /\ bt.endpoint = NULL /\ bt.a2dp = NULL /\ bt.ags = g
  BY <1>2, <1>3 DEF MainRec
<1>5. ASSUME NEW d \in Devices PROVE ~Exposed(bt, d)
  BY <1>2, <1>4, BluetoothAssumption DEF Exposed
<1>6. Live(bt, dangling)
  BY <1>2, <1>4, <1>5 DEF Live
<1>7. dangling \in DanglingType /\ msgs \in Seq(MessageRec)
  BY DEF Init, DanglingType
<1> QED BY <1>6, <1>7 DEF DevicesInv

LEMMA DevicesStep ==
  ASSUME DevicesInv, Live(bt', dangling), UNCHANGED dangling, msgs' \in Seq(MessageRec)
  PROVE  DevicesInv'
<1>1. Live(bt, dangling)'
  BY DEF Live, Exposed
<1> QED BY <1>1 DEF DevicesInv

LEMMA FewerStep ==
  ASSUME DevicesInv, NEW u, Fewer(bt, u), bt' = u, UNCHANGED dangling, msgs' \in Seq(MessageRec)
  PROVE  DevicesInv'
<1>1. Live(u, dangling)
  BY FewerLive DEF DevicesInv
<1> QED BY <1>1, DevicesStep

LEMMA DevicePropertiesStep ==
  ASSUME DevicesInv, NEW d \in Devices, NEW value \in BOOLEAN, NEW uuids \in SUBSET Profiles,
         DeviceProperties(d, value, uuids)
  PROVE  DevicesInv'
<1> DEFINE r == [bt.dev[d] EXCEPT !.known = TRUE]
           k == [bt EXCEPT !.dev[d] = r]
           u == cras_bt_device_update_properties(k, d, value, uuids)
<1>1. bt' = u /\ UNCHANGED <<dangling, msgs>> /\ msgs \in Seq(MessageRec) /\ bt \in MainRec
  BY DEF DeviceProperties, DevicesInv, Live
<1>2. bt.dev[d] \in DeviceRec
  BY <1>1, MainFields
<1>3. r \in DeviceRec /\ r.known
  <2>1. TRUE \in BOOLEAN
    OBVIOUS
  <2>2. r \in DeviceRec
    BY <1>2, <2>1, Zenon DEF DeviceRec
  <2>3. r.known
    BY <1>2 DEF DeviceRec
  <2> QED BY <2>2, <2>3
<1> HIDE DEF r
<1>4. Fewer(bt, k) /\ k \in MainRec
  BY <1>1, <1>3, DeviceChange DEF Fewer
<1> HIDE DEF k
<1>5. Fewer(k, u)
  BY <1>4, PropertiesFewer
<1> HIDE DEF u
<1> QED BY <1>1, <1>4, <1>5, FewerTrans, FewerStep

LEMMA DeviceRemovedStep ==
  ASSUME DevicesInv, NEW d \in Devices, DeviceRemoved(d)
  PROVE  DevicesInv'
<1> DEFINE c == cras_a2dp_suspend_connected_device(bt, d)
           g == destroy_audio_gateway(c, d)
           f == [g.dev EXCEPT ![d] = NoDevice]
           u == [g EXCEPT !.dev = f]
           e == [dangling EXCEPT !.transports = @ \union {x \in {d} : bt.transports[x].exists},
                                 !.timers = @ \union {x \in {d} : bt.dev[x].lost}]
<1>1. /\ bt' = u /\ dangling' = e /\ UNCHANGED msgs /\ msgs \in Seq(MessageRec)
      /\ bt \in MainRec /\ dangling \in DanglingType
  BY DEF DeviceRemoved, DevicesInv, Live, cras_bt_device_remove, cras_bt_device_destroy
<1>2. /\ e \in DanglingType /\ dangling.transports \subseteq e.transports
      /\ e.a2dp = dangling.a2dp /\ (bt.transports[d].exists => d \in e.transports)
  BY <1>1 DEF DanglingType
<1> HIDE DEF e
<1>3. Fewer(bt, c) /\ c \in MainRec /\ c.a2dp # d
  BY <1>1, SuspendFewer DEF Fewer
<1> HIDE DEF c
<1>4. Fewer(c, g) /\ g \in MainRec /\ g.ags[d] = "none" /\ g.a2dp # d
  BY <1>3, DestroyGatewayFewer DEF Fewer
<1> HIDE DEF g
<1>5. Live(g, dangling) /\ g.endpoint = bt.endpoint /\ g.transports = bt.transports
  BY <1>3, <1>4, FewerLive DEF DevicesInv, Fewer
<1>6. NoDevice \in DeviceRec
  BY DEF NoDevice, DeviceRec
<1>7. f \in [Devices -> DeviceRec] /\ \A x \in Devices \ {d} : f[x] = g.dev[x]
  BY <1>4, <1>6, MainFields
<1> HIDE DEF f
<1>8. /\ u \in MainRec /\ u.dev = f /\ u.ags = g.ags /\ u.a2dp = g.a2dp
      /\ u.transports = g.transports /\ u.endpoint = g.endpoint
  BY <1>4, <1>7 DEF MainRec
<1> HIDE DEF u
<1>9. /\ u.endpoint # NULL => u.endpoint \in Devices
      /\ u.a2dp # NULL => u.a2dp \in Devices \ {d}
  BY <1>4, <1>8 DEF MainRec
<1>10. u.endpoint # NULL => u.dev[u.endpoint].known \/ u.endpoint \in e.transports
  BY <1>2, <1>5, <1>7, <1>8, <1>9 DEF Live
<1>11. u.a2dp # NULL => u.dev[u.a2dp].known \/ e.a2dp
  BY <1>2, <1>5, <1>7, <1>8, <1>9 DEF Live
<1>12. \A x \in Devices : u.ags[x] # "none" => u.dev[x].known
  BY <1>4, <1>5, <1>7, <1>8 DEF Live
<1>13. \A x \in Devices : Exposed(u, x) => Exposed(g, x)
  BY <1>8 DEF Exposed
<1>14. Live(u, e)
  BY <1>5, <1>8, <1>10, <1>11, <1>12, <1>13 DEF Live
<1>15. Live(bt, dangling)'
  BY <1>1, <1>14 DEF Live, Exposed
<1> QED BY <1>1, <1>2, <1>15 DEF DevicesInv

LEMMA SetConfigurationStep ==
  ASSUME DevicesInv, NEW d \in Devices, cras_bt_endpoint_set_configuration(d)
  PROVE  DevicesInv'
<1> DEFINE p == bt.dev[d]
           q == [p EXCEPT !.known = TRUE]
           r == [q EXCEPT !.connected_profiles = p.connected_profiles \union {"a2dp"}]
           f1 == [bt EXCEPT !.dev[d] = q]
           f2 == [f1 EXCEPT !.dev[d] = [f1.dev[d] EXCEPT
                     !.connected_profiles = p.connected_profiles \union {"a2dp"}]]
           b == bt.transports[d].exists /\ bt.transports[d].removed
           n == [exists |-> TRUE, endpoint |-> TRUE, removed |-> b]
           l == [f2.transports EXCEPT ![d] = n]
           u == [f2 EXCEPT !.transports = l, !.endpoint = d]
           e == [dangling EXCEPT !.transports = @ \ {d}]
<1>0. bt \in MainRec /\ msgs \in Seq(MessageRec) /\ dangling \in DanglingType
  BY DEF DevicesInv, Live
<1>1. bt' = u /\ UNCHANGED msgs /\ dangling' = e
  BY DEF cras_bt_endpoint_set_configuration
<1>2. e \in DanglingType /\ e.a2dp = dangling.a2dp
  BY <1>0 DEF DanglingType
<1> HIDE DEF e
<1>3. p \in DeviceRec
  BY <1>0, MainFields
<1> HIDE DEF p
<1>4. q \in DeviceRec /\ q.known
  <2>1. TRUE \in BOOLEAN
    OBVIOUS
  <2>2. q \in DeviceRec
    BY <1>3, <2>1, Zenon DEF DeviceRec
  <2>3. q.known
    BY <1>3 DEF DeviceRec
  <2> QED BY <2>2, <2>3
<1> HIDE DEF q
<1>5. Fewer(bt, f1) /\ f1 \in MainRec /\ f1.dev[d] = q
  BY <1>0, <1>4, DeviceChange DEF Fewer
<1> HIDE DEF f1
<1>6. Fewer(f1, f2) /\ f2 \in MainRec /\ f2.dev[d].known
  <2>1. p.connected_profiles \union {"a2dp"} \in SUBSET Profiles
    BY <1>3 DEF DeviceRec, Profiles
  <2> DEFINE c == p.connected_profiles \union {"a2dp"}
             v == [f1.dev[d] EXCEPT !.connected_profiles = c]
  <2>2. c \in SUBSET Profiles
    BY <2>1
  <2> HIDE DEF c
  <2>3. v \in DeviceRec /\ v.known = f1.dev[d].known
    BY <1>4, <1>5, <2>2, DeviceFields, ZenonT(60)
  <2> HIDE DEF v
  <2>4. Fewer(f1, [f1 EXCEPT !.dev[d] = v]) /\ [f1 EXCEPT !.dev[d] = v].dev[d] = v
    BY <1>5, <2>3, DeviceChange
  <2>5. f2 = [f1 EXCEPT !.dev[d] = v]
    BY DEF v, c
  <2> HIDE DEF f2
  <2> QED BY <1>4, <1>5, <2>3, <2>4, <2>5 DEF Fewer
<1> HIDE DEF f2
<1>7. Live(f2, dangling)
  BY <1>5, <1>6, FewerLive DEF DevicesInv
<1>8. n \in LinkRec /\ n.exists /\ n.endpoint
  <2>1. b \in BOOLEAN
    BY Zenon
  <2> HIDE DEF b
  <2> QED BY <2>1 DEF LinkRec
<1> HIDE DEF n
<1>9. l \in [Devices -> LinkRec] /\ l[d] = n
  BY <1>6, <1>8, MainFields
<1> HIDE DEF l
<1>10. /\ u \in MainRec /\ u.dev = f2.dev /\ u.ags = f2.ags /\ u.a2dp = f2.a2dp
       /\ u.transports = l /\ u.endpoint = d
  BY <1>6, <1>9 DEF MainRec
<1> HIDE DEF u
<1>11. Live(u, e)
  BY <1>2, <1>6, <1>7, <1>8, <1>9, <1>10 DEF Live, Exposed
<1>12. Live(bt, dangling)'
  BY <1>1, <1>11 DEF Live, Exposed
<1> QED BY <1>0, <1>1, <1>2, <1>12 DEF DevicesInv

LEMMA ClearConfigurationStep ==
  ASSUME DevicesInv, NEW d \in Devices, cras_bt_endpoint_clear_configuration(d)
  PROVE  DevicesInv'
<1> DEFINE u == cras_bt_endpoint_suspend(bt)
<1>1. /\ bt' = (IF bt.endpoint = d THEN u ELSE bt) /\ UNCHANGED <<dangling, msgs>>
      /\ msgs \in Seq(MessageRec) /\ Live(bt, dangling)
  BY DEF DevicesInv, cras_bt_endpoint_clear_configuration
<1>2. Live(u, dangling)
  BY <1>1, EndpointSuspendLive
<1> HIDE DEF u
<1>3. Live(bt', dangling)
  BY <1>1, <1>2
<1> QED BY <1>1, <1>3, DevicesStep

LEMMA TransportRemoveStep ==
  ASSUME DevicesInv, NEW d \in Devices, cras_bt_transport_remove(d)
  PROVE  DevicesInv'
<1> DEFINE n == [bt.transports[d] EXCEPT !.removed = TRUE]
           l == [bt.transports EXCEPT ![d] = IF bt.transports[d].endpoint THEN n ELSE NoTransport]
           u == [bt EXCEPT !.transports = l]
<1>0. bt \in MainRec /\ msgs \in Seq(MessageRec) /\ Live(bt, dangling)
  BY DEF DevicesInv, Live
<1>1. bt' = u /\ UNCHANGED <<dangling, msgs>>
  <2>1. CASE bt.transports[d].endpoint
    BY <2>1 DEF cras_bt_transport_remove
  <2>2. CASE ~bt.transports[d].endpoint
    BY <2>2 DEF cras_bt_transport_remove, cras_bt_transport_destroy
  <2> QED BY <2>1, <2>2
<1>3. n \in LinkRec /\ n.exists = bt.transports[d].exists
      /\ n.endpoint = bt.transports[d].endpoint
  <2>1. bt.transports[d] \in LinkRec
    BY <1>0, MainFields
  <2> QED BY <2>1 DEF LinkRec
<1>4. NoTransport \in LinkRec
  BY DEF NoTransport, LinkRec
<1> HIDE DEF n
<1>5. /\ l \in [Devices -> LinkRec]
      /\ \A x \in Devices : bt.transports[x].endpoint =>
           l[x].exists = bt.transports[x].exists /\ l[x].endpoint
  BY <1>0, <1>3, <1>4, MainFields
<1> HIDE DEF l
<1>6. /\ u \in MainRec /\ u.dev = bt.dev /\ u.ags = bt.ags /\ u.a2dp = bt.a2dp
      /\ u.transports = l /\ u.endpoint = bt.endpoint
  BY <1>0, <1>5 DEF MainRec
<1> HIDE DEF u
<1>7. bt.endpoint # NULL => bt.endpoint \in Devices
  BY <1>0 DEF MainRec
<1>8. Live(u, dangling)
  BY <1>0, <1>5, <1>6, <1>7 DEF Live, Exposed
<1> QED BY <1>0, <1>1, <1>8, DevicesStep

(* A gateway that is not started exposes nothing. *)
LEMMA GatewayLive ==
  ASSUME NEW s, Live(s, dangling), NEW d \in Devices, NEW w \in {"slc", "initialized"}, s.dev[d].known
  PROVE  LET u == [s EXCEPT !.ags[d] = w] IN Live(u, dangling) /\ u.endpoint = s.endpoint
                                             /\ u.dev = s.dev
<1> DEFINE g == [s.ags EXCEPT ![d] = w]
           u == [s EXCEPT !.ags = g]
<1>0. s \in MainRec
  BY DEF Live
<1>1. /\ g \in [Devices -> {"none", "slc", "initialized", "started"}]
      /\ \A x \in Devices : g[x] = "started" => s.ags[x] = "started"
      /\ \A x \in Devices \ {d} : g[x] = s.ags[x]
  BY <1>0, MainFields
<1> HIDE DEF g
<1>2. /\ u \in MainRec /\ u.dev = s.dev /\ u.ags = g /\ u.a2dp = s.a2dp
      /\ u.transports = s.transports /\ u.endpoint = s.endpoint
  BY <1>0, <1>1 DEF MainRec
<1> HIDE DEF u
<1>3. \A x \in Devices : Exposed(u, x) => Exposed(s, x)
  BY <1>1, <1>2 DEF Exposed
<1>4. Live(u, dangling)
  BY <1>1, <1>2, <1>3 DEF Live
<1>5. u = [s EXCEPT !.ags[d] = w]
  BY DEF u, g
<1> QED BY <1>2, <1>4, <1>5

LEMMA GatewayStep ==
  ASSUME DevicesInv, NEW d \in Devices,
         \/ cras_hfp_ag_new_connection(d)
         \/ cras_bt_device_audio_gateway_initialized(d)
         \/ cras_hfp_ag_slc_disconnected(d)
  PROVE  stray' \/ DevicesInv'
<1>0. bt \in MainRec /\ Live(bt, dangling) /\ msgs' \in Seq(MessageRec) /\ UNCHANGED dangling
  BY DEF DevicesInv, Live, cras_hfp_ag_new_connection, cras_bt_device_audio_gateway_initialized,
         cras_hfp_ag_slc_disconnected
<1>1. CASE cras_hfp_ag_new_connection(d)
  <2>1. bt.dev[d].known /\ bt' = [bt EXCEPT !.ags[d] = "slc"]
    BY <1>1 DEF cras_hfp_ag_new_connection
  <2>2. Live([bt EXCEPT !.ags[d] = "slc"], dangling)
    BY <1>0, <2>1, GatewayLive
  <2> QED BY <1>0, <2>1, <2>2, DevicesStep
<1>2. CASE cras_bt_device_audio_gateway_initialized(d)
  <2> DEFINE s == [bt EXCEPT !.ags[d] = "initialized"]
             c == bt.dev[d].connected_profiles \union {"hfp"}
             r == [s.dev[d] EXCEPT !.connected_profiles = c]
             t == [s EXCEPT !.dev[d] = r]
             f == t.dev[d].profiles \union {"hfp"}
             q == [t.dev[d] EXCEPT !.profiles = f]
             v == [t EXCEPT !.dev[d] = q]
             b == t.dev[d].lost \/ bt.dev[d].watch
             k == [v.dev[d] EXCEPT !.lost = b]
             u == [v EXCEPT !.dev[d] = k]
  <2>1. bt.ags[d] = "slc"
    BY <1>2 DEF cras_bt_device_audio_gateway_initialized
  <2>2. \/ bt' = t
        \/ bt' = bt_device_conn_watch_cb(u, d) /\ stray' = WatchUsesFreed(u, d)
    BY <1>2 DEF cras_bt_device_audio_gateway_initialized, Uses
  <2>3. bt.dev[d].known /\ bt.dev[d] \in DeviceRec
    BY <1>0, <2>1, MainFields DEF Live
  <2>4. c \in SUBSET Profiles
    BY <2>3 DEF DeviceRec, Profiles
  <2> HIDE DEF c
  <2>5. Live(s, dangling) /\ s.dev = bt.dev
    BY <1>0, <2>3, GatewayLive
  <2> HIDE DEF s
  <2>6. r \in DeviceRec /\ r.known = s.dev[d].known
    <3>1. s.dev[d] \in DeviceRec
      BY <2>3, <2>5
    <3> QED BY <2>4, <3>1, DeviceFields
  <2> HIDE DEF r
  <2>7. s \in MainRec
    BY <2>5 DEF Live
  <2>8. Fewer(s, t)
    BY <2>6, <2>7, DeviceChange
  <2> HIDE DEF t
  <2>9. Live(t, dangling) /\ t \in MainRec
    BY <2>5, <2>8, FewerLive DEF Fewer
  <2>10. t.dev[d] \in DeviceRec
    BY <2>9, MainFields
  <2>11. f \in SUBSET Profiles
    BY <2>10 DEF DeviceRec, Profiles
  <2> HIDE DEF f
  <2>12. q \in DeviceRec /\ q.known = t.dev[d].known
    BY <2>10, <2>11, DeviceFields
  <2> HIDE DEF q
  <2>13. Fewer(t, v)
    BY <2>9, <2>12, DeviceChange
  <2> HIDE DEF v
  <2>14. Live(v, dangling) /\ v \in MainRec
    BY <2>9, <2>13, FewerLive DEF Fewer
  <2>15. b \in BOOLEAN
    BY Zenon
  <2> HIDE DEF b
  <2>16. k \in DeviceRec /\ k.known = v.dev[d].known
    BY <2>14, <2>15, MainFields, DeviceFields
  <2> HIDE DEF k
  <2>17. Fewer(v, u)
    BY <2>14, <2>16, DeviceChange
  <2> HIDE DEF u
  <2>18. Live(u, dangling)
    BY <2>14, <2>17, FewerLive
  <2>19. CASE bt' = t
    BY <1>0, <2>9, <2>19, DevicesStep
  <2>20. CASE bt' = bt_device_conn_watch_cb(u, d) /\ stray' = WatchUsesFreed(u, d)
    BY <1>0, <2>18, <2>20, WatchLive, DevicesStep
  <2> QED BY <2>2, <2>19, <2>20
<1>3. CASE cras_hfp_ag_slc_disconnected(d)
  <2>1. bt' = DropGateway(bt, d)
    BY <1>3 DEF cras_hfp_ag_slc_disconnected
  <2>2. Fewer(bt, DropGateway(bt, d))
    BY <1>0, DropGatewayFewer
  <2> QED BY <1>0, <2>1, <2>2, FewerStep
<1> QED BY <1>1, <1>2, <1>3

(* The timer that conn_watch_timer does not name. *)
LEMMA LostTimerStep ==
  ASSUME DevicesInv, NEW d \in Devices, lost_timer(d)
  PROVE  stray' \/ DevicesInv'
<1> DEFINE w == bt.dev[d].watch
           r == [bt.dev[d] EXCEPT !.lost = w]
           s == [bt EXCEPT !.dev[d] = r]
<1>0. bt \in MainRec /\ Live(bt, dangling) /\ msgs' \in Seq(MessageRec) /\ UNCHANGED dangling
  BY DEF DevicesInv, Live, lost_timer
<1>1. \/ bt' = bt_device_conn_watch_cb(s, d) /\ stray' = WatchUsesFreed(s, d)
      \/ stray'
  BY DEF lost_timer, Uses
<1>2. bt.dev[d] \in DeviceRec
  BY <1>0, MainFields
<1>3. w \in BOOLEAN
  BY <1>2 DEF DeviceRec
<1> HIDE DEF w
<1>4. r \in DeviceRec /\ r.known = bt.dev[d].known
  BY <1>2, <1>3, DeviceFields
<1> HIDE DEF r
<1>5. Fewer(bt, s)
  BY <1>0, <1>4, DeviceChange
<1> HIDE DEF s
<1>6. Live(s, dangling)
  BY <1>0, <1>5, FewerLive
<1>7. CASE bt' = bt_device_conn_watch_cb(s, d) /\ stray' = WatchUsesFreed(s, d)
  BY <1>0, <1>6, <1>7, WatchLive, DevicesStep
<1> QED BY <1>1, <1>7

LEMMA ProfileReleaseStep ==
  ASSUME DevicesInv, cras_bt_profile_release
  PROVE  DevicesInv'
<1> DEFINE g == [d \in Devices |-> "none"]
           u == [bt EXCEPT !.ags = g]
<1>1. bt' = u /\ UNCHANGED dangling /\ bt \in MainRec /\ msgs' \in Seq(MessageRec)
  BY DEF DevicesInv, Live, cras_bt_profile_release
<1>2. /\ g \in [Devices -> {"none", "slc", "initialized", "started"}]
      /\ \A d \in Devices : g[d] = "none"
  OBVIOUS
<1> HIDE DEF g
<1>3. /\ u \in MainRec /\ u.dev = bt.dev /\ u.ags = g /\ u.a2dp = bt.a2dp
      /\ u.transports = bt.transports /\ u.endpoint = bt.endpoint
  BY <1>1, <1>2 DEF MainRec
<1> HIDE DEF u
<1>4. Fewer(bt, u)
  BY <1>1, <1>2, <1>3 DEF Fewer
<1> QED BY <1>1, <1>4, FewerStep

LEMMA ResetStep ==
  ASSUME DevicesInv, cras_bt_reset
  PROVE  DevicesInv'
<1> DEFINE s == cras_bt_endpoint_suspend(bt)
           l == [d \in Devices |-> NoTransport]
           g == [d \in Devices |-> "none"]
           f == [d \in Devices |-> NoDevice]
           u == [s EXCEPT !.transports = l, !.ags = g, !.dev = f]
           b == s.a2dp # NULL
           e == [transports |-> {}, a2dp |-> b,
                 timers |-> dangling.timers \union {d \in Devices : bt.dev[d].lost}]
<1>1. bt' = u /\ dangling' = e /\ msgs' \in Seq(MessageRec) /\ dangling \in DanglingType
  BY DEF DevicesInv, cras_bt_reset
<1>2. b \in BOOLEAN
  BY Zenon
<1>3. s \in MainRec /\ s.endpoint = NULL /\ \A x, y \in Devices : Exposed(s, x) /\ Exposed(s, y) => x = y
  BY EndpointSuspendLive DEF DevicesInv, Live
<1>9. s.a2dp # NULL => b
  OBVIOUS
<1> HIDE DEF b
<1>10. e \in DanglingType /\ e.a2dp = b
  BY <1>1, <1>2 DEF DanglingType
<1> HIDE DEF s, e
<1>4. NoDevice \in DeviceRec /\ NoTransport \in LinkRec
  BY DEF NoDevice, NoTransport, DeviceRec, LinkRec
<1>5. /\ f \in [Devices -> DeviceRec] /\ l \in [Devices -> LinkRec]
      /\ g \in [Devices -> {"none", "slc", "initialized", "started"}]
      /\ \A d \in Devices : g[d] = "none"
  BY <1>4
<1> HIDE DEF f, g, l
<1>6. u \in MainRec /\ u.endpoint = NULL /\ u.ags = g /\ u.a2dp = s.a2dp
  BY <1>3, <1>5 DEF MainRec
<1> HIDE DEF u
<1>7. Live(u, e)
  BY <1>3, <1>5, <1>6, <1>9, <1>10 DEF Live, Exposed
<1>8. Live(bt, dangling)'
  BY <1>1, <1>7 DEF Live, Exposed
<1> QED BY <1>1, <1>8, <1>10 DEF DevicesInv

LEMMA SuspendTimerStep ==
  ASSUME DevicesInv, NEW d \in Devices, suspend_timer(d)
  PROVE  DevicesInv'
<1> DEFINE q == [bt.dev[d] EXCEPT !.suspend = "none"]
           t == [bt EXCEPT !.dev[d] = q]
           r == [t.dev[d] EXCEPT !.dropped = FALSE]
           v == [t EXCEPT !.dev[d] = r]
           c == cras_a2dp_suspend_connected_device(v, d)
           u == destroy_audio_gateway(c, d)
<1>1. bt' = u /\ UNCHANGED dangling /\ bt \in MainRec /\ msgs' \in Seq(MessageRec)
  BY DEF DevicesInv, Live, suspend_timer, bt_device_suspend_cb
<1>2. q \in DeviceRec /\ q.known = bt.dev[d].known
  BY <1>1, MainFields, DeviceFields
<1> HIDE DEF q
<1>3. Fewer(bt, t) /\ t \in MainRec
  BY <1>1, <1>2, DeviceChange DEF Fewer
<1> HIDE DEF t
<1>4. r \in DeviceRec /\ r.known = t.dev[d].known
  BY <1>3, MainFields, DeviceFields
<1> HIDE DEF r
<1>5. Fewer(t, v) /\ v \in MainRec
  BY <1>3, <1>4, DeviceChange DEF Fewer
<1> HIDE DEF v
<1>6. Fewer(v, c) /\ c \in MainRec
  BY <1>5, SuspendFewer DEF Fewer
<1> HIDE DEF c
<1>7. Fewer(c, u)
  BY <1>6, DestroyGatewayFewer
<1> HIDE DEF u
<1>8. Fewer(bt, u)
  BY <1>3, <1>5, <1>6, <1>7, FewerTrans
<1> QED BY <1>1, <1>8, FewerStep

LEMMA MessageStep ==
  ASSUME DevicesInv, bt_device_process_msg
  PROVE  DevicesInv'
<1> DEFINE m == Head(msgs)
<1>1. /\ msgs # << >> /\ msgs' = Tail(msgs) /\ UNCHANGED dangling /\ bt \in MainRec
      /\ msgs \in Seq(MessageRec)
  BY DEF DevicesInv, Live, bt_device_process_msg
<1>2. m \in MessageRec /\ msgs' \in Seq(MessageRec)
  BY <1>1
<1>3. m.device \in Devices /\ m.cmd \in {"cancel", "delayed", "now"}
  BY <1>2 DEF MessageRec
<1>4. bt' = CASE ~bt.dev[m.device].known -> bt
              [] bt.dev[m.device].known /\ m.cmd = "cancel" ->
                   bt_device_cancel_suspend(bt, m.device)
              [] OTHER -> bt_device_schedule_suspend(bt, m.device, m.cmd)
  BY DEF bt_device_process_msg
<1> HIDE DEF m
<1>5. Fewer(bt, bt)
  BY <1>1 DEF Fewer
<1>6. Fewer(bt, bt_device_cancel_suspend(bt, m.device))
  BY <1>1, <1>3, CancelFewer
<1>7. m.cmd # "cancel" => Fewer(bt, bt_device_schedule_suspend(bt, m.device, m.cmd))
  BY <1>1, <1>3, ScheduleFewer
<1>8. CASE ~bt.dev[m.device].known
  BY <1>1, <1>2, <1>4, <1>5, <1>8, FewerStep
<1>9. CASE bt.dev[m.device].known /\ m.cmd = "cancel"
  BY <1>1, <1>2, <1>4, <1>6, <1>9, FewerStep
<1>10. CASE bt.dev[m.device].known /\ m.cmd # "cancel"
  BY <1>1, <1>2, <1>4, <1>7, <1>10, FewerStep
<1> QED BY <1>8, <1>9, <1>10

(* A behaviour in which a pointer to a freed device was used is at its end. *)
LEMMA NextNotStray == Next => ~stray
  BY ZenonT(60) DEF Next, Timers, Uses, ReadsFreed, DeviceProperties, DeviceRemoved,
         cras_bt_endpoint_set_configuration, cras_bt_endpoint_clear_configuration,
         cras_bt_transport_remove, cras_bt_endpoint_release, cras_hfp_ag_new_connection,
         cras_bt_device_audio_gateway_initialized, cras_hfp_ag_slc_disconnected,
         cras_bt_profile_release, cras_bt_reset, conn_watch_timer, lost_timer, suspend_timer,
         Send, bt_device_process_msg

DevicesSafe == stray \/ DevicesInv

LEMMA NextDevicesInv == DevicesSafe /\ [Next]_btVars => DevicesSafe'
<1> SUFFICES ASSUME DevicesSafe, [Next]_btVars PROVE stray' \/ DevicesInv'
  BY DEF DevicesSafe
<1>6. CASE stray
  BY <1>6, NextNotStray DEF btVars
<1> SUFFICES ASSUME DevicesInv PROVE stray' \/ DevicesInv'
  BY <1>6 DEF DevicesSafe
<1>0. bt \in MainRec /\ Live(bt, dangling) /\ msgs \in Seq(MessageRec)
  BY DEF DevicesInv, Live
<1>1. ASSUME NEW d \in Devices, NEW value \in BOOLEAN, NEW uuids \in SUBSET Profiles,
             DeviceProperties(d, value, uuids)
      PROVE  stray' \/ DevicesInv'
  BY <1>1, DevicePropertiesStep
<1>2. ASSUME NEW d \in Devices, NEW m \in {"cancel", "delayed", "now"}, Send(d, m)
      PROVE  stray' \/ DevicesInv'
  <2>1. msgs' = Append(msgs, [device |-> d, cmd |-> m]) /\ UNCHANGED <<bt, dangling>>
    BY <1>2 DEF Send
  <2>2. [device |-> d, cmd |-> m] \in MessageRec
    BY DEF MessageRec
  <2>3. msgs' \in Seq(MessageRec)
    BY <1>0, <2>1, <2>2
  <2> QED BY <1>0, <2>1, <2>3, DevicesStep
<1>3. CASE cras_bt_endpoint_release
  <2>1. bt' = cras_bt_endpoint_suspend(bt) /\ UNCHANGED <<dangling, msgs>>
    BY <1>3 DEF cras_bt_endpoint_release
  <2>2. Live(cras_bt_endpoint_suspend(bt), dangling)
    BY <1>0, EndpointSuspendLive
  <2> QED BY <1>0, <2>1, <2>2, DevicesStep
<1>4. ASSUME NEW d \in Devices, conn_watch_timer(d) PROVE stray' \/ DevicesInv'
  <2>1. /\ bt' = bt_device_conn_watch_cb(bt, d) /\ UNCHANGED <<dangling, msgs>>
        /\ stray' = WatchUsesFreed(bt, d)
    BY <1>4 DEF conn_watch_timer, Uses
  <2>2. stray' \/ Live(bt_device_conn_watch_cb(bt, d), dangling)
    BY <1>0, <2>1, WatchLive
  <2> QED BY <1>0, <2>1, <2>2, DevicesStep
<1>5. CASE UNCHANGED btVars
  BY <1>0, <1>5, DevicesStep DEF btVars
<1> QED
  BY <1>1, <1>2, <1>3, <1>4, <1>5, DeviceRemovedStep, SetConfigurationStep,
     ClearConfigurationStep, TransportRemoveStep, GatewayStep, ProfileReleaseStep, ResetStep,
     SuspendTimerStep, LostTimerStep, MessageStep DEF Next, Timers

LEMMA DevicesInvSound == DevicesSafe => PointersLive /\ OneHeadset
<1> SUFFICES ASSUME DevicesInv PROVE PointersLive /\ OneHeadset
  BY DEF DevicesSafe, PointersLive, OneHeadset
<1>1. PointersLive
  BY DEF DevicesInv, Live, PointersLive
<1>2. OneHeadset
  <2> DEFINE S == {d \in Devices : bt.a2dp = d \/ bt.ags[d] = "started"}
  <2>1. \A x, y \in S : x = y
    BY DEF DevicesInv, Live, Exposed
  <2> HIDE DEF S
  <2>2. CASE S = {}
    <3>1. Cardinality(S) = 0
      BY <2>2, FS_EmptySet
    <3> QED BY <3>1 DEF OneHeadset, S
  <2>3. CASE S # {}
    <3>1. PICK x \in S : TRUE
      BY <2>3
    <3>2. S = {x}
      BY <2>1, <3>1
    <3>3. Cardinality(S) = 1
      BY <3>2, FS_Singleton
    <3> QED BY <3>3 DEF OneHeadset, S
  <2> QED BY <2>2, <2>3
<1> QED BY <1>1, <1>2

(* As long as no pointer to a freed device or gateway is used, what the    *)
(* main thread points to is there, at most one headset has audio devices,  *)
(* and every descriptor of the A2DP transport has one owner, in every      *)
(* order of BlueZ's reports (cras_bt_device.c, cras_bt_endpoint.c,         *)
(* cras_bt_transport.c, cras_hfp_ag_profile.c, cras_a2dp_iodev.c).         *)
THEOREM HeadsetsStaySound == MCSpec => []HeadsetsSound
<1>1. MCInit => DevicesSafe /\ TransportInv
  BY InitDevicesInv, InitTransportInv DEF MCInit, DevicesSafe
<1>2. DevicesSafe /\ TransportInv /\ [MCNext]_mcVars => DevicesSafe' /\ TransportInv'
  <2> SUFFICES ASSUME DevicesSafe, TransportInv, [MCNext]_mcVars
               PROVE  DevicesSafe' /\ TransportInv'
    OBVIOUS
  <2>1. [Next]_btVars /\ [Transport!Next]_btpVars
    BY DEF MCNext, mcVars
  <2> QED BY <2>1, NextDevicesInv, NextTransportInv
<1>3. DevicesSafe /\ TransportInv => HeadsetsSound
  BY DevicesInvSound, TransportInvOwned DEF HeadsetsSound
<1> QED BY <1>1, <1>2, <1>3, PTL DEF MCSpec

-----------------------------------------------------------------------------
(* The switch of profiles (BtProfileSwitch).                               *)

SwitchRec ==
  [active: Switch!Profiles, nodes: [Switch!Directions -> SUBSET Switch!Profiles],
   node: [Switch!Directions -> Switch!Profiles], open: [Switch!Directions -> BOOLEAN],
   hw: SUBSET (Switch!Directions \X Switch!Profiles), streams: [Switch!Directions -> Int],
   retry: [Switch!Directions -> BOOLEAN], msgs: Nat, timer: BOOLEAN]

(* A stream of a direction of the headset has its device or waits for it. *)
Served(s, dir) ==
  s.streams[dir] > 0 /\ ~s.open[dir] =>
    s.msgs > 0 \/ s.retry[dir] \/ (dir = "output" /\ s.timer)

SwitchInv ==
  /\ io \in SwitchRec
  /\ budget \in [events: Int, failures: Int] /\ budget.failures <= MaxFailures
  /\ budget.failures = MaxFailures => \A dir \in Switch!Directions : Served(io, dir)

(* A handler that loses no message and no timer. *)
Keeps(s, u) ==
  /\ s \in SwitchRec /\ u \in SwitchRec
  /\ u.streams = s.streams /\ u.timer = s.timer /\ u.msgs >= s.msgs

LEMMA SwitchFields ==
  ASSUME NEW s \in SwitchRec, NEW dir \in Switch!Directions
  PROVE  /\ s.active \in Switch!Profiles /\ s.node[dir] \in Switch!Profiles
         /\ s.nodes[dir] \in SUBSET Switch!Profiles
         /\ s.nodes \in [Switch!Directions -> SUBSET Switch!Profiles]
         /\ s.node \in [Switch!Directions -> Switch!Profiles]
         /\ s.open \in [Switch!Directions -> BOOLEAN]
         /\ s.retry \in [Switch!Directions -> BOOLEAN]
         /\ s.hw \in SUBSET (Switch!Directions \X Switch!Profiles)
         /\ s.streams \in [Switch!Directions -> Int] /\ s.streams[dir] \in Int /\ s.msgs \in Nat
  BY DEF SwitchRec

Activated(s, a, m) == [s EXCEPT !.active = a, !.msgs = m]

LEMMA SetActive ==
  ASSUME NEW s \in SwitchRec, NEW a \in Switch!Profiles, NEW m \in Nat
  PROVE  LET u == Activated(s, a, m) IN
         /\ u \in SwitchRec /\ u.streams = s.streams /\ u.open = s.open /\ u.retry = s.retry
         /\ u.timer = s.timer /\ u.msgs = m /\ u.node = s.node /\ u.hw = s.hw
<1> DEFINE u == [s EXCEPT !.active = a, !.msgs = m]
<1> USE DEF Activated
<1>1. u \in SwitchRec
  BY Zenon DEF SwitchRec
<1>2. /\ u.streams = s.streams /\ u.open = s.open /\ u.retry = s.retry
      /\ u.timer = s.timer /\ u.msgs = m /\ u.node = s.node /\ u.hw = s.hw
  BY DEF SwitchRec
<1> QED BY <1>1, <1>2

LEMMA SetNode ==
  ASSUME NEW s \in SwitchRec, NEW f \in [Switch!Directions -> Switch!Profiles]
  PROVE  LET u == [s EXCEPT !.node = f] IN
         /\ u \in SwitchRec /\ u.streams = s.streams /\ u.open = s.open /\ u.retry = s.retry
         /\ u.timer = s.timer /\ u.msgs = s.msgs
<1> DEFINE u == [s EXCEPT !.node = f]
<1>1. u \in SwitchRec
  BY Zenon DEF SwitchRec
<1>2. /\ u.streams = s.streams /\ u.open = s.open /\ u.retry = s.retry
      /\ u.timer = s.timer /\ u.msgs = s.msgs
  BY DEF SwitchRec
<1> QED BY <1>1, <1>2

LEMMA SetRetry ==
  ASSUME NEW s \in SwitchRec, NEW f \in [Switch!Directions -> BOOLEAN]
  PROVE  LET u == [s EXCEPT !.retry = f] IN
         /\ u \in SwitchRec /\ u.streams = s.streams /\ u.open = s.open /\ u.retry = f
         /\ u.timer = s.timer /\ u.msgs = s.msgs
<1> DEFINE u == [s EXCEPT !.retry = f]
<1>1. u \in SwitchRec
  BY Zenon DEF SwitchRec
<1>2. /\ u.streams = s.streams /\ u.open = s.open /\ u.retry = f
      /\ u.timer = s.timer /\ u.msgs = s.msgs
  BY DEF SwitchRec
<1> QED BY <1>1, <1>2

LEMMA SetStreams ==
  ASSUME NEW s \in SwitchRec, NEW f \in [Switch!Directions -> Int]
  PROVE  LET u == [s EXCEPT !.streams = f] IN
         /\ u \in SwitchRec /\ u.streams = f /\ u.open = s.open /\ u.retry = s.retry
         /\ u.timer = s.timer /\ u.msgs = s.msgs
<1> DEFINE u == [s EXCEPT !.streams = f]
<1>1. u \in SwitchRec
  BY Zenon DEF SwitchRec
<1>2. /\ u.streams = f /\ u.open = s.open /\ u.retry = s.retry
      /\ u.timer = s.timer /\ u.msgs = s.msgs
  BY DEF SwitchRec
<1> QED BY <1>1, <1>2

LEMMA BooleanUpdate ==
  ASSUME NEW f \in [Switch!Directions -> BOOLEAN], NEW dir \in Switch!Directions, NEW b \in BOOLEAN
  PROVE  /\ [f EXCEPT ![dir] = b] \in [Switch!Directions -> BOOLEAN]
         /\ [f EXCEPT ![dir] = b][dir] = b
         /\ \A x \in Switch!Directions \ {dir} : [f EXCEPT ![dir] = b][x] = f[x]
  OBVIOUS

LEMMA SwitchToA2dpKeeps ==
  ASSUME NEW s \in SwitchRec
  PROVE  LET u == Switch!bt_possibly_switch_to_a2dp(s) IN
         /\ Keeps(s, u) /\ u.open = s.open /\ u.retry = s.retry
         /\ u.node = s.node /\ u.hw = s.hw
<1>1. s.msgs \in Nat /\ s.msgs + 1 \in Nat /\ "a2dp" \in Switch!Profiles
  BY DEF SwitchRec, Switch!Profiles
<1>2. LET u == Activated(s, "a2dp", s.msgs + 1) IN
      /\ Keeps(s, u) /\ u.open = s.open /\ u.retry = s.retry /\ u.node = s.node /\ u.hw = s.hw
  <2> DEFINE u == Activated(s, "a2dp", s.msgs + 1)
  <2>1. /\ u \in SwitchRec /\ u.streams = s.streams /\ u.open = s.open /\ u.retry = s.retry
        /\ u.timer = s.timer /\ u.msgs = s.msgs + 1 /\ u.node = s.node /\ u.hw = s.hw
    BY ONLY <1>1, SetActive, s \in SwitchRec
  <2> HIDE DEF u
  <2> QED BY <1>1, <2>1 DEF Keeps, u
<1>3. Keeps(s, s)
  BY <1>1 DEF Keeps
<1> QED BY <1>2, <1>3 DEF Switch!bt_possibly_switch_to_a2dp, Activated

LEMMA UpdateNodeKeeps ==
  ASSUME NEW s \in SwitchRec, NEW dir \in Switch!Directions
  PROVE  LET u == Switch!update_active_node(s, dir) IN
         Keeps(s, u) /\ u.open = s.open /\ u.retry = s.retry
<1> DEFINE f == [s.node EXCEPT ![dir] = s.active]
<1>1. f \in [Switch!Directions -> Switch!Profiles] /\ s.msgs \in Nat
  BY SwitchFields
<1> HIDE DEF f
<1>2. LET u == [s EXCEPT !.node = f] IN Keeps(s, u) /\ u.open = s.open /\ u.retry = s.retry
  <2> DEFINE u == [s EXCEPT !.node = f]
  <2>1. /\ u \in SwitchRec /\ u.streams = s.streams /\ u.open = s.open /\ u.retry = s.retry
        /\ u.timer = s.timer /\ u.msgs = s.msgs
    BY <1>1, SetNode
  <2> HIDE DEF u
  <2> QED BY <1>1, <2>1 DEF Keeps, u
<1>3. Keeps(s, s)
  BY <1>1 DEF Keeps
<1> QED BY <1>2, <1>3 DEF Switch!update_active_node, f

LEMMA SwitchCloseKeeps ==
  ASSUME NEW s \in SwitchRec, NEW dir \in Switch!Directions
  PROVE  LET u == Switch!close_dev(s, dir) IN
         /\ Keeps(s, u) /\ u.retry = s.retry
         /\ \A x \in Switch!Directions \ {dir} : u.open[x] = s.open[x]
<1> DEFINE t == IF dir = "input" /\ s.active = "hfp"
                THEN Switch!bt_possibly_switch_to_a2dp(s) ELSE s
           f == [t.open EXCEPT ![dir] = FALSE]
           h == t.hw \ {<<dir, s.node[dir]>>}
           u == [t EXCEPT !.open = f, !.hw = h]
<1>1. s.msgs \in Nat
  BY SwitchFields
<1>2. Keeps(s, t) /\ t.open = s.open /\ t.retry = s.retry /\ t \in SwitchRec
  BY <1>1, SwitchToA2dpKeeps DEF Keeps
<1>3. Switch!close_dev(s, dir) = IF ~s.open[dir] THEN s ELSE u
  BY DEF Switch!close_dev
<1> HIDE DEF t
<1>4. /\ f \in [Switch!Directions -> BOOLEAN]
      /\ \A x \in Switch!Directions \ {dir} : f[x] = s.open[x]
  BY <1>2, SwitchFields, BooleanUpdate
<1>5. h \in SUBSET (Switch!Directions \X Switch!Profiles)
  BY <1>2, SwitchFields
<1> HIDE DEF f, h
<1>6. u \in SwitchRec
  BY <1>2, <1>4, <1>5, Zenon DEF SwitchRec
<1>7. /\ u.streams = t.streams /\ u.open = f /\ u.retry = t.retry
      /\ u.timer = t.timer /\ u.msgs = t.msgs
  BY <1>2 DEF SwitchRec
<1> HIDE DEF u
<1> QED BY <1>1, <1>2, <1>3, <1>4, <1>6, <1>7 DEF Keeps

(* An open that does not fail opens the device or has the profile switched. *)
LEMMA SwitchOpenKeeps ==
  ASSUME NEW s \in SwitchRec, NEW dir \in Switch!Directions, NEW fail
  PROVE  LET u == Switch!open_dev(s, dir, fail) IN
         /\ Keeps(s, u) /\ u.retry = s.retry
         /\ \A x \in Switch!Directions \ {dir} : u.open[x] = s.open[x]
         /\ fail = "none" => u.open[dir] \/ u.msgs > 0
<1>0. s.msgs \in Nat /\ s.msgs + 1 \in Nat /\ "hfp" \in Switch!Profiles /\ s.msgs + 1 > 0
      /\ Keeps(s, s)
  BY SwitchFields DEF Switch!Profiles, Keeps
<1>1. CASE dir = "input" /\ s.active = "a2dp"
  <2> DEFINE u == [s EXCEPT !.active = "hfp", !.msgs = s.msgs + 1]
  <2>1. Switch!open_dev(s, dir, fail) = u
    BY <1>1 DEF Switch!open_dev
  <2>2. u \in SwitchRec
    BY <1>0, Zenon DEF SwitchRec
  <2>3. /\ u.streams = s.streams /\ u.open = s.open /\ u.retry = s.retry
        /\ u.timer = s.timer /\ u.msgs = s.msgs + 1
    BY DEF SwitchRec
  <2> HIDE DEF u
  <2> QED BY <1>0, <2>1, <2>2, <2>3 DEF Keeps
<1>2. CASE ~(dir = "input" /\ s.active = "a2dp") /\ fail = "open"
  <2>1. Switch!open_dev(s, dir, fail) =
          IF dir = "input" THEN Switch!bt_possibly_switch_to_a2dp(s) ELSE s
    BY <1>2 DEF Switch!open_dev
  <2> QED BY <1>0, <1>2, <2>1, SwitchToA2dpKeeps
<1>3. CASE ~(dir = "input" /\ s.active = "a2dp") /\ fail = "configure"
  <2>1. Switch!open_dev(s, dir, fail) = s
    BY <1>3 DEF Switch!open_dev
  <2> QED BY <1>0, <1>3, <2>1
<1>4. CASE ~(dir = "input" /\ s.active = "a2dp") /\ fail \notin {"open", "configure"}
  <2> DEFINE f == [s.open EXCEPT ![dir] = TRUE]
             h == s.hw \union {<<dir, s.node[dir]>>}
             u == [s EXCEPT !.open = f, !.hw = h]
  <2>1. Switch!open_dev(s, dir, fail) = u
    BY <1>4 DEF Switch!open_dev
  <2>2. /\ f \in [Switch!Directions -> BOOLEAN] /\ f[dir]
        /\ \A x \in Switch!Directions \ {dir} : f[x] = s.open[x]
    BY SwitchFields, BooleanUpdate
  <2>3. h \in SUBSET (Switch!Directions \X Switch!Profiles)
    BY SwitchFields
  <2> HIDE DEF f, h
  <2>4. u \in SwitchRec
    BY <2>2, <2>3, Zenon DEF SwitchRec
  <2>5. /\ u.streams = s.streams /\ u.open = f /\ u.retry = s.retry
        /\ u.timer = s.timer /\ u.msgs = s.msgs
    BY DEF SwitchRec
  <2> HIDE DEF u
  <2> QED BY <1>0, <2>1, <2>2, <2>4, <2>5 DEF Keeps
<1> QED BY <1>1, <1>2, <1>3, <1>4

(* init_device leaves the device open or a retry behind. *)
LEMMA SwitchInitKeeps ==
  ASSUME NEW s \in SwitchRec, NEW dir \in Switch!Directions, NEW fail
  PROVE  LET u == Switch!init_device(s, dir, fail) IN
         /\ Keeps(s, u)
         /\ \A x \in Switch!Directions \ {dir} : u.open[x] = s.open[x] /\ u.retry[x] = s.retry[x]
         /\ u.open[dir] \/ u.retry[dir]
<1> DEFINE g == [s.retry EXCEPT ![dir] = FALSE]
           r == [s EXCEPT !.retry = g]
           t == Switch!open_dev(r, dir, fail)
           f == [t.retry EXCEPT ![dir] = ~t.open[dir]]
           u == [t EXCEPT !.retry = f]
<1>1. Switch!init_device(s, dir, fail) = IF s.open[dir] THEN s ELSE u
  BY DEF Switch!init_device
<1>2. /\ g \in [Switch!Directions -> BOOLEAN]
      /\ \A x \in Switch!Directions \ {dir} : g[x] = s.retry[x]
  BY SwitchFields, BooleanUpdate
<1> HIDE DEF g
<1>3. /\ r \in SwitchRec /\ r.streams = s.streams /\ r.open = s.open /\ r.retry = g
      /\ r.timer = s.timer /\ r.msgs = s.msgs
  BY <1>2, SetRetry
<1> HIDE DEF r
<1>4. /\ Keeps(r, t) /\ t.retry = r.retry /\ t \in SwitchRec
      /\ \A x \in Switch!Directions \ {dir} : t.open[x] = r.open[x]
  BY <1>3, SwitchOpenKeeps DEF Keeps
<1> HIDE DEF t
<1>5. /\ f \in [Switch!Directions -> BOOLEAN] /\ f[dir] = (~t.open[dir])
      /\ \A x \in Switch!Directions \ {dir} : f[x] = t.retry[x]
  <2>1. (~t.open[dir]) \in BOOLEAN
    BY Zenon
  <2> DEFINE b == ~t.open[dir]
             h == [t.retry EXCEPT ![dir] = b]
  <2>2. b \in BOOLEAN
    BY <2>1
  <2>3. t.retry \in [Switch!Directions -> BOOLEAN]
    BY <1>4, SwitchFields
  <2> HIDE DEF b
  <2>4. /\ h \in [Switch!Directions -> BOOLEAN] /\ h[dir] = b
        /\ \A x \in Switch!Directions \ {dir} : h[x] = t.retry[x]
    BY <2>2, <2>3, BooleanUpdate
  <2> QED BY <2>4 DEF b
<1> HIDE DEF f
<1>6. /\ u \in SwitchRec /\ u.streams = t.streams /\ u.open = t.open /\ u.retry = f
      /\ u.timer = t.timer /\ u.msgs = t.msgs
  BY <1>4, <1>5, SetRetry
<1> HIDE DEF u
<1>7. Keeps(s, u) /\ Keeps(s, s)
  BY <1>3, <1>4, <1>6, SwitchFields DEF Keeps
<1> QED BY <1>1, <1>2, <1>3, <1>4, <1>5, <1>6, <1>7

LEMMA SwitchResumeKeeps ==
  ASSUME NEW s \in SwitchRec, NEW dir \in Switch!Directions, NEW fail
  PROVE  LET u == Switch!cras_iodev_list_resume_dev(s, dir, fail) IN
         /\ Keeps(s, u)
         /\ \A x \in Switch!Directions \ {dir} : u.open[x] = s.open[x] /\ u.retry[x] = s.retry[x]
         /\ u.streams[dir] > 0 => u.open[dir] \/ u.retry[dir]
<1> DEFINE t == Switch!update_active_node(s, dir)
           u == Switch!init_device(t, dir, fail)
<1>1. Keeps(s, t) /\ t.open = s.open /\ t.retry = s.retry /\ t \in SwitchRec
  BY UpdateNodeKeeps DEF Keeps
<1>2. Switch!cras_iodev_list_resume_dev(s, dir, fail) = IF t.streams[dir] = 0 THEN t ELSE u
  BY DEF Switch!cras_iodev_list_resume_dev
<1> HIDE DEF t
<1>3. /\ Keeps(t, u)
      /\ \A x \in Switch!Directions \ {dir} : u.open[x] = t.open[x] /\ u.retry[x] = t.retry[x]
      /\ u.open[dir] \/ u.retry[dir]
  BY <1>1, SwitchInitKeeps
<1> HIDE DEF u
<1>4. Keeps(s, u)
  BY <1>1, <1>3, SwitchFields DEF Keeps
<1> QED BY <1>1, <1>2, <1>3, <1>4

LEMMA ServedKept ==
  ASSUME NEW s, NEW u, Keeps(s, u), NEW dir \in Switch!Directions, Served(s, dir),
         u.open[dir] = s.open[dir], u.retry[dir] = s.retry[dir]
  PROVE  Served(u, dir)
  BY SwitchFields DEF Keeps, Served

(* Whatever it finds, a switch leaves the input open or a retry for it,    *)
(* and the output to the timer.                                            *)
LEMMA SwitchProfileServes ==
  ASSUME NEW s \in SwitchRec, NEW fail
  PROVE  LET u == Switch!bt_device_switch_profile(s, fail) IN
         u \in SwitchRec /\ \A dir \in Switch!Directions : Served(u, dir)
<1> DEFINE a == Switch!close_dev(s, "output")
           b == Switch!update_active_node(a, "output")
           c == Switch!close_dev(b, "input")
           d == Switch!update_active_node(c, "input")
           r == Switch!cras_iodev_list_resume_dev(d, "input", fail)
           u == [r EXCEPT !.timer = TRUE]
<1>0. "output" \in Switch!Directions /\ "input" \in Switch!Directions
  BY DEF Switch!Directions
<1>1. Switch!bt_device_switch_profile(s, fail) = u
  BY DEF Switch!bt_device_switch_profile, Switch!cras_iodev_list_suspend_dev
<1>2. a \in SwitchRec
  BY <1>0, SwitchCloseKeeps DEF Keeps
<1> HIDE DEF a
<1>3. b \in SwitchRec
  BY <1>0, <1>2, UpdateNodeKeeps DEF Keeps
<1> HIDE DEF b
<1>4. c \in SwitchRec
  BY <1>0, <1>3, SwitchCloseKeeps DEF Keeps
<1> HIDE DEF c
<1>5. d \in SwitchRec
  BY <1>0, <1>4, UpdateNodeKeeps DEF Keeps
<1> HIDE DEF d
<1>6. r \in SwitchRec /\ (r.streams["input"] > 0 => r.open["input"] \/ r.retry["input"])
  BY <1>0, <1>5, SwitchResumeKeeps DEF Keeps
<1> HIDE DEF r
<1>7. u \in SwitchRec
  <2>1. TRUE \in BOOLEAN
    OBVIOUS
  <2> QED BY <1>6, <2>1, Zenon DEF SwitchRec
<1>8. u.timer /\ u.streams = r.streams /\ u.open = r.open /\ u.retry = r.retry
  BY <1>6 DEF SwitchRec
<1> HIDE DEF u
<1>9. ASSUME NEW dir \in Switch!Directions PROVE Served(u, dir)
  BY <1>6, <1>8 DEF Served, Switch!Directions
<1> QED BY <1>1, <1>7, <1>9

LEMMA SwitchStep ==
  ASSUME SwitchInv, io' \in SwitchRec,
         budget'.failures = MaxFailures => \A dir \in Switch!Directions : Served(io', dir),
         \/ \E fail : Switch!Failing(fail)
         \/ Switch!Event
         \/ UNCHANGED budget
  PROVE  SwitchInv'
<1>1. budget \in [events: Int, failures: Int] /\ budget.failures <= MaxFailures
  BY DEF SwitchInv
<1>2. budget' \in [events: Int, failures: Int] /\ budget'.failures <= MaxFailures
  <2>1. CASE UNCHANGED budget
    BY <1>1, <2>1
  <2>2. CASE Switch!Event
    BY <1>1, <2>2 DEF Switch!Event
  <2>3. ASSUME NEW fail, Switch!Failing(fail)
        PROVE  budget' \in [events: Int, failures: Int] /\ budget'.failures <= MaxFailures
    BY <1>1, <2>3, BluetoothAssumption DEF Switch!Failing
  <2> QED BY <2>1, <2>2, <2>3
<1>3. \A dir \in Switch!Directions : Served(io', dir) = Served(io, dir)'
  BY DEF Served
<1> QED BY <1>2, <1>3 DEF SwitchInv

(* No open has failed before a step that leaves the failures as they are. *)
LEMMA FailingBudget ==
  ASSUME SwitchInv, NEW fail, Switch!Failing(fail), budget'.failures = MaxFailures
  PROVE  fail = "none" /\ budget.failures = MaxFailures
  BY BluetoothAssumption DEF SwitchInv, Switch!Failing

LEMMA SwitchMessageStep ==
  ASSUME SwitchInv, Switch!bt_device_process_msg
  PROVE  SwitchInv'
<1>1. PICK fail \in Switch!Failures :
        /\ io' = Switch!bt_device_switch_profile([io EXCEPT !.msgs = io.msgs - 1], fail)
        /\ Switch!Failing(fail)
  BY DEF Switch!bt_device_process_msg
<1> DEFINE n == io.msgs - 1
           s == [io EXCEPT !.msgs = n]
<1>2. io \in SwitchRec /\ n \in Nat
  BY SwitchFields DEF SwitchInv, Switch!bt_device_process_msg, SwitchRec
<1>3. s \in SwitchRec
  <2> HIDE DEF n
  <2> QED BY <1>2, Zenon DEF SwitchRec
<1>4. io' = Switch!bt_device_switch_profile(s, fail)
  BY <1>1
<1> HIDE DEF s, n
<1>5. io' \in SwitchRec /\ \A dir \in Switch!Directions : Served(io', dir)
  BY <1>3, <1>4, SwitchProfileServes
<1> QED BY <1>1, <1>5, SwitchStep

LEMMA SwitchDelayStep ==
  ASSUME SwitchInv, Switch!profile_switch_delay_cb
  PROVE  SwitchInv'
<1>1. PICK fail \in Switch!Failures : io' = Switch!DelayedOutput(io, fail) /\ Switch!Failing(fail)
  BY DEF Switch!profile_switch_delay_cb
<1> DEFINE s == [io EXCEPT !.timer = FALSE]
           t == Switch!update_active_node(s, "output")
           u == Switch!cras_iodev_list_resume_dev(t, "output", fail)
<1>0. "output" \in Switch!Directions /\ io' = u /\ io \in SwitchRec
  BY <1>1 DEF Switch!Directions, Switch!DelayedOutput, SwitchInv
<1>2. s \in SwitchRec
  <2>1. FALSE \in BOOLEAN
    OBVIOUS
  <2> QED BY <1>0, <2>1, Zenon DEF SwitchRec
<1>3. s.streams = io.streams /\ s.open = io.open /\ s.retry = io.retry /\ s.msgs = io.msgs
  BY <1>0 DEF SwitchRec
<1> HIDE DEF s
<1>4. Keeps(s, t) /\ t.open = s.open /\ t.retry = s.retry /\ t \in SwitchRec
  BY <1>0, <1>2, UpdateNodeKeeps DEF Keeps
<1> HIDE DEF t
<1>5. /\ Keeps(t, u)
      /\ \A x \in Switch!Directions \ {"output"} :
           u.open[x] = t.open[x] /\ u.retry[x] = t.retry[x]
      /\ u.streams["output"] > 0 => u.open["output"] \/ u.retry["output"]
  BY <1>0, <1>4, SwitchResumeKeeps
<1> HIDE DEF u
<1>6. ASSUME NEW dir \in Switch!Directions, Served(io, dir) PROVE Served(u, dir)
  <2>1. CASE dir = "output"
    BY <1>5, <2>1 DEF Served
  <2>2. CASE dir # "output"
    <3>1. Served(s, dir)
      BY <1>3, <1>6, <2>2 DEF Served
    <3>2. Served(t, dir)
      BY <1>4, <3>1, ServedKept
    <3> QED BY <1>5, <2>2, <3>2, ServedKept
  <2> QED BY <2>1, <2>2
<1>7. u \in SwitchRec
  BY <1>5 DEF Keeps
<1>8. budget'.failures = MaxFailures => \A dir \in Switch!Directions : Served(io', dir)
  BY <1>0, <1>1, <1>6, FailingBudget DEF SwitchInv
<1> QED BY <1>0, <1>1, <1>7, <1>8, SwitchStep

LEMMA SwitchRetryStep ==
  ASSUME SwitchInv, NEW dir \in Switch!Directions, Switch!init_device_cb(dir)
  PROVE  SwitchInv'
<1> DEFINE g == [io.retry EXCEPT ![dir] = FALSE]
           t == [io EXCEPT !.retry = g]
<1>1. PICK fail \in Switch!Failures :
        /\ io' = IF t.open[dir] \/ t.streams[dir] = 0 THEN t ELSE Switch!open_dev(t, dir, fail)
        /\ Switch!Failing(fail)
  BY DEF Switch!init_device_cb
<1>0. io \in SwitchRec
  BY DEF SwitchInv
<1>2. /\ g \in [Switch!Directions -> BOOLEAN]
      /\ \A x \in Switch!Directions \ {dir} : g[x] = io.retry[x]
  BY <1>0, SwitchFields, BooleanUpdate
<1> HIDE DEF g
<1>3. /\ t \in SwitchRec /\ t.streams = io.streams /\ t.open = io.open /\ t.retry = g
      /\ t.timer = io.timer /\ t.msgs = io.msgs
  BY <1>0, <1>2, SetRetry
<1> HIDE DEF t
<1> DEFINE u == Switch!open_dev(t, dir, fail)
<1>4. /\ Keeps(t, u) /\ u.retry = t.retry
      /\ \A x \in Switch!Directions \ {dir} : u.open[x] = t.open[x]
      /\ fail = "none" => u.open[dir] \/ u.msgs > 0
  BY <1>3, SwitchOpenKeeps
<1>5. io' = IF t.open[dir] \/ t.streams[dir] = 0 THEN t ELSE u
  BY <1>1
<1> HIDE DEF u
<1>6. io' \in SwitchRec
  BY <1>3, <1>4, <1>5 DEF Keeps
<1>7. ASSUME budget'.failures = MaxFailures, NEW x \in Switch!Directions PROVE Served(io', x)
  <2>1. fail = "none" /\ Served(io, x)
    BY <1>1, <1>7, FailingBudget DEF SwitchInv
  <2>2. CASE x = dir
    BY <1>4, <1>5, <2>1, <2>2 DEF Served
  <2>3. CASE x # dir
    <3>1. Served(t, x)
      BY <1>2, <1>3, <2>1, <2>3 DEF Served
    <3>2. Served(u, x)
      BY <1>4, <2>3, <3>1, ServedKept
    <3> QED BY <1>5, <3>1, <3>2
  <2> QED BY <2>2, <2>3
<1> QED BY <1>1, <1>6, <1>7, SwitchStep

LEMMA EventBudget ==
  ASSUME SwitchInv, Switch!Event, budget'.failures = MaxFailures, NEW dir \in Switch!Directions
  PROVE  Served(io, dir)
<1>1. budget'.failures = budget.failures
  BY DEF SwitchInv, Switch!Event
<1> QED BY <1>1 DEF SwitchInv

LEMMA StreamAddedStep ==
  ASSUME SwitchInv, NEW dir \in Switch!Directions, Switch!stream_added_cb(dir)
  PROVE  SwitchInv'
<1> DEFINE f == [io.streams EXCEPT ![dir] = io.streams[dir] + 1]
           t == [io EXCEPT !.streams = f]
           u == Switch!init_device(t, dir, "none")
<1>0. io \in SwitchRec /\ io' = u /\ Switch!Event
  BY DEF SwitchInv, Switch!stream_added_cb
<1>1. /\ f \in [Switch!Directions -> Int]
      /\ \A x \in Switch!Directions \ {dir} : f[x] = io.streams[x]
  BY <1>0, SwitchFields
<1> HIDE DEF f
<1>2. /\ t \in SwitchRec /\ t.streams = f /\ t.open = io.open /\ t.retry = io.retry
      /\ t.timer = io.timer /\ t.msgs = io.msgs
  BY <1>0, <1>1, SetStreams
<1> HIDE DEF t
<1>3. /\ Keeps(t, u) /\ u \in SwitchRec
      /\ \A x \in Switch!Directions \ {dir} : u.open[x] = t.open[x] /\ u.retry[x] = t.retry[x]
      /\ u.open[dir] \/ u.retry[dir]
  BY <1>2, SwitchInitKeeps DEF Keeps
<1> HIDE DEF u
<1>4. ASSUME budget'.failures = MaxFailures, NEW x \in Switch!Directions PROVE Served(u, x)
  <2>1. CASE x = dir
    BY <1>3, <2>1 DEF Served
  <2>2. CASE x # dir
    <3>1. Served(io, x)
      BY <1>0, <1>4, EventBudget
    <3>2. Served(t, x)
      BY <1>1, <1>2, <2>2, <3>1 DEF Served
    <3> QED BY <1>3, <2>2, <3>2, ServedKept
  <2> QED BY <2>1, <2>2
<1> QED BY <1>0, <1>3, <1>4, SwitchStep

LEMMA StreamRemovedStep ==
  ASSUME SwitchInv, NEW dir \in Switch!Directions, Switch!stream_removed_cb(dir)
  PROVE  SwitchInv'
<1> DEFINE f == [io.streams EXCEPT ![dir] = io.streams[dir] - 1]
           t == [io EXCEPT !.streams = f]
           g == [t.retry EXCEPT ![dir] = FALSE]
           r == [t EXCEPT !.retry = g]
           u == Switch!close_dev(r, dir)
<1>0. /\ io \in SwitchRec /\ io' = (IF t.streams[dir] > 0 THEN t ELSE u) /\ Switch!Event
      /\ io.streams[dir] > 0
  BY DEF SwitchInv, Switch!stream_removed_cb
<1>1. /\ f \in [Switch!Directions -> Int]
      /\ \A x \in Switch!Directions \ {dir} : f[x] = io.streams[x]
  BY <1>0, SwitchFields
<1> HIDE DEF f
<1>2. /\ t \in SwitchRec /\ t.streams = f /\ t.open = io.open /\ t.retry = io.retry
      /\ t.timer = io.timer /\ t.msgs = io.msgs
  BY <1>0, <1>1, SetStreams
<1> HIDE DEF t
<1>3. /\ g \in [Switch!Directions -> BOOLEAN]
      /\ \A x \in Switch!Directions \ {dir} : g[x] = t.retry[x]
  BY <1>2, SwitchFields, BooleanUpdate
<1> HIDE DEF g
<1>4. /\ r \in SwitchRec /\ r.streams = t.streams /\ r.open = t.open /\ r.retry = g
      /\ r.timer = t.timer /\ r.msgs = t.msgs
  BY <1>2, <1>3, SetRetry
<1> HIDE DEF r
<1>5. /\ Keeps(r, u) /\ u.retry = r.retry /\ u \in SwitchRec
      /\ \A x \in Switch!Directions \ {dir} : u.open[x] = r.open[x]
  BY <1>4, SwitchCloseKeeps DEF Keeps
<1> HIDE DEF u
<1>6. ASSUME budget'.failures = MaxFailures, NEW x \in Switch!Directions PROVE Served(io', x)
  <2>1. Served(io, x)
    BY <1>0, <1>6, EventBudget
  <2>2. CASE t.streams[dir] > 0
    <3>1. t.streams[x] > 0 => io.streams[x] > 0
      BY <1>0, <1>1, <1>2
    <3> QED BY <1>0, <1>2, <2>1, <2>2, <3>1 DEF Served
  <2>3. CASE ~(t.streams[dir] > 0) /\ x = dir
    <3>1. ~(u.streams[dir] > 0)
      BY <1>4, <1>5, <2>3 DEF Keeps
    <3> QED BY <1>0, <2>3, <3>1 DEF Served
  <2>4. CASE ~(t.streams[dir] > 0) /\ x # dir
    <3>1. Served(r, x)
      BY <1>1, <1>2, <1>3, <1>4, <2>1, <2>4 DEF Served
    <3>2. Served(u, x)
      BY <1>5, <2>4, <3>1, ServedKept
    <3> QED BY <1>0, <2>4, <3>2
  <2> QED BY <2>2, <2>3, <2>4
<1> QED BY <1>0, <1>2, <1>5, <1>6, SwitchStep

LEMMA A2dpAppendedStep ==
  ASSUME SwitchInv, Switch!cras_bt_io_append
  PROVE  SwitchInv'
<1> DEFINE f == [io.nodes EXCEPT !["output"] = io.nodes["output"] \union {"a2dp"}]
           t == [io EXCEPT !.nodes = f]
           u == Switch!bt_possibly_switch_to_a2dp(t)
<1>0. /\ io \in SwitchRec /\ io' = (IF io.open["input"] THEN t ELSE u) /\ Switch!Event
      /\ "output" \in Switch!Directions
  BY DEF SwitchInv, Switch!cras_bt_io_append, Switch!Directions
<1>1. f \in [Switch!Directions -> SUBSET Switch!Profiles]
  BY <1>0, SwitchFields DEF Switch!Profiles
<1> HIDE DEF f
<1>2. t \in SwitchRec
  BY <1>0, <1>1, Zenon DEF SwitchRec
<1>3. /\ t.streams = io.streams /\ t.open = io.open /\ t.retry = io.retry
      /\ t.timer = io.timer /\ t.msgs = io.msgs
  BY <1>0 DEF SwitchRec
<1> HIDE DEF t
<1>4. Keeps(t, u) /\ u.open = t.open /\ u.retry = t.retry /\ u \in SwitchRec
  BY <1>2, SwitchToA2dpKeeps DEF Keeps
<1> HIDE DEF u
<1>5. ASSUME budget'.failures = MaxFailures, NEW x \in Switch!Directions PROVE Served(io', x)
  <2>1. Served(io, x)
    BY <1>0, <1>5, EventBudget
  <2>2. Served(t, x)
    BY <1>3, <2>1 DEF Served
  <2>3. Served(u, x)
    BY <1>4, <2>2, ServedKept
  <2> QED BY <1>0, <2>2, <2>3
<1> QED BY <1>0, <1>2, <1>4, <1>5, SwitchStep

LEMMA A2dpRemovedStep ==
  ASSUME SwitchInv, Switch!cras_bt_device_rm_iodev
  PROVE  SwitchInv'
<1> DEFINE s == [io EXCEPT !.active = "hfp"]
           t == IF io.node["output"] = "hfp" THEN io ELSE Switch!bt_device_switch_profile(s, "none")
           f == [t.nodes EXCEPT !["output"] = t.nodes["output"] \ {"a2dp"}]
           g == [t.node EXCEPT !["output"] = "hfp"]
           h == t.hw \ {<<"output", "a2dp">>}
           v == [t EXCEPT !.nodes = f, !.node = g, !.hw = h]
           u == Switch!update_active_node(v, "output")
<1>0. io \in SwitchRec /\ io' = u /\ Switch!Event /\ "output" \in Switch!Directions
      /\ "hfp" \in Switch!Profiles
  BY DEF SwitchInv, Switch!cras_bt_device_rm_iodev, Switch!Directions, Switch!Profiles
<1>1. s \in SwitchRec
  BY <1>0, Zenon DEF SwitchRec
<1> HIDE DEF s
<1>2. /\ t \in SwitchRec
      /\ \A x \in Switch!Directions : Served(io, x) => Served(t, x)
  BY <1>0, <1>1, SwitchProfileServes
<1> HIDE DEF t
<1>3. /\ f \in [Switch!Directions -> SUBSET Switch!Profiles]
      /\ g \in [Switch!Directions -> Switch!Profiles]
      /\ h \in SUBSET (Switch!Directions \X Switch!Profiles)
  BY <1>0, <1>2, SwitchFields
<1> HIDE DEF f, g, h
<1>4. v \in SwitchRec
  BY <1>2, <1>3, Zenon DEF SwitchRec
<1>5. /\ v.streams = t.streams /\ v.open = t.open /\ v.retry = t.retry
      /\ v.timer = t.timer /\ v.msgs = t.msgs
  BY <1>2 DEF SwitchRec
<1> HIDE DEF v
<1>6. Keeps(v, u) /\ u.open = v.open /\ u.retry = v.retry /\ u \in SwitchRec
  BY <1>0, <1>4, UpdateNodeKeeps DEF Keeps
<1> HIDE DEF u
<1>7. ASSUME budget'.failures = MaxFailures, NEW x \in Switch!Directions PROVE Served(io', x)
  <2>1. Served(t, x)
    BY <1>0, <1>2, <1>7, EventBudget
  <2>2. Served(v, x)
    BY <1>5, <2>1 DEF Served
  <2> QED BY <1>0, <1>6, <2>2, ServedKept
<1> QED BY <1>0, <1>6, <1>7, SwitchStep

LEMMA InitSwitchInv == Switch!Init => SwitchInv
<1> SUFFICES ASSUME Switch!Init PROVE SwitchInv
  OBVIOUS
<1> DEFINE n == [d \in Switch!Directions |-> {"hfp"}]
           a == [d \in Switch!Directions |-> "hfp"]
           o == [d \in Switch!Directions |-> FALSE]
           z == [d \in Switch!Directions |-> 0]
<1>1. /\ n \in [Switch!Directions -> SUBSET Switch!Profiles]
      /\ a \in [Switch!Directions -> Switch!Profiles]
      /\ o \in [Switch!Directions -> BOOLEAN]
      /\ z \in [Switch!Directions -> Int] /\ \A d \in Switch!Directions : z[d] = 0
      /\ "hfp" \in Switch!Profiles
  BY DEF Switch!Profiles
<1>2. io = [active |-> "hfp", nodes |-> n, node |-> a, open |-> o, hw |-> {}, streams |-> z,
            retry |-> o, msgs |-> 0, timer |-> FALSE]
  BY DEF Switch!Init
<1> HIDE DEF n, a, o, z
<1>3. io \in SwitchRec /\ io.streams = z
  BY <1>1, <1>2 DEF SwitchRec
<1>4. \A d \in Switch!Directions : Served(io, d)
  BY <1>1, <1>3 DEF Served
<1>5. budget \in [events: Int, failures: Int] /\ budget.failures <= MaxFailures
  BY BluetoothAssumption DEF Switch!Init
<1> QED BY <1>3, <1>4, <1>5 DEF SwitchInv

LEMMA NextSwitchInv == SwitchInv /\ [Switch!Next]_swVars => SwitchInv'
<1> SUFFICES ASSUME SwitchInv, [Switch!Next]_swVars PROVE SwitchInv'
  OBVIOUS
<1>1. CASE UNCHANGED swVars
  <2>1. UNCHANGED <<io, budget>>
    BY <1>1 DEF swVars
  <2> QED BY <2>1, SwitchStep DEF SwitchInv
<1> QED
  BY <1>1, SwitchMessageStep, SwitchDelayStep, SwitchRetryStep, StreamAddedStep,
     StreamRemovedStep, A2dpAppendedStep, A2dpRemovedStep DEF Switch!Next, Switch!MainThread

(* No sequence of switches between A2DP and HFP loses a stream: one whose  *)
(* device is not open has a message, a timer or a retry on the way, until  *)
(* an open fails (bt_device_switch_profile, cras_bt_io.c).                 *)
THEOREM StreamsStayServed == MCSpec => []StreamsServed
<1>1. MCInit => SwitchInv
  BY InitSwitchInv, BluetoothAssumption DEF MCInit
<1>2. SwitchInv /\ [MCNext]_mcVars => SwitchInv'
  <2> SUFFICES ASSUME SwitchInv, [MCNext]_mcVars PROVE SwitchInv'
    OBVIOUS
  <2>1. [Switch!Next]_swVars
    BY DEF MCNext, mcVars
  <2> QED BY <2>1, NextSwitchInv
<1>3. SwitchInv => StreamsServed
  BY DEF SwitchInv, Served, StreamsServed, Switch!StreamsServed
<1> QED BY <1>1, <1>2, <1>3, PTL DEF MCSpec

=============================================================================
