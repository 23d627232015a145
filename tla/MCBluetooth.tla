---------------------------- MODULE MCBluetooth ----------------------------
(***************************************************************************)
(* Bluetooth: devices and profiles in the main thread, the switch between  *)
(* A2DP and HFP, the A2DP transport and its volume, the service level      *)
(* connection, SCO audio, A2DP audio, and what is registered at BlueZ.  A  *)
(* behaviour exercises the one that `part` names; the others rest.         *)
(***************************************************************************)
EXTENDS BtDevices

CONSTANTS SwitchEvents, MaxFailures, MaxMsgs,
          BufSize, MaxCommands, MaxCalls, HfIndicators,
          BufFrames, MinLevel, MaxFrames,
          WriteBlock, PcmSize, SockDepth, MaxLag,
          Descriptors, NodeVolumes, HeadsetVolumes, MaxVolumes, MaxBluez, MaxQueue,
          Adapters, WideBand, MaxBluezEvents, MaxInflight, MaxUpdates

\* BlueZ names devices by their paths, a packet holds some audio, and the kernel has a
\* descriptor to give next to the one the transport keeps.
ASSUME BluetoothAssumption ==
    /\ NULL \notin Devices /\ CONN_WATCH_MAX_RETRIES \in Nat
    /\ WriteBlock \in Nat /\ PcmSize \in Nat
    /\ MaxFailures \in Nat /\ SwitchEvents \in Nat
    /\ Descriptors \subseteq Nat \ {0} /\ Descriptors # {}
    /\ \A n \in Descriptors : Descriptors # {n}
    /\ NodeVolumes \subseteq 0..100 /\ HeadsetVolumes \subseteq 0..127

VARIABLES
    part,
    io, budget,
    rfcomm, slc, telephony, view, sco, setup, hf,
    info, sent, taken, slipped, cut,
    a2dp, socket, suspend, flush,
    transport, dev, fds, calls, signals, session, reported, changes,
    manager, daemon, outgoing, incoming, happened

Switch == INSTANCE BtProfileSwitch WITH MaxEvents <- SwitchEvents

Slc == INSTANCE HfpSlc

Sco == INSTANCE HfpInfo

A2dp == INSTANCE A2dpFlush

Transport == INSTANCE A2dpTransport WITH bluez <- session, sent <- reported

Manager == INSTANCE BtManager

swVars == <<io, budget>>

slcVars == <<rfcomm, slc, telephony, view, sco, setup, hf>>

hiVars == <<info, sent, taken, slipped, cut>>

afVars == <<a2dp, socket, suspend, flush>>

btpVars == <<transport, dev, fds, calls, signals, session, reported, changes>>

bmVars == <<manager, daemon, outgoing, incoming, happened>>

mcVars == <<part, btVars, swVars, slcVars, hiVars, afVars, btpVars, bmVars>>

MCInit ==
    /\ part \in {"devices", "switch", "slc", "sco", "a2dp", "transport", "manager"}
    /\ Init
    /\ Switch!Init
    /\ Slc!Init
    /\ Sco!Init
    /\ A2dp!Init
    /\ Transport!Init
    /\ Manager!Init

MCNext ==
    \/ part = "devices" /\ Next
        /\ UNCHANGED <<part, swVars, slcVars, hiVars, afVars, btpVars, bmVars>>
    \/ part = "switch" /\ Switch!Next
        /\ UNCHANGED <<part, btVars, slcVars, hiVars, afVars, btpVars, bmVars>>
    \/ part = "slc" /\ Slc!Next
        /\ UNCHANGED <<part, btVars, swVars, hiVars, afVars, btpVars, bmVars>>
    \/ part = "sco" /\ Sco!Next
        /\ UNCHANGED <<part, btVars, swVars, slcVars, afVars, btpVars, bmVars>>
    \/ part = "a2dp" /\ A2dp!Next
        /\ UNCHANGED <<part, btVars, swVars, slcVars, hiVars, btpVars, bmVars>>
    \/ part = "transport" /\ Transport!Next
        /\ UNCHANGED <<part, btVars, swVars, slcVars, hiVars, afVars, bmVars>>
    \/ part = "manager" /\ Manager!Next
        /\ UNCHANGED <<part, btVars, swVars, slcVars, hiVars, afVars, btpVars>>

\* The fairness of each part, for its behaviours.
MCFairness ==
    /\ \A d \in Devices :
        /\ WF_btVars(part = "devices" /\ conn_watch_timer(d))
        /\ WF_btVars(part = "devices" /\ lost_timer(d))
        /\ WF_btVars(part = "devices" /\ suspend_timer(d))
    /\ WF_slcVars(part = "slc" /\ (Slc!process_at_command \/ Slc!process_at_commands_end))
    /\ SF_slcVars(part = "slc" /\ Slc!slc_watch_callback)
    /\ SF_slcVars(part = "slc" /\ Slc!HF_INDICATORS_TIMEOUT)
    /\ WF_slcVars(part = "slc" /\ (Slc!CodecConnData \/ Slc!CodecConnProcessed
                                    \/ Slc!CodecConnTimeout))
    /\ WF_afVars(part = "a2dp" /\ A2dp!Flush)
    /\ SF_afVars(part = "a2dp" /\ A2dp!bt_device_suspend_cb)

MCSpec == MCInit /\ [][MCNext]_mcVars /\ MCFairness

\* What the main thread points to is there, one headset at a time has audio devices,
\* and the descriptors of its transport are closed once and polled only while open, in
\* every order of BlueZ's reports, as long as no pointer to a freed device or gateway is
\* used: a device removed before its transport, a reset, a watch timer that is lost and a
\* gateway's device read after it was freed lead there (cras_bt_device.c,
\* cras_bt_transport.c, cras_hfp_ag_profile.c).
HeadsetsSound == PointersLive /\ OneHeadset /\ Transport!DescriptorsOwned

\* A stream of a headset without an open device is being waited for, until an open
\* fails (bt_device_switch_profile).
StreamsServed == Switch!StreamsServed

\* The sides agree once nothing is in flight: where the HF was told an indicator, it has
\* the value the telephony handle has; the volume of an open A2DP device is that of the
\* headset; and CRAS knows the adapters of BlueZ, and BlueZ the profiles, the endpoint
\* and the player of CRAS (cras_hfp_slc.c, cras_bt_transport.c, cras_bt_manager.c).
HeadsetAgrees ==
    Slc!IndicatorsAgree /\ Transport!VolumesAgree /\ Manager!BluezAgrees

\* Captured SCO frames are in their place in time, lost ones concealed, and leaving the
\* no-stream state of an HFP output drops no stream data (cras_hfp_info.c).
FramesInPlace == Sco!InSequence /\ Sco!NoDataCut

\* A2DP packets are sent at the rate they are played, and catching up causes no
\* underrun (a2dp flush_data).
FlushPaced == A2dp!Paced /\ A2dp!NoSelfUnderrun

\* What is waited for ends: the watch for a device's profiles unless two timers count its
\* retries below zero, the handling of AT commands in whatever pieces they come up to one
\* whose handler fails (the parser stays before it), the set-up of the service level
\* connection once AT+CMER was handled, and the poll of an A2DP socket that blocks.
Progress ==
    WatchGivesUp /\ Slc!CommandsHandled /\ Slc!SlcInitialized /\ A2dp!StallEnds
=============================================================================
