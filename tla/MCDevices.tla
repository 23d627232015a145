----------------------------- MODULE MCDevices ------------------------------
(***************************************************************************)
(* Two devices of one direction, and the hotword streams.  A behaviour     *)
(* exercises what `part` names: input devices with two default streams and *)
(* one pinned to d1; output devices, which go idle, with one default       *)
(* stream; hotword streams on a device that may fail, or that does not.    *)
(* OneDirection has the behaviours of one device and the fallback alone.   *)
(***************************************************************************)
EXTENDS IodevList

CONSTANTS d1, d2, s1, s2, p1, Hotwords

VARIABLES part,
    listed, hotword_attached, hotword_open, hotword_thread_open, in_list, retry, mic_open,
    hotword_suspended, hotword_stream_list_suspended, skipped, mic_failed

PinP1 == [s \in Streams |-> IF s = p1 THEN d1 ELSE NoDev]

Outputs == INSTANCE IodevList WITH
    Streams <- {s1}, PinnedTo <- [s \in {s1} |-> NoDev], Fragile <- {}, Output <- TRUE

Failing == INSTANCE HotwordStreams WITH
    Streams <- Hotwords, Flaky <- TRUE, attached <- hotword_attached, open <- hotword_open,
    thread_open <- hotword_thread_open, suspended <- hotword_stream_list_suspended

Reliable == INSTANCE HotwordStreams WITH
    Streams <- Hotwords, Flaky <- FALSE, attached <- hotword_attached, open <- hotword_open,
    thread_open <- hotword_thread_open, suspended <- hotword_stream_list_suspended

hotwordVars == <<listed, hotword_attached, hotword_open, hotword_thread_open, in_list, retry,
                 mic_open, hotword_suspended, hotword_stream_list_suspended, skipped, mic_failed>>

mcVars == <<part, vars, hotwordVars>>

MCInit ==
    /\ part \in {"inputs", "outputs", "flaky", "reliable"}
    /\ Init
    /\ Failing!Init

MCNext ==
    \/ part = "inputs" /\ Next /\ UNCHANGED <<part, hotwordVars>>
    \/ part = "outputs" /\ Outputs!Next /\ UNCHANGED <<part, hotwordVars>>
    \/ part = "flaky" /\ Failing!Next /\ UNCHANGED <<part, vars>>
    \/ part = "reliable" /\ Reliable!Next /\ UNCHANGED <<part, vars>>

MCSpec == MCInit /\ [][MCNext]_mcVars

\* The devices of the direction the configuration names, and nothing else.
ListInit == part = "inputs" /\ Init /\ Failing!Init

ListNext == Next /\ UNCHANGED <<part, hotwordVars>>

OneDirection == ListInit /\ [][ListNext]_mcVars

\* The microphone and hotword detection hand over to each other: the empty hotword
\* device is open in a hotword suspend only, failures notwithstanding; and on a device
\* that does not fail, hotword streams are never armed while the microphone records
\* and always while it is closed, except after an open of it that failed, which leaves
\* them suspended until it has been opened and closed again (cras_iodev_open).
HotwordHandover ==
    /\ Failing!EmptyOnlyInSuspend
    /\ part = "reliable" => Reliable!MicExcludesHotword /\ Reliable!ArmedUnlessPreempted
=============================================================================
