------------------------------ MODULE MCAudio -------------------------------
(***************************************************************************)
(* The audio thread: its loop and its commands, an output device and an    *)
(* input device as it serves them, and the audio processing and DSP        *)
(* contexts that hang on the devices.  A behaviour exercises the one that  *)
(* `part` names; the others rest.                                          *)
(***************************************************************************)
EXTENDS AudioThread

CONSTANTS OutStreams, p1, OutBuffer, NormalWakeUp, NoStreamWakeUp, RampFrames, MaxOutChanges,
          InStreams, ApmStreams, InBuffer, InThreshold, ApmFrames, DropLevel, MaxFrames, MaxInChanges,
          AecOutputs, AecInputs, o1, i1, AecStreams, LoadFails, MaxAecChanges

\* The echo references are devices, and no device is the absent one.
ASSUME AecAssumption ==
    /\ "none" \notin AecOutputs \cup AecInputs
    /\ i1 \in AecInputs /\ LoadFails \in BOOLEAN

\* A callback and a block of audio processing have a number of frames.
ASSUME InAssumption == InThreshold \in Nat /\ ApmFrames \in Nat

VARIABLES
    part,
    odev, outStream, system, outChanges,
    idev, list, inStream, inChanges,
    dev, enabled, aecStream, active, rmodule, ini, aecChanges

Out == INSTANCE OutputDev WITH
         Streams <- OutStreams, CbThreshold <- [s \in OutStreams |-> IF s = p1 THEN 2 ELSE 3], BufferSize <- OutBuffer,
         MaxChanges <- MaxOutChanges, stream <- outStream, changes <- outChanges

In == INSTANCE InputDev WITH
         Streams <- InStreams, BufferSize <- InBuffer, CbThreshold <- InThreshold,
         MaxChanges <- MaxInChanges, stream <- inStream, changes <- inChanges

\* One output has an input device for its echo reference, the others are their own.
Aec == INSTANCE ApmList WITH
         Outputs <- AecOutputs, Inputs <- AecInputs, EchoRef <- [o \in AecOutputs |-> IF o = o1 THEN i1 ELSE o],
         Streams <- AecStreams, MaxChanges <- MaxAecChanges, stream <- aecStream, changes <- aecChanges

outVars == <<odev, outStream, system, outChanges>>

inVars == <<idev, list, inStream, inChanges>>

aecVars == <<dev, enabled, aecStream, active, rmodule, ini, aecChanges>>

mcVars == <<part, vars, outVars, inVars, aecVars>>

MCInit ==
    /\ part \in {"thread", "out", "in", "aec"}
    /\ Init
    /\ Out!Init
    /\ In!Init
    /\ Aec!Init

MCNext ==
    \/ part = "thread" /\ Next /\ UNCHANGED <<part, outVars, inVars, aecVars>>
    \/ part = "out" /\ Out!Next /\ UNCHANGED <<part, vars, inVars, aecVars>>
    \/ part = "in" /\ In!Next /\ UNCHANGED <<part, vars, outVars, aecVars>>
    \/ part = "aec" /\ Aec!Next /\ UNCHANGED <<part, vars, outVars, inVars>>

\* The fairness of AudioThread and of OutputDev, for the behaviours of each.
MCFairness ==
    /\ WF_vars(part = "thread" /\ AudioThreadStep)
    /\ WF_vars(part = "thread" /\ MainStep)
    /\ WF_vars(part = "thread" /\ audio_thread_start)
    /\ WF_outVars(part = "out" /\ Out!Tick)
    /\ WF_outVars(part = "out" /\ Out!AudioThreadRuns)
    /\ SF_outVars(part = "out" /\ Out!sys_mute_change)
    /\ WF_outVars(part = "out" /\ Out!cras_iodev_list_set_dev_mute)
    /\ WF_outVars(part = "out" /\ \E s \in OutStreams : Out!ClientReply(s))

MCSpec == MCInit /\ [][MCNext]_mcVars /\ MCFairness

\* The two threads stay in step: answers match commands, poll results are read from the
\* array as it is now, what the main thread frees is no longer held, and a dump stays
\* in its arrays (audio_thread.c).
ThreadsInStep == AnswersInStep /\ PollfdsCurrent /\ HeldIsLive /\ DumpFits

\* While the audio thread runs when it asked to and clients answer within a frame, the
\* hardware buffer never runs empty, and a device without streams is fed zeros.
OutputFed == Out!NeverEmpty /\ Out!IdleIsFed

\* Captured frames reach each stream in order and never twice, as long as the stream's audio
\* processing has not failed (after a failure its frames are taken again, cras_apm_list.c:657);
\* they go through the device's DSP at most once, and the audio processing finds what its
\* stream has read, also after a failure.
CapturedOnce == In!DeliveredInOrder /\ In!ProcessedAtMostOnce /\ In!ApmHasInput

\* Audio processing follows the devices: active objects exist in the device's format,
\* the reverse module is on the first enabled output alone and runs in its pipeline,
\* and the ini file of every pipeline is in memory (cras_apm_list.c, cras_dsp.c).
ProcessingCurrent ==
    Aec!ActiveIsCurrent /\ Aec!ReverseFollowsOutput /\ Aec!ModuleInPipeline /\ Aec!IniLive

\* Every command is answered, every enabled callback of the list is polled, and the hardware
\* mute of an open device comes to agree with a switch that is left alone.  A callback that is
\* appended while the last one of the list frees itself may not get into the list at all
\* (audio_thread.c:145, no lock).
Progress == Answered /\ Polled /\ Out!MuteSettles
=============================================================================
