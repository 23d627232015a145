------------------------------- MODULE MCAlsa -------------------------------
(***************************************************************************)
(* The ALSA devices: the nodes and jacks of a card, the buffer of a        *)
(* playback device, the mixer, and a card with a complete UCM              *)
(* configuration.  A behaviour exercises the one that `part` names; the    *)
(* others rest.                                                            *)
(***************************************************************************)
EXTENDS AlsaNodes

CONSTANTS BufferSize, MinBufferLevel, MinCbLevel, FillZeros, SevereFrames, MaxSwitches,
          Levels, MaxSettings, NumSections, Models, MaxModifiers

\* The levels that a device keeps ahead of the hardware fit in its buffer: min_cb_level is at most
\* half of it (cras_iodev_open), and min_buffer_level, a few frames of the card's configuration, is
\* at most the quarter that remains.
ASSUME BufferAssumption ==
    /\ BufferSize \in Nat /\ MinBufferLevel \in Nat /\ MinCbLevel \in Nat \ {0}
    /\ FillZeros \in Nat /\ SevereFrames \in Nat
    /\ MinBufferLevel + MinCbLevel + MinCbLevel \div 2 <= BufferSize

VARIABLES
    part,
    pcm, aio, late, noise, lost, switches,
    elems, hw, cmix, io, system, settings,
    config, ucm_card, mods, modifiers

Buffer == INSTANCE AlsaFreeRun

Mixer == INSTANCE AlsaMixer WITH changes <- settings, MaxChanges <- MaxSettings,
                                 card <- ucm_card, modifications <- modifiers

bufferVars == <<pcm, aio, late, noise, lost, switches>>

mixerVars == <<elems, hw, cmix, io, system, settings>>

sectionVars == <<config, ucm_card, mods, modifiers>>

mcVars == <<part, vars, bufferVars, mixerVars, sectionVars>>

\* The parts that rest have one initial state each.
MCInit ==
    /\ part \in {"nodes", "buffer", "mixer", "sections"}
    /\ Init
    /\ part # "nodes" => card.type = (CHOOSE t \in Cards : TRUE)
    /\ Buffer!Init
    /\ \E e \in IF part = "mixer" THEN Mixer!CardTypes ELSE {CHOOSE t \in Mixer!CardTypes : TRUE} :
         elems = e
    /\ Mixer!Init
    /\ IF part = "sections" THEN Mixer!SectionsInit
       ELSE config = {} /\ ucm_card = {} /\ mods = {} /\ modifiers = 0

MCNext ==
    \/ part = "nodes" /\ Next /\ UNCHANGED <<part, bufferVars, mixerVars, sectionVars>>
    \/ part = "buffer" /\ Buffer!Next /\ UNCHANGED <<part, vars, mixerVars, sectionVars>>
    \/ part = "mixer" /\ Mixer!Next /\ UNCHANGED <<part, vars, bufferVars, sectionVars>>
    \/ part = "sections" /\ Mixer!SectionsNext /\ UNCHANGED <<part, vars, bufferVars, mixerVars>>

\* The fairness of the parts, for the behaviours of each: the timers of the main loop
\* fire, the hardware plays, and the audio thread runs its cycle.
MCFairness ==
    /\ \A j \in Jacks : WF_vars(part = "nodes" /\ display_info_delay_cb(j))
    /\ WF_bufferVars(part = "buffer" /\ Buffer!Play)
    /\ WF_bufferVars(part = "buffer" /\ Buffer!possibly_enter_free_run)

MCSpec == MCInit /\ [][MCNext]_mcVars /\ MCFairness

\* The nodes of a card agree with the hardware: the UCM device of the active node and
\* no other is enabled unless a late reset or open left it wrong, a node is plugged when
\* its jack is unless a client set it, the speaker comes back when nothing else is, and
\* nothing of a card outlives it; with a complete UCM configuration every section is a
\* node of the right device, and at most one hotword model is enabled (cras_alsa_io.c,
\* cras_alsa_jack.c, cras_alsa_card.c).
NodesAgree ==
    /\ UcmFollowsActiveNode /\ PluggedAgrees /\ SpeakerUnlessOther /\ NothingOutlivesCard
    /\ part = "sections" => Mixer!SectionsPlaced /\ Mixer!OneHotwordModel

\* As long as the audio thread wakes in time no frame is played twice, and every frame
\* that was written is played, free run and its end notwithstanding.
PlayedOnce == Buffer!NothingPlayedTwice /\ Buffer!QueuedIsPlayed

\* An open device plays at the volume and with the mute asked for, and no other node's
\* control lets sound out (cras_alsa_mixer.c).
MixerFollows == Mixer!VolumeReached /\ Mixer!MuteApplied /\ Mixer!OtherNodesOff

\* The wait for a display ends, and a device without streams reaches free run unless a
\* stream comes back.
Progress == DisplayWaitEnds /\ Buffer!DrainEnds
=============================================================================
