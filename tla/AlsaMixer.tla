----------------------------- MODULE AlsaMixer -----------------------------
(***************************************************************************)
(* The mixer of an ALSA card (cras_alsa_mixer.c) and the settings a device *)
(* makes through it (cras_alsa_io.c).  Controls in series share out one    *)
(* volume: the main controls, the one with the widest range first, then    *)
(* the control of the active node.  Each takes what the ones before could  *)
(* not, rounded up to its step.  Mutes go to a common switch and to the    *)
(* control of the active node; the controls of other nodes are switched    *)
(* off when the node changes.  The second half is what a complete UCM      *)
(* configuration makes of the card.                                        *)
(***************************************************************************)
EXTENDS Integers, Sequences, SequencesExt, FiniteSets, FiniteSetsExt

CONSTANTS Levels,       \* volumes a client may ask for, in dB below full scale
          MaxChanges    \* settings and node changes in a behaviour

VARIABLES elems,     \* the mixer elements of the card, in its order (hardware)
          hw,        \* per element: its volume and switch (hardware)
          cmix,      \* struct cras_alsa_mixer
          io,        \* the device: handle, enabled, active node
          system,    \* volume and mute of the system
          changes

vars == <<elems, hw, cmix, io, system, changes>>

None == 0

\* An element: what its name makes it, its range in dB (none if it cannot tell) and step
Element(role, min, max, step, switch) ==
  [role |-> role, volume |-> max >= min, min |-> min, max |-> max, step |-> step, switch |-> switch]
NoRange(role, switch) == Element(role, 1, 0, 1, switch)

\* Cards: two main controls, one of them coarse; none with a known name; only node
\* controls; an element whose range cannot be read; controls above full scale
CardTypes ==
  { <<Element("main", -2, 0, 1, FALSE), Element("main", -6, 0, 3, TRUE),
      Element("output", -2, 0, 2, TRUE), Element("output", -1, 0, 1, TRUE)>>,
    <<Element("other", -1, 0, 1, FALSE), Element("other", -4, 2, 2, FALSE)>>,
    <<Element("output", -4, 0, 1, TRUE), NoRange("output", TRUE), Element("other", -6, 0, 1, TRUE)>>,
    <<NoRange("main", TRUE), Element("main", -3, 3, 1, TRUE), Element("output", -4, 1, 1, FALSE)>>,
    <<Element("main", -3, 0, 1, FALSE), Element("coupled", -4, 0, 2, TRUE), Element("coupled", -4, 0, 2, TRUE),
      Element("output", -2, 0, 1, TRUE)>> }

Init ==
  /\ elems \in CardTypes
  /\ hw = [e \in 1..Len(elems) |-> [volume |-> elems[e].min, on |-> TRUE]]
  /\ cmix = [ready |-> FALSE, main |-> <<>>, outputs |-> <<>>, switch |-> None, max |-> 0]
  /\ io = [handle |-> FALSE, enabled |-> FALSE, active |-> 1, moved |-> FALSE]
  /\ system = [volume |-> 0, mute |-> FALSE]
  /\ changes = 0

-----------------------------------------------------------------------------
(* Building the mixer *)

DbRange(e) == IF elems[e].volume THEN elems[e].max - elems[e].min ELSE 0

\* A control is a sequence of elements; its volume is that of the first that has one
HasVolume(control) == \E i \in 1..Len(control) : elems[control[i]].volume
HasMute(control) == \E i \in 1..Len(control) : elems[control[i]].switch
VolumeElement(control) == SelectSeq(control, LAMBDA e : elems[e].volume)[1]

\* The main controls are kept by falling range; the first with a switch is the mute
add_main_volume_control(m, e) ==
  LET before == SelectSeq(m.main, LAMBDA c : DbRange(e) <= DbRange(c))
      after == SelectSeq(m.main, LAMBDA c : DbRange(e) > DbRange(c))
  IN [m EXCEPT !.main = before \o <<e>> \o after,
               !.max = IF elems[e].volume THEN @ + elems[e].max ELSE @,
               !.switch = IF @ = None /\ elems[e].switch THEN e ELSE @]

add_control_with_name(m, e) == [m EXCEPT !.outputs = Append(@, <<e>>)]

add_control_with_coupled_mixers(m, es) == IF es = <<>> THEN m ELSE [m EXCEPT !.outputs = Append(@, es)]

\* Elements by their names, coupled ones as one control, and if that gave no control
\* the unknown element with the widest range
cras_alsa_mixer_add_controls_by_name_matching ==
  LET all == [e \in 1..Len(elems) |-> e]
      Role(r) == SelectSeq(all, LAMBDA e : elems[e].role = r)
      main == FoldLeft(add_main_volume_control, cmix, Role("main"))
      named == FoldLeft(add_control_with_name, main, Role("output"))
      coupled == add_control_with_coupled_mixers(named, Role("coupled"))
      others == {e \in 1..Len(elems) : elems[e].role = "other" /\ DbRange(e) > 0}
      widest == CHOOSE e \in others : \A o \in others : DbRange(o) < DbRange(e) \/ (DbRange(o) = DbRange(e) /\ e <= o)
  IN IF coupled.main = <<>> /\ coupled.outputs = <<>> /\ others # {}
     THEN add_main_volume_control(coupled, widest) ELSE coupled

cras_alsa_card_create ==
  /\ ~cmix.ready
  /\ \E m \in {cras_alsa_mixer_add_controls_by_name_matching} : cmix' = [m EXCEPT !.ready = TRUE]
  /\ UNCHANGED <<elems, hw, io, system, changes>>

-----------------------------------------------------------------------------
(* Setting volumes and switches *)

\* snd_mixer_selem_set_playback_dB_all with direction 1: rounded up, within the range
Rounded(e, v) ==
  LET steps == {elems[e].min + k * elems[e].step : k \in 0..((elems[e].max - elems[e].min) \div elems[e].step)}
      up == {s \in steps : s >= v}
  IN IF up = {} THEN Max(steps) ELSE Min(up)

mixer_control_set_dBFS(h, control, v) ==
  [e \in DOMAIN h |-> IF e \in ToSet(control) /\ elems[e].volume THEN [h[e] EXCEPT !.volume = Rounded(e, v)] ELSE h[e]]

mixer_control_set_mute(h, control, muted) ==
  [e \in DOMAIN h |-> IF e \in ToSet(control) /\ elems[e].switch THEN [h[e] EXCEPT !.on = ~muted] ELSE h[e]]

\* The nodes of the device: one per output control, and one of a jack without a control
Nodes == 1..(Len(cmix.outputs) + 1)
MixerOutput(n) == IF n <= Len(cmix.outputs) THEN cmix.outputs[n] ELSE <<>>

\* mutant: every control takes the whole volume
cras_alsa_mixer_set_dBFS_whole(h, dBFS, output) ==
  LET first == dBFS + cmix.max + IF HasVolume(output) THEN elems[VolumeElement(output)].max ELSE 0
      mains == SelectSeq(cmix.main, LAMBDA e : elems[e].volume)
      shared == FoldLeft(LAMBDA s, e : mixer_control_set_dBFS(s, <<e>>, first), h, mains)
  IN mixer_control_set_dBFS(shared, output, first)

\* What is left of the volume after each control goes to the next
cras_alsa_mixer_set_dBFS(h, dBFS, output) ==
  LET first == dBFS + cmix.max + IF HasVolume(output) THEN elems[VolumeElement(output)].max ELSE 0
      mains == SelectSeq(cmix.main, LAMBDA e : elems[e].volume)
      One(s, e) == LET set == mixer_control_set_dBFS(s.hw, <<e>>, s.left)
                   IN [hw |-> set, left |-> s.left - set[e].volume]
      shared == FoldLeft(One, [hw |-> h, left |-> first], mains)
  IN mixer_control_set_dBFS(shared.hw, output, shared.left)

cras_alsa_mixer_set_mute(h, muted, output) ==
  LET common == IF cmix.switch = None THEN h ELSE mixer_control_set_mute(h, <<cmix.switch>>, muted)
  IN mixer_control_set_mute(common, output, muted)

\* The settings reach the card only through an open device
init_device_settings(h, i, s) ==
  IF ~i.handle THEN h
  ELSE cras_alsa_mixer_set_mute(cras_alsa_mixer_set_dBFS(h, s.volume, MixerOutput(i.active)),
                                s.mute, MixerOutput(i.active))

\* A node with a control switches the controls of all others off
alsa_iodev_unmute_node(h, n) ==
  IF MixerOutput(n) = <<>> THEN h
  ELSE FoldLeft(LAMBDA g, k : mixer_control_set_mute(g, cmix.outputs[k], k # n), h, [k \in 1..Len(cmix.outputs) |-> k])

\* mutant: the node is switched on last
alsa_iodev_set_active_node_late(n, enabled) ==
  LET new == [io EXCEPT !.active = n, !.enabled = enabled, !.moved = @ \/ (n # io.active /\ enabled)]
      set == init_device_settings(hw, new, system)
  IN /\ cmix.ready /\ changes < MaxChanges
     /\ io' = new
     /\ hw' = IF n # io.active /\ enabled THEN alsa_iodev_unmute_node(set, n) ELSE set
     /\ changes' = changes + 1
     /\ UNCHANGED <<elems, cmix, system>>

\* mutant: only the control of the new node is switched
alsa_iodev_set_active_node_own(n, enabled) ==
  LET new == [io EXCEPT !.active = n, !.enabled = enabled, !.moved = @ \/ (n # io.active /\ enabled)]
  IN /\ cmix.ready /\ changes < MaxChanges
     /\ io' = new
     /\ hw' = init_device_settings(IF n # io.active /\ enabled THEN mixer_control_set_mute(hw, MixerOutput(n), FALSE)
                                   ELSE hw, new, system)
     /\ changes' = changes + 1
     /\ UNCHANGED <<elems, cmix, system>>

alsa_iodev_set_active_node(n, enabled) ==
  LET new == [io EXCEPT !.active = n, !.enabled = enabled, !.moved = @ \/ (n # io.active /\ enabled)]
  IN /\ cmix.ready /\ changes < MaxChanges
     /\ io' = new
     /\ hw' = init_device_settings(IF n # io.active /\ enabled THEN alsa_iodev_unmute_node(hw, n) ELSE hw, new, system)
     /\ changes' = changes + 1
     /\ UNCHANGED <<elems, cmix, system>>

\* configure_dev ends with the settings, close_dev leaves them on the card
open_dev ==
  /\ cmix.ready /\ ~io.handle /\ changes < MaxChanges
  /\ io' = [io EXCEPT !.handle = TRUE]
  /\ hw' = init_device_settings(hw, io', system)
  /\ changes' = changes + 1
  /\ UNCHANGED <<elems, cmix, system>>

close_dev ==
  /\ io.handle
  /\ io' = [io EXCEPT !.handle = FALSE]
  /\ UNCHANGED <<elems, hw, cmix, system, changes>>

set_alsa_volume(v) ==
  /\ cmix.ready /\ changes < MaxChanges
  /\ system' = [system EXCEPT !.volume = v]
  /\ hw' = IF io.handle THEN cras_alsa_mixer_set_dBFS(hw, v, MixerOutput(io.active)) ELSE hw
  /\ changes' = changes + 1
  /\ UNCHANGED <<elems, cmix, io>>

\* The mute reaches the mixer at the end of a ramp (cras_iodev_list_set_dev_mute); here it
\* does so at once, and OutputDev has the ramp
set_alsa_mute(mute) ==
  /\ cmix.ready /\ changes < MaxChanges
  /\ system' = [system EXCEPT !.mute = mute]
  /\ hw' = IF io.handle THEN cras_alsa_mixer_set_mute(hw, mute, MixerOutput(io.active)) ELSE hw
  /\ changes' = changes + 1
  /\ UNCHANGED <<elems, cmix, io>>

Next ==
  \/ cras_alsa_card_create
  \/ \E n \in Nodes, enabled \in BOOLEAN : (enabled \/ n = io.active) /\ alsa_iodev_set_active_node(n, enabled)
  \/ open_dev \/ close_dev
  \/ \E v \in Levels : set_alsa_volume(0 - v)
  \/ \E mute \in BOOLEAN : set_alsa_mute(mute)

Spec == Init /\ [][Next]_vars

-----------------------------------------------------------------------------
InPath ==
  {e \in ToSet(cmix.main) : elems[e].volume} \cup
  {e \in ToSet(MixerOutput(io.active)) : elems[e].volume /\ e = VolumeElement(MixerOutput(io.active))}
Volume == FoldSet(LAMBDA e, v : v + hw[e].volume, 0, InPath)

\* What an open device plays at is the volume asked for, less than one step of the
\* coarsest control above it, whatever controls share it and whatever was set on the
\* node before (cras_alsa_mixer_set_dBFS); the ends of the range are kept
VolumeReached ==
  io.handle /\ InPath # {} =>
    LET asked == system.volume + FoldSet(LAMBDA e, v : v + elems[e].max, 0, InPath)
        lowest == FoldSet(LAMBDA e, v : v + elems[e].min, 0, InPath)
        step == Max({elems[e].step : e \in InPath})
    IN /\ Volume >= asked
       /\ Volume < (IF asked < lowest THEN lowest ELSE asked) + step

\* An open device is muted in the common switch and in its node's own exactly when
\* the system is (alsa_iodev_unmute_node switches the node on before)
MuteApplied ==
  io.handle =>
    \A e \in ({cmix.switch} \ {None}) \cup ToSet(MixerOutput(io.active)) :
      elems[e].switch => hw[e].on = ~system.mute

\* After the node of an enabled device changed no other node's control lets sound out
OtherNodesOff ==
  io.moved /\ MixerOutput(io.active) # <<>> =>
    \A n \in 1..Len(cmix.outputs) : n # io.active =>
      \A e \in ToSet(cmix.outputs[n]) : elems[e].switch => ~hw[e].on

-----------------------------------------------------------------------------
(***************************************************************************)
(* The devices of a card whose UCM configuration is complete: every UCM    *)
(* section becomes a node of the device with its PCM, or with the PCM it   *)
(* depends on (ucm_get_sections in cras_alsa_ucm.c and                     *)
(* add_controls_and_iodevs_with_ucm in cras_alsa_card.c); and the UCM      *)
(* modifiers for hotword models and swapped channels.                      *)
(***************************************************************************)

CONSTANTS NumSections,   \* sections of the configuration
          Models,        \* hotword models that have a modifier
          MaxModifiers   \* changes of modifiers in a behaviour

VARIABLES config,     \* the sections and what the card has (input)
          card,       \* step of the initialisation, result and iodevs
          mods,       \* enabled modifiers
          modifications

sectionVars == <<config, card, mods, modifications>>

NoPcm == -1
Pcms == {0, 1}

\* A section: its PCM (NoPcm: no PlaybackPCM or CapturePCM), the one it depends on, its
\* jack (a switch that is not found is no error, a control that is not found is)
Sections == {s \in [dir : {"output", "input"}, pcm : Pcms \cup {NoPcm}, dependent : Pcms \cup {NoPcm},
                    jack : {"none", "found", "control_missing"}] :
               s.dependent # NoPcm => s.pcm # s.dependent /\ s.pcm # NoPcm}

SectionsInit ==
  /\ config \in [sections : [1..NumSections -> Sections], pcms : {{0}, {0, 1}}]
  /\ card = [pc |-> "sections", iodevs |-> <<>>, echo |-> FALSE]
  /\ mods = {}
  /\ modifications = 0

-----------------------------------------------------------------------------
\* One section without a PCM spoils the list
ucm_get_sections ==
  /\ card.pc = "sections"
  /\ card' = [card EXCEPT !.pc = IF \E i \in 1..NumSections : config.sections[i].pcm = NoPcm
                                 THEN "failed" ELSE "devices"]
  /\ UNCHANGED <<config, mods, modifications>>

\* A device that exists is not created again; the first of a direction is marked
create_iodev_for_device(iodevs, pcm, dir) ==
  IF \E i \in 1..Len(iodevs) : iodevs[i].dir = dir /\ iodevs[i].pcm = pcm THEN iodevs
  ELSE Append(iodevs, [pcm |-> pcm, dir |-> dir, nodes |-> {},
                       first |-> ~\E i \in 1..Len(iodevs) : iodevs[i].dir = dir])

\* mutant: dependent sections get a device of their own as well
create_devices_all ==
  /\ card.pc = "devices"
  /\ LET own == SelectSeq(config.sections, LAMBDA s : s.pcm \in config.pcms)
     IN card' = [card EXCEPT !.pc = "nodes",
                             !.iodevs = FoldLeft(LAMBDA d, s : create_iodev_for_device(d, s.pcm, s.dir), @, own)]
  /\ UNCHANGED <<config, mods, modifications>>

\* add_controls_and_iodevs_with_ucm, first pass: sections that depend on no other PCM
create_devices ==
  /\ card.pc = "devices"
  /\ LET own == SelectSeq(config.sections, LAMBDA s : s.dependent = NoPcm /\ s.pcm \in config.pcms)
     IN card' = [card EXCEPT !.pc = "nodes",
                             !.iodevs = FoldLeft(LAMBDA d, s : create_iodev_for_device(d, s.pcm, s.dir), @, own)]
  /\ UNCHANGED <<config, mods, modifications>>

\* The first device with the section's PCM or the one it depends on, 0 if there is none
DeviceFor(s) ==
  LET fits == {i \in 1..Len(card.iodevs) :
                 card.iodevs[i].dir = s.dir /\ card.iodevs[i].pcm \in {s.pcm, s.dependent}}
  IN IF fits = {} THEN 0 ELSE CHOOSE i \in fits : \A k \in fits : i <= k

\* Second pass: alsa_iodev_ucm_add_nodes_and_jacks for every section, until one fails
add_nodes_and_jacks ==
  /\ card.pc = "nodes"
  /\ LET placed == {i \in 1..NumSections : DeviceFor(config.sections[i]) # 0}
         bad == \E i \in placed : config.sections[i].jack = "control_missing"
         Of(d) == {i \in placed : DeviceFor(config.sections[i]) = d}
     IN card' = IF bad THEN [card EXCEPT !.pc = "failed", !.iodevs = <<>>]
                ELSE [card EXCEPT !.pc = "up", !.iodevs = [d \in 1..Len(@) |-> [@[d] EXCEPT !.nodes = Of(d)]]]
  /\ UNCHANGED <<config, mods, modifications>>

\* configure_echo_reference_dev goes by the first node of a device
configure_echo_reference_dev ==
  /\ card.pc = "up" /\ ~card.echo
  /\ card' = [card EXCEPT !.echo = TRUE]
  /\ UNCHANGED <<config, mods, modifications>>

-----------------------------------------------------------------------------
(* Modifiers *)

\* The third part marks a modifier that could not be disabled
Hotword(m) == <<"Hotword Model", m, FALSE>>
Swap(n) == <<"Swap Mode", n, FALSE>>

\* mutant: the model that was enabled stays enabled
ucm_set_hotword_model_added(m) ==
  /\ card.pc = "up" /\ modifications < MaxModifiers
  /\ mods' = mods \cup {Hotword(m)}
  /\ modifications' = modifications + 1
  /\ UNCHANGED <<config, card>>

HotwordModels == {x \in mods : x[1] = "Hotword Model"}

\* The modifiers of all models are disabled before the one is enabled; what UCM answers
\* is not looked at
ucm_set_hotword_model(m) ==
  /\ card.pc = "up" /\ modifications < MaxModifiers
  /\ \E stuck \in SUBSET HotwordModels, enabled \in BOOLEAN :
       mods' = (mods \ HotwordModels)
                 \cup {<<x[1], x[2], TRUE>> : x \in {y \in stuck : ~enabled \/ y[2] # m}}
                 \cup IF enabled THEN {Hotword(m)} ELSE {}
  /\ modifications' = modifications + 1
  /\ UNCHANGED <<config, card>>

ucm_enable_swap_mode(n, enable) ==
  /\ card.pc = "up" /\ modifications < MaxModifiers
  /\ mods' = IF enable THEN mods \cup {Swap(n)} ELSE mods \ {Swap(n)}
  /\ modifications' = modifications + 1
  /\ UNCHANGED <<config, card>>

SectionsNext ==
  \/ ucm_get_sections \/ create_devices \/ add_nodes_and_jacks \/ configure_echo_reference_dev
  \/ \E m \in Models : ucm_set_hotword_model(m)
  \/ \E n \in {"Speaker"}, enable \in BOOLEAN : ucm_enable_swap_mode(n, enable)

SectionsSpec == SectionsInit /\ [][SectionsNext]_vars

-----------------------------------------------------------------------------
\* Once the card is up every section whose PCM exists is a node of exactly one device,
\* one of its own direction with its PCM or the PCM it depends on; a dependent section
\* never brings up a device of its own (add_controls_and_iodevs_with_ucm)
SectionsPlaced ==
  card.pc = "up" =>
    /\ \A i \in 1..NumSections :
         LET s == config.sections[i]
             on == {d \in 1..Len(card.iodevs) : i \in card.iodevs[d].nodes}
         IN /\ Cardinality(on) <= 1
            /\ \A d \in on : card.iodevs[d].dir = s.dir /\ card.iodevs[d].pcm \in {s.pcm, s.dependent}
            /\ s.dependent = NoPcm /\ s.pcm \in config.pcms => on # {}
    /\ \A d \in 1..Len(card.iodevs) : \E i \in card.iodevs[d].nodes : config.sections[i].dependent = NoPcm

\* A card has at most one hotword model enabled, whatever other modifiers are, but for
\* those UCM would not disable (ucm_set_hotword_model ignores its answer)
OneHotwordModel == Cardinality({x \in HotwordModels : ~x[3]}) <= 1

\* not what the code does: a dependent section is a node of the device it depends on
DependentOnOther ==
  card.pc = "up" =>
    \A d \in 1..Len(card.iodevs) : \A i \in card.iodevs[d].nodes :
      config.sections[i].dependent # NoPcm => card.iodevs[d].pcm = config.sections[i].dependent
=============================================================================
