----------------------------- MODULE AlsaNodes -----------------------------
(***************************************************************************)
(* An ALSA card from the udev event that announces it to the one that      *)
(* removes it (cras_udev.c, cras_alsa_card.c), its output device with the  *)
(* nodes a user can select (cras_alsa_io.c), the jacks that plug and       *)
(* unplug those nodes (cras_alsa_jack.c) and the UCM devices enabled for   *)
(* them (cras_alsa_ucm.c).  A node is a mixer control, a UCM section or a  *)
(* jack nobody else accounts for; a display jack is believed only once     *)
(* its EDID or ELD can be read.                                            *)
(***************************************************************************)
EXTENDS Integers, Sequences, SequencesExt, FiniteSets

CONSTANTS MaxRetries,   \* DISPLAY_INFO_MAX_RETRIES and DISPLAY_INFO_GPIO_MAX_RETRIES
          MaxEvents,    \* events a switch or udev holds
          MaxChanges    \* what hardware and clients do in a behaviour

VARIABLES kernel,    \* the hardware: the card, the jacks, the displays' EDID or ELD
          udev,      \* events of the sound subsystem not yet received
          card,      \* struct cras_alsa_card with its iodev, jack list and ucm
          changes

vars == <<kernel, udev, card, changes>>

Jacks == {"Headphone Jack", "HDMI Jack"}
Speaker == "Speaker"
None == "none"
Default == "(default)"

\* The value of an expression, and what F makes of it, computed once
Value(e) == CHOOSE v \in {e} : TRUE
With(e, F(_)) == CHOOSE r \in {F(v) : v \in {e}} : TRUE

\* The cards that may be plugged: with complete UCM sections or not, with the
\* display behind a switch (EDID) or a control (ELD), with AutoUnplugOutputNode,
\* with NoCreateDefaultOutputNode, with one or the other mixer control; or a USB
\* card, which has no jack
Cards ==
  {t \in [fully : BOOLEAN, hctl : BOOLEAN, auto_unplug : BOOLEAN, lpcm : BOOLEAN, usb : BOOLEAN,
          no_default : BOOLEAN, control : {"Headphone", "HDMI"}] :
     /\ t.hctl => t.lpcm
     /\ t.no_default => ~t.fully
     /\ t.control = "HDMI" => ~t.fully /\ ~t.no_default
     /\ t.usb => ~t.hctl /\ t.lpcm /\ ~t.auto_unplug /\ ~t.no_default /\ t.control = "Headphone"}

\* What a jack stands for: its UCM device and its mixer control
UcmDevice == [j \in Jacks |-> IF j = "Headphone Jack" THEN "Headphone" ELSE "HDMI"]
Control(c, j) == IF UcmDevice[j] = c.type.control THEN c.type.control ELSE None

IsGpio(c, j) == ~(j = "HDMI Jack" /\ c.type.hctl)

\* The control of a section named HDMI or DP is left without its ELD
HasDisplay(c, j) == j = "HDMI Jack" /\ ~(c.type.hctl /\ c.type.fully)

\* pinned is what became of the pinned stream: "attached" to the open device, "waiting"
\* because the device did not open, "detached" by a forced close and still in
\* stream_list, or "dropped" by a failed creation that left the device open.  astray:
\* the last change of the device left its UCM setting as it was
NoDev == [exists |-> FALSE, nodes |-> <<>>, active |-> 0, enabled |-> FALSE, pinned |-> None,
          retry |-> FALSE, reset |-> FALSE, astray |-> FALSE]
NoJackState == [exists |-> FALSE, state |-> FALSE, retries |-> 0, timer |-> FALSE, events |-> <<>>]
NoCard(type) == [type |-> type, exists |-> FALSE, hctl_fd |-> FALSE, dev |-> NoDev,
                 jack |-> [j \in Jacks |-> NoJackState], ucm |-> {}]

Init ==
  /\ kernel = [card |-> TRUE, up |-> [j \in Jacks |-> FALSE], info |-> FALSE]
  /\ udev = <<"change">>   \* enumerate_devices finds the card
  /\ \E type \in Cards : card = NoCard(type)
  /\ changes = 0

-----------------------------------------------------------------------------
(* UCM and the active node *)

\* ucm_set_enabled, for the device of the node's jack or the one named like the node
enable_active_ucm(c, plugged) ==
  IF c.dev.active = 0 THEN c
  ELSE LET n == c.dev.nodes[c.dev.active]
           name == IF n.jack # None THEN UcmDevice[n.jack] ELSE n.name
       IN [c EXCEPT !.ucm = IF plugged THEN @ \cup {name} ELSE @ \ {name}]

\* mutant: the UCM device of the node that is left stays enabled
alsa_iodev_set_active_node_kept(c, n, dev_enabled) ==
  enable_active_ucm([c EXCEPT !.dev.active = n, !.dev.astray = FALSE], dev_enabled)

alsa_iodev_set_active_node(c, n, dev_enabled) ==
  With(IF c.dev.active = n THEN c ELSE enable_active_ucm(c, FALSE), LAMBDA left :
    With([left EXCEPT !.dev.active = n, !.dev.astray = FALSE], LAMBDA d : enable_active_ucm(d, dev_enabled)))

first_plugged_node(c) ==
  LET plugged == {i \in 1..Len(c.dev.nodes) : c.dev.nodes[i].plugged}
  IN IF plugged = {} THEN 1 ELSE CHOOSE i \in plugged : \A k \in plugged : i <= k

-----------------------------------------------------------------------------
(* cras_iodev_list.c, as far as it configures the active node of this device *)

Listed(c) == c.dev.pinned \in {"attached", "waiting", "detached"}

Opened(c) == c.dev.pinned \in {"attached", "dropped"}

update_active_node(c, dev_enabled) ==
  With(c, LAMBDA d : alsa_iodev_set_active_node(d, d.dev.active, dev_enabled))

\* close_dev takes the streams off the device
close_dev(c) ==
  [c EXCEPT !.dev.pinned = IF Listed(c) THEN "detached" ELSE None]

\* Whether the device is enabled or only open for a pinned stream; a forced close of an
\* enabled device also gives up trying to open it
cras_iodev_list_disable_dev(c, force) ==
  LET off == [c EXCEPT !.dev.enabled = FALSE, !.dev.retry = @ /\ ~(force /\ c.dev.enabled)]
  IN IF ~c.dev.enabled /\ ~force THEN c
     ELSE IF ~force /\ Listed(c) THEN off
     ELSE update_active_node(close_dev(off), FALSE)

\* The pinned stream is attached if the device is open or opens
init_and_attach_streams(c, ok) ==
  IF ~Listed(c) THEN c
  ELSE [c EXCEPT !.dev.pinned = IF ok THEN "attached" ELSE "waiting", !.dev.retry = ~ok]

\* What opening a device may return
OpenResults(c) == IF Opened(c) THEN {TRUE} ELSE BOOLEAN

cras_iodev_list_add_active_node(n) ==
  /\ card.dev.exists /\ changes < MaxChanges
  /\ ~(card.dev.enabled /\ card.dev.active = n)
  /\ LET closed == IF card.dev.enabled THEN cras_iodev_list_disable_dev(card, TRUE) ELSE card
         set == [alsa_iodev_set_active_node(closed, n, TRUE) EXCEPT !.dev.enabled = TRUE]
     IN \E ok \in OpenResults(closed) : card' = init_and_attach_streams(set, ok)
  /\ changes' = changes + 1
  /\ UNCHANGED <<kernel, udev>>

cras_iodev_list_rm_active_node ==
  /\ card.dev.enabled /\ changes < MaxChanges
  /\ card' = cras_iodev_list_disable_dev(card, FALSE)
  /\ changes' = changes + 1
  /\ UNCHANGED <<kernel, udev>>

\* A pinned stream arrives; the node is configured before the device is opened, and
\* stays so when that fails
pinned_stream_added ==
  /\ card.dev.exists /\ ~Listed(card) /\ changes < MaxChanges
  /\ \/ Opened(card) /\ card' = [card EXCEPT !.dev.pinned = "attached"]
     \/ /\ ~Opened(card)
        /\ \E result \in {"attached", "waiting", "dropped"} :
             card' = [update_active_node(card, TRUE) EXCEPT !.dev.pinned = result,
                                                            !.dev.retry = result = "waiting"]
  /\ changes' = changes + 1
  /\ UNCHANGED <<kernel, udev>>

pinned_stream_removed ==
  /\ Listed(card)
  /\ LET gone == [card EXCEPT !.dev.pinned = None]
     IN card' = IF gone.dev.enabled THEN gone ELSE update_active_node(gone, FALSE)
  /\ UNCHANGED <<kernel, udev, changes>>

\* The delayed open; it leaves the node as the last change configured it
init_device_cb ==
  /\ card.dev.retry
  /\ \E ok \in OpenResults(card) :
       card' = IF ok /\ Listed(card) /\ ~Opened(card)
               THEN [card EXCEPT !.dev.pinned = "attached", !.dev.retry = FALSE,
                                 !.dev.astray = @ \/ card.dev.pinned = "detached"]
               ELSE [card EXCEPT !.dev.retry = FALSE]
  /\ UNCHANGED <<kernel, udev, changes>>

\* The audio thread asks the main thread to reset a device that it has open
cras_device_monitor_reset_device ==
  /\ card.dev.enabled \/ Opened(card)
  /\ ~card.dev.reset /\ changes < MaxChanges
  /\ card' = [card EXCEPT !.dev.reset = TRUE]
  /\ changes' = changes + 1
  /\ UNCHANGED <<kernel, udev>>

\* cras_iodev_list_suspend_dev and cras_iodev_list_resume_dev, which do not ask whether
\* the device is still enabled
handle_device_message ==
  /\ card.dev.reset
  /\ LET suspended == update_active_node(close_dev([card EXCEPT !.dev.reset = FALSE]), FALSE)
         resumed == update_active_node(suspended, TRUE)
     IN \E ok \in BOOLEAN :
          card' = [init_and_attach_streams(resumed, ok) EXCEPT !.dev.astray = ~card.dev.enabled /\ ~Listed(card)]
  /\ UNCHANGED <<kernel, udev, changes>>

-----------------------------------------------------------------------------
(* Nodes *)

\* Unplugging the active node closes the device
cras_iodev_set_node_plugged(c, i, plugged) ==
  With([c EXCEPT !.dev.nodes[i].plugged = plugged], LAMBDA set :
    IF c.dev.nodes[i].plugged # plugged /\ ~plugged /\ c.dev.active = i
    THEN cras_iodev_list_disable_dev(set, TRUE)
    ELSE set)

\* A client sets it too, whatever the jack says
set_node_plugged(i, plugged) ==
  /\ card.dev.exists /\ changes < MaxChanges
  /\ card' = [cras_iodev_set_node_plugged(card, i, plugged) EXCEPT !.dev.nodes[i].by_client = TRUE]
  /\ changes' = changes + 1
  /\ UNCHANGED <<kernel, udev>>

\* What the device sets is not a client's setting any more
SetByDevice(c, i, plugged) ==
  [cras_iodev_set_node_plugged(c, i, plugged) EXCEPT !.dev.nodes[i].by_client = FALSE]

\* mutant: the speaker is unplugged and never plugged again
check_auto_unplug_output_node_only(c, i, plugged) ==
  LET speaker == {k \in 1..Len(c.dev.nodes) : c.dev.nodes[k].name = Speaker}
      others == {k \in 1..Len(c.dev.nodes) : c.dev.nodes[k].plugged /\ k # i}
  IN IF ~c.type.auto_unplug THEN c
     ELSE IF i \in speaker /\ plugged
          THEN IF others = {} THEN c ELSE SetByDevice(c, i, FALSE)
     ELSE IF speaker = {} \/ ~plugged THEN c
     ELSE SetByDevice(c, CHOOSE k \in speaker : TRUE, ~plugged)

\* The internal speaker is plugged exactly when the node of the last event is not
check_auto_unplug_output_node(c, i, plugged) ==
  LET speaker == {k \in 1..Len(c.dev.nodes) : c.dev.nodes[k].name = Speaker}
      others == {k \in 1..Len(c.dev.nodes) : c.dev.nodes[k].plugged /\ k # i}
  IN IF ~c.type.auto_unplug THEN c
     ELSE IF i \in speaker /\ plugged
          THEN IF others = {} THEN c ELSE SetByDevice(c, i, FALSE)
     ELSE IF speaker = {} THEN c
     ELSE SetByDevice(c, CHOOSE k \in speaker : TRUE, ~plugged)

\* Only nodes inside the device start plugged
new_output(c, control, name) ==
  LET node == [name |-> name, control |-> control, jack |-> None, plugged |-> name \in {Speaker, Default},
               by_client |-> FALSE]
      added == [c EXCEPT !.dev.nodes = Append(@, node)]
  IN check_auto_unplug_output_node(Value(added), Len(added.dev.nodes), node.plugged)

\* A node found by its jack, else by the control the jack belongs to
get_output_node_from_jack(c, j) ==
  LET n == c.dev.nodes
      ByJack == {i \in 1..Len(n) : n[i].jack = j}
      ByControl == {i \in 1..Len(n) : Control(c, j) # None /\ n[i].control = Control(c, j)}
  IN IF ByJack # {} THEN ByJack ELSE ByControl

\* The jack's node, made if no control or section accounts for the jack
jack_node(c, j) ==
  LET found == get_output_node_from_jack(c, j)
      with == IF found # {} \/ c.type.fully THEN c ELSE new_output(c, None, j)
      i == IF found # {} THEN CHOOSE k \in found : TRUE ELSE Len(with.dev.nodes)
  IN IF found = {} /\ c.type.fully THEN c
     ELSE [with EXCEPT !.dev.nodes[i].jack = IF @ = None THEN j ELSE @]

\* Every node of the jack follows it, and the internal speaker follows the node
jack_output_plug_event(c, j, plugged) ==
  LET found == get_output_node_from_jack(c, j)
      i == CHOOSE k \in found : TRUE
  IN IF found = {} THEN c
     ELSE With(SetByDevice(c, i, plugged), LAMBDA set : check_auto_unplug_output_node(set, i, plugged))

-----------------------------------------------------------------------------
(* Jacks *)

get_jack_current_state(c, j) == IF IsGpio(c, j) THEN c.jack[j].state ELSE kernel.up[j]

\* mutant: a retry starts the count again
jack_state_change_cb_endless(c, j, retry) ==
  LET jk == [c.jack[j] EXCEPT !.timer = FALSE, !.retries = MaxRetries]
      up == get_jack_current_state(c, j)
      left == jk.retries - 1
      audio == ~(IsGpio(c, j) /\ kernel.info /\ ~c.type.lpcm)
      Now(new) == [c EXCEPT !.jack[j] = new]
  IN IF ~up \/ ~HasDisplay(c, j) THEN Now(jk)
     ELSE IF kernel.info THEN Now([jk EXCEPT !.state = @ /\ audio])
     ELSE IF left = 0 THEN Now([jk EXCEPT !.retries = 0, !.state = FALSE])
     ELSE Now([jk EXCEPT !.retries = left, !.timer = TRUE])

\* Reported at once unless a display has no EDID or ELD yet; then again after a
\* while, until the retries are spent and a switch counts as unplugged
jack_state_change_cb(c, j, retry) ==
  LET jk == [c.jack[j] EXCEPT !.timer = FALSE, !.retries = IF retry THEN MaxRetries ELSE @]
      up == get_jack_current_state(c, j)
      left == jk.retries - 1
      audio == ~(IsGpio(c, j) /\ kernel.info /\ ~c.type.lpcm)
      Now(new) == [c EXCEPT !.jack[j] = new]
  IN IF ~up \/ ~HasDisplay(c, j) THEN Now(jk)
     ELSE IF kernel.info THEN Now([jk EXCEPT !.state = @ /\ audio])
     ELSE IF left = 0 THEN Now([jk EXCEPT !.retries = 0, !.state = FALSE])
     ELSE Now([jk EXCEPT !.retries = left, !.timer = TRUE])

\* What was not put off is reported to the device
report_jack_state(c, j) ==
  IF c.jack[j].timer THEN c
  ELSE With(jack_node(c, j), LAMBDA d : jack_output_plug_event(d, j, get_jack_current_state(c, j)))

display_info_delay_cb(j) ==
  /\ card.jack[j].timer
  /\ \E c \in {jack_state_change_cb(card, j, FALSE)} : \E r \in {report_jack_state(c, j)} : card' = r
  /\ UNCHANGED <<kernel, udev, changes>>

\* mutant: of the events read only the first is applied
gpio_switch_callback_first(j) ==
  /\ card.jack[j].exists /\ IsGpio(card, j) /\ card.jack[j].events # <<>>
  /\ LET One(v, c) == report_jack_state(Value(jack_state_change_cb([c EXCEPT !.jack[j].state = v], j, TRUE)), j)
     IN card' = FoldLeft(LAMBDA c, v : Value(One(v, c)), [card EXCEPT !.jack[j].events = <<>>], <<Head(card.jack[j].events)>>)
  /\ UNCHANGED <<kernel, udev, changes>>

\* All the events read are applied, one after the other
gpio_switch_callback(j) ==
  /\ card.jack[j].exists /\ IsGpio(card, j) /\ card.jack[j].events # <<>>
  /\ LET One(v, c) == report_jack_state(Value(jack_state_change_cb([c EXCEPT !.jack[j].state = v], j, TRUE)), j)
     IN card' = FoldLeft(LAMBDA c, v : Value(One(v, c)), [card EXCEPT !.jack[j].events = <<>>], card.jack[j].events)
  /\ UNCHANGED <<kernel, udev, changes>>

\* alsa_control_event_pending lets ALSA call back for the control that changed
hctl_jack_cb(j) ==
  /\ card.hctl_fd /\ card.jack[j].exists /\ ~IsGpio(card, j) /\ card.jack[j].events # <<>>
  /\ \E c \in {jack_state_change_cb([card EXCEPT !.jack[j].events = <<>>], j, TRUE)} : card' = report_jack_state(c, j)
  /\ UNCHANGED <<kernel, udev, changes>>

\* Without sections, controls come before switches in the list
cras_alsa_jack_list_report(c) ==
  LET order == IF c.type.usb THEN <<>>
               ELSE IF c.type.hctl /\ ~c.type.fully THEN <<"HDMI Jack", "Headphone Jack">>
               ELSE <<"Headphone Jack", "HDMI Jack">>
      One(k, j) == report_jack_state(Value(jack_state_change_cb([k EXCEPT !.jack[j].state = kernel.up[j]], j, TRUE)), j)
  IN FoldLeft(LAMBDA k, j : Value(One(k, j)), c, order)

\* mutant: the retry timer is not cancelled
cras_free_jack_armed(jk) == [NoJackState EXCEPT !.timer = jk.timer]

cras_free_jack(jk) == NoJackState

-----------------------------------------------------------------------------
(* Devices and cards *)

\* The jacks of a USB card would be controls of its own; this one has none
find_jacks(c) == [c EXCEPT !.jack = [j \in Jacks |-> [NoJackState EXCEPT !.exists = ~c.type.usb]]]

has_node(c, name) == \E i \in 1..Len(c.dev.nodes) : c.dev.nodes[i].name = name

\* A USB device whose active node has no jack counts as plugged when it appears
PlugUsb(c) ==
  IF c.type.usb /\ c.dev.nodes[c.dev.active].jack = None THEN SetByDevice(c, c.dev.active, TRUE) ELSE c

\* A node for every control, the ones the jacks add, and one by default unless the
\* configuration forbids it: the internal speaker of an internal card
alsa_iodev_legacy_complete_init(c) ==
  LET name == IF c.type.usb THEN "card: " \o c.type.control ELSE c.type.control
      listed == Value(new_output(c, c.type.control, name))
      jacks == Value(cras_alsa_jack_list_report(find_jacks(listed)))
      default == IF c.type.no_default THEN jacks
                 ELSE IF ~c.type.usb /\ ~has_node(jacks, Speaker) /\ ~has_node(jacks, "HDMI")
                      THEN Value(new_output(jacks, None, Speaker))
                 ELSE IF jacks.dev.nodes = <<>> THEN Value(new_output(jacks, None, Default))
                 ELSE jacks
  IN PlugUsb(Value(alsa_iodev_set_active_node(default, first_plugged_node(default), FALSE)))

\* Every section names its node and its jack
alsa_iodev_ucm_add_nodes_and_jacks(c) ==
  LET Section(k, name, j) ==
        LET jack == IF c.type.usb THEN None ELSE j
            added == Value(new_output(k, IF j = None THEN None ELSE Control(c, j), name))
        IN [added EXCEPT !.dev.nodes[Len(added.dev.nodes)].jack = jack]
      speaker == Value(Section(c, Speaker, None))
      headphone == Value(Section(speaker, "Headphone", "Headphone Jack"))
  IN find_jacks(Section(headphone, "HDMI", "HDMI Jack"))

alsa_iodev_ucm_complete_init(c) ==
  LET jacks == Value(cras_alsa_jack_list_report(Value(alsa_iodev_ucm_add_nodes_and_jacks(c))))
  IN PlugUsb(Value(alsa_iodev_set_active_node(jacks, first_plugged_node(jacks), FALSE)))

\* A device that is still open after it was disabled is kept
alsa_iodev_destroy(c) ==
  LET off == cras_iodev_list_disable_dev(c, TRUE)
  IN IF ~c.dev.exists THEN c
     ELSE IF Opened(off) THEN off
     ELSE [off EXCEPT !.dev = NoDev, !.jack = [j \in Jacks |-> cras_free_jack(off.jack[j])]]

cras_alsa_card_destroy(c) ==
  LET gone == alsa_iodev_destroy(c)
  IN [gone EXCEPT !.exists = FALSE, !.hctl_fd = FALSE, !.ucm = {}]

\* It may fail before the device exists (no card any more) or after (no select fd)
cras_alsa_card_create ==
  LET device == [card EXCEPT !.dev = [NoDev EXCEPT !.exists = TRUE]]
      full == IF card.type.fully THEN alsa_iodev_ucm_complete_init(device)
              ELSE alsa_iodev_legacy_complete_init(device)
  IN {[Value(full) EXCEPT !.exists = TRUE, !.hctl_fd = full.type.hctl], cras_alsa_card_destroy(Value(full))}

change_udev_device_if_alsa_device ==
  /\ udev # <<>> /\ Head(udev) = "change"
  /\ udev' = Tail(udev)
  /\ IF card.exists \/ ~kernel.card THEN card' = card
     ELSE card' \in cras_alsa_card_create
  /\ UNCHANGED <<kernel, changes>>

remove_device_if_card ==
  /\ udev # <<>> /\ Head(udev) = "remove"
  /\ udev' = Tail(udev)
  /\ card' = IF card.exists THEN cras_alsa_card_destroy(card) ELSE card
  /\ UNCHANGED <<kernel, changes>>

-----------------------------------------------------------------------------
(* The hardware *)

CardChanges ==
  /\ changes < MaxChanges /\ Len(udev) < MaxEvents
  /\ \E e \in {"change", "remove"} :
       /\ e = "remove" => kernel.card
       /\ udev' = Append(udev, e)
       /\ kernel' = [kernel EXCEPT !.card = e = "change"]
  /\ changes' = changes + 1
  /\ UNCHANGED card

JackChanges(j) ==
  /\ changes < MaxChanges /\ Len(card.jack[j].events) < MaxEvents
  /\ kernel' = [kernel EXCEPT !.up[j] = ~@]
  /\ card' = [card EXCEPT !.jack[j].events = IF card.jack[j].exists THEN Append(@, ~kernel.up[j]) ELSE @]
  /\ changes' = changes + 1
  /\ UNCHANGED udev

DisplayInfoChanges ==
  /\ changes < MaxChanges
  /\ kernel' = [kernel EXCEPT !.info = ~@]
  /\ changes' = changes + 1
  /\ UNCHANGED <<udev, card>>

Next ==
  \/ \E n \in 1..Len(card.dev.nodes) : cras_iodev_list_add_active_node(n)
  \/ cras_iodev_list_rm_active_node \/ pinned_stream_added \/ pinned_stream_removed
  \/ init_device_cb \/ cras_device_monitor_reset_device \/ handle_device_message
  \/ \E i \in 1..Len(card.dev.nodes) : \E plugged \in BOOLEAN : set_node_plugged(i, plugged)
  \/ \E j \in Jacks : display_info_delay_cb(j) \/ gpio_switch_callback(j) \/ hctl_jack_cb(j) \/ JackChanges(j)
  \/ change_udev_device_if_alsa_device \/ remove_device_if_card
  \/ CardChanges \/ DisplayInfoChanges

\* The main loop runs the callbacks of expired timers
Fairness == \A j \in Jacks : WF_vars(display_info_delay_cb(j))

Spec == Init /\ [][Next]_vars /\ Fairness

-----------------------------------------------------------------------------
\* The UCM device of the active node, and no other, is enabled exactly while the
\* device is enabled or in use by a pinned stream, one that waits for it to open
\* included (enable_active_ucm is called with the node's jack or name at that moment,
\* which jacks and clients change).  Two changes break it until the next one: a reset
\* asked for before the device was disabled enables the UCM device of a closed device
\* (cras_iodev_list_resume_dev), and a delayed open after a forced close opens the
\* device without (init_device_cb)
UcmFollowsActiveNode ==
  card.dev.exists /\ ~card.dev.astray =>
    card.ucm = IF card.dev.enabled \/ card.dev.pinned \in {"attached", "waiting", "dropped"}
               THEN LET n == card.dev.nodes[card.dev.active]
                    IN {IF n.jack # None THEN UcmDevice[n.jack] ELSE n.name}
               ELSE {}

\* Nothing of a card outlives it: its device, the timers and descriptors that call
\* back with its jacks (cras_alsa_card_destroy frees the mixer, UCM and controls
\* even when alsa_iodev_destroy returned early)
NothingOutlivesCard ==
  ~card.exists => /\ ~card.dev.exists /\ ~card.hctl_fd
                  /\ \A j \in Jacks : ~card.jack[j].exists /\ ~card.jack[j].timer

\* Once its events are handled and no retry is outstanding, a jack's node is plugged
\* exactly when the jack is, unless a client has set it since, and only if something is
\* in it; a display is left out when it cannot be read (gpio_switch_callback,
\* jack_state_change_cb)
PluggedAgrees ==
  \A j \in Jacks : \A i \in 1..Len(card.dev.nodes) :
    /\ card.dev.nodes[i].jack = j /\ ~card.dev.nodes[i].by_client
    /\ card.jack[j].events = <<>> /\ ~card.jack[j].timer
    => /\ card.dev.nodes[i].plugged = get_jack_current_state(card, j)
       /\ card.dev.nodes[i].plugged => kernel.up[j]
       /\ ~HasDisplay(card, j) => card.dev.nodes[i].plugged = kernel.up[j]

\* The wait for a display's EDID or ELD ends (display_info_retries)
DisplayWaitEnds == \A j \in Jacks : card.jack[j].timer ~> ~card.jack[j].timer

\* A device with AutoUnplugOutputNode and a speaker always has a plugged node to play
\* to, unless a client has set one: the speaker comes back when the last other node goes
\* (check_auto_unplug_output_node)
SpeakerUnlessOther ==
  card.exists /\ card.type.auto_unplug /\ has_node(card, Speaker) =>
    \E i \in 1..Len(card.dev.nodes) : card.dev.nodes[i].plugged \/ card.dev.nodes[i].by_client
=============================================================================
