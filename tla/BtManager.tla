------------------------------ MODULE BtManager ------------------------------
(***************************************************************************)
(* How CRAS follows the Bluetooth daemon: the adapters it learns of from   *)
(* GetManagedObjects and from signals (cras_bt_manager, cras_bt_adapter),  *)
(* and what it registers there, the A2DP endpoint and the media player at  *)
(* each adapter and the HFP and HSP profiles at the profile manager.       *)
(* Calls to BlueZ and messages from it are two queues.  BlueZ may exit and *)
(* start again at any time; while it is down the bus answers its calls     *)
(* with an error.  Replies that CRAS only logs are left out.               *)
(***************************************************************************)
EXTENDS Naturals, FiniteSets, Sequences, SequencesExt

CONSTANTS
    Adapters,       \* object paths of adapters
    WideBand,       \* the adapters with wide band speech
    MaxBluezEvents, \* what BlueZ does of its own accord in one behaviour (bound)
    MaxInflight,    \* messages of BlueZ under way when it sends one more (bound)
    MaxUpdates      \* calls of the user in one behaviour (bound)

VARIABLES
    manager,        \* what CRAS keeps, see ManagerType
    daemon,         \* what BlueZ keeps, see DaemonType
    outgoing,       \* calls and signals to BlueZ, oldest first
    incoming,       \* signals and replies from BlueZ not dispatched yet, oldest first
    happened        \* events of BlueZ and of the user so far

bmVars == <<manager, daemon, outgoing, incoming, happened>>

\* The identity of the player is handled as its status is.
Fields == {"status", "position", "metadata"}

\* Zero is what cras_bt_player_init sets, or nothing in the case of metadata.
Player == [Fields -> 0..1]

Profiles == {"hfp", "hsp"}

Versions == {"1.5", "1.7"}

\* An adapter that CRAS does not know has no object (0).  It is blocked while it waits
\* for the answer to UnregisterProfile.
ManagerType ==
    [adapters: [Adapters -> [obj: Nat, powered: BOOLEAN, wide_band_speech: BOOLEAN]],
     player: Player, profiles: Seq(Profiles), version: Versions, blocked: BOOLEAN]

\* A profile that is not registered has version "none".
DaemonType ==
    [up: BOOLEAN, manager: BOOLEAN,
     adapters: [Adapters -> {"absent", "adapter", "media"}],
     powered: [Adapters -> BOOLEAN], endpoints: SUBSET Adapters,
     players: SUBSET Adapters, shown: [Adapters -> Player],
     profiles: [Profiles -> Versions \cup {"none", "hsp"}]]

NoAdapter == [obj |-> 0, powered |-> FALSE, wide_band_speech |-> FALSE]

DefaultPlayer == [f \in Fields |-> 0]

\* bluetoothd, just started: nothing exported or registered.
Started(up) ==
    [up |-> up, manager |-> FALSE, adapters |-> [p \in Adapters |-> "absent"],
     powered |-> [p \in Adapters |-> FALSE], endpoints |-> {}, players |-> {},
     shown |-> [p \in Adapters |-> DefaultPlayer], profiles |-> [f \in Profiles |-> "none"]]

\* The server starts: cras_bt_start asks for the objects, then the profiles, the
\* endpoint and the player are created while no adapter is known.  BlueZ may exit before
\* it answers.
Init ==
    /\ manager = [adapters |-> [p \in Adapters |-> NoAdapter], player |-> DefaultPlayer,
                  profiles |-> <<"hfp", "hsp">>, version |-> "1.5", blocked |-> FALSE]
    /\ daemon = Started(TRUE)
    /\ outgoing = <<[call |-> "GetManagedObjects"]>>
    /\ incoming = <<>>
    /\ happened = [bluez |-> 0, user |-> 0]

-----------------------------------------------------------------------------
(* CRAS.  A handler is a function of the adapters and the calls sent.      *)

\* Memory that was freed is given out again.
NewAdapter(adapters) ==
    Min((1..Cardinality(Adapters)) \ {adapters[p].obj : p \in Adapters})

cras_bt_adapter_get(s, path) == s.adapters[path].obj # 0

cras_bt_adapter_create(s, path) ==
    [s EXCEPT !.adapters[path] = [NoAdapter EXCEPT !.obj = NewAdapter(s.adapters)]]

cras_bt_adapter_get_supported_capabilities(s, path) ==
    [s EXCEPT !.calls = Append(@, [call |-> "GetSupportedCapabilities", path |-> path,
                                   obj |-> s.adapters[path].obj])]

\* bt_adapter_set_powered, for the property that has consequences.
cras_bt_adapter_update_properties(s, path, powered) ==
    LET set == [s EXCEPT !.adapters[path].powered = powered]
    IN IF powered THEN cras_bt_adapter_get_supported_capabilities(set, path) ELSE set

cras_bt_register_endpoints(s, path) ==
    [s EXCEPT !.calls = Append(@, [call |-> "RegisterEndpoint", path |-> path])]

\* The properties that RegisterPlayer carries: all but the metadata.
cras_bt_register_player(s, path) ==
    [s EXCEPT !.calls = Append(@, [call |-> "RegisterPlayer", path |-> path,
                                   player |-> [manager.player EXCEPT !["metadata"] = 0]])]

RegisterProfile(profile, version) ==
    [call |-> "RegisterProfile", profile |-> profile,
     version |-> IF profile = "hfp" THEN version ELSE "hsp"]

cras_bt_register_profiles(s) ==
    [s EXCEPT !.calls = @ \o [i \in DOMAIN manager.profiles |->
                                RegisterProfile(manager.profiles[i], manager.version)]]

cras_bt_interface_added(s, object) ==
    CASE object.interface = "Adapter1" ->
            cras_bt_adapter_update_properties(
                IF cras_bt_adapter_get(s, object.path) THEN s
                ELSE cras_bt_adapter_create(s, object.path),
                object.path, object.powered)
      [] object.interface = "Media1" ->
            IF cras_bt_adapter_get(s, object.path)
            THEN cras_bt_register_player(
                    cras_bt_register_endpoints(s, object.path), object.path)
            ELSE s
      [] object.interface = "ProfileManager1" -> cras_bt_register_profiles(s)

\* InterfacesAdded names one object, the reply to GetManagedObjects all of them.
ObjectsAdded(s, message) == FoldLeft(cras_bt_interface_added, s, message.objects)

\* cras_bt_adapter_destroy.
cras_bt_interface_removed(s, message) ==
    [s EXCEPT !.adapters[message.path] = NoAdapter]

cras_bt_update_properties(s, message) ==
    IF cras_bt_adapter_get(s, message.path)
    THEN cras_bt_adapter_update_properties(s, message.path, message.powered)
    ELSE s

\* Mutant: the adapters of the daemon that is gone are kept.
cras_bt_handle_name_owner_changed_kept(s, message) ==
    IF message.owner THEN [s EXCEPT !.calls = Append(@, [call |-> "GetManagedObjects"])] ELSE s

\* cras_bt_reset forgets the adapters; profiles, endpoint and player stay.
cras_bt_handle_name_owner_changed(s, message) ==
    [adapters |-> [p \in Adapters |-> NoAdapter],
     calls |-> IF message.owner THEN Append(s.calls, [call |-> "GetManagedObjects"])
               ELSE s.calls]

\* The adapter of the call is looked up among those there are, by its address.
on_get_supported_capabilities_reply(s, message) ==
    [s EXCEPT !.adapters = [p \in Adapters |->
        IF s.adapters[p].obj = message.obj
        THEN [s.adapters[p] EXCEPT !.wide_band_speech = message.wide_band_speech]
        ELSE s.adapters[p]]]

Handle(s, message) ==
    CASE message.member = "NameOwnerChanged" -> cras_bt_handle_name_owner_changed(s, message)
      [] message.member \in {"InterfacesAdded", "ManagedObjects"} -> ObjectsAdded(s, message)
      [] message.member = "InterfacesRemoved" -> cras_bt_interface_removed(s, message)
      [] message.member = "PropertiesChanged" -> cras_bt_update_properties(s, message)
      [] message.member = "Capabilities" -> on_get_supported_capabilities_reply(s, message)

\* The main thread dispatches the oldest message.
Dispatch ==
    /\ ~manager.blocked
    /\ incoming # <<>>
    /\ LET s == Handle([adapters |-> manager.adapters, calls |-> outgoing], Head(incoming))
       IN manager' = [manager EXCEPT !.adapters = s.adapters] /\ outgoing' = s.calls
    /\ incoming' = Tail(incoming)
    /\ UNCHANGED <<daemon, happened>>

-----------------------------------------------------------------------------
(* CRAS, on behalf of its clients.                                         *)

UserCalls ==
    /\ ~manager.blocked
    /\ happened.user < MaxUpdates
    /\ happened' = [happened EXCEPT !.user = @ + 1]

Update(field, value) ==
    /\ manager' = [manager EXCEPT !.player[field] = value]
    /\ outgoing' = Append(outgoing, [call |-> "Changed", field |-> field, value |-> value])
    /\ UNCHANGED <<daemon, incoming>>

cras_bt_player_update_playback_status(value) ==
    UserCalls /\ manager.player["status"] # value /\ Update("status", value)

cras_bt_player_update_metadata(value) ==
    UserCalls /\ manager.player["metadata"] # value /\ Update("metadata", value)

\* The position is sent even when it is the same.
cras_bt_player_update_position(value) ==
    UserCalls /\ Update("position", value)

\* Unregisters the profile of the other version, and waits for the answer.
cras_hfp_ag_profile_next_handsfree ==
    /\ UserCalls
    /\ manager' = [manager EXCEPT !.blocked = TRUE]
    /\ outgoing' = Append(outgoing, [call |-> "UnregisterProfile", profile |-> "hfp"])
    /\ UNCHANGED <<daemon, incoming>>

\* The answer is there, or an error, or the call timed out and is still to be handled:
\* cras_bt_unregister_profile returns and its result is not looked at.
NextHandsfreeEnds ==
    LET other == CHOOSE v \in Versions : v # manager.version
    IN  /\ manager.blocked
        /\ manager' = [manager EXCEPT
                            !.blocked = FALSE, !.version = other,
                            !.profiles = Append(Remove(@, "hfp"), "hfp")]
        /\ outgoing' = Append(outgoing, RegisterProfile("hfp", other))
        /\ UNCHANGED <<daemon, incoming, happened>>

-----------------------------------------------------------------------------
(* BlueZ and the bus.                                                      *)

Adapter1(path) == [interface |-> "Adapter1", path |-> path, powered |-> daemon.powered[path]]

Media1(path) == [interface |-> "Media1", path |-> path]

ProfileManager1 == [interface |-> "ProfileManager1"]

\* An adapter's own interface comes before that of its media.
Objects ==
    LET paths == SetToSeq(Adapters)
        Of(path) == CASE daemon.adapters[path] = "absent" -> <<>>
                      [] daemon.adapters[path] = "adapter" -> <<Adapter1(path)>>
                      [] daemon.adapters[path] = "media" -> <<Adapter1(path), Media1(path)>>
    IN (IF daemon.manager THEN <<ProfileManager1>> ELSE <<>>)
            \o FlattenSeq([i \in DOMAIN paths |-> Of(paths[i])])

\* What BlueZ registers, and what it says, on a call.  Registering again is an error.
Answer(call) ==
    LET at == call.path
        has == daemon.adapters[at]
    IN CASE call.call = "GetManagedObjects" ->
                /\ incoming' = Append(incoming, [member |-> "ManagedObjects",
                                                 objects |-> Objects])
                /\ UNCHANGED daemon
         [] call.call = "GetSupportedCapabilities" ->
                /\ incoming' = IF has = "absent" THEN incoming
                               ELSE Append(incoming,
                                        [member |-> "Capabilities", obj |-> call.obj,
                                         wide_band_speech |-> at \in WideBand])
                /\ UNCHANGED daemon
         [] call.call = "RegisterEndpoint" ->
                /\ daemon' = IF has # "media" THEN daemon
                             ELSE [daemon EXCEPT !.endpoints = @ \cup {at}]
                /\ UNCHANGED incoming
         [] call.call = "RegisterPlayer" ->
                /\ daemon' = IF has # "media" \/ at \in daemon.players THEN daemon
                             ELSE [daemon EXCEPT !.players = @ \cup {at},
                                                 !.shown[at] = call.player]
                /\ UNCHANGED incoming
         [] call.call = "Changed" ->
                /\ daemon' = [daemon EXCEPT !.shown = [p \in Adapters |->
                                IF p \in daemon.players
                                THEN [@[p] EXCEPT ![call.field] = call.value] ELSE @[p]]]
                /\ UNCHANGED incoming
         [] call.call = "RegisterProfile" ->
                /\ daemon' = IF ~daemon.manager \/ daemon.profiles[call.profile] # "none"
                             THEN daemon
                             ELSE [daemon EXCEPT !.profiles[call.profile] = call.version]
                /\ UNCHANGED incoming
         [] call.call = "UnregisterProfile" ->
                /\ daemon' = [daemon EXCEPT !.profiles[call.profile] = "none"]
                /\ UNCHANGED incoming

BluezAnswers ==
    /\ daemon.up
    /\ outgoing # <<>>
    /\ Answer(Head(outgoing))
    /\ outgoing' = Tail(outgoing)
    /\ UNCHANGED <<manager, happened>>

\* The bus answers with an error.
BusAnswers ==
    /\ ~daemon.up
    /\ outgoing # <<>>
    /\ outgoing' = Tail(outgoing)
    /\ UNCHANGED <<manager, daemon, incoming, happened>>

BluezEvent(message) ==
    /\ happened.bluez < MaxBluezEvents /\ Len(incoming) < MaxInflight
    /\ happened' = [happened EXCEPT !.bluez = @ + 1]
    /\ incoming' = Append(incoming, message)
    /\ UNCHANGED <<manager, outgoing>>

BluezStarts ==
    /\ ~daemon.up
    /\ daemon' = Started(TRUE)
    /\ BluezEvent([member |-> "NameOwnerChanged", owner |-> TRUE])

BluezExits ==
    /\ daemon.up
    /\ daemon' = Started(FALSE)
    /\ BluezEvent([member |-> "NameOwnerChanged", owner |-> FALSE])

ExportManager ==
    /\ daemon.up /\ ~daemon.manager
    /\ daemon' = [daemon EXCEPT !.manager = TRUE]
    /\ BluezEvent([member |-> "InterfacesAdded", objects |-> <<ProfileManager1>>])

\* With its media in the same signal, or without.
ExportAdapter(path, powered, media) ==
    LET adapter == [interface |-> "Adapter1", path |-> path, powered |-> powered]
    IN  /\ daemon.up /\ daemon.adapters[path] = "absent"
        /\ daemon' = [daemon EXCEPT !.adapters[path] = IF media THEN "media" ELSE "adapter",
                                    !.powered[path] = powered]
        /\ BluezEvent([member |-> "InterfacesAdded",
                       objects |-> IF media THEN <<adapter, Media1(path)>> ELSE <<adapter>>])

ExportMedia(path) ==
    /\ daemon.adapters[path] = "adapter"
    /\ daemon' = [daemon EXCEPT !.adapters[path] = "media"]
    /\ BluezEvent([member |-> "InterfacesAdded", objects |-> <<Media1(path)>>])

RemoveAdapter(path) ==
    /\ daemon.adapters[path] # "absent"
    /\ daemon' = [daemon EXCEPT !.adapters[path] = "absent", !.powered[path] = FALSE,
                                !.endpoints = @ \ {path}, !.players = @ \ {path},
                                !.shown[path] = DefaultPlayer]
    /\ BluezEvent([member |-> "InterfacesRemoved", path |-> path])

PowerChanges(path) ==
    /\ daemon.adapters[path] # "absent"
    /\ daemon' = [daemon EXCEPT !.powered[path] = ~@]
    /\ BluezEvent([member |-> "PropertiesChanged", path |-> path,
                   powered |-> ~daemon.powered[path]])

-----------------------------------------------------------------------------

Next ==
    \/ Dispatch
    \/ \E v \in 0..1 :
        \/ cras_bt_player_update_playback_status(v)
        \/ cras_bt_player_update_metadata(v)
        \/ cras_bt_player_update_position(v)
    \/ cras_hfp_ag_profile_next_handsfree
    \/ NextHandsfreeEnds
    \/ BluezAnswers
    \/ BusAnswers
    \/ BluezStarts
    \/ BluezExits
    \/ ExportManager
    \/ \E p \in Adapters :
        \/ \E powered, media \in BOOLEAN : ExportAdapter(p, powered, media)
        \/ ExportMedia(p)
        \/ RemoveAdapter(p)
        \/ PowerChanges(p)

Spec == Init /\ [][Next]_bmVars

-----------------------------------------------------------------------------
(* Properties.                                                             *)

Settled == daemon.up /\ ~manager.blocked /\ outgoing = <<>> /\ incoming = <<>>

\* An adapter is known with its power, and when powered with the right answer to
\* whether it has wide band speech (cras_bt_adapter.c).
AdaptersKnown ==
    \A p \in Adapters :
        /\ manager.adapters[p].obj # 0 <=> daemon.adapters[p] # "absent"
        /\ manager.adapters[p].powered = daemon.powered[p]
        /\ daemon.powered[p] =>
            manager.adapters[p].wide_band_speech = (p \in WideBand)

\* The endpoint and the player are registered wherever there is media, the player with
\* what CRAS last set; the metadata may be missing until it changes (cras_bt_player.c).
MediaRegistered ==
    \A p \in Adapters : daemon.adapters[p] = "media" =>
        /\ p \in daemon.endpoints \cap daemon.players
        /\ \A f \in Fields :
            daemon.shown[p][f] \in {manager.player[f]} \cup (IF f = "metadata" THEN {0} ELSE {})

\* The profiles are registered, HFP with the version chosen last
\* (cras_bt_profile.c, cras_hfp_ag_profile_next_handsfree).
ProfilesRegistered ==
    daemon.manager => daemon.profiles = [hfp |-> manager.version, hsp |-> "hsp"]

\* Once nothing is in flight CRAS and BlueZ agree, in whatever order BlueZ exported,
\* removed, exited and started again while calls to it were under way.
BluezAgrees == Settled => AdaptersKnown /\ MediaRegistered /\ ProfilesRegistered
=============================================================================
