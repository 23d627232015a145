---------------------------- MODULE Notifications ----------------------------
(***************************************************************************)
(* The control plane of the server: requests of clients change the system  *)
(* state, each change raises an alert, the alerts are processed once at    *)
(* the end of the main loop's pass, and the observers (the D-Bus object    *)
(* and the clients that registered) are told.  Between a change and the    *)
(* alert further changes may come, clients may register or leave, and a    *)
(* client that does not read its socket loses messages.                    *)
(***************************************************************************)
EXTENDS Naturals, Sequences

CONSTANTS
    Observers,      \* clients that register for notifications
    MAX_VOLUME,     \* CRAS_MAX_SYSTEM_VOLUME
    SocketSize,     \* messages a client's socket holds
    MaxRequests     \* requests in one behaviour (bound)

VARIABLES
    exp_state,      \* the exported system state, by item
    pending,        \* alerts that are pending
    data,           \* the data kept by each alert, oldest first
    registered,     \* what each client registered for: alerts, by client
    socket,         \* messages sent to a client and not read yet
    seen,           \* what each client believes, by item
    missed,         \* clients that lost a message, or took an old one for news
    requests        \* requests handled so far

ntVars == <<exp_state, pending, data, registered, socket, seen, missed, requests>>

Directions == {"output", "input"}

\* The items of the state that a client follows.
Items == {"volume", "mute", "capture_mute", "active_output", "active_input",
          "streams_output", "streams_input"}

ActiveNode(d) == [output |-> "active_output", input |-> "active_input"][d]

NumActiveStreams(d) == [output |-> "streams_output", input |-> "streams_input"][d]

\* num_active_streams has an alert for each direction, active_node one for both
\* that keeps all its data (cras_observer_server_init).
AlertOf(item) ==
    IF \E d \in Directions : item = ActiveNode(d) THEN "active_node" ELSE item

Alerts == {AlertOf(i) : i \in Items}

KeepsAll(alert) == alert = "active_node"

ItemsOf(alert) == {i \in Items : AlertOf(i) = alert}

-----------------------------------------------------------------------------
cras_alert_pending_data_last(a, i, v) == <<<<i, v>>>>

\* cras_alert_pending_data, the data kept for alert a after item i became v.
cras_alert_pending_data(a, i, v) ==
    IF KeepsAll(a) THEN Append(data[a], <<i, v>>) ELSE <<<<i, v>>>>

\* A cras_observer_notify_... function.
notify(i, v) ==
    LET a == AlertOf(i)
    IN  /\ pending' = pending \cup {a}
        /\ data' = [data EXCEPT ![a] = cras_alert_pending_data(a, i, v)]

Handled == requests < MaxRequests /\ requests' = requests + 1

NotTold == UNCHANGED <<registered, socket, seen, missed>>

cras_system_set_volume(v) ==
    LET set == IF v > MAX_VOLUME THEN MAX_VOLUME ELSE v
    IN  /\ exp_state' = [exp_state EXCEPT !["volume"] = set]
        /\ notify("volume", set)

\* cras_system_get_mute
Muted(v) == v.mute \/ v.user_mute

\* cras_system_set_mute and cras_system_set_user_mute end the same way: the message
\* has all three fields of mute, but it is sent only when muted or not muted changes.
SetMuteFields(v) ==
    /\ exp_state' = [exp_state EXCEPT !["mute"] = v]
    /\ IF Muted(v) = Muted(exp_state["mute"]) THEN UNCHANGED <<pending, data>>
       ELSE notify("mute", v)

cras_system_set_mute(m) ==
    /\ ~exp_state["mute"].mute_locked /\ exp_state["mute"].mute # m
    /\ SetMuteFields([exp_state["mute"] EXCEPT !.mute = m])

cras_system_set_user_mute(m) ==
    /\ exp_state["mute"].user_mute # m
    /\ SetMuteFields([exp_state["mute"] EXCEPT !.user_mute = m])

\* No notification, although the message of mute has the field.
cras_system_set_mute_locked(l) ==
    /\ exp_state["mute"].mute_locked # l
    /\ exp_state' = [exp_state EXCEPT !["mute"] = [@ EXCEPT !.mute_locked = l]]
    /\ UNCHANGED <<pending, data>>

SetCaptureMute(v) ==
    /\ exp_state' = [exp_state EXCEPT !["capture_mute"] = v]
    /\ notify("capture_mute", v)

cras_system_set_capture_mute(m) ==
    /\ ~exp_state["capture_mute"].mute_locked
    /\ SetCaptureMute([exp_state["capture_mute"] EXCEPT !.mute = m])

cras_system_set_capture_mute_locked(l) ==
    SetCaptureMute([exp_state["capture_mute"] EXCEPT !.mute_locked = l])

\* cras_iodev_list_select_node of a node that is not active yet.
cras_iodev_list_select_node(d) ==
    LET i == ActiveNode(d)
        node == 1 - exp_state[i]
    IN  /\ exp_state' = [exp_state EXCEPT ![i] = node]
        /\ notify(i, node)

\* cras_system_state_stream_added and cras_system_state_stream_removed.
StreamCount(d, n) ==
    LET i == NumActiveStreams(d)
    IN  /\ exp_state' = [exp_state EXCEPT ![i] = n]
        /\ notify(i, n)

cras_system_state_stream_added(d) ==
    StreamCount(d, exp_state[NumActiveStreams(d)] + 1)

cras_system_state_stream_removed(d) ==
    /\ exp_state[NumActiveStreams(d)] > 0
    /\ StreamCount(d, exp_state[NumActiveStreams(d)] - 1)

\* A request to change the state, as ccr_handle_message_from_client dispatches it.
ChangeState ==
    /\ Handled
    /\ \/ \E v \in 0..MAX_VOLUME + 1 : cras_system_set_volume(v)
       \/ \E b \in BOOLEAN :
            \/ cras_system_set_mute(b)
            \/ cras_system_set_user_mute(b)
            \/ cras_system_set_mute_locked(b)
            \/ cras_system_set_capture_mute(b)
            \/ cras_system_set_capture_mute_locked(b)
       \/ \E d \in Directions :
            \/ cras_iodev_list_select_node(d)
            \/ cras_system_state_stream_added(d)
            \/ cras_system_state_stream_removed(d)
    /\ NotTold

-----------------------------------------------------------------------------
(* Observers.  A client that has registered reads the exported state.      *)

\* Client c has messages of alert a that it has not read.
Unread(c, a) == \E k \in 1..Len(socket[c]) : socket[c][k][1] \in ItemsOf(a)

\* register_for_notification with do_register set or not.  Messages do not say for
\* which registration they were sent: a client that registers again before it has read
\* those of an earlier one may take an old one for news.
register_for_notification(c, a) ==
    /\ Handled
    /\ IF a \in registered[c]
       THEN /\ registered' = [registered EXCEPT ![c] = @ \ {a}]
            /\ UNCHANGED <<seen, missed>>
       ELSE /\ registered' = [registered EXCEPT ![c] = @ \cup {a}]
            /\ seen' = [seen EXCEPT ![c] = [i \in Items |->
                            IF i \in ItemsOf(a) THEN exp_state[i] ELSE @[i]]]
            /\ missed' = IF Unread(c, a) THEN missed \cup {c} ELSE missed
    /\ UNCHANGED <<exp_state, pending, data, socket>>

\* rclient_destroy removes the observer of a client that has left.
rclient_destroy(c) ==
    /\ registered[c] # {}
    /\ registered' = [registered EXCEPT ![c] = {}]
    /\ socket' = [socket EXCEPT ![c] = <<>>]
    /\ missed' = missed \ {c}
    /\ UNCHANGED <<exp_state, pending, data, seen, requests>>

\* What the callback of alert a, if it is pending, sends to client c.
Told(c, a) == IF a \in pending /\ a \in registered[c] THEN data[a] ELSE <<>>

\* The messages to client c, in the order in which cras_observer_server_init creates
\* the alerts.
Sent(c) ==
    Told(c, "volume") \o Told(c, "mute") \o Told(c, "capture_mute")
        \o Told(c, "active_node") \o Told(c, "streams_output") \o Told(c, "streams_input")

\* cras_alert_process of a pending alert clears its data once the callbacks ran.
cras_alert_process(a) == IF a \in pending THEN <<>> ELSE data[a]

\* cras_alert_process_all_pending_alerts: the sockets are non-blocking, and what
\* does not fit is lost.
cras_alert_process_all_pending_alerts ==
    LET queue(c) == socket[c] \o Sent(c)
    IN  /\ pending # {}
        /\ pending' = {}
        /\ data' = [a \in Alerts |-> cras_alert_process(a)]
        /\ socket' = [c \in Observers |->
                        SubSeq(queue(c), 1, IF Len(queue(c)) > SocketSize
                                            THEN SocketSize ELSE Len(queue(c)))]
        /\ missed' = missed \cup {c \in Observers : Len(queue(c)) > SocketSize}
        /\ UNCHANGED <<exp_state, registered, seen, requests>>

\* handle_system_message of the client library calls the client's callback.
handle_system_message(c) ==
    /\ socket[c] # <<>>
    /\ seen' = [seen EXCEPT ![c][Head(socket[c])[1]] = Head(socket[c])[2]]
    /\ socket' = [socket EXCEPT ![c] = Tail(@)]
    /\ UNCHANGED <<exp_state, pending, data, registered, missed, requests>>

-----------------------------------------------------------------------------
Init ==
    /\ exp_state = [i \in Items |->
                      CASE i = "volume" -> MAX_VOLUME
                        [] i = "mute" -> [mute |-> FALSE, user_mute |-> FALSE,
                                          mute_locked |-> FALSE]
                        [] i = "capture_mute" -> [mute |-> FALSE, mute_locked |-> FALSE]
                        [] OTHER -> 0]
    /\ pending = {}
    /\ data = [a \in Alerts |-> <<>>]
    /\ registered = [c \in Observers |-> {}]
    /\ socket = [c \in Observers |-> <<>>]
    /\ seen = [c \in Observers |-> exp_state]
    /\ missed = {}
    /\ requests = 0

Next ==
    \/ ChangeState
    \/ cras_alert_process_all_pending_alerts
    \/ \E c \in Observers :
        \/ \E a \in Alerts : register_for_notification(c, a)
        \/ rclient_destroy(c)
        \/ handle_system_message(c)

Spec == Init /\ [][Next]_ntVars

-----------------------------------------------------------------------------
\* What of an item's value the observers are kept up to date with: of mute only
\* whether the output is muted.  Which of the two mutes it is, and the lock, change
\* without an alert.
Followed(i, v) == IF i = "mute" THEN Muted(v) ELSE v

\* When every alert was processed and a client has read its socket, it believes
\* what the server's state is, for all it registered for and unless it lost a
\* message or registered again before it had read what was sent for an earlier
\* registration: no change is lost between two alerts, whatever came in between.
\* Of mute it believes whether the output is muted; user_mute and mute_locked, which
\* the message has too, may be old: cras_system_set_mute and
\* cras_system_set_user_mute send nothing while the other mute is on, and
\* cras_system_set_mute_locked never does.
ObserversUpToDate ==
    \A c \in Observers, i \in Items :
        /\ pending = {} /\ socket[c] = <<>> /\ c \notin missed
        /\ AlertOf(i) \in registered[c]
        => Followed(i, seen[c][i]) = Followed(i, exp_state[i])
=============================================================================
