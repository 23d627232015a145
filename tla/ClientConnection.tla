------------------------ MODULE ClientConnection ------------------------
(***************************************************************************)
(* The client library's connection to the audio server and the streams it  *)
(* carries: libcras/cras_client.c (the control thread), cras_server.c and  *)
(* cras_rclient_util.c (the other end), with the server dying and starting *)
(* again.  The server's start is several steps (unlink, bind, listen), as  *)
(* the client sees them through the socket file and connect().             *)
(*                                                                         *)
(* One client.  A connection is a slot of the set Slots; the client holds  *)
(* at most one (cl.fd), the server may still hold older ones.              *)
(***************************************************************************)
EXTENDS Integers, Sequences, FiniteSets, SequencesExt, FiniteSetsExt

CONSTANTS Slots,        \* connections that can be open at once, a set of positive numbers
          Streams,      \* stream ids; next_stream_id never repeats one
          MaxCrashes,   \* bound on the deaths of the server
          MaxRegister   \* bound on the registrations under way on a connection

VARIABLES
  cl,       \* struct cras_client: see ClientType
  srv,      \* the server: down, unlinked, bound, listening
  file,     \* the socket file exists
  events,   \* inotify events of the socket file not yet read by the client
  peer,     \* the server's end of each connection
  up, down, \* messages to the server and to the client, per connection
  rstreams, \* streams the server holds for a connection
  regs,     \* the connection registered for notifications at the server
  eof,      \* stream ids written to stream_fds: the application is done with them
  crashes

vars == <<cl, srv, file, events, peer, up, down, rstreams, regs, eof, crashes>>

SockStates == {"DISCONNECTED", "WAIT_FOR_SOCKET", "WAIT_FOR_WRITABLE",
               "FIRST_MESSAGE", "CONNECTED", "ERROR_DELAY"}
NoFd == 0
Timer == -1
\* absent: never added; warmup, running: the audio thread runs; stopped: still
\* listed, its thread joined; gone: removed and freed
StreamStates == {"absent", "warmup", "running", "stopped", "gone"}
Message == [id : {"CONNECTED"}]
             \cup [id : {"CONNECT_STREAM", "DISCONNECT_STREAM", "STREAM_CONNECTED",
                         "STREAM_REFUSED"}, stream : Streams]
             \cup [id : {"REGISTER"}, on : BOOLEAN]

ClientType == [st : SockStates, fd : Slots \cup {NoFd, Timer},
               exists : BOOLEAN,    \* sock_file_exists
               id : BOOLEAN,        \* client->id >= 0
               state : BOOLEAN,     \* server_state is mapped
               event : BOOLEAN,     \* server_event_fd holds 1
               run : BOOLEAN,       \* the control thread runs
               waiting : BOOLEAN,   \* CLIENT_SERVER_CONNECT is in progress
               observer : BOOLEAN,  \* observer_ops has a callback
               told : {"none", "CONNECTED", "DISCONNECTED", "FAILED"},
               stream : [Streams -> StreamStates],
               badId : SUBSET Streams,  \* added before the client had its id
               failed : SUBSET Streams, \* connected by the server, but stream_connected
                                        \* could not map the shared memory
               rereg : {"no", "read", "set"}, \* how far reregister_notifications is
               app : {"none", "on", "off"},   \* registration the application's thread
                                              \* has set and not yet sent
               crossed : BOOLEAN]   \* history: it set it during reregister_notifications

Listed(c) == {s \in Streams : c.stream[s] \in {"warmup", "running", "stopped"}}
World == [c |-> cl, up |-> up, peer |-> peer]
\* the control thread runs and is not inside reregister_notifications
Polling == cl.run /\ cl.rereg = "no"

Init ==
  /\ cl = [st |-> "DISCONNECTED", fd |-> NoFd, exists |-> FALSE, id |-> FALSE,
           state |-> FALSE, event |-> FALSE, run |-> FALSE, waiting |-> FALSE,
           observer |-> FALSE, told |-> "none",
           stream |-> [s \in Streams |-> "absent"], badId |-> {}, failed |-> {},
           rereg |-> "no", app |-> "none", crossed |-> FALSE]
  /\ srv = "down" /\ file = FALSE /\ events = <<>> /\ crashes = 0
  /\ peer = [x \in Slots |-> "closed"]
  /\ up = [x \in Slots |-> <<>>] /\ down = [x \in Slots |-> <<>>]
  /\ rstreams = [x \in Slots |-> {}] /\ regs = [x \in Slots |-> FALSE]
  /\ eof = {}

-----------------------------------------------------------------------------
(* The socket state machine.  A world w is the client and the wire; the    *)
(* operators return the world after the code has run.                      *)

\* write() on server_fd: lost when the other end is gone
Write(w, msgs) ==
  IF w.c.fd \in Slots /\ w.peer[w.c.fd] \in {"backlog", "attached"}
  THEN [w EXCEPT !.up[w.c.fd] = @ \o msgs] ELSE w

StopStreams(c, ss) == [c EXCEPT !.stream = [s \in Streams |-> IF s \in ss THEN "gone" ELSE @[s]]]

\* mutant: the server is not told of the removal
client_thread_rm_stream_silent(w, ss) == [w EXCEPT !.c = StopStreams(@, ss)]

client_thread_rm_stream(w, ss) ==
  LET sent == IF w.c.st = "CONNECTED"
              THEN Write(w, SetToSeq({[id |-> "DISCONNECT_STREAM", stream |-> s] : s \in ss}))
              ELSE w
  IN  [sent EXCEPT !.c = StopStreams(@, ss)]

AfterDisconnect == [DISCONNECTED |-> "DISCONNECTED", ERROR_DELAY |-> "DISCONNECTED",
                    WAIT_FOR_SOCKET |-> "ERROR_DELAY", WAIT_FOR_WRITABLE |-> "ERROR_DELAY",
                    FIRST_MESSAGE |-> "ERROR_DELAY", CONNECTED |-> "WAIT_FOR_SOCKET"]

\* mutants: the server state stays mapped; the application is not told of a failure
disconnect_transition_action_mapped(w) ==
  LET quiet == client_thread_rm_stream(w, Listed(w.c))
  IN  [quiet EXCEPT !.c.id = FALSE, !.c.fd = NoFd, !.c.event = FALSE,
                    !.c.st = AfterDisconnect[w.c.st]]
disconnect_transition_action_untold(w) ==
  LET quiet == client_thread_rm_stream(w, Listed(w.c))
  IN  [quiet EXCEPT !.c.state = FALSE, !.c.id = FALSE, !.c.fd = NoFd, !.c.event = FALSE,
                    !.c.st = AfterDisconnect[w.c.st]]

disconnect_transition_action(w) ==
  LET quiet == client_thread_rm_stream(w, Listed(w.c))
  IN  [quiet EXCEPT !.c.state = FALSE, !.c.id = FALSE, !.c.fd = NoFd, !.c.event = FALSE,
                    !.c.st = AfterDisconnect[w.c.st],
                    !.c.told = CASE w.c.st = "ERROR_DELAY" -> "FAILED"
                                 [] w.c.st = "CONNECTED" -> "DISCONNECTED"
                                 [] OTHER -> @]

\* mutant: the retry timer is not armed
error_delay_start_unarmed(w, timerOk) == w

\* no timer can be created: server_fd_dispatch comes back here with POLLHUP
error_delay_start(w, timerOk) ==
  IF timerOk THEN [w EXCEPT !.c.fd = Timer] ELSE disconnect_transition_action(w)

FreeSlots(w) == {x \in Slots : w.peer[x] = "closed" /\ w.c.fd # x}

\* connect(): accepted into the backlog; refused (a file nobody listens on; the
\* client waits for the file to change); an error (no file, or the backlog full)
wait_for_writable_next_action(w, timerOk) ==
  IF srv = "listening" /\ FreeSlots(w) # {}
  THEN LET x == Min(FreeSlots(w))
       IN  [w EXCEPT !.c.st = "FIRST_MESSAGE", !.c.fd = x, !.peer[x] = "backlog"]
  ELSE IF file /\ srv # "listening" THEN [w EXCEPT !.c.st = "WAIT_FOR_WRITABLE"]
  ELSE error_delay_start(disconnect_transition_action([w EXCEPT !.c.st = "WAIT_FOR_WRITABLE"]), timerOk)

\* server_fd_dispatch(client, 0), run until the state stops changing
server_fd_dispatch(w, timerOk) ==
  CASE w.c.st = "ERROR_DELAY" /\ w.c.fd = NoFd -> error_delay_start(w, timerOk)
    [] w.c.st = "WAIT_FOR_SOCKET" /\ w.c.exists -> wait_for_writable_next_action(w, timerOk)
    [] w.c.st = "WAIT_FOR_WRITABLE" /\ w.c.fd = NoFd -> wait_for_writable_next_action(w, timerOk)
    [] OTHER -> w

\* server_fd_dispatch(client, POLLHUP), also the way every error is handled
server_fd_hup(w, timerOk) == server_fd_dispatch(disconnect_transition_action(w), timerOk)

server_connect(w, timerOk) ==
  IF w.c.st # "DISCONNECTED" THEN w
  ELSE server_fd_dispatch([w EXCEPT !.c.st = "WAIT_FOR_SOCKET"], timerOk)

server_disconnect(w) ==
  IF w.c.st = "DISCONNECTED" THEN w
  ELSE disconnect_transition_action([w EXCEPT !.c.st = "DISCONNECTED"])

sock_file_wait_callback(w, event, timerOk) ==
  IF event = "CREATED"
  THEN LET seen == [w EXCEPT !.c.exists = TRUE]
       IN  IF w.c.st \in {"WAIT_FOR_SOCKET", "WAIT_FOR_WRITABLE"}
           THEN server_fd_dispatch(seen, timerOk) ELSE seen
  ELSE LET seen == [w EXCEPT !.c.exists = FALSE]
       IN  IF w.c.st = "DISCONNECTED" THEN seen
           ELSE server_connect(server_disconnect(seen), timerOk)

\* CLIENT_SERVER_CONNECT polls on inside the command until it is connected
Commit(w) ==
  /\ cl' = [w.c EXCEPT !.waiting = @ /\ w.c.st # "CONNECTED"]
  /\ up' = w.up /\ peer' = w.peer
ServerSide == UNCHANGED <<srv, file, crashes, rstreams, regs>>

-----------------------------------------------------------------------------
(* The control thread: one ready descriptor per turn.                       *)

sock_file_wait_dispatch(timerOk) ==
  /\ Polling /\ events # <<>>
  /\ Commit(sock_file_wait_callback(World, Head(events), timerOk))
  /\ events' = Tail(events)
  /\ ServerSide /\ UNCHANGED <<down, eof>>

error_delay_next_action(timerOk) ==
  /\ Polling /\ cl.st = "ERROR_DELAY" /\ cl.fd = Timer
  /\ Commit(server_fd_dispatch([World EXCEPT !.c.st = "WAIT_FOR_SOCKET", !.c.fd = NoFd], timerOk))
  /\ ServerSide /\ UNCHANGED <<down, eof, events>>

ServerHangsUp(timerOk) ==
  /\ Polling /\ cl.fd \in Slots /\ peer[cl.fd] = "closed"
  /\ Commit(server_fd_hup(World, timerOk))
  /\ ServerSide /\ UNCHANGED <<down, eof, events>>

Connected(w) ==
  [w EXCEPT !.c.st = "CONNECTED", !.c.event = TRUE, !.c.told = "CONNECTED", !.c.rereg = "no"]

\* reregister_notifications reads the callback here; without one there is nothing to do
connect_transition_action(w) ==
  LET fresh == [w EXCEPT !.c.crossed = @ /\ w.c.app # "none"]
  IN  IF w.c.observer THEN [fresh EXCEPT !.c.rereg = "read"] ELSE Connected(fresh)

client_attach_shm(w) == [w EXCEPT !.c.state = TRUE, !.c.id = TRUE]

\* mutant: a refused stream is left warming up
handle_message_from_server_lenient(w, m, timerOk, mapped) ==
  CASE m.id = "CONNECTED" -> connect_transition_action(client_attach_shm(w))
    [] m.id = "STREAM_CONNECTED" /\ m.stream \in Listed(w.c) -> [w EXCEPT !.c.stream[m.stream] = "running"]
    [] OTHER -> w

\* stream_connected, of a stream the server has; when its memory cannot be mapped
\* the audio thread is stopped, and the server is not told
stream_connected(w, s, mapped) ==
  IF mapped THEN [w EXCEPT !.c.stream[s] = "running"]
  ELSE [w EXCEPT !.c.stream[s] = "stopped", !.c.failed = @ \cup {s}]

\* a STREAM_CONNECTED without its two fds, for a stream the client no longer
\* has, is -EINVAL and so closes the connection
handle_message_from_server(w, m, timerOk, mapped) ==
  CASE m.id = "CONNECTED" ->
         IF w.c.state THEN server_fd_hup(w, timerOk)
         ELSE connect_transition_action(client_attach_shm(w))
    [] m.id = "STREAM_CONNECTED" ->
         IF m.stream \in Listed(w.c) THEN stream_connected(w, m.stream, mapped) ELSE w
    [] m.id = "STREAM_REFUSED" ->
         IF m.stream \in Listed(w.c) THEN [w EXCEPT !.c.stream[m.stream] = "stopped"]
         ELSE server_fd_hup(w, timerOk)
    [] OTHER -> w

MessageFromServer(timerOk) ==
  /\ Polling /\ cl.fd \in Slots /\ peer[cl.fd] # "closed" /\ down[cl.fd] # <<>>
  /\ \E mapped \in BOOLEAN :
       Commit(handle_message_from_server(World, Head(down[cl.fd]), timerOk, mapped))
  /\ down' = [down EXCEPT ![cl.fd] = Tail(@)]
  /\ ServerSide /\ UNCHANGED <<events, eof>>

\* The callback that was read is stored again, then sent, without a lock against the
\* application's thread.
reregister_notifications ==
  /\ cl.rereg # "no"
  /\ Commit(IF cl.rereg = "read" THEN [World EXCEPT !.c.observer = TRUE, !.c.rereg = "set"]
            ELSE Connected(Write(World, <<[id |-> "REGISTER", on |-> TRUE]>>)))
  /\ ServerSide /\ UNCHANGED <<events, down, eof>>

\* the audio callback returned a negative number; the thread goes on until joined
send_stream_message(s) ==
  /\ cl.stream[s] = "running" /\ eof' = eof \cup {s}
  /\ UNCHANGED <<cl, srv, file, events, peer, up, down, rstreams, regs, crashes>>

handle_stream_message(s) ==
  /\ Polling /\ ~cl.waiting /\ s \in eof
  /\ eof' = eof \ {s}
  /\ Commit(client_thread_rm_stream(World, {s} \cap Listed(cl)))
  /\ ServerSide /\ UNCHANGED <<events, down>>

-----------------------------------------------------------------------------
(* Commands of the application, run by the control thread.                  *)

Command == Polling /\ ~cl.waiting /\ ServerSide /\ UNCHANGED <<events, down, eof>>

\* sent on whatever server_fd is; without a socket the thread is stopped again
client_thread_add_stream(s) ==
  /\ Command /\ cl.stream[s] = "absent" /\ \A t \in Streams : t < s => cl.stream[t] # "absent"
  /\ Commit(IF cl.fd \in Slots
            THEN [Write(World, <<[id |-> "CONNECT_STREAM", stream |-> s]>>)
                    EXCEPT !.c.stream[s] = "warmup", !.c.badId = IF cl.id THEN @ ELSE @ \cup {s}]
            ELSE [World EXCEPT !.c.stream[s] = "gone"])

cras_client_rm_stream(s) ==
  /\ Command /\ s \in Listed(cl) /\ Commit(client_thread_rm_stream(World, {s}))

cras_client_connect_async(timerOk) ==
  /\ Command /\ cl.st = "DISCONNECTED" /\ Commit(server_connect(World, timerOk))

cras_client_connected_wait(timerOk) ==
  /\ Command /\ ~cl.event
  /\ Commit(server_connect([World EXCEPT !.c.waiting = TRUE], timerOk))

ConnectTimeout ==
  /\ Polling /\ cl.waiting /\ cl' = [cl EXCEPT !.waiting = FALSE]
  /\ ServerSide /\ UNCHANGED <<events, down, eof, up, peer>>

cras_client_run_thread ==
  /\ ~cl.run /\ cl' = [cl EXCEPT !.run = TRUE]
  /\ ServerSide /\ UNCHANGED <<events, down, eof, up, peer>>

cras_client_stop ==
  /\ Command /\ Commit([client_thread_rm_stream(World, Listed(cl)) EXCEPT !.c.run = FALSE])

\* cras_client_set_*_changed_callback, from the application's own thread: the callback
\* is stored, then the registration is sent
set_changed_callback ==
  /\ \A x \in Slots : Len(SelectSeq(up[x], LAMBDA m : m.id = "REGISTER")) < MaxRegister
  /\ cl.app = "none"
  /\ cl' = [cl EXCEPT !.observer = ~@, !.app = IF cl.observer THEN "off" ELSE "on",
                      !.crossed = @ \/ cl.rereg # "no"]
  /\ ServerSide /\ UNCHANGED <<events, down, eof, up, peer>>

cras_send_register_notification ==
  /\ cl.app # "none"
  /\ LET w == [World EXCEPT !.c.app = "none"]
     IN  Commit(IF cl.st \in {"FIRST_MESSAGE", "CONNECTED"}
                THEN Write(w, <<[id |-> "REGISTER", on |-> cl.app = "on"]>>) ELSE w)
  /\ ServerSide /\ UNCHANGED <<events, down, eof>>

-----------------------------------------------------------------------------
(* The server.                                                              *)

ClientSide == UNCHANGED <<cl, up, eof>>
Reset(x) == /\ peer' = [peer EXCEPT ![x] = "closed"] /\ up' = [up EXCEPT ![x] = <<>>]
            /\ down' = [down EXCEPT ![x] = <<>>] /\ rstreams' = [rstreams EXCEPT ![x] = {}]
            /\ regs' = [regs EXCEPT ![x] = FALSE]

\* create_and_listen_server_socket, one step per system call the client can see
ServerUnlink ==
  /\ srv = "down" /\ srv' = "unlinked"
  /\ events' = IF file THEN Append(events, "DELETED") ELSE events
  /\ file' = FALSE
  /\ ClientSide /\ UNCHANGED <<peer, down, rstreams, regs, crashes>>

ServerBind ==
  /\ srv = "unlinked" /\ srv' = "bound" /\ file' = TRUE
  /\ events' = Append(events, "CREATED")
  /\ ClientSide /\ UNCHANGED <<peer, down, rstreams, regs, crashes>>

ServerListen ==
  /\ srv = "bound" /\ srv' = "listening"
  /\ ClientSide /\ UNCHANGED <<file, events, peer, down, rstreams, regs, crashes>>

\* killed: the file stays, every connection hangs up
ServerDies ==
  /\ srv \in {"bound", "listening"} /\ crashes < MaxCrashes
  /\ crashes' = crashes + 1 /\ srv' = "down"
  /\ peer' = [x \in Slots |-> "closed"]
  /\ up' = [x \in Slots |-> <<>>] /\ down' = [x \in Slots |-> <<>>]
  /\ rstreams' = [x \in Slots |-> {}] /\ regs' = [x \in Slots |-> FALSE]
  /\ UNCHANGED <<cl, eof, file, events>>

handle_new_connection(x) ==
  /\ srv = "listening" /\ peer[x] = "backlog"
  /\ peer' = [peer EXCEPT ![x] = "attached"]
  /\ down' = [down EXCEPT ![x] = Append(@, [id |-> "CONNECTED"])]
  /\ ClientSide /\ UNCHANGED <<srv, file, events, rstreams, regs, crashes>>

\* ok: the stream could be created and its reply sent
rclient_handle_client_stream_connect(x, s, ok) ==
  LET good == ok /\ s \notin cl.badId
  IN  /\ down' = [down EXCEPT ![x] = Append(@, [id |-> IF good THEN "STREAM_CONNECTED" ELSE "STREAM_REFUSED",
                                               stream |-> s])]
      /\ rstreams' = [rstreams EXCEPT ![x] = IF good THEN @ \cup {s} ELSE @]
      /\ regs' = regs

rclient_handle_client_stream_disconnect(x, s) ==
  /\ rstreams' = [rstreams EXCEPT ![x] = @ \ {s}] /\ UNCHANGED <<down, regs>>

handle_message_from_client(x, ok) ==
  /\ srv = "listening" /\ peer[x] = "attached" /\ up[x] # <<>>
  /\ LET m == Head(up[x])
     IN  CASE m.id = "CONNECT_STREAM" -> rclient_handle_client_stream_connect(x, m.stream, ok)
           [] m.id = "DISCONNECT_STREAM" -> rclient_handle_client_stream_disconnect(x, m.stream)
           [] m.id = "REGISTER" -> regs' = [regs EXCEPT ![x] = m.on] /\ UNCHANGED <<down, rstreams>>
  /\ up' = [up EXCEPT ![x] = Tail(@)]
  /\ UNCHANGED <<cl, srv, file, events, peer, eof, crashes>>

\* the read returns 0 once the client has closed its end
remove_client(x) ==
  /\ srv = "listening" /\ peer[x] = "attached" /\ up[x] = <<>> /\ cl.fd # x
  /\ Reset(x) /\ UNCHANGED <<cl, srv, file, events, eof, crashes>>

-----------------------------------------------------------------------------
\* one turn of the control thread for server_fd, whatever it is at the time
ServerFdReady ==
  \/ \E ok \in BOOLEAN : error_delay_next_action(ok) \/ ServerHangsUp(ok) \/ MessageFromServer(ok)
  \/ reregister_notifications

\* the server's loop finds the connection ready
ClientFdReady(x) ==
  \/ handle_new_connection(x)
  \/ \E ok \in BOOLEAN : handle_message_from_client(x, ok)
  \/ remove_client(x)

Next ==
  \/ \E ok \in BOOLEAN : sock_file_wait_dispatch(ok)
  \/ ServerFdReady
  \/ ServerUnlink \/ ServerBind \/ ServerListen \/ ServerDies
  \/ \E x \in Slots : ClientFdReady(x)
  \/ \E s \in Streams : send_stream_message(s)
  \/ \E s \in Streams : handle_stream_message(s)
  \/ \E s \in Streams : client_thread_add_stream(s)
  \/ \E s \in Streams : cras_client_rm_stream(s)
  \/ \E ok \in BOOLEAN : cras_client_connect_async(ok)
  \/ \E ok \in BOOLEAN : cras_client_connected_wait(ok)
  \/ ConnectTimeout \/ cras_client_run_thread \/ cras_client_stop
  \/ set_changed_callback \/ cras_send_register_notification

\* The two threads keep running: poll returns for a ready descriptor, and init
\* starts a dead server again.  Nothing is assumed of the application.
Fairness ==
  /\ WF_vars(\E ok \in BOOLEAN : sock_file_wait_dispatch(ok))
  /\ WF_vars(ServerFdReady)
  /\ WF_vars(ServerUnlink \/ ServerBind \/ ServerListen)
  /\ \A x \in Slots : WF_vars(ClientFdReady(x))
Spec == Init /\ [][Next]_vars /\ Fairness

-----------------------------------------------------------------------------
TypeOK ==
  /\ cl \in ClientType
  /\ srv \in {"down", "unlinked", "bound", "listening"} /\ file \in BOOLEAN
  /\ events \in Seq({"CREATED", "DELETED"})
  /\ peer \in [Slots -> {"closed", "backlog", "attached"}]
  /\ up \in [Slots -> Seq(Message)] /\ down \in [Slots -> Seq(Message)]
  /\ rstreams \in [Slots -> SUBSET Streams] /\ regs \in [Slots -> BOOLEAN]
  /\ eof \subseteq Streams /\ crashes \in 0..MaxCrashes

Quiet(x) == /\ peer[x] = "attached" /\ cl.fd = x /\ cl.st = "CONNECTED"
            /\ up[x] = <<>> /\ down[x] = <<>> /\ cl.app = "none"

\* The two ends agree.  Once no message is under way on the connection the
\* server holds exactly the streams the client runs, and none is still warming
\* up: whatever order adding, removing, refusing and reconnecting happened in.
\* The one stream left on one side only is that of a stream_connected that
\* failed: its audio thread is stopped, and the server keeps it until the
\* application removes it.
StreamsAgree ==
  \A x \in Slots : Quiet(x) =>
    /\ rstreams[x] = {s \in Streams : cl.stream[s] = "running"}
                        \cup {s \in cl.failed : cl.stream[s] = "stopped"}
    /\ \A s \in Streams : cl.stream[s] # "warmup"

\* A registration made at any time, connected or not, is known to the server
\* once the connection is quiet (reregister_notifications on every reconnect),
\* unless the application made it while reregister_notifications ran: the two
\* threads write observer_ops and send without a lock, and the callback and the
\* server's registration may then disagree until the next reconnect.
RegistrationKept == \A x \in Slots : Quiet(x) /\ ~cl.crossed => regs[x] = cl.observer

\* The server's state region is mapped only while the client is connected, or
\* registers again just before, so that the next CONNECTED message can always
\* attach it (-EBUSY otherwise).
AttachNeverBusy ==
  cl.state => cl.id /\ (cl.rereg = "no" => cl.st = "CONNECTED" /\ cl.event)

\* When the library has given up (DISCONNECTED after a connection was asked
\* for), the application has been told: it never believes it is connected.
GivenUpIsTold == cl.st = "DISCONNECTED" => cl.told \in {"none", "FAILED"}

\* With the server up for good and the control thread running, a client that
\* asked for a connection gets one, or was told FAILED, unless connect() was
\* refused and it waits for the socket file to change (WAIT_FOR_WRITABLE
\* without a socket).
Refused == cl.st = "WAIT_FOR_WRITABLE" /\ cl.fd = NoFd
Reconnects ==
  <>[](srv = "listening" /\ cl.run) =>
     []<>(cl.st = "CONNECTED" \/ Refused \/ cl.st = "DISCONNECTED")

\* A stream does not warm up forever: its thread is set running, or it is
\* stopped, or the stream is removed with its connection.
WarmupEnds ==
  \A s \in Streams : (<>[]cl.run) => (cl.stream[s] = "warmup" ~> cl.stream[s] # "warmup")

\* What cras_client.h promises of cras_client_connect_async: the connection is
\* made, or the status callback reports the error.
AsyncAnswered == <>[](srv = "listening" /\ Polling /\ cl.st # "DISCONNECTED") => <>(cl.st = "CONNECTED")
=============================================================================
