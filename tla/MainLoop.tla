------------------------------ MODULE MainLoop ------------------------------
(***************************************************************************)
(* The main thread of the server: cras_server_run with the lists it walks  *)
(* (clients, file descriptor callbacks, timers, deferred tasks) and the pipe *)
(* through which the audio thread talks to it.  What the deferred tasks do *)
(* is ServerStream.tla.                                                    *)
(*                                                                         *)
(* Every list element is a heap block: it is named by the address it was   *)
(* allocated at, and an address is free again once the block is freed.     *)
(* The loops walk the lists with a saved pointer `it` while the callbacks  *)
(* they run add and remove elements of the very same lists.                *)
(***************************************************************************)
EXTENDS Naturals, Sequences, FiniteSets, SequencesExt

CONSTANTS
    Blocks,     \* addresses of callback and timer blocks (bound)
    Clients,    \* ids a client can be given (bound of next_client_id)
    MaxTasks,   \* tasks queued at a time (bound)
    PipeSize,   \* messages that fit into the main message pipe
    CRAS_MAX_ATTACHED_CLIENTS,  \* clients the exported list has room for
    PIPE,       \* main_msg_fds[0], always registered
    CONN,       \* a server socket
    NULL

VARIABLES
    pc,         \* where the main thread is in one pass of the loop
    it,         \* the saved pointer of the list being walked, or NULL
    callbacks,  \* client_callbacks: [id, deleted, polled]
    timers,     \* tm->timers: [id, due]
    clients,    \* clients_head: [id, polled]
    exported,   \* the client ids in the exported server state, in order
    tasks,      \* system_tasks: how many are queued
    running,    \* the tasks this pass took over and has not run yet
    ready,      \* what is readable now
    revents,    \* what the last ppoll reported
    pipe        \* main messages in the pipe

lists == <<callbacks, timers, clients, exported, tasks, running>>

vars == <<pc, it, lists, ready, revents, pipe>>

Ids(list) == {list[i].id : i \in 1..Len(list)}

Entry(list, id) == CHOOSE e \in ToSet(list) : e.id = id

\* Where the block `id` is linked into the list.
IndexOf(list, id) == CHOOSE j \in 1..Len(list) : list[j].id = id

\* el->next, read from the list as it is now.
NextOf(list, id) ==
    LET i == IndexOf(list, id)
    IN  IF i = Len(list) THEN NULL ELSE list[i + 1].id

First(list) == IF list = <<>> THEN NULL ELSE list[1].id

\* DL_DELETE of the block `id`.
Without(list, id) == RemoveAt(list, IndexOf(list, id))

-----------------------------------------------------------------------------
(* What a handler may do to the lists. `e` is the effect of one callback.  *)
(* It is an add or a removal of a callback or of a timer, or a new task.   *)

Effects ==
    ({"none", "add_task"} \X {NULL})
      \cup ({"add_fd", "rm_fd", "add_timer", "cancel"} \X Blocks)

\* A new block is at a free address.  Only the owner of a registration removes
\* it, once, and no timer callback cancels the timer that is firing.
CanHappen(e, firing) ==
    CASE e[1] \in {"add_fd", "add_timer"} ->
            e[2] \notin Ids(callbacks) \cup Ids(timers)
      [] e[1] = "rm_fd" ->
            \E c \in ToSet(callbacks) : c.id = e[2] /\ ~c.deleted
      [] e[1] = "cancel" -> e[2] \in Ids(timers) \ {firing}
      [] e[1] = "add_task" -> tasks < MaxTasks
      [] OTHER -> TRUE

\* add_select_fd appends a registration that is not polled in this pass.
add_select_fd(list, id) ==
    Append(list, [id |-> id, deleted |-> FALSE, polled |-> FALSE])

\* rm_select_fd only marks the registration.
rm_select_fd(list, id) ==
    [i \in 1..Len(list) |->
        IF list[i].id = id THEN [list[i] EXCEPT !.deleted = TRUE] ELSE list[i]]

\* cleanup_select_fds frees what was marked; the rest keeps its order.
cleanup_select_fds(list) ==
    LET kept == {i \in 1..Len(list) : ~list[i].deleted}
        Nth(k) == CHOOSE i \in kept : Cardinality({j \in kept : j <= i}) = k
    IN  [k \in 1..Cardinality(kept) |-> list[Nth(k)]]

CallbacksAfter(e) ==
    CASE e[1] = "add_fd" -> add_select_fd(callbacks, e[2])
      [] e[1] = "rm_fd" -> rm_select_fd(callbacks, e[2])
      [] OTHER -> callbacks

\* cras_tm_create_timer appends, cras_tm_cancel_timer unlinks and frees.
cras_tm_create_timer(list, id) == Append(list, [id |-> id, due |-> FALSE])

cras_tm_cancel_timer(list, id) == Without(list, id)

TimersAfter(e) ==
    CASE e[1] = "add_timer" -> cras_tm_create_timer(timers, e[2])
      [] e[1] = "cancel" -> cras_tm_cancel_timer(timers, e[2])
      [] OTHER -> timers

TasksAfter(e) == IF e[1] = "add_task" THEN tasks + 1 ELSE tasks

Handler(e) ==
    /\ callbacks' = CallbacksAfter(e)
    /\ tasks' = TasksAfter(e)

-----------------------------------------------------------------------------
Init ==
    /\ pc = "build"
    /\ it = NULL
    /\ callbacks = <<[id |-> PIPE, deleted |-> FALSE, polled |-> FALSE]>>
    /\ timers = <<>>
    /\ clients = <<>>
    /\ exported = <<>>
    /\ tasks = 0
    /\ running = 0
    /\ ready = {}
    /\ revents = {}
    /\ pipe = 0

\* The poll set is built from the lists, and the queued tasks are taken over.  What the
\* last ppoll reported is not looked at any more.
BuildPollfds ==
    /\ pc = "build"
    /\ clients' = [i \in 1..Len(clients) |-> [clients[i] EXCEPT !.polled = TRUE]]
    /\ callbacks' = [i \in 1..Len(callbacks) |->
                        [callbacks[i] EXCEPT !.polled = @ \/ ~callbacks[i].deleted]]
    /\ running' = tasks
    /\ tasks' = 0
    /\ pc' = "tasks"
    /\ revents' = {}
    /\ UNCHANGED <<it, timers, exported, ready, pipe>>

\* A task runs once; the tasks it may queue are for the next pass.
RunTask ==
    /\ pc = "tasks" /\ running > 0
    /\ running' = running - 1
    /\ UNCHANGED <<pc, it, callbacks, timers, clients, exported, tasks, ready,
                   revents, pipe>>

TimesOut_first == tasks = 0 /\ timers # <<>> /\ timers[1].due

\* cras_tm_get_next_timeout, and the choice of poll_timeout made from it.
TimesOut == tasks = 0 /\ \E i \in 1..Len(timers) : timers[i].due

Polled_clients == {c.id : c \in {x \in ToSet(clients) : x.polled}}

Polled == {c.id : c \in {x \in ToSet(clients) \cup ToSet(callbacks) : x.polled}}

\* ppoll returns when something polled is readable or the timeout is over.
Poll ==
    /\ pc = "tasks" /\ running = 0
    /\ revents' = ready \cap (Polled \cup {CONN})
    /\ revents' # {} \/ TimesOut
    /\ pc' = "timers"
    /\ it' = First(timers)
    /\ UNCHANGED <<lists, ready, pipe>>

\* A signal makes ppoll fail: the pass is abandoned.
PollInterrupted ==
    /\ pc = "tasks" /\ running = 0
    /\ pc' = "build"
    /\ UNCHANGED <<it, lists, ready, revents, pipe>>

call_timer_callback_saved(e) ==
    /\ it # NULL /\ Entry(timers, it).due
    /\ CanHappen(e, it)
    /\ it' = NextOf(timers, it)
    /\ timers' = cras_tm_cancel_timer(TimersAfter(e), it)

\* cras_tm_call_callbacks: `next` is read again after the callback.
call_timer_callback(e) ==
    /\ it # NULL /\ Entry(timers, it).due
    /\ CanHappen(e, it)
    /\ it' = NextOf(TimersAfter(e), it)
    /\ timers' = cras_tm_cancel_timer(TimersAfter(e), it)

FireTimer ==
    /\ pc = "timers"
    /\ \E e \in Effects :
        /\ call_timer_callback(e)
        /\ Handler(e)
    /\ UNCHANGED <<pc, clients, exported, running, ready, revents, pipe>>

SkipTimer ==
    /\ pc = "timers"
    /\ it # NULL /\ ~Entry(timers, it).due
    /\ it' = NextOf(timers, it)
    /\ UNCHANGED <<pc, lists, ready, revents, pipe>>

\* send_client_list_to_clients writes the ids of the first clients of the list, as
\* many as there is room for.
send_client_list_to_clients(list) ==
    [i \in 1..Min({Len(list), CRAS_MAX_ATTACHED_CLIENTS}) |-> list[i].id]

handle_new_connection_early ==
    IF CONN \in revents /\ Clients \ Ids(clients) # {}
    THEN LET id == CHOOSE c \in Clients \ Ids(clients) : TRUE
         IN  /\ clients' = Append(clients, [id |-> id, polled |-> FALSE])
             /\ exported' = send_client_list_to_clients(clients)
             /\ ready' = ready \ {CONN}
    ELSE UNCHANGED <<clients, exported, ready>>

\* handle_new_connection: the new client is not polled yet, and the exported
\* list of clients is written.
handle_new_connection ==
    IF CONN \in revents /\ Clients \ Ids(clients) # {}
    THEN LET id == CHOOSE c \in Clients \ Ids(clients) : TRUE
         IN  /\ clients' = Append(clients, [id |-> id, polled |-> FALSE])
             /\ exported' = send_client_list_to_clients(clients')
             /\ ready' = ready \ {CONN}
    ELSE UNCHANGED <<clients, exported, ready>>

Accept ==
    /\ pc = "timers" /\ it = NULL
    /\ handle_new_connection
    /\ pc' = "clients"
    /\ it' = First(clients')
    /\ UNCHANGED <<callbacks, timers, tasks, running, revents, pipe>>

\* remove_client frees the element the loop stands on; the loop saved `next`.
\* What the client had sent, and any later client of the id, is another socket.
remove_client ==
    /\ clients' = Without(clients, it)
    /\ ready' = ready \ {it}

\* handle_message_from_client: a message does something, or cannot be read.
handle_message_from_client ==
    \/ \E e \in Effects :
        /\ CanHappen(e, NULL)
        /\ timers' = TimersAfter(e)
        /\ Handler(e)
        /\ ready' = ready \ {it}
        /\ UNCHANGED clients
    \/ remove_client /\ UNCHANGED <<callbacks, timers, tasks>>

ServeClient ==
    /\ pc = "clients" /\ it # NULL
    /\ it' = NextOf(clients, it)
    /\ IF Entry(clients, it).polled /\ it \in revents
       THEN handle_message_from_client
       ELSE UNCHANGED <<callbacks, timers, clients, tasks, ready>>
    /\ UNCHANGED <<pc, exported, running, revents, pipe>>

ClientsServed ==
    /\ pc = "clients" /\ it = NULL
    /\ pc' = "callbacks"
    /\ it' = First(callbacks)
    /\ UNCHANGED <<lists, ready, revents, pipe>>

Callable_deleted(c) == c.polled /\ c.id \in revents

\* The condition under which the loop calls a registration's callback.
Callable(c) == ~c.deleted /\ c.polled /\ c.id \in revents

\* handle_main_messages reads one message and runs the handler of its type.
handle_main_messages ==
    /\ it = PIPE
    /\ pipe' = pipe - 1
    /\ ready' = IF pipe' = 0 THEN ready \ {PIPE} ELSE ready

\* Any other callback consumes its event and may change the lists.
call_callback ==
    /\ it # PIPE
    /\ ready' = ready \ {it}
    /\ UNCHANGED pipe

CallCallback ==
    /\ pc = "callbacks" /\ it # NULL
    /\ Callable(Entry(callbacks, it))
    /\ it' = NextOf(callbacks, it)
    /\ handle_main_messages \/ call_callback
    /\ \E e \in Effects :
        /\ CanHappen(e, NULL)
        /\ timers' = TimersAfter(e)
        /\ Handler(e)
    /\ UNCHANGED <<pc, clients, exported, running, revents>>

SkipCallback ==
    /\ pc = "callbacks" /\ it # NULL
    /\ ~Callable(Entry(callbacks, it))
    /\ it' = NextOf(callbacks, it)
    /\ UNCHANGED <<pc, lists, ready, revents, pipe>>

Cleanup ==
    /\ pc = "callbacks" /\ it = NULL
    /\ callbacks' = cleanup_select_fds(callbacks)
    /\ ready' = ready \ (Ids(callbacks) \ Ids(callbacks'))
    /\ pc' = "dbus"
    /\ UNCHANGED <<it, timers, clients, exported, tasks, running, revents, pipe>>

\* cras_dbus_dispatch runs the D-Bus handlers, which change the lists too; the
\* pending alerts that end the pass are Notifications.tla.
Dispatch ==
    /\ pc = "dbus"
    /\ \E e \in Effects :
        /\ CanHappen(e, NULL)
        /\ timers' = TimersAfter(e)
        /\ Handler(e)
    /\ pc' = "build"
    /\ UNCHANGED <<it, clients, exported, running, ready, revents, pipe>>

-----------------------------------------------------------------------------
(* Around the main thread: clients, devices, the audio thread and time.    *)

\* Only ppoll looks at what is readable, so it may as well become readable
\* just before.
BecomesReady ==
    /\ pc = "tasks"
    /\ \E x \in Ids(clients) \cup (Ids(callbacks) \ {PIPE}) \cup {CONN} :
        /\ x \notin ready
        /\ ready' = ready \cup {x}
    /\ UNCHANGED <<pc, it, lists, revents, pipe>>

TimerExpires ==
    /\ \E i \in 1..Len(timers) :
        /\ ~timers[i].due
        /\ timers' = [timers EXCEPT ![i].due = TRUE]
    /\ pc = "tasks"
    /\ UNCHANGED <<pc, it, callbacks, clients, exported, tasks, running, ready,
                   revents, pipe>>

\* cras_main_message_send from the audio thread: the pipe is non-blocking, and
\* the message is refused when it is full.
cras_main_message_send ==
    /\ pipe < PipeSize
    /\ pipe' = pipe + 1
    /\ ready' = ready \cup {PIPE}
    /\ UNCHANGED <<pc, it, lists, revents>>

\* The main thread.
Server ==
    \/ BuildPollfds \/ RunTask \/ Poll \/ FireTimer \/ SkipTimer \/ Accept
    \/ ServeClient \/ ClientsServed \/ CallCallback \/ SkipCallback \/ Cleanup
    \/ Dispatch

Next ==
    Server \/ PollInterrupted \/ BecomesReady \/ TimerExpires
    \/ cras_main_message_send

\* The main thread runs; a signal interrupts ppoll, but not for ever before it
\* can report anything.
Fairness == WF_vars(Server) /\ SF_vars(Poll)

Spec == Init /\ [][Next]_vars /\ Fairness

-----------------------------------------------------------------------------
\* The saved pointer of the loop never points to a block that was freed: what a
\* callback removes, cancels or closes is never the element visited next.
IteratorValid ==
    /\ pc = "timers" => it \in Ids(timers) \cup {NULL}
    /\ pc = "clients" => it \in Ids(clients) \cup {NULL}
    /\ pc = "callbacks" => it \in Ids(callbacks) \cup {NULL}

\* A registration that was removed is not called any more in the same pass, even
\* when ppoll had reported its descriptor before it was removed.
NoCallAfterRemoval ==
    [][\A b \in Blocks :
        pc = "callbacks" /\ it = b /\ it' # b /\ Entry(callbacks, b).deleted
            => UNCHANGED <<callbacks, timers, tasks, ready>>]_vars

\* An attached client is in the exported list of clients unless that was full when it
\* was written, which is when the last client connected: nobody is left out while
\* there is room.  A client that was left out stays so while others leave, until the
\* next one connects.
ClientsListed ==
    \/ Len(exported) = CRAS_MAX_ATTACHED_CLIENTS
    \/ Ids(clients) \subseteq Range(exported)

\* Every expired timer is fired or cancelled.
TimersFire ==
    \A b \in Blocks :
        (\E i \in 1..Len(timers) : timers[i].id = b /\ timers[i].due)
            ~> ~(\E i \in 1..Len(timers) : timers[i].id = b /\ timers[i].due)

\* The main message pipe is always drained again to less than full.
PipeDrained == (pipe = PipeSize) ~> (pipe < PipeSize)
=============================================================================
