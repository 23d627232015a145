---------------------------- MODULE ServerStream ----------------------------
(***************************************************************************)
(* server_stream.c: the stream the server itself opens on the echo         *)
(* reference device of an output device, so that the processing module can *)
(* read what the speaker plays.  It is created and destroyed when the      *)
(* output device is opened and closed, but only through deferred tasks     *)
(* that the main loop runs at the start of its next pass (MainLoop.tla).   *)
(* Several devices are opened and closed in one pass: one message of each  *)
(* client, one callback of each descriptor.                                *)
(***************************************************************************)
EXTENDS Naturals, Sequences

CONSTANTS
    Outputs,    \* output devices, each with an echo reference device
    MaxQueue,   \* tasks queued in one pass (bound)
    NOBODY

VARIABLES
    opened,     \* the outputs that are open
    stream_config,  \* the output whose reference has the stream, or NOBODY
    listed,     \* the device the server stream in the stream list is pinned to
    queue,      \* system_tasks, oldest first
    taken       \* the tasks the current pass took over

ssVars == <<opened, stream_config, listed, queue, taken>>

Init ==
    /\ opened = {}
    /\ stream_config = NOBODY
    /\ listed = NOBODY
    /\ queue = <<>>
    /\ taken = <<>>

\* server_stream_create: one server stream at a time; the stream is added later.
server_stream_create(dev, cfg, q) ==
    IF cfg = NOBODY THEN [cfg |-> dev, q |-> Append(q, "add")]
    ELSE [cfg |-> cfg, q |-> q]

\* server_stream_destroy: only for the device that has it; it is removed later
\* and stream_config stays set until then.
server_stream_destroy(dev, cfg, q) ==
    IF cfg = dev THEN [cfg |-> cfg, q |-> Append(q, "rm")]
    ELSE [cfg |-> cfg, q |-> q]

\* init_device ends in possibly_enable_echo_reference.
init_device(dev) ==
    /\ dev \notin opened /\ Len(queue) < MaxQueue
    /\ opened' = opened \cup {dev}
    /\ LET r == server_stream_create(dev, stream_config, queue)
       IN  stream_config' = r.cfg /\ queue' = r.q
    /\ UNCHANGED <<listed, taken>>

\* close_dev ends in possibly_disable_echo_reference.
close_dev(dev) ==
    /\ dev \in opened /\ Len(queue) < MaxQueue
    /\ opened' = opened \ {dev}
    /\ LET r == server_stream_destroy(dev, stream_config, queue)
       IN  stream_config' = r.cfg /\ queue' = r.q
    /\ UNCHANGED <<listed, taken>>

\* handle_device_message for RESET_DEVICE: cras_iodev_list_suspend_dev closes the
\* device and cras_iodev_list_resume_dev opens it again, in one call.
reset_device(dev) ==
    /\ dev \in opened /\ Len(queue) < MaxQueue
    /\ LET d == server_stream_destroy(dev, stream_config, queue)
           r == server_stream_create(dev, d.cfg, d.q)
       IN  stream_config' = r.cfg /\ queue' = r.q
    /\ UNCHANGED <<opened, listed, taken>>

\* The main loop takes the queued tasks over at the start of a pass and runs
\* them before anything else.
take_tasks ==
    /\ taken = <<>> /\ queue # <<>>
    /\ taken' = queue
    /\ queue' = <<>>
    /\ UNCHANGED <<opened, stream_config, listed>>

\* stream_list_add may fail, which nobody looks at: stream_config stays set.
server_stream_add_cb ==
    /\ taken # <<>> /\ Head(taken) = "add"
    /\ taken' = Tail(taken)
    /\ listed' \in {listed, IF stream_config = NOBODY THEN listed ELSE stream_config}
    /\ UNCHANGED <<opened, stream_config, queue>>

server_stream_rm_cb_keep ==
    /\ taken # <<>> /\ Head(taken) = "rm"
    /\ taken' = Tail(taken)
    /\ listed' = IF stream_config = NOBODY THEN listed ELSE NOBODY
    /\ UNCHANGED <<opened, queue, stream_config>>

server_stream_rm_cb ==
    /\ taken # <<>> /\ Head(taken) = "rm"
    /\ taken' = Tail(taken)
    /\ listed' = IF stream_config = NOBODY THEN listed ELSE NOBODY
    /\ stream_config' = NOBODY
    /\ UNCHANGED <<opened, queue>>

Next ==
    \/ taken = <<>> /\ \E d \in Outputs :
            init_device(d) \/ close_dev(d) \/ reset_device(d)
    \/ take_tasks \/ server_stream_add_cb \/ server_stream_rm_cb

Spec == Init /\ [][Next]_ssVars

TasksDone == queue = <<>> /\ taken = <<>>

\* Once the tasks have run, a server stream is there only for an output device
\* that is open, and server_stream.c knows of it: no stream keeps an echo
\* reference device open after its output device was closed, and no device that was
\* closed keeps others from having the stream.  That an open device has it is not
\* said: the creation may fail, and server_stream.c takes it for done.
NoOrphanServerStream ==
    TasksDone => /\ listed \in {NOBODY, stream_config}
                 /\ stream_config # NOBODY => stream_config \in opened
=============================================================================
