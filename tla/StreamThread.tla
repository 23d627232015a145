---------------------------- MODULE StreamThread ----------------------------
(***************************************************************************)
(* The audio thread of one client stream (cras_client.c) and the client    *)
(* thread that starts it, tells it that the server has connected the       *)
(* stream, and stops and joins it before it frees the stream.  The two     *)
(* share thread.state without a lock; a byte in the wake pipe makes the    *)
(* audio thread look at it again.                                          *)
(***************************************************************************)
EXTENDS Naturals

CONSTANTS
    MaxAudioMessages    \* messages of the server in one behaviour (bound)

VARIABLES
    state,      \* stream->thread.state
    started,    \* how far start_aud_thread is: "no", "waiting", "done"
    control,    \* what the client thread does: "ready", "stopping" or "freed" to remove
                \* the stream, "failing" or "failed" when stream_connected failed
    wake,       \* bytes in the wake pipe
    aud,        \* messages waiting in aud_fd
    asked,      \* messages the server has sent so far
    peer,       \* the server still holds its end of aud_fd
    shm,        \* stream->shm is mapped
    at,         \* where the audio thread is
    polls,      \* the audio thread polls aud_fd, not only the wake pipe
    eof         \* CLIENT_STREAM_EOF is waiting for the client thread

stVars == <<state, started, control, wake, aud, asked, peer, shm, at, polls, eof>>

Init ==
    /\ state = "STOP"
    /\ started = "no"
    /\ control = "ready"
    /\ wake = 0
    /\ aud = 0
    /\ asked = 0
    /\ peer = TRUE
    /\ shm = FALSE
    /\ at = "none"
    /\ polls = FALSE
    /\ eof = FALSE

\* start_aud_thread holds stream_start_lock over pthread_create and the wait, so
\* the broadcast of the new thread cannot come before the wait.
start_aud_thread ==
    /\ started = "no"
    /\ state' = "WARMUP"
    /\ at' = "start"
    /\ started' = "waiting"
    /\ UNCHANGED <<control, wake, aud, asked, peer, shm, polls, eof>>

wake_aud_thread == wake' = wake + 1

stream_connected_unwoken ==
    /\ started = "done" /\ control = "ready" /\ state = "WARMUP"
    /\ shm' = TRUE
    /\ state' = "RUNNING"
    /\ UNCHANGED <<started, control, aud, asked, peer, at, polls, eof, wake>>

\* stream_connected: the shared memory is mapped first, then the state changes,
\* then the audio thread is woken.
stream_connected ==
    /\ started = "done" /\ control = "ready" /\ state = "WARMUP"
    /\ shm' = TRUE
    /\ state' = "RUNNING"
    /\ wake_aud_thread
    /\ UNCHANGED <<started, control, aud, asked, peer, at, polls, eof>>

\* A descriptor or the memory cannot be mapped: stop_aud_thread joins, the stream stays.
stream_connected_fails ==
    /\ started = "done" /\ control = "ready" /\ state = "WARMUP"
    /\ control' = "failing"
    /\ state' = "STOP"
    /\ wake_aud_thread
    /\ UNCHANGED <<started, aud, asked, peer, shm, at, polls, eof>>

stream_connected_joins ==
    /\ control = "failing" /\ at = "exit"
    /\ control' = "failed"
    /\ wake' = 0
    /\ UNCHANGED <<state, started, aud, asked, peer, shm, at, polls, eof>>

stop_aud_thread_unwoken ==
    /\ started = "done" /\ control = "ready"
    /\ control' = "stopping"
    /\ state' = "STOP"
    /\ UNCHANGED <<started, aud, asked, peer, shm, at, polls, eof, wake>>

\* stop_aud_thread, from client_thread_rm_stream, a failed connection or an end
\* of file of the stream: then the client thread joins.  After a failed
\* stream_connected there is nothing left to wake and join.
stop_aud_thread ==
    /\ started = "done" /\ control \in {"ready", "failed"}
    /\ control' = "stopping"
    /\ state' = "STOP"
    /\ IF control = "ready" THEN wake_aud_thread ELSE UNCHANGED wake
    /\ UNCHANGED <<started, aud, asked, peer, shm, at, polls, eof>>

client_thread_rm_stream_unjoined ==
    /\ control = "stopping"
    /\ control' = "freed"
    /\ shm' = FALSE
    /\ wake' = 0
    /\ UNCHANGED <<state, started, aud, asked, peer, at, polls, eof>>

\* The join returns; free_shm, the descriptors and the stream go.
client_thread_rm_stream ==
    /\ control = "stopping" /\ at = "exit"
    /\ control' = "freed"
    /\ shm' = FALSE
    /\ wake' = 0
    /\ UNCHANGED <<state, started, aud, asked, peer, at, polls, eof>>

-----------------------------------------------------------------------------
(* The audio thread.                                                       *)

Broadcast ==
    /\ at = "start" /\ started = "waiting"
    /\ at' = "loop"
    /\ started' = "done"
    /\ UNCHANGED <<state, control, wake, aud, asked, peer, shm, polls, eof>>

\* The condition of the while loop, and the choice of aud_fd: two reads of state.
CheckRunning ==
    /\ at = "loop"
    /\ at' = IF state = "STOP" THEN "exit" ELSE "choose"
    /\ UNCHANGED <<state, started, control, wake, aud, asked, peer, shm, polls, eof>>

ChooseFd ==
    /\ at = "choose"
    /\ polls' = (state # "WARMUP")
    /\ at' = "poll"
    /\ UNCHANGED <<state, started, control, wake, aud, asked, peer, shm, eof>>

\* read_with_wake_fd: a message and a wake byte may be there together; end of
\* file on aud_fd is an error that ends the thread.
read_with_wake_fd ==
    /\ at = "poll"
    /\ wake > 0 \/ (polls /\ (aud > 0 \/ ~peer))
    /\ IF polls /\ aud = 0 /\ ~peer
       THEN at' = "exit" /\ UNCHANGED <<wake, aud>>
       ELSE /\ wake' = IF wake > 0 THEN wake - 1 ELSE 0
            /\ IF polls /\ aud > 0 THEN aud' = aud - 1 /\ at' = "message"
               ELSE aud' = aud /\ at' = "loop"
    /\ UNCHANGED <<state, started, control, asked, peer, shm, polls, eof>>

\* handle_playback_request and handle_capture_data_ready use the shared memory
\* and call the user; a negative result tells the client thread to remove the
\* stream but does not end this thread, a reply that cannot be sent does.
handle_message ==
    /\ at = "message"
    /\ \E failed \in BOOLEAN : eof' = (eof \/ failed)
    /\ at' = IF peer THEN "loop" ELSE "exit"
    /\ UNCHANGED <<state, started, control, wake, aud, asked, peer, shm, polls>>

AudioThread ==
    Broadcast \/ CheckRunning \/ ChooseFd \/ read_with_wake_fd \/ handle_message

\* handle_stream_message: the client thread removes the stream at end of file.
handle_stream_message ==
    /\ eof /\ control # "failing"
    /\ eof' = FALSE
    /\ IF control \in {"ready", "failed"} THEN control' = "stopping" ELSE UNCHANGED control
    /\ IF control = "ready" THEN state' = "STOP" /\ wake_aud_thread
       ELSE UNCHANGED <<state, wake>>
    /\ UNCHANGED <<started, aud, asked, peer, shm, at, polls>>

\* The server asks for data, from the moment it has the stream.
ServerAsks ==
    /\ started = "done" /\ peer /\ asked < MaxAudioMessages
    /\ aud' = aud + 1
    /\ asked' = asked + 1
    /\ UNCHANGED <<state, started, control, wake, peer, shm, at, polls, eof>>

ServerCloses ==
    /\ started = "done" /\ peer
    /\ peer' = FALSE
    /\ UNCHANGED <<state, started, control, wake, aud, asked, shm, at, polls, eof>>

Next ==
    \/ start_aud_thread \/ stream_connected
    \/ stream_connected_fails \/ stream_connected_joins \/ stop_aud_thread
    \/ client_thread_rm_stream \/ handle_stream_message
    \/ AudioThread \/ ServerAsks \/ ServerCloses

\* Both threads are scheduled; the client thread finishes what it began.
Fairness ==
    /\ WF_stVars(AudioThread)
    /\ WF_stVars(client_thread_rm_stream)
    /\ WF_stVars(stream_connected_joins)
    /\ WF_stVars(handle_stream_message)

Spec == Init /\ [][Next]_stVars /\ Fairness

-----------------------------------------------------------------------------
\* The stream and its shared memory are not freed while the audio thread can
\* still use them.
FreedAfterExit == control \in {"failed", "freed"} => at = "exit"

\* The audio thread handles no message before the shared memory is mapped.
MessageNeedsShm == at = "message" => shm

\* Stopping a stream always ends: the audio thread sees STOP although it reads
\* the state without a lock and may be about to block.
StopReturns ==
    /\ (control = "stopping") ~> (control = "freed")
    /\ (control = "failing") ~> (control # "failing")

\* A connected stream whose server asks for data answers, unless it is removed:
\* the wake-up of stream_connected is not lost.
RequestsAnswered ==
    (state = "RUNNING" /\ aud > 0) ~> (aud = 0 \/ state = "STOP" \/ ~peer)
=============================================================================
