------------------------------ MODULE MCClient ------------------------------
(***************************************************************************)
(* The client library.  Its four concurrent mechanisms share no state in   *)
(* the models, so a behaviour exercises one of them: `part` says which,    *)
(* and the variables of the others keep their initial values.              *)
(***************************************************************************)
EXTENDS ClientConnection

CONSTANTS MaxAudioMessages, Depth, MaxChanges, Writers, Readers, Getters, MaxUpdates

\* The awaited path has at least the file itself.
ASSUME ClientAssumption == Depth \in Nat \ {0}

VARIABLES
    part,
    state, started, control, wake, aud, asked, audPeer, shm, at, polls, audEof,
    exists, changes, watch, attached, notices, buffer, step, target, told, status,
    update_lock, update_count, words, wpc, page, rwlock, rpc, getter, version,
    copy, result

Thread == INSTANCE StreamThread WITH peer <- audPeer, eof <- audEof

Wait == INSTANCE FileWait WITH events <- notices

Shm == INSTANCE ServerStateShm

threadVars == <<state, started, control, wake, aud, asked, audPeer, shm, at, polls,
                audEof>>

waitVars == <<exists, changes, watch, attached, notices, buffer, step, target, told, status>>

shmVars == <<update_lock, update_count, words, wpc, page, rwlock, rpc, getter,
             version, copy, result>>

mcVars == <<part, vars, threadVars, waitVars, shmVars>>

MCInit ==
    /\ part \in {"connection", "thread", "wait", "shm"}
    /\ Init
    /\ Thread!Init
    /\ Wait!Init /\ (part # "wait" => exists = 0)
    /\ Shm!Init

MCNext ==
    \/ part = "connection" /\ Next
         /\ UNCHANGED <<part, threadVars, waitVars, shmVars>>
    \/ part = "thread" /\ Thread!Next
         /\ UNCHANGED <<part, vars, waitVars, shmVars>>
    \/ part = "wait" /\ Wait!Next
         /\ UNCHANGED <<part, vars, threadVars, shmVars>>
    \/ part = "shm" /\ Shm!Next
         /\ UNCHANGED <<part, vars, threadVars, waitVars>>

\* The fairness of each part, for the behaviours of that part.
MCFairness ==
    /\ WF_vars(part = "connection" /\ \E ok \in BOOLEAN : sock_file_wait_dispatch(ok))
    /\ WF_vars(part = "connection" /\ ServerFdReady)
    /\ WF_vars(part = "connection" /\ (ServerUnlink \/ ServerBind \/ ServerListen))
    /\ \A x \in Slots : WF_vars(part = "connection" /\ ClientFdReady(x))
    /\ WF_threadVars(part = "thread" /\ Thread!AudioThread)
    /\ WF_threadVars(part = "thread" /\ Thread!client_thread_rm_stream)
    /\ WF_threadVars(part = "thread" /\ Thread!stream_connected_joins)
    /\ WF_threadVars(part = "thread" /\ Thread!handle_stream_message)
    /\ WF_waitVars(part = "wait" /\ Wait!Dispatch)

MCSpec == MCInit /\ [][MCNext]_mcVars /\ MCFairness

\* Client and server agree once the connection is quiet, on streams, of which the server
\* keeps one more while a stream_connected has failed, and on registrations, unless one
\* was made while the library was registering again; the state region is free when the
\* next CONNECTED message comes, and an application whose library has given up was told
\* (cras_client.c).
ConnectionAgrees == StreamsAgree /\ RegistrationKept /\ AttachNeverBusy /\ GivenUpIsTold

\* No creation of the socket file is missed by cras_file_wait, as long as
\* inotify_rm_watch has not failed and left it without a watch.
CreationTold == part = "wait" => Wait!CreationTold

\* Shared memory is used whole and in time: a stream is freed after its audio thread
\* has ended, a getter reads the server state only while it is mapped, and returns it
\* as it was at one moment (end_server_state_read).
MemorySafe == Thread!FreedAfterExit /\ Shm!PageMappedWhileRead /\ Shm!NoTornResult

\* What the library waits for happens: it reconnects to a server that stays up, no
\* stream warms up for ever, stopping a stream returns, requests of the server are
\* answered, and cras_file_wait settles on a directory to watch.
Progress ==
    /\ Reconnects
    /\ WarmupEnds
    /\ part = "thread" => Thread!StopReturns /\ Thread!RequestsAnswered
    /\ part = "wait" => Wait!Settles
=============================================================================
