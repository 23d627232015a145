------------------------------ MODULE MCServer ------------------------------
(***************************************************************************)
(* The main thread of the server: its loop, the deferred tasks of the      *)
(* server stream, and the notifications its passes end with.  A behaviour  *)
(* exercises the one that `part` names; the others rest.                   *)
(***************************************************************************)
EXTENDS MainLoop

CONSTANTS Outputs, MaxQueue, NOBODY, Observers, MAX_VOLUME, SocketSize, MaxRequests

VARIABLES
    part,
    opened, stream_config, listed, queue, taken,
    exp_state, pending, data, registered, socket, seen, missed, requests

\* The name for no device is no device, and a socket and the exported list of clients
\* hold a number of messages and clients.
ASSUME ServerAssumption ==
    NOBODY \notin Outputs /\ SocketSize \in Nat /\ CRAS_MAX_ATTACHED_CLIENTS \in Nat

Echo == INSTANCE ServerStream

Notes == INSTANCE Notifications

echoVars == <<opened, stream_config, listed, queue, taken>>

noteVars == <<exp_state, pending, data, registered, socket, seen, missed,
              requests>>

mcVars == <<part, vars, echoVars, noteVars>>

MCInit ==
    /\ part \in {"loop", "echo", "notes"}
    /\ Init
    /\ Echo!Init
    /\ Notes!Init

MCNext ==
    \/ part = "loop" /\ Next /\ UNCHANGED <<part, echoVars, noteVars>>
    \/ part = "echo" /\ Echo!Next /\ UNCHANGED <<part, vars, noteVars>>
    \/ part = "notes" /\ Notes!Next /\ UNCHANGED <<part, vars, echoVars>>

\* The fairness of MainLoop, for the behaviours of the loop.
MCFairness ==
    /\ WF_vars(part = "loop" /\ Server)
    /\ SF_vars(part = "loop" /\ Poll)

MCSpec == MCInit /\ [][MCNext]_mcVars /\ MCFairness

\* The loop never follows a freed block (cras_server_run, cras_tm_call_callbacks), and
\* an attached client is in the exported list unless that was full when it was written
\* (send_client_list_to_clients).
ListsSound == IteratorValid /\ ClientsListed

\* Once the deferred tasks have run, neither a server stream nor the claim to have one
\* is left for an output device that was closed, also when the creation had failed.
NoOrphanServerStream == Echo!NoOrphanServerStream

\* A client that registered believes what the server's state is, once alerts and
\* messages are through and unless it lost one; of mute only whether the output is
\* muted, as user_mute and mute_locked change without an alert.
ObserversUpToDate == Notes!ObserversUpToDate

\* The loop gets to everything: timers that expired fire, and the pipe through which
\* the audio thread sends messages is drained.
Progress == TimersFire /\ PipeDrained
=============================================================================
