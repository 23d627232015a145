--------------------------- MODULE ServerStateShm ---------------------------
(***************************************************************************)
(* The exported server state: a shared memory page that the threads of the *)
(* server write under update_lock between two increments of update_count,  *)
(* and that the threads of a client read without any lock of the server's. *)
(* In the client, server_state_rwlock keeps the page mapped while it is    *)
(* read: the client thread unmaps it when the connection goes away.        *)
(*                                                                         *)
(* The page holds two words that belong together, such as a number of      *)
(* nodes and the nodes.                                                    *)
(***************************************************************************)
EXTENDS Naturals

CONSTANTS
    Writers,    \* threads of the server
    Readers,    \* threads of the client
    Getters,    \* which getters the readers call, see below
    MaxUpdates  \* updates in one behaviour (bound)

VARIABLES
    update_lock,    \* the set of the writer holding it
    update_count,
    words,          \* the two words of the page
    wpc,            \* where each writer is
    page,           \* the client has the page mapped
    rwlock,         \* readers holding server_state_rwlock
    rpc, getter, version, copy,     \* each reader: place, call, count and copy
    result          \* what each reader's last call returned

shVars == <<update_lock, update_count, words, wpc, page, rwlock, rpc, getter,
            version, copy, result>>

Nothing == <<0, 0>>

Init ==
    /\ update_lock = {}
    /\ update_count = 0
    /\ words = Nothing
    /\ wpc = [w \in Writers |-> "idle"]
    /\ page = TRUE
    /\ rwlock = {}
    /\ rpc = [r \in Readers |-> "idle"]
    /\ getter \in [Readers -> Getters]
    /\ version = [r \in Readers |-> 0]
    /\ copy = [r \in Readers |-> Nothing]
    /\ result = [r \in Readers |-> Nothing]

client == <<page, rwlock, rpc, getter, version, copy, result>>

server == <<update_lock, update_count, words, wpc>>

-----------------------------------------------------------------------------
(* Server.                                                                 *)

cras_system_state_update_begin(w) ==
    /\ wpc[w] = "idle" /\ update_lock = {} /\ update_count < 2 * MaxUpdates
    /\ update_lock' = {w}
    /\ update_count' = update_count + 1
    /\ wpc' = [wpc EXCEPT ![w] = "first"]
    /\ UNCHANGED words

WriteFirst(w) ==
    /\ wpc[w] = "first"
    /\ words' = [words EXCEPT ![1] = @ + 1]
    /\ wpc' = [wpc EXCEPT ![w] = "second"]
    /\ UNCHANGED <<update_lock, update_count>>

WriteSecond(w) ==
    /\ wpc[w] = "second"
    /\ words' = [words EXCEPT ![2] = words[1]]
    /\ wpc' = [wpc EXCEPT ![w] = "complete"]
    /\ UNCHANGED <<update_lock, update_count>>

cras_system_state_update_complete(w) ==
    /\ wpc[w] = "complete"
    /\ update_count' = update_count + 1
    /\ update_lock' = {}
    /\ wpc' = [wpc EXCEPT ![w] = "idle"]
    /\ UNCHANGED words

Update ==
    /\ \E w \in Writers :
        \/ cras_system_state_update_begin(w)
        \/ WriteFirst(w)
        \/ WriteSecond(w)
        \/ cras_system_state_update_complete(w)
    /\ UNCHANGED client

-----------------------------------------------------------------------------
(* Client.  The getters: "snapshot" is cras_client_get_output_devices,     *)
(* cras_client_get_attached_clients and cras_client_get_num_active_streams;*)
(* "inputs" is cras_client_get_input_devices, which goes on without the    *)
(* lock; "first_node" is cras_client_get_first_node_type_idx when it finds *)
(* a node.                                                                 *)

\* server_state_rdlock fails when the page is not mapped.
server_state_rdlock(r) ==
    /\ rpc[r] = "idle"
    /\ IF page
       THEN /\ rwlock' = rwlock \cup {r}
            /\ rpc' = [rpc EXCEPT ![r] = "begin"]
       ELSE /\ rpc' = [rpc EXCEPT ![r] = IF getter[r] = "inputs" THEN "begin"
                                        ELSE "idle"]
            /\ UNCHANGED rwlock
    /\ UNCHANGED <<page, getter, version, copy, result>>

\* begin_server_state_read waits for an even count.
begin_server_state_read(r) ==
    /\ rpc[r] = "begin" /\ update_count % 2 = 0
    /\ version' = [version EXCEPT ![r] = update_count]
    /\ rpc' = [rpc EXCEPT ![r] = "first"]
    /\ UNCHANGED <<page, rwlock, getter, copy, result>>

CopyFirst(r) ==
    /\ rpc[r] = "first"
    /\ copy' = [copy EXCEPT ![r][1] = words[1]]
    /\ rpc' = [rpc EXCEPT ![r] = "second"]
    /\ UNCHANGED <<page, rwlock, getter, version, result>>

CopySecond(r) ==
    /\ rpc[r] = "second"
    /\ copy' = [copy EXCEPT ![r][2] = words[2]]
    /\ rpc' = [rpc EXCEPT ![r] = "end"]
    /\ UNCHANGED <<page, rwlock, getter, version, result>>

end_server_state_read_ignored(r) == TRUE

\* end_server_state_read: the count has not changed.
end_server_state_read(r) == version[r] = update_count

\* Return, or read again.
FinishRead(r) ==
    /\ rpc[r] = "end"
    /\ IF getter[r] = "first_node" \/ end_server_state_read(r)
       THEN /\ result' = [result EXCEPT ![r] = copy[r]]
            /\ rwlock' = rwlock \ {r}
            /\ rpc' = [rpc EXCEPT ![r] = "idle"]
       ELSE /\ rpc' = [rpc EXCEPT ![r] = "begin"]
            /\ UNCHANGED <<result, rwlock>>
    /\ UNCHANGED <<page, getter, version, copy>>

Read ==
    /\ \E r \in Readers :
        \/ server_state_rdlock(r)
        \/ begin_server_state_read(r)
        \/ CopyFirst(r)
        \/ CopySecond(r)
        \/ FinishRead(r)
    /\ UNCHANGED server

Unmap_unlocked ==
    /\ page
    /\ page' = FALSE
    /\ UNCHANGED rwlock

\* disconnect_transition_action unmaps the page under the write lock.
Unmap ==
    /\ page /\ rwlock = {}
    /\ page' = FALSE
    /\ UNCHANGED rwlock

\* client_attach_shm maps the page of the next connection.
client_attach_shm ==
    /\ ~page /\ rwlock = {}
    /\ page' = TRUE
    /\ UNCHANGED rwlock

Connection ==
    /\ Unmap \/ client_attach_shm
    /\ UNCHANGED <<server, rpc, getter, version, copy, result>>

Next == Update \/ Read \/ Connection

Spec == Init /\ [][Next]_shVars

-----------------------------------------------------------------------------
\* What a getter returns was the state of the server at one moment, although
\* writers run between the reader's loads.
NoTornResult == \A r \in Readers : result[r][1] = result[r][2]

\* No reader touches the page while it is not mapped.
PageMappedWhileRead ==
    \A r \in Readers : rpc[r] \in {"begin", "first", "second", "end"} => page
=============================================================================
