------------------------------ MODULE FileWait ------------------------------
(***************************************************************************)
(* cras_file_wait.c: waits with inotify for a file to be created or        *)
(* deleted although some of the directories above it may not exist.  It    *)
(* watches the deepest directory that exists for the next component of the *)
(* path.  The file system changes between any two of its system calls.     *)
(*                                                                         *)
(* A path has Depth components below the root; component i exists when     *)
(* i <= exists.                                                            *)
(***************************************************************************)
EXTENDS Naturals, Sequences

CONSTANTS
    Depth,      \* components of the path, the file is the last
    MaxChanges  \* creations and deletions in one behaviour (bound)

VARIABLES
    exists,     \* components that exist
    changes,    \* changes of the file system so far
    watch,      \* level of the watched directory, or -1
    attached,   \* the kernel still has the watch on that directory
    events,     \* unread inotify events: [kind, current]
    buffer,     \* events read and not processed yet
    step,       \* where cras_file_wait_dispatch is
    target,     \* level of watch_path while it looks for a directory to watch
    told,       \* what the callback was told last: the file exists
    status      \* "new" until cras_file_wait_create returns, "failed" from an error of
                \* inotify_rm_watch until a directory is watched again, else "ok"

fwVars == <<exists, changes, watch, attached, events, buffer, step, target, told, status>>

None == Depth + 1       \* watch_id = -1

Init ==
    /\ exists \in 0..Depth
    /\ changes = 0
    /\ watch = None
    /\ attached = FALSE
    /\ events = <<>>
    /\ buffer = <<>>
    /\ step = "add"
    /\ target = Depth
    /\ told = FALSE
    /\ status = "new"

-----------------------------------------------------------------------------
(* The file system and inotify, external.                                  *)

Event(kind) == [kind |-> kind, current |-> TRUE]

Create ==
    /\ exists < Depth /\ changes < MaxChanges
    /\ exists' = exists + 1
    /\ changes' = changes + 1
    /\ events' = IF attached /\ watch = exists THEN Append(events, Event("create"))
                 ELSE events
    /\ UNCHANGED <<watch, attached, buffer, step, target, told, status>>

\* Deleting a watched directory removes the watch: IN_IGNORED.
Delete ==
    /\ exists > 0 /\ changes < MaxChanges
    /\ exists' = exists - 1
    /\ changes' = changes + 1
    /\ attached' = (attached /\ watch # exists)
    /\ events' = CASE attached /\ watch = exists - 1 ->
                        Append(events, Event("delete"))
                   [] attached /\ watch = exists ->
                        Append(events, Event("ignored"))
                   [] OTHER -> events
    /\ UNCHANGED <<watch, buffer, step, target, told, status>>

\* Events of a watch that was removed carry a watch descriptor nobody has.
Stale(seq) == [i \in 1..Len(seq) |-> [seq[i] EXCEPT !.current = FALSE]]

-----------------------------------------------------------------------------
\* cras_file_wait_rm_watch, with `rest` still to be processed.  inotify_rm_watch fails
\* when the kernel has dropped the watch: cras_file_wait_dispatch returns the error,
\* without the rest, which its caller only logs; cras_file_wait_create gives up.
cras_file_wait_rm_watch(rest, next) ==
    /\ watch' = None
    /\ attached' = FALSE
    /\ events' = Stale(events)
    /\ IF attached
       THEN buffer' = Stale(rest) /\ step' = next /\ UNCHANGED status
       ELSE /\ buffer' = <<>>
            /\ step' = IF status = "new" THEN "dead" ELSE "idle"
            /\ status' = "failed"

\* cras_file_wait_dispatch reads what there is, as much as fits its buffer.
ReadEvents ==
    /\ step = "idle" /\ events # <<>>
    /\ \E n \in 1..Len(events) :
        /\ buffer' = SubSeq(events, 1, n)
        /\ events' = SubSeq(events, n + 1, Len(events))
    /\ step' = "process"
    /\ UNCHANGED <<exists, changes, watch, attached, target, told, status>>

\* cras_file_wait_process_event
cras_file_wait_process_event ==
    /\ step = "process" /\ buffer # <<>>
    /\ LET e == Head(buffer)
           rest == Tail(buffer)
       IN  CASE ~e.current ->
                    /\ buffer' = rest
                    /\ UNCHANGED <<watch, attached, events, told, step, status>>
             [] e.current /\ e.kind = "ignored" ->
                    /\ watch' = None
                    /\ buffer' = Stale(rest)
                    /\ UNCHANGED <<attached, events, told, step, status>>
             [] e.current /\ e.kind # "ignored" /\ watch = Depth - 1 ->
                    /\ told' = (e.kind = "create")
                    /\ buffer' = rest
                    /\ UNCHANGED <<watch, attached, events, step, status>>
             [] OTHER ->
                    /\ cras_file_wait_rm_watch(rest, "process")
                    /\ UNCHANGED told
    /\ UNCHANGED <<exists, changes, target>>

\* A watch that is left is assumed to be the right one; otherwise look again.
Processed ==
    /\ step = "process" /\ buffer = <<>>
    /\ step' = IF watch = None THEN "add" ELSE "idle"
    /\ target' = Depth
    /\ UNCHANGED <<exists, changes, watch, attached, events, buffer, told, status>>

\* inotify_add_watch of the parent of watch_path; without it, one level up.
inotify_add_watch ==
    /\ step = "add"
    /\ IF target - 1 <= exists
       THEN /\ watch' = target - 1
            /\ attached' = TRUE
            /\ step' = "access"
            /\ status' = IF status = "new" THEN "new" ELSE "ok"
            /\ UNCHANGED target
       ELSE /\ target' = target - 1
            /\ UNCHANGED <<watch, attached, step, status>>
    /\ UNCHANGED <<exists, changes, events, buffer, told>>

access_skipped ==
    /\ step = "access"
    /\ step' = "idle" /\ status' = "ok"
    /\ UNCHANGED <<watch, attached, events, buffer, target, told>>

\* access(watch_path) closes the race between existence and the watch.
access ==
    /\ step = "access"
    /\ CASE target > exists ->
                /\ step' = "idle" /\ status' = "ok"
                /\ UNCHANGED <<watch, attached, events, buffer, target, told>>
         [] target <= exists /\ target = Depth ->
                /\ step' = "idle" /\ status' = "ok"
                /\ told' = TRUE
                /\ UNCHANGED <<watch, attached, events, buffer, target>>
         [] OTHER ->
                /\ cras_file_wait_rm_watch(buffer, "add")
                /\ target' = Depth
                /\ UNCHANGED told

CheckAccess == access /\ UNCHANGED <<exists, changes>>

Dispatch ==
    \/ ReadEvents \/ cras_file_wait_process_event \/ Processed
    \/ inotify_add_watch \/ CheckAccess

Next == Create \/ Delete \/ Dispatch

\* The client thread polls the inotify descriptor and dispatches it.
Fairness == WF_fwVars(Dispatch)

Spec == Init /\ [][Next]_fwVars /\ Fairness

\* When there is nothing left to read and the file exists, the user of the wait
\* was told so: no creation is missed, at whatever level of the path things were
\* created or removed while the watch was being moved.  (A deletion can be: when
\* the directory is replaced just before access() finds the file in it, the
\* lost watch is set again without a look at whether the file is still there.)
\* After an error of inotify_rm_watch nothing is watched.  The kernel's notice that
\* the watch is gone makes the wait look again, unless it was read together with
\* the event that led to the error and thrown away: then all is missed from there
\* on, and CreationTold makes no promise.
CreationTold ==
    step = "idle" /\ events = <<>> /\ exists = Depth /\ status # "failed" => told

\* The wait always settles again, so that the above is reached, or could not be
\* created.
Settles == []<>((step = "idle" /\ events = <<>>) \/ step = "dead")
=============================================================================
