--------------------------- MODULE SharedPosition ---------------------------
(***************************************************************************)
(* What a buffer_share object promises to its callers.                     *)
(*                                                                         *)
(* Several users (streams mixing into one device buffer, or devices        *)
(* draining one stream buffer) each sit at an absolute frame position.     *)
(* The write point is an absolute frame position too: everything before it *)
(* has been handled by every user.  A user that joins starts at the write  *)
(* point; committing moves the write point up to the slowest user.         *)
(*                                                                         *)
(* BufferShare keeps only relative, wrapping, 32 bit offsets in a growing  *)
(* slot array; it is shown to implement this specification.                *)
(***************************************************************************)
EXTENDS Integers

CONSTANTS Ids,    \* identifiers of the possible users
          BufSz   \* frames in the shared buffer

VARIABLES point,  \* absolute position of the write point
          pos     \* absolute position of each attached user

posVars == <<point, pos>>

Attached == DOMAIN pos

Init == point = 0 /\ pos = [id \in {} |-> 0]

Join(id) ==
  /\ id \notin Attached
  /\ pos' = [u \in Attached \union {id} |-> IF u = id THEN point ELSE pos[u]]
  /\ UNCHANGED point

Leave(id) ==
  /\ id \in Attached
  /\ pos' = [u \in Attached \ {id} |-> pos[u]]
  /\ UNCHANGED point

(* A user never runs more than one buffer ahead of the write point. *)
Advance(id, n) ==
  /\ id \in Attached
  /\ pos[id] + n <= point + BufSz
  /\ pos' = [pos EXCEPT ![id] = @ + n]
  /\ UNCHANGED point

(* The write point moves to the slowest user, and nowhere else. *)
Commit ==
  /\ \E u \in Attached : point' = pos[u]
  /\ \A u \in Attached : point' <= pos[u]
  /\ UNCHANGED pos

Next ==
  \/ \E id \in Ids : Join(id) \/ Leave(id)
  \/ \E id \in Ids, n \in 0 .. BufSz : Advance(id, n)
  \/ Commit

Spec == Init /\ [][Next]_posVars
=============================================================================
