---------------------------- MODULE BufferShare -----------------------------
(***************************************************************************)
(* server/buffer_share.c: the offsets of several users of one buffer.      *)
(*                                                                         *)
(* wr_idx is a C array of slots {used, id, offset} that doubles when it is *)
(* full; here it is one function per field.  A removed user leaves its id  *)
(* and its offset behind in an unused slot, and the slots of a grown array *)
(* hold whatever realloc returned; the update function nevertheless        *)
(* searches by id alone.  Offsets are unsigned and wrap at Word; the       *)
(* commit subtracts from unused slots too.                                 *)
(*                                                                         *)
(* written is a history variable: the sum of the frames                    *)
(* buffer_share_get_new_write_point returned, that is, how far the callers *)
(* moved the device or stream buffer.                                      *)
(***************************************************************************)
EXTENDS Integers, TLAPS

CONSTANTS Ids,             \* ids callers use (stream ids, device indexes)
          BufSz,           \* frames in the shared buffer (buf_sz)
          INITIAL_ID_SIZE, \* slots allocated by buffer_share_create
          Word,            \* 2^32: unsigned arithmetic wraps here
          MaxSlots,        \* bound: the array is not grown past this
          MaxWritten       \* bound: frames committed over the whole run

ASSUME BufferShareAssumption ==
  /\ Ids \subseteq Nat
  /\ BufSz \in Nat
  /\ INITIAL_ID_SIZE \in Nat \ {0}
  /\ Word \in Nat /\ Word > BufSz + 1
  /\ MaxSlots \in Nat
  /\ MaxWritten \in Nat

VARIABLES id_sz,    \* number of slots in wr_idx
          used,     \* the slots i with wr_idx[i].used
          id_at,    \* wr_idx[i].id
          offset,   \* wr_idx[i].offset
          written   \* history: frames committed so far

vars == <<id_sz, used, id_at, offset, written>>

Slots == 0 .. id_sz - 1

(* Mutant: arithmetic that does not wrap. *)
Wrap_signed(x) == x

Wrap(x) == x % Word

(* An id field holds a user's id, or the 0 calloc left there. *)
IdField == Ids \union {0}

(* The used slots that hold the id; find_id and get_id_offset return one.  *)
find_id(id) == {i \in used : id_at[i] = id}

Users == {id_at[i] : i \in used}

(* 0 for an id that is not there. *)
buffer_share_id_offset(id) ==
  IF find_id(id) = {} THEN 0 ELSE offset[CHOOSE i \in find_id(id) : TRUE]

Init ==
  /\ id_sz = INITIAL_ID_SIZE
  /\ used = {}
  /\ id_at = [i \in Slots |-> 0]
  /\ offset = [i \in Slots |-> 0]
  /\ written = 0
-----------------------------------------------------------------------------
(* Mutant: find_unused returns any unused slot. *)
FirstUnused_any(i) == i \notin used

(* find_unused: the lowest unused slot. *)
FirstUnused(i) == i \notin used /\ \A j \in 0 .. i - 1 : j \in used

(* Mutant: the offset of the slot's former user is kept. *)
buffer_share_add_id_stale(id) ==
  /\ find_id(id) = {}
  /\ \E i \in Slots :
       /\ FirstUnused(i)
       /\ used' = used \union {i}
       /\ id_at' = [id_at EXCEPT ![i] = id]
  /\ UNCHANGED <<id_sz, offset, written>>

buffer_share_add_id(id) ==
  /\ find_id(id) = {}
  /\ \E i \in Slots :
       /\ FirstUnused(i)
       /\ used' = used \union {i}
       /\ id_at' = [id_at EXCEPT ![i] = id]
       /\ offset' = [offset EXCEPT ![i] = 0]
  /\ UNCHANGED <<id_sz, written>>

(* find_unused fails: alloc_more_ids doubles the array and the first new   *)
(* slot is taken.  The other new slots are unused and hold garbage.        *)
buffer_share_add_id_grow(id) ==
  LET New == id_sz .. 2 * id_sz - 1 IN
  /\ find_id(id) = {}
  /\ used = Slots
  /\ 2 * id_sz <= MaxSlots
  /\ id_sz' = 2 * id_sz
  /\ used' = used \union {id_sz}
  /\ \E garbage \in [New -> IdField] :
       id_at' = [i \in Slots \union New |->
                   IF i \in Slots THEN id_at[i] ELSE IF i = id_sz THEN id ELSE garbage[i]]
  /\ offset' = [i \in Slots \union New |-> IF i \in Slots THEN offset[i] ELSE 0]
  /\ UNCHANGED written

buffer_share_rm_id(id) ==
  /\ \E i \in find_id(id) : used' = used \ {i}
  /\ UNCHANGED <<id_sz, id_at, offset, written>>

(* The slot buffer_share_offset_update picks: the first one with that id,  *)
(* used or not.                                                            *)
FirstWithId(i, id) == id_at[i] = id /\ \A j \in 0 .. i - 1 : id_at[j] # id

(* Callers mix or copy at most up to the end of the buffer, so a user is   *)
(* never advanced past BufSz (cras_iodev_stream_written, input_data_put,   *)
(* cras_rstream_dev_offset_update).  The update of a removed user's id     *)
(* changes the slot that user left behind.                                 *)
buffer_share_offset_update(id, delta) ==
  /\ buffer_share_id_offset(id) + delta <= BufSz
  /\ \E i \in Slots :
       /\ FirstWithId(i, id)
       /\ offset' = [offset EXCEPT ![i] = Wrap(@ + delta)]
  /\ UNCHANGED <<id_sz, used, id_at, written>>

(* Mutant: the minimum is taken over unused slots too. *)
IsMinWritten_all(m) ==
  /\ m <= BufSz + 1
  /\ \A i \in Slots : m <= offset[i]
  /\ m = BufSz + 1 \/ \E i \in Slots : m = offset[i]

(* min_written: the least offset of a used slot, capped at buf_sz + 1. *)
IsMinWritten(m) ==
  /\ m <= BufSz + 1
  /\ \A i \in used : m <= offset[i]
  /\ m = BufSz + 1 \/ \E i \in used : m = offset[i]

buffer_share_get_new_write_point ==
  \E m \in 0 .. BufSz + 1 :
    /\ IsMinWritten(m)
    /\ offset' = [i \in Slots |-> Wrap(offset[i] - m)]
    /\ written' = written + (IF m > BufSz THEN 0 ELSE m)
    /\ written' <= MaxWritten
    /\ UNCHANGED <<id_sz, used, id_at>>

Next ==
  \/ \E id \in Ids :
       \/ buffer_share_add_id(id)
       \/ buffer_share_add_id_grow(id)
       \/ buffer_share_rm_id(id)
       \/ \E delta \in 0 .. BufSz : buffer_share_offset_update(id, delta)
  \/ buffer_share_get_new_write_point

Spec == Init /\ [][Next]_vars
-----------------------------------------------------------------------------
TypeOK ==
  /\ id_sz \in Nat \ {0}
  /\ used \in SUBSET Slots
  /\ id_at \in [Slots -> IdField]
  /\ offset \in [Slots -> 0 .. Word - 1]
  /\ written \in Nat

(* No id is held by two used slots, and no slot before a used one carries  *)
(* the same id: the id left behind by a removed user, or the garbage of a  *)
(* grown array, never shadows a live user from buffer_share_offset_update. *)
NoShadowedUser ==
  \A j \in used : \A i \in Slots : i < j => id_at[i] # id_at[j]

(* No used offset is beyond the buffer, whatever the unused ones wrapped   *)
(* to: the cap of min_written is never what a commit subtracts from a user.*)
OffsetsInBuffer == \A i \in used : offset[i] <= BufSz

(* The relative offsets, read against the committed frames, are the        *)
(* absolute positions of the abstract specification.                       *)
Abstract == INSTANCE SharedPosition
              WITH point <- written,
                   pos   <- [id \in Users |-> written + buffer_share_id_offset(id)]

(* buffer_share implements SharedPosition: a user that joins starts at the *)
(* write point, an update moves that user alone and by exactly delta, and  *)
(* a commit moves the write point to the slowest user and nobody else.     *)
ImplementsSharedPosition == Abstract!Spec
-----------------------------------------------------------------------------
(* Proofs, for every set of ids, buffer size and word size: the slot array *)
(* never shadows a live user, live offsets stay inside the buffer, and the *)
(* whole implements SharedPosition.                                        *)

(* A value that fits in a word is not changed by unsigned arithmetic. *)
LEMMA WrapFits == \A x \in 0 .. Word - 1 : Wrap(x) = x
  BY BufferShareAssumption DEF Wrap

(* Unsigned arithmetic stays in the word. *)
LEMMA WrapRange == \A x \in Int : Wrap(x) \in 0 .. Word - 1
  BY BufferShareAssumption DEF Wrap

IndInv == TypeOK /\ NoShadowedUser /\ OffsetsInBuffer

(* What the invariant says of a lookup: the one slot of a live id. *)
LEMMA LiveSlotUnique ==
  ASSUME IndInv, NEW i \in used
  PROVE  /\ find_id(id_at[i]) = {i}
         /\ buffer_share_id_offset(id_at[i]) = offset[i]
<1>1. \A j \in used : id_at[j] = id_at[i] => j = i
  <2> SUFFICES ASSUME NEW j \in used, id_at[j] = id_at[i], j # i PROVE FALSE
    OBVIOUS
  <2>1. i \in Int /\ j \in Int /\ i \in Slots /\ j \in Slots
    BY DEF IndInv, TypeOK, Slots
  <2>2. i < j \/ j < i
    BY <2>1
  <2> QED BY <2>1, <2>2 DEF IndInv, NoShadowedUser
<1>2. find_id(id_at[i]) = {i}
  BY <1>1 DEF find_id
<1> QED BY <1>2 DEF buffer_share_id_offset

LEMMA InitIndInv == Init => IndInv
  BY BufferShareAssumption
  DEF Init, IndInv, TypeOK, NoShadowedUser, OffsetsInBuffer, Slots, IdField

LEMMA NextIndInv == IndInv /\ [Next]_vars => IndInv'
<1> SUFFICES ASSUME IndInv, [Next]_vars PROVE IndInv'
  OBVIOUS
<1> USE BufferShareAssumption DEF IndInv, TypeOK, NoShadowedUser, OffsetsInBuffer, Slots
<1>1. ASSUME NEW id \in Ids, buffer_share_add_id(id) PROVE IndInv'
  <2>1. PICK i \in Slots :
          /\ FirstUnused(i)
          /\ used' = used \union {i}
          /\ id_at' = [id_at EXCEPT ![i] = id]
          /\ offset' = [offset EXCEPT ![i] = 0]
    BY <1>1 DEF buffer_share_add_id
  <2>2. UNCHANGED <<id_sz, written>> /\ \A j \in used : id_at[j] # id
    BY <1>1 DEF buffer_share_add_id, find_id
  <2>3. TypeOK'
    BY <2>1, <2>2 DEF IdField
  <2>4. NoShadowedUser'
    BY <2>1, <2>2 DEF FirstUnused
  <2>5. OffsetsInBuffer'
    BY <2>1, <2>2
  <2> QED BY <2>3, <2>4, <2>5
<1>2. ASSUME NEW id \in Ids, buffer_share_add_id_grow(id) PROVE IndInv'
  <2> DEFINE New == id_sz .. 2 * id_sz - 1
  <2>1. PICK garbage \in [New -> IdField] :
          id_at' = [i \in Slots \union New |->
                      IF i \in Slots THEN id_at[i] ELSE IF i = id_sz THEN id ELSE garbage[i]]
    BY <1>2 DEF buffer_share_add_id_grow
  <2>2. /\ id_sz' = 2 * id_sz /\ UNCHANGED written
        /\ used = Slots /\ used' = used \union {id_sz}
        /\ offset' = [i \in Slots \union New |-> IF i \in Slots THEN offset[i] ELSE 0]
        /\ \A j \in used : id_at[j] # id
    BY <1>2 DEF buffer_share_add_id_grow, find_id
  <2>3. Slots' = Slots \union New
    BY <2>2
  <2>4. TypeOK'
    <3>1. id_at' \in [Slots' -> IdField]
      BY <2>1, <2>3 DEF IdField
    <3>2. offset' \in [Slots' -> 0 .. Word - 1]
      BY <2>2, <2>3
    <3> QED BY <2>2, <3>1, <3>2
  <2>5. NoShadowedUser'
    BY <2>1, <2>2, <2>3
  <2>6. OffsetsInBuffer'
    BY <2>2
  <2> QED BY <2>4, <2>5, <2>6
<1>3. ASSUME NEW id \in Ids, buffer_share_rm_id(id) PROVE IndInv'
  BY <1>3 DEF buffer_share_rm_id, find_id
<1>4. ASSUME NEW id \in Ids, NEW delta \in 0 .. BufSz, buffer_share_offset_update(id, delta)
      PROVE IndInv'
  <2>1. PICK i \in Slots :
          FirstWithId(i, id) /\ offset' = [offset EXCEPT ![i] = Wrap(@ + delta)]
    BY <1>4 DEF buffer_share_offset_update
  <2>2. UNCHANGED <<id_sz, used, id_at, written>> /\ buffer_share_id_offset(id) + delta <= BufSz
    BY <1>4 DEF buffer_share_offset_update
  <2>3. Wrap(offset[i] + delta) \in 0 .. Word - 1
    <3>1. offset[i] + delta \in Int
      OBVIOUS
    <3> QED BY <3>1, WrapRange
  <2>4. ASSUME i \in used PROVE Wrap(offset[i] + delta) <= BufSz
    <3>1. offset[i] + delta <= BufSz
      BY <2>1, <2>2, <2>4, LiveSlotUnique DEF FirstWithId
    <3>2. offset[i] + delta \in 0 .. Word - 1
      BY <3>1
    <3> QED BY <3>1, <3>2, WrapFits
  <2> QED BY <2>1, <2>2, <2>3, <2>4
<1>5. ASSUME buffer_share_get_new_write_point PROVE IndInv'
  <2>1. PICK m \in 0 .. BufSz + 1 :
          /\ IsMinWritten(m)
          /\ offset' = [i \in Slots |-> Wrap(offset[i] - m)]
          /\ written' = written + (IF m > BufSz THEN 0 ELSE m)
          /\ UNCHANGED <<id_sz, used, id_at>>
    BY <1>5 DEF buffer_share_get_new_write_point
  <2>2. \A i \in Slots : Wrap(offset[i] - m) \in 0 .. Word - 1
    <3>1. \A i \in Slots : offset[i] - m \in Int
      OBVIOUS
    <3> QED BY <3>1, WrapRange
  <2>3. \A i \in used : Wrap(offset[i] - m) <= BufSz
    <3> SUFFICES ASSUME NEW i \in used PROVE Wrap(offset[i] - m) <= BufSz
      OBVIOUS
    <3>1. offset[i] \in Nat /\ offset[i] <= BufSz /\ m \in Nat /\ m <= offset[i]
      BY <2>1 DEF IsMinWritten
    <3>2. offset[i] - m \in 0 .. Word - 1 /\ offset[i] - m <= BufSz
      BY <3>1
    <3> QED BY <3>2, WrapFits
  <2> QED BY <2>1, <2>2, <2>3
<1>6. CASE UNCHANGED vars
  BY <1>6 DEF vars
<1> QED BY <1>1, <1>2, <1>3, <1>4, <1>5, <1>6 DEF Next

(* The slot array of buffer_share.c is well formed in every reachable      *)
(* state: field types, no shadowed user, no live offset past the buffer.   *)
THEOREM SlotsSafe == Spec => [](TypeOK /\ NoShadowedUser /\ OffsetsInBuffer)
<1>1. Spec => []IndInv
  BY InitIndInv, NextIndInv, PTL DEF Spec
<1> QED BY <1>1, PTL DEF IndInv
-----------------------------------------------------------------------------
(* The abstract positions, named for the refinement proof. *)
Pos == [id \in Users |-> written + buffer_share_id_offset(id)]

(* The positions read slot by slot. *)
PosOfSlots ==
  /\ Pos = [id \in Users |-> Pos[id]]
  /\ \A id : id \in Users <=> \E i \in used : id_at[i] = id
  /\ \A i \in used : Pos[id_at[i]] = written + offset[i]

LEMMA PosBySlot == IndInv => PosOfSlots
<1> SUFFICES ASSUME IndInv PROVE PosOfSlots
  OBVIOUS
<1>1. \A id : id \in Users <=> \E i \in used : id_at[i] = id
  BY DEF Users
<1>2. \A i \in used : Pos[id_at[i]] = written + offset[i]
  BY <1>1, LiveSlotUnique DEF Pos
<1> QED BY <1>1, <1>2 DEF PosOfSlots, Pos

LEMMA PosBySlotNext == IndInv' => PosOfSlots'
  BY PosBySlot, PTL

(* Every step of the slot array is a step of SharedPosition or leaves the  *)
(* positions alone.                                                        *)
LEMMA StepRefines ==
  IndInv /\ IndInv' /\ [Next]_vars => [Abstract!Next]_(Abstract!posVars)
<1> SUFFICES ASSUME IndInv, IndInv', [Next]_vars
             PROVE  Abstract!Next \/ (written' = written /\ Pos' = Pos)
  BY DEF Abstract!posVars, Pos
<1> USE BufferShareAssumption DEF Slots
<1>p. PosOfSlots /\ PosOfSlots'
  BY PosBySlot, PosBySlotNext
<1>t. TypeOK /\ TypeOK'
  BY DEF IndInv
<1>i. written \in Nat /\ \A i \in used : i \in Slots /\ offset[i] \in Nat
  BY <1>t DEF TypeOK
<1>e. ASSUME Users' = Users, \A id \in Users : Pos'[id] = Pos[id]
      PROVE  Pos' = Pos
  BY <1>e, <1>p DEF PosOfSlots
<1>j. ASSUME NEW id \in Ids, id \notin Users, Users' = Users \union {id},
             Pos'[id] = written, \A u \in Users : Pos'[u] = Pos[u],
             written' = written
      PROVE  Abstract!Next
  <2>1. Pos' = [u \in Users \union {id} |-> IF u = id THEN written ELSE Pos[u]]
    BY <1>j, <1>p DEF PosOfSlots
  <2> QED BY <1>j, <2>1 DEF Abstract!Next, Abstract!Join, Abstract!Attached, Pos
<1>1. ASSUME NEW id \in Ids, buffer_share_add_id(id) PROVE Abstract!Next
  <2>1. PICK i \in Slots :
          /\ i \notin used
          /\ used' = used \union {i}
          /\ id_at' = [id_at EXCEPT ![i] = id]
          /\ offset' = [offset EXCEPT ![i] = 0]
    BY <1>1 DEF buffer_share_add_id, FirstUnused
  <2>2. written' = written /\ id \notin Users
    BY <1>1, <1>p DEF buffer_share_add_id, find_id, PosOfSlots
  <2>3. /\ \A j \in used : j \in used' /\ id_at'[j] = id_at[j] /\ offset'[j] = offset[j]
        /\ i \in used' /\ id_at'[i] = id /\ offset'[i] = 0
    BY <2>1, <1>t DEF TypeOK
  <2>4. Users' = Users \union {id}
    BY <2>1, <2>3, <1>p DEF PosOfSlots
  <2>5. Pos'[id] = written
    <3>1. written \in Nat /\ Pos'[id_at'[i]] = written' + offset'[i]
      BY <2>3, <1>p, <1>t DEF PosOfSlots, TypeOK
    <3> QED BY <2>2, <2>3, <3>1
  <2>6. \A u \in Users : Pos'[u] = Pos[u]
    BY <2>2, <2>3, <1>p DEF PosOfSlots
  <2> QED BY <1>j, <2>2, <2>4, <2>5, <2>6
<1>2. ASSUME NEW id \in Ids, buffer_share_add_id_grow(id) PROVE Abstract!Next
  <2>1. /\ used = Slots /\ used' = used \union {id_sz}
        /\ id_at'[id_sz] = id /\ offset'[id_sz] = 0
        /\ \A j \in used : id_at'[j] = id_at[j] /\ offset'[j] = offset[j]
    BY <1>2, <1>t DEF buffer_share_add_id_grow, TypeOK
  <2>2. written' = written /\ id \notin Users
    BY <1>2, <1>p DEF buffer_share_add_id_grow, find_id, PosOfSlots
  <2>3. Users' = Users \union {id}
    BY <2>1, <1>p DEF PosOfSlots
  <2>4. Pos'[id] = written
    BY <2>1, <2>2, <1>p, <1>t DEF PosOfSlots, TypeOK
  <2>5. \A u \in Users : Pos'[u] = Pos[u]
    BY <2>1, <2>2, <1>p DEF PosOfSlots
  <2> QED BY <1>j, <2>2, <2>3, <2>4, <2>5
<1>3. ASSUME NEW id \in Ids, buffer_share_rm_id(id) PROVE Abstract!Next
  <2>1. PICK i \in used : id_at[i] = id /\ used' = used \ {i}
    BY <1>3 DEF buffer_share_rm_id, find_id
  <2>2. UNCHANGED <<id_at, offset, written>>
    BY <1>3 DEF buffer_share_rm_id
  <2>3. id \in Users /\ \A j \in used : id_at[j] = id => j = i
    BY <2>1, <1>p, LiveSlotUnique DEF PosOfSlots, find_id
  <2>4. Users' = Users \ {id}
    BY <2>1, <2>2, <2>3, <1>p DEF PosOfSlots
  <2>5. \A u \in Users' : Pos'[u] = Pos[u]
    BY <2>1, <2>2, <2>3, <1>p DEF PosOfSlots
  <2>6. Pos' = [u \in Users \ {id} |-> Pos[u]]
    BY <2>4, <2>5, <1>p DEF PosOfSlots
  <2> QED BY <2>2, <2>3, <2>6 DEF Abstract!Next, Abstract!Leave, Abstract!Attached, Pos
<1>4. ASSUME NEW id \in Ids, NEW delta \in 0 .. BufSz, buffer_share_offset_update(id, delta)
      PROVE  Abstract!Next \/ (written' = written /\ Pos' = Pos)
  <2>1. PICK i \in Slots :
          FirstWithId(i, id) /\ offset' = [offset EXCEPT ![i] = Wrap(@ + delta)]
    BY <1>4 DEF buffer_share_offset_update
  <2>2. UNCHANGED <<id_sz, used, id_at, written>> /\ buffer_share_id_offset(id) + delta <= BufSz
    BY <1>4 DEF buffer_share_offset_update
  <2>3. Users' = Users
    BY <2>2 DEF Users
  <2>4. CASE i \notin used
    <3>1. \A j \in used : offset'[j] = offset[j] /\ id_at'[j] = id_at[j]
      BY <2>1, <2>2, <2>4, <1>t DEF TypeOK
    <3>2. \A u \in Users : Pos'[u] = Pos[u]
      BY <3>1, <2>2, <1>p DEF PosOfSlots
    <3> QED BY <3>2, <2>2, <2>3, <1>e
  <2>5. CASE i \in used
    <3>1. id \in Users /\ id_at[i] = id /\ \A j \in used : id_at[j] = id => j = i
      BY <2>1, <2>5, <1>p, LiveSlotUnique DEF FirstWithId, PosOfSlots, find_id
    <3>2. offset[i] + delta <= BufSz /\ offset[i] + delta \in 0 .. Word - 1
      BY <2>2, <2>5, <3>1, <1>t, LiveSlotUnique DEF TypeOK
    <3>3. offset'[i] = offset[i] + delta /\ \A j \in used : j # i => offset'[j] = offset[j]
      BY <2>1, <3>2, <1>t, WrapFits DEF TypeOK
    <3>4. Pos[id] = written + offset[i] /\ Pos'[id] = written + (offset[i] + delta)
      BY <2>2, <2>5, <3>1, <3>3, <1>p DEF PosOfSlots
    <3>5. Pos'[id] = Pos[id] + delta /\ Pos[id] + delta <= written + BufSz
      <4>1. offset[i] \in Nat
        BY <1>i, <2>5
      <4> QED BY <3>2, <3>4, <4>1, <1>i
    <3>6. \A u \in Users : u # id => Pos'[u] = Pos[u]
      <4> SUFFICES ASSUME NEW u \in Users, u # id PROVE Pos'[u] = Pos[u]
        OBVIOUS
      <4>1. PICK j \in used : id_at[j] = u
        BY <1>p DEF PosOfSlots
      <4>2. j # i /\ offset'[j] = offset[j]
        BY <4>1, <3>1, <3>3
      <4>3. Pos[u] = written + offset[j] /\ Pos'[u] = written + offset[j]
        BY <2>2, <4>1, <4>2, <1>p DEF PosOfSlots
      <4> QED BY <4>3
    <3>7. Pos' = [Pos EXCEPT ![id] = @ + delta]
      <4>1. Pos' = [u \in Users |-> IF u = id THEN Pos[u] + delta ELSE Pos[u]]
        BY <2>3, <3>5, <3>6, <1>p DEF PosOfSlots
      <4> QED BY <4>1, <1>p DEF PosOfSlots
    <3> QED BY <2>2, <3>1, <3>5, <3>7 DEF Abstract!Next, Abstract!Advance, Abstract!Attached, Pos
  <2> QED BY <2>4, <2>5
<1>5. ASSUME buffer_share_get_new_write_point
      PROVE  Abstract!Next \/ (written' = written /\ Pos' = Pos)
  <2>1. PICK m \in 0 .. BufSz + 1 :
          /\ IsMinWritten(m)
          /\ offset' = [i \in Slots |-> Wrap(offset[i] - m)]
          /\ written' = written + (IF m > BufSz THEN 0 ELSE m)
          /\ UNCHANGED <<id_sz, used, id_at>>
    BY <1>5 DEF buffer_share_get_new_write_point
  <2>2. Users' = Users
    BY <2>1 DEF Users
  <2>3. CASE used = {}
    <3>1. Users = {} /\ m = BufSz + 1
      BY <2>1, <2>3 DEF Users, IsMinWritten
    <3> QED BY <2>1, <2>2, <3>1, <1>e, <1>t DEF TypeOK
  <2>4. CASE used # {}
    <3>1. m <= BufSz
      <4>1. PICK i \in used : TRUE
        BY <2>4
      <4>2. m <= offset[i] /\ offset[i] <= BufSz /\ offset[i] \in Nat
        BY <2>1, <4>1, <1>i DEF IsMinWritten, IndInv, OffsetsInBuffer
      <4> QED BY <4>2
    <3>2. written' = written + m
      BY <2>1, <3>1
    <3>3. \A i \in used : offset'[i] = offset[i] - m
      <4> SUFFICES ASSUME NEW i \in used PROVE offset'[i] = offset[i] - m
        OBVIOUS
      <4>1. offset[i] - m \in 0 .. Word - 1
        BY <2>1, <1>t DEF IsMinWritten, TypeOK
      <4> QED BY <2>1, <4>1, <1>t, WrapFits DEF TypeOK
    <3>4. \A i \in used : written' + offset'[i] = written + offset[i]
      BY <3>2, <3>3, <1>i
    <3>5. \A u \in Users : Pos'[u] = Pos[u]
      <4> SUFFICES ASSUME NEW u \in Users PROVE Pos'[u] = Pos[u]
        OBVIOUS
      <4>1. PICK j \in used : id_at[j] = u
        BY <1>p DEF PosOfSlots
      <4>2. Pos[u] = written + offset[j] /\ Pos'[u] = written' + offset'[j]
        BY <2>1, <4>1, <1>p DEF PosOfSlots
      <4> QED BY <4>1, <4>2, <3>4
    <3>6. Pos' = Pos
      BY <2>2, <3>5, <1>e
    <3>7. PICK i \in used : m = offset[i]
      BY <2>1, <3>1 DEF IsMinWritten
    <3>8. id_at[i] \in Users /\ written' = Pos[id_at[i]]
      BY <3>2, <3>7, <1>p DEF PosOfSlots
    <3>9. \A j \in used : written' <= Pos[id_at[j]]
      <4> SUFFICES ASSUME NEW j \in used PROVE written' <= Pos[id_at[j]]
        OBVIOUS
      <4>1. m <= offset[j] /\ Pos[id_at[j]] = written + offset[j]
        BY <2>1, <1>p DEF IsMinWritten, PosOfSlots
      <4> QED BY <3>2, <4>1, <1>i
    <3>10. \A u \in Users : written' <= Pos[u]
      BY <3>9, <1>p DEF PosOfSlots
    <3> QED BY <3>6, <3>8, <3>10 DEF Abstract!Next, Abstract!Commit, Abstract!Attached, Pos
  <2> QED BY <2>3, <2>4
<1>6. CASE UNCHANGED vars
  BY <1>6 DEF vars, Pos, Users, buffer_share_id_offset, find_id
<1> QED BY <1>1, <1>2, <1>3, <1>4, <1>5, <1>6 DEF Next

LEMMA InitRefines == Init => Abstract!Init
  BY DEF Init, Abstract!Init, Users

(* buffer_share.c implements SharedPosition for every number of users,     *)
(* buffer size and word size: absolute positions move only as callers ask. *)
THEOREM Refinement == Spec => ImplementsSharedPosition
<1>1. Spec => []IndInv
  BY InitIndInv, NextIndInv, PTL DEF Spec
<1> QED BY <1>1, InitRefines, StepRefines, PTL
        DEF Spec, ImplementsSharedPosition, Abstract!Spec
=============================================================================
