---------------------------- MODULE ServerProofs ----------------------------
(***************************************************************************)
(* Proofs about the main thread of the server, for any numbers of devices, *)
(* clients, registrations, timers and observers and any number of tasks    *)
(* and requests: no server stream outlives the output device it was opened *)
(* for, the loop never follows a freed list element nor calls a removed    *)
(* registration, and an observer that keeps up knows what it follows.      *)
(***************************************************************************)
EXTENDS MCServer, SequenceTheorems, FiniteSetTheorems, WellFoundedInduction,
        TLAPS

-----------------------------------------------------------------------------
(* The deferred tasks of the server stream (ServerStream.tla).             *)

\* The tasks that are still to run: while a pass runs its tasks none is queued.
ToRun == IF taken # <<>> THEN taken ELSE queue

\* A removal is to run.
Removing == \E i \in 1..Len(ToRun) : ToRun[i] = "rm"

\* The creation comes before all removals, and is still to run only when there is a
\* stream_config to create the stream of.
TasksInOrder ==
    /\ queue \in Seq({"add", "rm"}) /\ taken \in Seq({"add", "rm"})
    /\ taken # <<>> => queue = <<>>
    /\ \A i \in 1..Len(ToRun) : ToRun[i] = "add" => i = 1 /\ stream_config # NOBODY

\* There is no stream but that of stream_config, and without one no task but removals
\* that a pass is running.  With one, a removal is to run, or the device is open.
StreamTracked ==
    /\ listed \in {NOBODY, stream_config}
    /\ stream_config = NOBODY => queue = <<>>
    /\ stream_config # NOBODY => Removing \/ stream_config \in opened

EchoInv == TasksInOrder /\ StreamTracked /\ opened \subseteq Outputs

\* Nothing is open and nothing queued at the start.
LEMMA EchoStart == Echo!Init => EchoInv
BY DEF Echo!Init, EchoInv, TasksInOrder, StreamTracked, ToRun, Removing

\* A device that is opened gets the stream only when no other has it.
LEMMA EchoOpen ==
    ASSUME EchoInv, taken = <<>>, NEW dev \in Outputs, Echo!init_device(dev)
    PROVE  EchoInv'
<1> USE ServerAssumption
<1>1. CASE stream_config = NOBODY
  <2>1. queue = <<>> /\ stream_config' = dev /\ queue' = <<"add">> /\ taken' = <<>>
    BY <1>1 DEF EchoInv, StreamTracked, Echo!init_device, Echo!server_stream_create
  <2>2. dev \in opened' /\ opened' \subseteq Outputs /\ dev # NOBODY
    BY DEF EchoInv, Echo!init_device
  <2>3. listed' = NOBODY
    BY <1>1 DEF EchoInv, StreamTracked, Echo!init_device
  <2> QED BY <2>1, <2>2, <2>3 DEF EchoInv, TasksInOrder, StreamTracked, ToRun, Removing
<1>2. CASE stream_config # NOBODY
  <2>1. /\ UNCHANGED <<stream_config, queue, taken, listed>>
        /\ opened' = opened \cup {dev}
    BY <1>2 DEF Echo!init_device, Echo!server_stream_create
  <2> QED BY <2>1, <1>2 DEF EchoInv, TasksInOrder, StreamTracked, ToRun, Removing
<1> QED BY <1>1, <1>2

\* The removal of the stream is queued behind everything that is to run.
LEMMA EchoRemoveQueued ==
    ASSUME EchoInv, taken = <<>>, stream_config # NOBODY,
           taken' = taken, stream_config' = stream_config, listed' = listed,
           queue' = Append(queue, "rm")
    PROVE  TasksInOrder' /\ StreamTracked'
<1>1. queue \in Seq({"add", "rm"}) /\ ToRun = queue
  BY DEF EchoInv, TasksInOrder, ToRun
<1>2. /\ queue' \in Seq({"add", "rm"}) /\ ToRun' = queue'
      /\ Len(queue') = Len(queue) + 1 /\ queue'[Len(queue) + 1] = "rm"
      /\ Len(queue) \in Nat
      /\ \A i \in 1..Len(queue) : queue'[i] = queue[i]
  BY <1>1 DEF ToRun
<1>3. Len(queue) + 1 \in 1..Len(ToRun')
  BY <1>2
<1>4. Removing'
  BY <1>2, <1>3 DEF Removing
<1>5. \A i \in 1..Len(ToRun') : ToRun'[i] = "add" => i = 1
  BY <1>1, <1>2 DEF EchoInv, TasksInOrder
<1> QED BY <1>1, <1>2, <1>4, <1>5 DEF EchoInv, TasksInOrder, StreamTracked

\* A device that is closed has its stream removed, if it is the one that has it.
LEMMA EchoClose ==
    ASSUME EchoInv, taken = <<>>, NEW dev \in Outputs, Echo!close_dev(dev)
    PROVE  EchoInv'
<1> USE ServerAssumption
<1>0. opened' = opened \ {dev} /\ UNCHANGED <<stream_config, listed, taken>>
  BY DEF Echo!close_dev, Echo!server_stream_destroy
<1>1. CASE stream_config = dev
  <2>1. queue' = Append(queue, "rm")
    BY <1>1 DEF Echo!close_dev, Echo!server_stream_destroy
  <2> QED BY <2>1, <1>0, <1>1, EchoRemoveQueued DEF EchoInv
<1>2. CASE stream_config # dev
  <2>1. UNCHANGED queue
    BY <1>2 DEF Echo!close_dev, Echo!server_stream_destroy
  <2> QED BY <2>1, <1>0, <1>2 DEF EchoInv, TasksInOrder, StreamTracked, ToRun, Removing
<1> QED BY <1>1, <1>2

\* A device that is reset loses the stream it has, or gets one that nobody has.
LEMMA EchoReset ==
    ASSUME EchoInv, taken = <<>>, NEW dev \in Outputs, Echo!reset_device(dev)
    PROVE  EchoInv'
<1> USE ServerAssumption
<1>0. UNCHANGED <<opened, listed, taken>> /\ dev \in opened
  BY DEF Echo!reset_device
<1>1. CASE stream_config = dev
  <2>1. queue' = Append(queue, "rm") /\ stream_config' = stream_config
    BY <1>1 DEF Echo!reset_device, Echo!server_stream_destroy, Echo!server_stream_create
  <2> QED BY <2>1, <1>0, <1>1, EchoRemoveQueued DEF EchoInv
<1>2. CASE stream_config = NOBODY
  <2>0. queue = <<>> /\ dev # NOBODY
    BY <1>2 DEF EchoInv, StreamTracked
  <2>1. stream_config' = dev /\ queue' = <<"add">> /\ taken' = <<>>
    <3>1. Echo!server_stream_destroy(dev, stream_config, queue)
            = [cfg |-> stream_config, q |-> queue]
      BY <1>2, <2>0 DEF Echo!server_stream_destroy
    <3>2. Echo!server_stream_create(dev, stream_config, queue)
            = [cfg |-> dev, q |-> Append(queue, "add")]
      BY <1>2 DEF Echo!server_stream_create
    <3>3. stream_config' = dev /\ queue' = Append(queue, "add") /\ taken' = taken
      BY <3>1, <3>2 DEF Echo!reset_device
    <3> QED BY <3>3, <2>0
  <2>2. opened' \subseteq Outputs /\ dev \in opened'
    BY <1>0 DEF EchoInv
  <2>3. listed' = NOBODY
    BY <1>0, <1>2 DEF EchoInv, StreamTracked
  <2> QED BY <2>0, <2>1, <2>2, <2>3 DEF EchoInv, TasksInOrder, StreamTracked, ToRun, Removing
<1>3. CASE stream_config # dev /\ stream_config # NOBODY
  <2>1. UNCHANGED <<queue, stream_config>>
    BY <1>3 DEF Echo!reset_device, Echo!server_stream_destroy, Echo!server_stream_create
  <2> QED BY <2>1, <1>0 DEF EchoInv, TasksInOrder, StreamTracked, ToRun, Removing
<1> QED BY <1>1, <1>2, <1>3

\* The pass takes all queued tasks over: what is to run stays the same.
LEMMA EchoTake == EchoInv /\ Echo!take_tasks => EchoInv'
<1> SUFFICES ASSUME EchoInv, Echo!take_tasks PROVE EchoInv'
  OBVIOUS
<1>1. /\ taken = <<>> /\ queue # <<>> /\ taken' = queue /\ queue' = <<>>
      /\ UNCHANGED <<opened, stream_config, listed>>
  BY DEF Echo!take_tasks
<1>2. ToRun' = ToRun
  BY <1>1 DEF ToRun
<1> QED BY <1>1, <1>2 DEF EchoInv, TasksInOrder, StreamTracked, Removing

\* What is left to run after the first task.
LEMMA EchoTail ==
    ASSUME EchoInv, taken # <<>>, taken' = Tail(taken), queue' = queue
    PROVE  /\ queue = <<>> /\ queue' \in Seq({"add", "rm"}) /\ taken' \in Seq({"add", "rm"})
           /\ ToRun = taken /\ ToRun' = taken' /\ Len(taken) \in Nat /\ Len(taken) >= 1
           /\ Len(taken') = Len(taken) - 1
           /\ \A i \in 1..Len(taken') : taken'[i] = taken[i + 1] /\ taken'[i] = "rm"
<1>1. /\ taken \in Seq({"add", "rm"}) /\ queue = <<>> /\ ToRun = taken
      /\ \A i \in 1..Len(taken) : taken[i] = "add" => i = 1
  BY DEF EchoInv, TasksInOrder, ToRun
<1>2. /\ taken' \in Seq({"add", "rm"}) /\ Len(taken) \in Nat /\ Len(taken) >= 1
      /\ Len(taken') = Len(taken) - 1
      /\ \A i \in 1..Len(taken') : taken'[i] = taken[i + 1]
  BY <1>1
<1>3. \A i \in 1..Len(taken') : taken'[i] = "rm"
  <2> TAKE i \in 1..Len(taken')
  <2>1. i + 1 \in 1..Len(taken) /\ i + 1 # 1 /\ taken[i + 1] \in {"add", "rm"}
    BY <1>1, <1>2
  <2> QED BY <1>1, <1>2, <2>1
<1> QED BY <1>1, <1>2, <1>3 DEF ToRun

\* The creation: the stream is there, for the device that stream_config names, or
\* could not be created.
LEMMA EchoAdd == EchoInv /\ Echo!server_stream_add_cb => EchoInv'
<1> SUFFICES ASSUME EchoInv, Echo!server_stream_add_cb PROVE EchoInv'
  OBVIOUS
<1>1. /\ taken # <<>> /\ Head(taken) = "add" /\ taken' = Tail(taken)
      /\ listed' \in {listed, IF stream_config = NOBODY THEN listed ELSE stream_config}
      /\ UNCHANGED <<opened, stream_config, queue>>
  BY DEF Echo!server_stream_add_cb
<1>2. /\ queue = <<>> /\ queue' \in Seq({"add", "rm"}) /\ taken' \in Seq({"add", "rm"})
      /\ ToRun = taken /\ ToRun' = taken' /\ Len(taken) \in Nat /\ Len(taken) >= 1
      /\ Len(taken') = Len(taken) - 1
      /\ \A i \in 1..Len(taken') : taken'[i] = taken[i + 1] /\ taken'[i] = "rm"
  BY <1>1, EchoTail
<1>3. taken[1] = "add" /\ 1 \in 1..Len(taken)
  BY <1>1, <1>2
<1>4. stream_config # NOBODY
  BY <1>2, <1>3 DEF EchoInv, TasksInOrder
<1>5. Removing => Removing'
  <2> SUFFICES ASSUME Removing PROVE Removing'
    OBVIOUS
  <2>1. PICK i \in 1..Len(taken) : taken[i] = "rm"
    BY <1>2 DEF Removing
  <2>2. i # 1 /\ i \in Nat
    BY <1>3, <2>1
  <2>3. i - 1 \in 1..Len(taken')
    BY <2>2, <1>2
  <2> QED BY <2>3, <1>2 DEF Removing
<1> QED BY <1>1, <1>2, <1>4, <1>5 DEF EchoInv, TasksInOrder, StreamTracked

\* The removal: neither the stream nor its stream_config is left.
LEMMA EchoRemove == EchoInv /\ Echo!server_stream_rm_cb => EchoInv'
<1> SUFFICES ASSUME EchoInv, Echo!server_stream_rm_cb PROVE EchoInv'
  OBVIOUS
<1>1. /\ taken # <<>> /\ taken' = Tail(taken) /\ stream_config' = NOBODY
      /\ listed' = (IF stream_config = NOBODY THEN listed ELSE NOBODY)
      /\ UNCHANGED <<opened, queue>>
  BY DEF Echo!server_stream_rm_cb
<1>2. /\ queue = <<>> /\ queue' \in Seq({"add", "rm"}) /\ taken' \in Seq({"add", "rm"})
      /\ ToRun' = taken'
      /\ \A i \in 1..Len(taken') : taken'[i] = "rm"
  BY <1>1, EchoTail
<1>3. listed' = NOBODY
  BY <1>1 DEF EchoInv, StreamTracked
<1>4. \A i \in 1..Len(ToRun') : ToRun'[i] # "add"
  BY <1>2
<1> QED BY <1>1, <1>2, <1>3, <1>4 DEF EchoInv, TasksInOrder, StreamTracked

\* Every step keeps the invariant.
LEMMA EchoStep == EchoInv /\ Echo!Next => EchoInv'
BY EchoOpen, EchoClose, EchoReset, EchoTake, EchoAdd, EchoRemove DEF Echo!Next

LEMMA EchoStutter == EchoInv /\ UNCHANGED echoVars => EchoInv'
BY DEF EchoInv, TasksInOrder, StreamTracked, ToRun, Removing, echoVars

\* With nothing left to run the stream is the one of stream_config.
LEMMA EchoSafe == EchoInv => NoOrphanServerStream
BY DEF EchoInv, TasksInOrder, StreamTracked, ToRun, Removing, NoOrphanServerStream,
    Echo!NoOrphanServerStream, Echo!TasksDone

\* Once the deferred tasks have run, a server stream is there only for an output device
\* that is open, and server_stream.c knows of it and of no closed one, however often and
\* in whatever order devices were opened, closed and reset in between and creations failed.
THEOREM NoStreamOrphaned == MCSpec => []NoOrphanServerStream
<1>1. MCInit => EchoInv
  BY EchoStart DEF MCInit
<1>2. EchoInv /\ [MCNext]_mcVars => EchoInv'
  BY EchoStep, EchoStutter DEF MCNext, mcVars, echoVars
<1> QED BY <1>1, <1>2, EchoSafe, PTL DEF MCSpec

-----------------------------------------------------------------------------
(* The lists the main loop walks (MainLoop.tla).                           *)

\* A list: its elements are numbered from 1.
IsList(l) == l \in Seq({l[i] : i \in DOMAIN l})

LEMMA ListLength ==
    ASSUME NEW l, IsList(l)
    PROVE  Len(l) \in Nat /\ DOMAIN l = 1..Len(l)
BY DEF IsList

LEMMA ListOfSeq ==
    ASSUME NEW S, NEW l \in Seq(S)
    PROVE  IsList(l)
<1>1. Len(l) \in Nat /\ DOMAIN l = 1..Len(l) /\ l \in [1..Len(l) -> S]
  OBVIOUS
<1> DEFINE R == {l[i] : i \in DOMAIN l}
<1>2. l \in [1..Len(l) -> R]
  BY <1>1
<1>3. l \in Seq(R)
  BY <1>1, <1>2, SeqDef
<1> QED BY <1>3 DEF IsList

LEMMA ListOfFunction ==
    ASSUME NEW n \in Nat, NEW l, l = [i \in 1..n |-> l[i]]
    PROVE  IsList(l) /\ Len(l) = n
<1> DEFINE R == {l[i] : i \in DOMAIN l}
<1>1. DOMAIN l = 1..n /\ l \in [1..n -> R]
  OBVIOUS
<1>2. l \in Seq(R)
  BY <1>1, SeqDef
<1>3. Len(l) = n
  BY <1>1, <1>2
<1> QED BY <1>2, <1>3 DEF IsList

\* The head of a list is in it.
LEMMA FirstListed ==
    ASSUME NEW l, IsList(l)
    PROVE  First(l) \in Ids(l) \cup {NULL}
<1>1. CASE l = <<>>
  BY <1>1 DEF First
<1>2. CASE l # <<>>
  <2>1. 1 \in 1..Len(l)
    BY <1>2, ListLength DEF IsList
  <2> QED BY <2>1, <1>2 DEF First, Ids
<1> QED BY <1>1, <1>2

\* A block that is linked has a place in the list.
LEMMA IndexListed ==
    ASSUME NEW l, NEW id \in Ids(l)
    PROVE  IndexOf(l, id) \in 1..Len(l) /\ l[IndexOf(l, id)].id = id
<1>1. \E j \in 1..Len(l) : l[j].id = id
  BY DEF Ids
<1> QED BY <1>1 DEF IndexOf

LEMMA NextListed ==
    ASSUME NEW l, IsList(l), NEW id \in Ids(l)
    PROVE  NextOf(l, id) \in Ids(l) \cup {NULL}
<1> DEFINE i == IndexOf(l, id)
<1>1. i \in 1..Len(l) /\ Len(l) \in Nat
  BY IndexListed, ListLength
<1>2. CASE i = Len(l)
  BY <1>2 DEF NextOf
<1>3. CASE i # Len(l)
  <2>1. i + 1 \in 1..Len(l)
    BY <1>1, <1>3
  <2> QED BY <2>1, <1>3 DEF NextOf, Ids
<1> QED BY <1>2, <1>3

LEMMA AppendListed ==
    ASSUME NEW l, IsList(l), NEW e
    PROVE  IsList(Append(l, e)) /\ Ids(Append(l, e)) = Ids(l) \cup {e.id}
<1> DEFINE R == {l[i] : i \in DOMAIN l} \cup {e}
<1>1. l \in Seq(R) /\ Len(l) \in Nat
  BY SeqDef, ListLength DEF IsList
<1> DEFINE a == Append(l, e)
<1>2. /\ a \in Seq(R) /\ Len(a) = Len(l) + 1 /\ a[Len(l) + 1] = e
      /\ \A i \in 1..Len(l) : a[i] = l[i]
  BY <1>1
<1>3. IsList(a)
  BY <1>2, ListOfSeq
<1> HIDE DEF a, R
<1>4. Ids(a) \subseteq Ids(l) \cup {e.id}
  BY <1>1, <1>2 DEF Ids
<1>5. Ids(l) \subseteq Ids(a)
  BY <1>1, <1>2 DEF Ids
<1>6. e.id \in Ids(a)
  BY <1>1, <1>2 DEF Ids
<1> QED BY <1>3, <1>4, <1>5, <1>6 DEF a

\* DL_DELETE: what is behind the block moves up, and nothing else is lost.
LEMMA WithoutListed ==
    ASSUME NEW l, IsList(l), NEW id \in Ids(l)
    PROVE  /\ IsList(Without(l, id))
           /\ Ids(Without(l, id)) \subseteq Ids(l)
           /\ NextOf(l, id) \in Ids(Without(l, id)) \cup {NULL}
           /\ \A b \in Ids(l) : b # id => b \in Ids(Without(l, id))
           /\ \A j \in 1..Len(Without(l, id)) :
                \E k \in 1..Len(l) : Without(l, id)[j] = l[k]
<1> DEFINE R == {l[j] : j \in DOMAIN l}
           i == IndexOf(l, id)
           w == Without(l, id)
<1>1. l \in Seq(R) /\ Len(l) \in Nat /\ i \in 1..Len(l) /\ l[i].id = id
  BY IndexListed, ListLength DEF IsList
<1>2. w = SubSeq(l, 1, i - 1) \o SubSeq(l, i + 1, Len(l))
  BY DEF Without, RemoveAt
<1> HIDE DEF R, i, w
<1>3. /\ SubSeq(l, 1, i - 1) \in Seq(R) /\ Len(SubSeq(l, 1, i - 1)) = i - 1
      /\ \A j \in 1..i - 1 : SubSeq(l, 1, i - 1)[j] = l[j]
  BY <1>1
<1>4. /\ SubSeq(l, i + 1, Len(l)) \in Seq(R) /\ Len(SubSeq(l, i + 1, Len(l))) = Len(l) - i
      /\ \A j \in 1..Len(l) - i : SubSeq(l, i + 1, Len(l))[j] = l[i + j]
  BY <1>1
<1>5. /\ w \in Seq(R) /\ Len(w) = Len(l) - 1
      /\ \A j \in 1..Len(w) : w[j] = IF j < i THEN l[j] ELSE l[j + 1]
  <2> DEFINE p == SubSeq(l, 1, i - 1)
             q == SubSeq(l, i + 1, Len(l))
  <2> HIDE DEF p, q
  <2>1. /\ p \in Seq(R) /\ q \in Seq(R) /\ Len(p) = i - 1 /\ Len(q) = Len(l) - i /\ w = p \o q
        /\ \A j \in 1..i - 1 : p[j] = l[j]
        /\ \A j \in 1..Len(l) - i : q[j] = l[i + j]
    BY <1>2, <1>3, <1>4 DEF p, q
  <2>2. w \in Seq(R) /\ Len(w) = Len(l) - 1
    BY <2>1, <1>1
  <2>3. ASSUME NEW j \in 1..Len(w) PROVE w[j] = IF j < i THEN l[j] ELSE l[j + 1]
    <3>1. CASE j < i
      BY <3>1, <2>1, <2>2, <1>1
    <3>2. CASE ~(j < i)
      <4>0. j - (i - 1) \in 1..Len(l) - i
        BY <3>2, <2>2, <1>1
      <4>1. w[j] = q[j - (i - 1)]
        <5>1. j \in 1..Len(p) + Len(q) /\ ~(j <= Len(p))
          BY <3>2, <2>1, <2>2, <1>1
        <5>2. (p \o q)[j] = q[j - Len(p)]
          BY <5>1, <2>1, ConcatProperties
        <5> QED BY <5>2, <2>1
      <4> QED BY <4>0, <4>1, <3>2, <2>1, <2>2, <1>1
    <3> QED BY <3>1, <3>2
  <2> QED BY <2>2, <2>3
<1>6. IsList(w)
  BY <1>5, ListOfSeq
<1>7. Ids(w) \subseteq Ids(l)
  <2> SUFFICES ASSUME NEW j \in 1..Len(w) PROVE w[j].id \in Ids(l)
    BY DEF Ids
  <2> QED BY <1>1, <1>5 DEF Ids
<1>8. ASSUME NEW k \in 1..Len(l), k # i PROVE l[k].id \in Ids(w)
  <2>1. CASE k < i
    <3>1. k \in 1..Len(w) /\ w[k] = l[k]
      BY <1>1, <1>5, <2>1
    <3> QED BY <3>1 DEF Ids
  <2>2. CASE ~(k < i)
    <3>1. k - 1 \in 1..Len(w) /\ w[k - 1] = l[k]
      BY <1>1, <1>5, <2>2, <1>8
    <3> QED BY <3>1 DEF Ids
  <2> QED BY <2>1, <2>2
<1>9. NextOf(l, id) \in Ids(w) \cup {NULL}
  <2>1. CASE i = Len(l)
    BY <2>1 DEF NextOf, i
  <2>2. CASE i # Len(l)
    <3>1. NextOf(l, id) = l[i + 1].id
      BY <2>2 DEF NextOf, i
    <3>2. i + 1 \in 1..Len(l) /\ i + 1 # i
      BY <1>1, <2>2
    <3> QED BY <3>1, <3>2, <1>8
  <2> QED BY <2>1, <2>2
<1>10. ASSUME NEW b \in Ids(l), b # id PROVE b \in Ids(w)
  <2>1. PICK k \in 1..Len(l) : l[k].id = b
    BY DEF Ids
  <2> QED BY <2>1, <1>1, <1>8, <1>10
<1>11. ASSUME NEW j \in 1..Len(w) PROVE \E k \in 1..Len(l) : w[j] = l[k]
  <2>1. j \in 1..Len(l) /\ j + 1 \in 1..Len(l) /\ (w[j] = l[j] \/ w[j] = l[j + 1])
    BY <1>1, <1>5
  <2> QED BY <2>1
<1> QED BY <1>6, <1>7, <1>9, <1>10, <1>11 DEF w

LEMMA LeastNat ==
    ASSUME NEW T, T \subseteq Nat, T # {}
    PROVE  \E x \in T : \A y \in T : x <= y
<1> DEFINE R == {pair \in Nat \X Nat : pair[1] < pair[2]}
<1>1. IsWellFoundedOn(R, Nat)
  BY NatLessThanWellFounded DEF OpToRel
<1>2. PICK x \in T : \A y \in T : ~(<<y, x>> \in R)
  BY <1>1, WFMin
<1>3. ASSUME NEW y \in T PROVE x <= y
  <2>1. x \in Nat /\ y \in Nat
    OBVIOUS
  <2>2. ~(y < x)
    BY <1>2, <2>1
  <2> QED BY <2>1, <2>2
<1> QED BY <1>3

\* cleanup_select_fds: the places of the kept registrations can be counted off.
Upto(kept, i) == {j \in kept : j <= i}

LEMMA NthKept ==
    ASSUME NEW n \in Nat, NEW kept, kept \subseteq 1..n, NEW k \in 1..Cardinality(kept)
    PROVE  \E i \in kept : Cardinality(Upto(kept, i)) = k
<1> DEFINE Below(m) == {j \in kept : j <= m}
           Enough == {m \in Nat : Cardinality(Below(m)) >= k}
<1>0. IsFiniteSet(kept) /\ Cardinality(kept) \in Nat
  <2>1. IsFiniteSet(1..n)
    BY FS_Interval
  <2>2. IsFiniteSet(kept)
    BY <2>1, FS_Subset
  <2> QED BY <2>2, FS_CardinalityType
<1>a. k \in Nat /\ k >= 1 /\ k <= Cardinality(kept)
  BY <1>0
<1>b. \A j \in kept : j \in Nat /\ j >= 1 /\ j <= n
  OBVIOUS
<1>1. ASSUME NEW m \in Nat PROVE IsFiniteSet(Below(m)) /\ Cardinality(Below(m)) \in Nat
  <2>1. IsFiniteSet(Below(m))
    BY <1>0, FS_Subset
  <2> QED BY <2>1, FS_CardinalityType
<1>2. Below(n) = kept
  BY <1>b
<1>3. n \in Enough /\ Enough \subseteq Nat
  BY <1>0, <1>a, <1>2
<1>4. PICK m \in Enough : \A x \in Enough : m <= x
  <2> HIDE DEF Enough
  <2> QED BY <1>3, LeastNat
<1>5. m \in Nat /\ Cardinality(Below(m)) >= k
  OBVIOUS
<1>6. Below(0) = {}
  <2>1. \A j \in kept : ~(j <= 0)
    BY <1>b
  <2> QED BY <2>1, Zenon
<1>7. m # 0
  <2> SUFFICES ASSUME m = 0 PROVE FALSE
    OBVIOUS
  <2>1. Cardinality(Below(m)) = 0
    BY <1>6, FS_EmptySet
  <2> QED BY <2>1, <1>5, <1>a
<1>8. m - 1 \in Nat /\ ~(Cardinality(Below(m - 1)) >= k)
  <2>1. m - 1 \in Nat /\ ~(m <= m - 1)
    BY <1>5, <1>7
  <2>2. m - 1 \notin Enough
    BY <1>4, <2>1
  <2> QED BY <2>1, <2>2
<1>9. m \in kept
  <2> SUFFICES ASSUME m \notin kept PROVE FALSE
    OBVIOUS
  <2>1. ASSUME NEW j \in kept PROVE j <= m <=> j <= m - 1
    BY <1>b, <1>5
  <2>2. Below(m) = Below(m - 1)
    BY <2>1
  <2> QED BY <2>2, <1>5, <1>8
<1>10. Below(m) = Below(m - 1) \cup {m} /\ m \notin Below(m - 1)
  <2>1. ASSUME NEW j \in kept PROVE j <= m <=> j <= m - 1 \/ j = m
    BY <1>b, <1>5
  <2>2. ~(m <= m - 1) /\ m <= m
    BY <1>5
  <2> QED BY <2>1, <2>2, <1>9
<1>c. IsFiniteSet(Below(m - 1)) /\ Cardinality(Below(m - 1)) \in Nat
  BY <1>1, <1>8
<1> HIDE DEF Below
<1>11. Cardinality(Below(m)) = Cardinality(Below(m - 1)) + 1
  BY <1>c, <1>10, FS_AddElement
<1>12. Cardinality(Below(m)) = k
  BY <1>a, <1>c, <1>5, <1>8, <1>11
<1> QED BY <1>9, <1>12 DEF Below, Upto

\* What cleanup_select_fds leaves are registrations of the list.
LEMMA CleanupListed ==
    ASSUME NEW l, IsList(l)
    PROVE  /\ IsList(cleanup_select_fds(l))
           /\ \A k \in 1..Len(cleanup_select_fds(l)) :
                \E i \in 1..Len(l) : cleanup_select_fds(l)[k] = l[i]
<1> DEFINE kept == {i \in 1..Len(l) : ~l[i].deleted}
           Nth(k) == CHOOSE i \in kept : Cardinality({j \in kept : j <= i}) = k
           c == [k \in 1..Cardinality(kept) |-> l[Nth(k)]]
<1>1. cleanup_select_fds(l) = c
  BY DEF cleanup_select_fds
<1>2. Len(l) \in Nat /\ kept \subseteq 1..Len(l)
  BY ListLength
<1>3. Cardinality(kept) \in Nat
  <2>1. IsFiniteSet(1..Len(l))
    BY <1>2, FS_Interval
  <2>2. IsFiniteSet(kept)
    BY <1>2, <2>1, FS_Subset
  <2> QED BY <2>2, FS_CardinalityType
<1>4. IsList(c) /\ Len(c) = Cardinality(kept)
  BY <1>3, ListOfFunction
<1>5. ASSUME NEW k \in 1..Cardinality(kept) PROVE Nth(k) \in 1..Len(l) /\ c[k] = l[Nth(k)]
  <2> HIDE DEF kept, c
  <2>1. \E i \in kept : Cardinality({j \in kept : j <= i}) = k
    <3> HIDE DEF Nth
    <3>1. Len(l) \in Nat /\ kept \subseteq 1..Len(l) /\ k \in 1..Cardinality(kept)
      BY <1>2
    <3>2. \E i \in kept : Cardinality(Upto(kept, i)) = k
      BY ONLY <3>1, NthKept
    <3> QED BY <3>2, Zenon DEF Upto
  <2> USE DEF c
  <2>2. Nth(k) \in kept
    BY <2>1
  <2> QED BY <1>2, <2>2
<1> HIDE DEF c, kept, Nth
<1> QED BY <1>1, <1>4, <1>5

\* An element of clients and of client_callbacks.
ClientEntry(x) == x = [id |-> x.id, polled |-> x.polled]

CallbackEntry(x) == x = [id |-> x.id, deleted |-> x.deleted, polled |-> x.polled]

\* The lists are lists, the saved pointer of the walk that is under way is an element of
\* the list that is walked, and all attached clients are in the exported list at every
\* step of the loop, unless that is full.
LoopInv ==
    /\ IsList(timers) /\ IsList(clients) /\ IsList(callbacks)
    /\ \A i \in 1..Len(clients) : ClientEntry(clients[i])
    /\ \A i \in 1..Len(callbacks) : CallbackEntry(callbacks[i])
    /\ IteratorValid
    /\ Len(exported) = CRAS_MAX_ATTACHED_CLIENTS \/ Ids(clients) \subseteq Range(exported)

LEMMA LoopStart == Init => LoopInv
<1> SUFFICES ASSUME Init PROVE LoopInv
  OBVIOUS
<1> DEFINE p == [id |-> PIPE, deleted |-> FALSE, polled |-> FALSE]
<1>1. /\ pc = "build" /\ timers = <<>> /\ clients = <<>> /\ callbacks = <<p>>
  BY DEF Init
<1>2. IsList(timers) /\ IsList(clients) /\ Ids(clients) = {}
  <2>1. <<>> \in Seq({})
    OBVIOUS
  <2>2. Len(clients) = 0 /\ 1..0 = {}
    BY <1>1
  <2> QED BY <1>1, <2>1, <2>2, ListOfSeq DEF Ids
<1>3. CallbackEntry(p)
  BY DEF CallbackEntry
<1> HIDE DEF p
<1>4. /\ callbacks \in Seq({p}) /\ Len(callbacks) = 1 /\ callbacks[1] = p
  BY <1>1
<1>5. IsList(callbacks) /\ \A i \in 1..Len(callbacks) : CallbackEntry(callbacks[i])
  BY <1>3, <1>4, ListOfSeq
<1> QED BY <1>1, <1>2, <1>5 DEF LoopInv, IteratorValid

\* What a handler does to the registrations: none is unlinked.
LEMMA CallbacksKept ==
    ASSUME NEW e \in Effects, IsList(callbacks),
           \A i \in 1..Len(callbacks) : CallbackEntry(callbacks[i])
    PROVE  /\ IsList(CallbacksAfter(e))
           /\ Ids(callbacks) \subseteq Ids(CallbacksAfter(e))
           /\ \A i \in 1..Len(CallbacksAfter(e)) : CallbackEntry(CallbacksAfter(e)[i])
<1>0. Len(callbacks) \in Nat /\ callbacks \in Seq({callbacks[i] : i \in DOMAIN callbacks})
  BY ListLength DEF IsList
<1>1. CASE e[1] = "add_fd"
  <2> DEFINE x == [id |-> e[2], deleted |-> FALSE, polled |-> FALSE]
             a == Append(callbacks, x)
  <2>1. CallbacksAfter(e) = a
    BY <1>1 DEF CallbacksAfter, add_select_fd
  <2>2. CallbackEntry(x)
    BY DEF CallbackEntry
  <2> HIDE DEF x
  <2>3. IsList(a) /\ Ids(callbacks) \subseteq Ids(a)
    BY AppendListed
  <2>4. /\ Len(a) = Len(callbacks) + 1 /\ a[Len(callbacks) + 1] = x
        /\ \A i \in 1..Len(callbacks) : a[i] = callbacks[i]
    BY <1>0
  <2> HIDE DEF a
  <2>5. ASSUME NEW i \in 1..Len(a) PROVE CallbackEntry(a[i])
    <3>1. i \in 1..Len(callbacks) \/ i = Len(callbacks) + 1
      BY <1>0, <2>4
    <3> QED BY <3>1, <2>2, <2>4
  <2> QED BY <2>1, <2>3, <2>5
<1>2. CASE e[1] = "rm_fd"
  <2> DEFINE r == rm_select_fd(callbacks, e[2])
  <2>1. CallbacksAfter(e) = r
    BY <1>2 DEF CallbacksAfter
  <2>2. r = [i \in 1..Len(callbacks) |-> r[i]]
    BY DEF rm_select_fd
  <2>3. IsList(r) /\ Len(r) = Len(callbacks)
    <3> HIDE DEF r
    <3> QED BY <2>2, <1>0, ListOfFunction
  <2>4. ASSUME NEW i \in 1..Len(callbacks)
        PROVE  CallbackEntry(r[i]) /\ r[i].id = callbacks[i].id
    <3>1. callbacks[i] = [id |-> callbacks[i].id, deleted |-> callbacks[i].deleted,
                          polled |-> callbacks[i].polled]
      BY DEF CallbackEntry
    <3>2. \/ r[i] = callbacks[i]
          \/ r[i] = [callbacks[i] EXCEPT !.deleted = TRUE]
      BY DEF rm_select_fd
    <3> HIDE DEF r
    <3>3. CASE r[i] = [callbacks[i] EXCEPT !.deleted = TRUE]
      <4>1. r[i] = [id |-> callbacks[i].id, deleted |-> TRUE, polled |-> callbacks[i].polled]
        BY <3>1, <3>3
      <4> QED BY <4>1 DEF CallbackEntry
    <3> QED BY <3>1, <3>2, <3>3 DEF CallbackEntry
  <2>5. Ids(callbacks) \subseteq Ids(r)
    <3> HIDE DEF r
    <3> QED BY <2>3, <2>4 DEF Ids
  <2> HIDE DEF r
  <2> QED BY <2>1, <2>3, <2>4, <2>5
<1>3. CASE e[1] \notin {"add_fd", "rm_fd"}
  <2>1. CallbacksAfter(e) = callbacks
    BY <1>3 DEF CallbacksAfter
  <2> QED BY <2>1
<1> QED BY <1>1, <1>2, <1>3

\* What a handler does to the timers: the one that is firing is not unlinked.
LEMMA TimersKept ==
    ASSUME NEW e \in Effects, NEW firing, CanHappen(e, firing), IsList(timers)
    PROVE  /\ IsList(TimersAfter(e))
           /\ firing \in Ids(timers) => firing \in Ids(TimersAfter(e))
<1>1. CASE e[1] = "add_timer"
  <2> DEFINE x == [id |-> e[2], due |-> FALSE]
  <2>1. TimersAfter(e) = Append(timers, x)
    BY <1>1 DEF TimersAfter, cras_tm_create_timer
  <2> HIDE DEF x
  <2> QED BY <2>1, AppendListed
<1>2. CASE e[1] = "cancel"
  <2>1. TimersAfter(e) = Without(timers, e[2])
    BY <1>2 DEF TimersAfter, cras_tm_cancel_timer
  <2>2. e[2] \in Ids(timers) /\ e[2] # firing
    BY <1>2 DEF CanHappen
  <2> QED BY <2>1, <2>2, WithoutListed
<1>3. CASE e[1] \notin {"add_timer", "cancel"}
  <2>1. TimersAfter(e) = timers
    BY <1>3 DEF TimersAfter
  <2> QED BY <2>1
<1> QED BY <1>1, <1>2, <1>3

LEMMA LoopBuild == LoopInv /\ BuildPollfds => LoopInv'
<1> SUFFICES ASSUME LoopInv, BuildPollfds PROVE LoopInv'
  OBVIOUS
<1>1. /\ pc' = "tasks" /\ timers' = timers /\ exported' = exported
      /\ clients' = [i \in 1..Len(clients) |-> [clients[i] EXCEPT !.polled = TRUE]]
      /\ callbacks' = [i \in 1..Len(callbacks) |->
                          [callbacks[i] EXCEPT !.polled = @ \/ ~callbacks[i].deleted]]
  BY DEF BuildPollfds
<1>2. /\ Len(clients) \in Nat /\ Len(callbacks) \in Nat /\ IsList(timers)
      /\ Len(exported) = CRAS_MAX_ATTACHED_CLIENTS \/ Ids(clients) \subseteq Range(exported)
  BY ListLength DEF LoopInv
<1>3. IsList(clients') /\ Len(clients') = Len(clients)
  BY <1>1, <1>2, ListOfFunction
<1>4. IsList(callbacks') /\ Len(callbacks') = Len(callbacks)
  <2>1. callbacks' = [i \in 1..Len(callbacks) |-> callbacks'[i]]
    BY <1>1, Zenon
  <2> QED BY <2>1, <1>2, ListOfFunction
<1>5. ASSUME NEW i \in 1..Len(clients)
      PROVE  ClientEntry(clients'[i]) /\ clients'[i].id = clients[i].id
  <2>1. clients[i] = [id |-> clients[i].id, polled |-> clients[i].polled]
    BY DEF LoopInv, ClientEntry
  <2>2. clients'[i] = [id |-> clients[i].id, polled |-> TRUE]
    BY <1>1, <2>1
  <2> QED BY <2>2 DEF ClientEntry
<1>6. ASSUME NEW i \in 1..Len(callbacks) PROVE CallbackEntry(callbacks'[i])
  <2> DEFINE v == callbacks[i].polled \/ ~callbacks[i].deleted
  <2>1. callbacks[i] = [id |-> callbacks[i].id, deleted |-> callbacks[i].deleted,
                        polled |-> callbacks[i].polled]
    BY DEF LoopInv, CallbackEntry
  <2>2. callbacks'[i] = [callbacks[i] EXCEPT !.polled = v]
    BY <1>1, Zenon
  <2> HIDE DEF v
  <2>3. callbacks'[i] = [id |-> callbacks[i].id, deleted |-> callbacks[i].deleted, polled |-> v]
    BY <2>1, <2>2
  <2> QED BY <2>3 DEF CallbackEntry
<1>7. Len(exported') = CRAS_MAX_ATTACHED_CLIENTS \/ Ids(clients') \subseteq Range(exported')
  <2>1. Ids(clients') \subseteq Ids(clients)
    BY <1>3, <1>5 DEF Ids
  <2> QED BY <1>1, <1>2, <2>1
<1>8. IteratorValid'
  BY <1>1 DEF IteratorValid
<1>9. IsList(timers')
  BY <1>1, <1>2
<1> QED BY <1>3, <1>4, <1>5, <1>6, <1>7, <1>8, <1>9 DEF LoopInv

\* Steps that leave the lists alone and walk on from one element to the next.
LEMMA LoopWalk ==
    ASSUME LoopInv, UNCHANGED <<timers, clients, callbacks, exported>>, IteratorValid'
    PROVE  LoopInv'
BY DEF LoopInv

LEMMA LoopPoll == LoopInv /\ Poll => LoopInv'
<1> SUFFICES ASSUME LoopInv, Poll PROVE LoopInv'
  OBVIOUS
<1>1. pc' = "timers" /\ it' = First(timers) /\ UNCHANGED <<timers, clients, callbacks, exported>>
  BY DEF Poll, lists
<1>2. First(timers) \in Ids(timers) \cup {NULL}
  BY FirstListed DEF LoopInv
<1>3. IteratorValid'
  BY <1>1, <1>2 DEF IteratorValid
<1> QED BY <1>1, <1>3, LoopWalk

\* cras_tm_call_callbacks: `next` is read after the callback and before the timer that
\* fired is freed, so it is still there.
LEMMA LoopFire == LoopInv /\ FireTimer => LoopInv'
<1> SUFFICES ASSUME LoopInv, FireTimer PROVE LoopInv'
  OBVIOUS
<1>1. PICK e \in Effects : call_timer_callback(e) /\ Handler(e)
  BY DEF FireTimer
<1>2. pc = "timers" /\ pc' = pc /\ clients' = clients /\ exported' = exported
  BY DEF FireTimer
<1>3. it \in Ids(timers) /\ CanHappen(e, it)
  BY <1>1, <1>2 DEF call_timer_callback, LoopInv, IteratorValid
<1> DEFINE t == TimersAfter(e)
<1>4. IsList(t) /\ it \in Ids(t)
  BY <1>3, TimersKept DEF LoopInv
<1>5. it' = NextOf(t, it) /\ timers' = Without(t, it)
  BY <1>1 DEF call_timer_callback, cras_tm_cancel_timer
<1> HIDE DEF t
<1>6. IsList(timers') /\ it' \in Ids(timers') \cup {NULL}
  BY <1>4, <1>5, WithoutListed
<1>7. callbacks' = CallbacksAfter(e)
  BY <1>1 DEF Handler
<1>8. IsList(callbacks') /\ \A i \in 1..Len(callbacks') : CallbackEntry(callbacks'[i])
  BY <1>7, CallbacksKept DEF LoopInv
<1>9. IteratorValid'
  BY <1>2, <1>6 DEF IteratorValid
<1> QED BY <1>2, <1>6, <1>8, <1>9 DEF LoopInv

LEMMA LoopSkipTimer == LoopInv /\ SkipTimer => LoopInv'
<1> SUFFICES ASSUME LoopInv, SkipTimer PROVE LoopInv'
  OBVIOUS
<1>1. /\ pc = "timers" /\ pc' = pc /\ it # NULL /\ it' = NextOf(timers, it)
      /\ UNCHANGED <<timers, clients, callbacks, exported>>
  BY DEF SkipTimer, lists
<1>2. it' \in Ids(timers) \cup {NULL}
  BY <1>1, NextListed DEF LoopInv, IteratorValid
<1>3. IteratorValid'
  BY <1>1, <1>2 DEF IteratorValid
<1> QED BY <1>1, <1>3, LoopWalk

\* The list that is written is full or names all clients.
LEMMA ExportedList ==
    ASSUME NEW l, IsList(l)
    PROVE  \/ Len(send_client_list_to_clients(l)) = CRAS_MAX_ATTACHED_CLIENTS
           \/ Ids(l) \subseteq Range(send_client_list_to_clients(l))
<1> DEFINE M == CRAS_MAX_ATTACHED_CLIENTS
           n == Min({Len(l), M})
           x == send_client_list_to_clients(l)
<1>0. Len(l) \in Nat /\ M \in Nat
  BY ListLength, ServerAssumption
<1>1. n = IF Len(l) <= M THEN Len(l) ELSE M
  <2>1. ASSUME NEW k \in Nat, k = (IF Len(l) <= M THEN Len(l) ELSE M) PROVE n = k
    <3>1. k \in {Len(l), M} /\ \A y \in {Len(l), M} : k =< y
      BY <2>1, <1>0
    <3>2. \A z \in {Len(l), M} : (\A y \in {Len(l), M} : z =< y) => z = k
      BY <2>1, <1>0
    <3> QED BY <3>1, <3>2 DEF Min
  <2> QED BY <1>0, <2>1
<1>2. x = [i \in 1..n |-> l[i].id] /\ n \in Nat
  BY <1>0, <1>1 DEF send_client_list_to_clients
<1> HIDE DEF n, x
<1>3. DOMAIN x = 1..n /\ Len(x) = n
  BY <1>2
<1>4. CASE n = M
  BY <1>3, <1>4 DEF x
<1>5. CASE n = Len(l)
  <2>1. Ids(l) \subseteq Range(x)
    BY <1>2, <1>3, <1>5 DEF Ids, Range
  <2> QED BY <2>1 DEF x
<1> QED BY <1>1, <1>4, <1>5

\* A client that connects is exported, if there is room, before the loop comes to the
\* clients.
LEMMA LoopAccept == LoopInv /\ Accept => LoopInv'
<1> SUFFICES ASSUME LoopInv, Accept PROVE LoopInv'
  OBVIOUS
<1>1. /\ handle_new_connection /\ pc' = "clients" /\ it' = First(clients')
      /\ UNCHANGED <<callbacks, timers>>
  BY DEF Accept
<1>2. /\ IsList(clients')
      /\ Len(exported') = CRAS_MAX_ATTACHED_CLIENTS \/ Ids(clients') \subseteq Range(exported')
      /\ \A i \in 1..Len(clients') : ClientEntry(clients'[i])
  <2>1. CASE CONN \in revents /\ Clients \ Ids(clients) # {}
    <3> DEFINE x == [id |-> CHOOSE c \in Clients \ Ids(clients) : TRUE, polled |-> FALSE]
    <3>1. clients' = Append(clients, x) /\ exported' = send_client_list_to_clients(clients')
      BY <1>1, <2>1 DEF handle_new_connection
    <3>2. ClientEntry(x)
      BY DEF ClientEntry
    <3> HIDE DEF x
    <3>3. IsList(clients')
      BY <3>1, AppendListed DEF LoopInv
    <3>4. Len(clients) \in Nat /\ clients \in Seq({clients[i] : i \in DOMAIN clients})
      BY ListLength DEF LoopInv, IsList
    <3>5. /\ Len(clients') = Len(clients) + 1 /\ clients'[Len(clients) + 1] = x
          /\ \A i \in 1..Len(clients) : clients'[i] = clients[i]
      BY <3>1, <3>4
    <3>6. ASSUME NEW i \in 1..Len(clients') PROVE ClientEntry(clients'[i])
      <4>1. i \in 1..Len(clients) \/ i = Len(clients) + 1
        BY <3>4, <3>5
      <4> QED BY <4>1, <3>2, <3>5 DEF LoopInv
    <3>7. Len(exported') = CRAS_MAX_ATTACHED_CLIENTS \/ Ids(clients') \subseteq Range(exported')
      BY <3>1, <3>3, ExportedList
    <3> QED BY <3>3, <3>6, <3>7
  <2>2. CASE ~(CONN \in revents /\ Clients \ Ids(clients) # {})
    <3>1. UNCHANGED <<clients, exported>>
      BY <1>1, <2>2 DEF handle_new_connection
    <3> QED BY <3>1 DEF LoopInv
  <2> QED BY <2>1, <2>2
<1>3. it' \in Ids(clients') \cup {NULL}
  BY <1>1, <1>2, FirstListed
<1>4. IteratorValid'
  BY <1>1, <1>3 DEF IteratorValid
<1>5. IsList(timers') /\ IsList(callbacks') /\ \A i \in 1..Len(callbacks') : CallbackEntry(callbacks'[i])
  BY <1>1 DEF LoopInv
<1> QED BY <1>2, <1>4, <1>5 DEF LoopInv

\* What any other handler does, from whatever loop it is called.
LEMMA HandlerKept ==
    ASSUME LoopInv, NEW e \in Effects, CanHappen(e, NULL), timers' = TimersAfter(e), Handler(e)
    PROVE  /\ IsList(timers') /\ IsList(callbacks') /\ Ids(callbacks) \subseteq Ids(callbacks')
           /\ \A i \in 1..Len(callbacks') : CallbackEntry(callbacks'[i])
<1>1. callbacks' = CallbacksAfter(e)
  BY DEF Handler
<1>2. IsList(timers')
  BY TimersKept DEF LoopInv
<1> QED BY <1>1, <1>2, CallbacksKept DEF LoopInv

\* The client that is served may be the one that is removed; the next one is saved.
LEMMA LoopServe == LoopInv /\ ServeClient => LoopInv'
<1> SUFFICES ASSUME LoopInv, ServeClient PROVE LoopInv'
  OBVIOUS
<1>1. /\ pc = "clients" /\ pc' = pc /\ it # NULL /\ it' = NextOf(clients, it)
      /\ exported' = exported
      /\ \/ handle_message_from_client
         \/ UNCHANGED <<callbacks, timers, clients>>
  BY DEF ServeClient
<1>2. it \in Ids(clients) /\ IsList(clients)
  BY <1>1 DEF LoopInv, IteratorValid
<1>3. NextOf(clients, it) \in Ids(clients) \cup {NULL}
  BY <1>2, NextListed
<1>4. CASE UNCHANGED <<callbacks, timers, clients>>
  <2>1. IteratorValid'
    BY <1>1, <1>3, <1>4 DEF IteratorValid
  <2> QED BY <1>1, <1>4, <2>1, LoopWalk
<1>5. ASSUME NEW e \in Effects, CanHappen(e, NULL), timers' = TimersAfter(e), Handler(e),
             clients' = clients
      PROVE  LoopInv'
  <2>1. /\ IsList(timers') /\ IsList(callbacks')
        /\ \A i \in 1..Len(callbacks') : CallbackEntry(callbacks'[i])
    BY <1>5, HandlerKept
  <2>2. IteratorValid'
    BY <1>1, <1>3, <1>5 DEF IteratorValid
  <2> QED BY <1>1, <1>5, <2>1, <2>2 DEF LoopInv
<1>6. CASE remove_client /\ UNCHANGED <<callbacks, timers, tasks>>
  <2>1. clients' = Without(clients, it) /\ UNCHANGED <<callbacks, timers>>
    BY <1>6 DEF remove_client
  <2>2. /\ IsList(clients') /\ Ids(clients') \subseteq Ids(clients)
        /\ it' \in Ids(clients') \cup {NULL}
        /\ \A j \in 1..Len(clients') : \E k \in 1..Len(clients) : clients'[j] = clients[k]
    BY <1>1, <1>2, <2>1, WithoutListed
  <2>3. IteratorValid'
    BY <1>1, <2>2 DEF IteratorValid
  <2>4. \A j \in 1..Len(clients') : ClientEntry(clients'[j])
    BY <2>2 DEF LoopInv
  <2> QED BY <1>1, <2>1, <2>2, <2>3, <2>4 DEF LoopInv
<1> QED BY <1>1, <1>4, <1>5, <1>6 DEF handle_message_from_client

LEMMA LoopServed == LoopInv /\ ClientsServed => LoopInv'
<1> SUFFICES ASSUME LoopInv, ClientsServed PROVE LoopInv'
  OBVIOUS
<1>1. /\ pc' = "callbacks" /\ it' = First(callbacks)
      /\ UNCHANGED <<timers, clients, callbacks, exported>>
  BY DEF ClientsServed, lists
<1>2. First(callbacks) \in Ids(callbacks) \cup {NULL}
  BY FirstListed DEF LoopInv
<1>3. IteratorValid'
  BY <1>1, <1>2 DEF IteratorValid
<1> QED BY <1>1, <1>3, LoopWalk

\* A callback that removes a registration only marks it, so the next one stays linked.
LEMMA LoopCall == LoopInv /\ CallCallback => LoopInv'
<1> SUFFICES ASSUME LoopInv, CallCallback PROVE LoopInv'
  OBVIOUS
<1>1. /\ pc = "callbacks" /\ pc' = pc /\ it # NULL /\ it' = NextOf(callbacks, it)
      /\ UNCHANGED <<clients, exported>>
  BY DEF CallCallback
<1>2. PICK e \in Effects : CanHappen(e, NULL) /\ timers' = TimersAfter(e) /\ Handler(e)
  BY DEF CallCallback
<1>3. it' \in Ids(callbacks) \cup {NULL}
  BY <1>1, NextListed DEF LoopInv, IteratorValid
<1>4. /\ IsList(timers') /\ IsList(callbacks') /\ Ids(callbacks) \subseteq Ids(callbacks')
      /\ \A i \in 1..Len(callbacks') : CallbackEntry(callbacks'[i])
  BY <1>2, HandlerKept
<1>5. IteratorValid'
  BY <1>1, <1>3, <1>4 DEF IteratorValid
<1> QED BY <1>1, <1>4, <1>5 DEF LoopInv

LEMMA LoopSkipCallback == LoopInv /\ SkipCallback => LoopInv'
<1> SUFFICES ASSUME LoopInv, SkipCallback PROVE LoopInv'
  OBVIOUS
<1>1. /\ pc = "callbacks" /\ pc' = pc /\ it # NULL /\ it' = NextOf(callbacks, it)
      /\ UNCHANGED <<timers, clients, callbacks, exported>>
  BY DEF SkipCallback, lists
<1>2. it' \in Ids(callbacks) \cup {NULL}
  BY <1>1, NextListed DEF LoopInv, IteratorValid
<1>3. IteratorValid'
  BY <1>1, <1>2 DEF IteratorValid
<1> QED BY <1>1, <1>3, LoopWalk

\* Marked registrations are freed when no walk is under way.
LEMMA LoopCleanup == LoopInv /\ Cleanup => LoopInv'
<1> SUFFICES ASSUME LoopInv, Cleanup PROVE LoopInv'
  OBVIOUS
<1>1. /\ pc' = "dbus" /\ callbacks' = cleanup_select_fds(callbacks)
      /\ UNCHANGED <<timers, clients, exported>>
  BY DEF Cleanup
<1>2. /\ IsList(callbacks')
      /\ \A k \in 1..Len(callbacks') : \E i \in 1..Len(callbacks) : callbacks'[k] = callbacks[i]
  BY <1>1, CleanupListed DEF LoopInv
<1>3. \A k \in 1..Len(callbacks') : CallbackEntry(callbacks'[k])
  BY <1>2 DEF LoopInv
<1>4. IteratorValid'
  BY <1>1 DEF IteratorValid
<1> QED BY <1>1, <1>2, <1>3, <1>4 DEF LoopInv

LEMMA LoopDispatch == LoopInv /\ Dispatch => LoopInv'
<1> SUFFICES ASSUME LoopInv, Dispatch PROVE LoopInv'
  OBVIOUS
<1>1. pc' = "build" /\ UNCHANGED <<clients, exported>>
  BY DEF Dispatch
<1>2. PICK e \in Effects : CanHappen(e, NULL) /\ timers' = TimersAfter(e) /\ Handler(e)
  BY DEF Dispatch
<1>3. /\ IsList(timers') /\ IsList(callbacks')
      /\ \A i \in 1..Len(callbacks') : CallbackEntry(callbacks'[i])
  BY <1>2, HandlerKept
<1>4. IteratorValid'
  BY <1>1 DEF IteratorValid
<1> QED BY <1>1, <1>3, <1>4 DEF LoopInv

\* The steps of the others: what is readable, the pipe, the clock and signals.
LEMMA LoopAround ==
    LoopInv /\ (RunTask \/ PollInterrupted \/ BecomesReady \/ TimerExpires
                  \/ cras_main_message_send) => LoopInv'
<1> SUFFICES ASSUME LoopInv, RunTask \/ PollInterrupted \/ BecomesReady \/ TimerExpires
                               \/ cras_main_message_send
             PROVE  LoopInv'
  OBVIOUS
<1>1. CASE RunTask \/ BecomesReady \/ cras_main_message_send
  <2>1. UNCHANGED <<pc, it, timers, clients, callbacks, exported>>
    BY <1>1 DEF RunTask, BecomesReady, cras_main_message_send, lists
  <2>2. IteratorValid'
    BY <2>1 DEF LoopInv, IteratorValid
  <2> QED BY <2>1, <2>2, LoopWalk
<1>2. CASE PollInterrupted
  <2>1. pc' = "build" /\ UNCHANGED <<timers, clients, callbacks, exported>>
    BY <1>2 DEF PollInterrupted, lists
  <2>2. IteratorValid'
    BY <2>1 DEF IteratorValid
  <2> QED BY <2>1, <2>2, LoopWalk
<1>3. CASE TimerExpires
  <2>1. PICK i \in 1..Len(timers) : timers' = [timers EXCEPT ![i].due = TRUE]
    BY <1>3 DEF TimerExpires
  <2>2. pc = "tasks" /\ pc' = pc /\ UNCHANGED <<clients, callbacks, exported>>
    BY <1>3 DEF TimerExpires
  <2>3. Len(timers) \in Nat /\ DOMAIN timers = 1..Len(timers)
    BY ListLength DEF LoopInv
  <2>4. timers' = [k \in 1..Len(timers) |-> timers'[k]]
    BY <2>1, <2>3
  <2>5. IsList(timers')
    BY <2>3, <2>4, ListOfFunction
  <2>6. IteratorValid'
    BY <2>2 DEF IteratorValid
  <2> QED BY <2>2, <2>5, <2>6 DEF LoopInv
<1> QED BY <1>1, <1>2, <1>3

LEMMA LoopStep == LoopInv /\ [Next]_vars => LoopInv'
<1> SUFFICES ASSUME LoopInv, [Next]_vars PROVE LoopInv'
  OBVIOUS
<1>1. CASE UNCHANGED vars
  <2>1. UNCHANGED <<pc, it, timers, clients, callbacks, exported>>
    BY <1>1 DEF vars, lists
  <2>2. IteratorValid'
    BY <2>1 DEF LoopInv, IteratorValid
  <2> QED BY <2>1, <2>2, LoopWalk
<1> QED BY <1>1, LoopBuild, LoopPoll, LoopFire, LoopSkipTimer, LoopAccept, LoopServe, LoopServed,
        LoopCall, LoopSkipCallback, LoopCleanup, LoopDispatch, LoopAround DEF Next, Server

LEMMA LoopAlways == MCSpec => []LoopInv
<1>1. MCInit => LoopInv
  BY LoopStart DEF MCInit
<1>2. LoopInv /\ [MCNext]_mcVars => LoopInv'
  BY LoopStep DEF MCNext, mcVars
<1> QED BY <1>1, <1>2, PTL DEF MCSpec

\* The main loop never follows a freed block, whatever the callbacks it runs add, remove
\* and cancel in the lists it walks, and every attached client is in the exported list
\* unless that was full, CRAS_MAX_ATTACHED_CLIENTS long, when it was written.
THEOREM LoopNeverDangles == MCSpec => []ListsSound
<1>1. LoopInv => ListsSound
  BY DEF LoopInv, ListsSound, ClientsListed
<1> QED BY <1>1, LoopAlways, PTL

\* A registration that was removed is not called any more, even when ppoll had reported
\* its descriptor before a callback of the same pass removed it.
THEOREM RemovedNeverCalled == MCSpec => NoCallAfterRemoval
<1> DEFINE Quiet == \A b \in Blocks :
                      pc = "callbacks" /\ it = b /\ it' # b /\ Entry(callbacks, b).deleted
                        => UNCHANGED <<callbacks, timers, tasks, ready>>
<1>1. [MCNext]_mcVars => [Quiet]_vars
  <2> SUFFICES ASSUME [MCNext]_mcVars, ~(UNCHANGED vars), NEW b \in Blocks,
                      pc = "callbacks", it = b, it' # b, Entry(callbacks, b).deleted
               PROVE  UNCHANGED <<callbacks, timers, tasks, ready>>
    OBVIOUS
  <2>1. Next
    BY DEF MCNext, mcVars, vars
  <2>2. ~CallCallback
    BY DEF CallCallback, Callable
  <2>3. ~(FireTimer \/ SkipTimer \/ Accept \/ ServeClient \/ ClientsServed \/ BuildPollfds
            \/ Poll \/ Dispatch)
    BY DEF FireTimer, SkipTimer, Accept, ServeClient, ClientsServed, BuildPollfds, Poll, Dispatch
  <2>4. ~(RunTask \/ PollInterrupted \/ BecomesReady \/ TimerExpires \/ cras_main_message_send)
    BY DEF RunTask, PollInterrupted, BecomesReady, TimerExpires, cras_main_message_send
  <2>5. ~Cleanup
    BY DEF Cleanup
  <2>6. SkipCallback
    BY <2>1, <2>2, <2>3, <2>4, <2>5 DEF Next, Server
  <2> QED BY <2>6 DEF SkipCallback, lists
<1> QED BY <1>1, PTL DEF MCSpec, NoCallAfterRemoval

-----------------------------------------------------------------------------
(* What the observers are told (Notifications.tla).                        *)

\* Some message of s is about item i.
Mentions(s, i) == \E k \in 1..Len(s) : s[k][1] = i

\* To an observer of item i the values u and v are the same.
Same(i, u, v) == Notes!Followed(i, u) = Notes!Followed(i, v)

\* The last message of s about item i, if there is one, says v.
Ends(s, i, v) ==
    \A k \in 1..Len(s) :
        s[k][1] = i /\ (\A j \in k + 1..Len(s) : s[j][1] # i) => Same(i, s[k][2], v)

\* Whoever believes u of item i and then reads s believes v.
Leaves(s, i, u, v) == Ends(s, i, v) /\ (Mentions(s, i) \/ Same(i, u, v))

IsFunctionOn(f, S) == f = [x \in S |-> f[x]]

NotesForm ==
    /\ IsFunctionOn(exp_state, Notes!Items) /\ IsFunctionOn(data, Notes!Alerts)
    /\ IsFunctionOn(registered, Observers) /\ IsFunctionOn(socket, Observers)
    /\ IsFunctionOn(seen, Observers)
    /\ \A c \in Observers : IsFunctionOn(seen[c], Notes!Items) /\ IsList(socket[c])
    /\ \A a \in Notes!Alerts : IsList(data[a])

\* An alert keeps messages about its own items only, and only while it is pending.
DataOwned ==
    /\ \A a \in Notes!Alerts : a \notin pending => data[a] = <<>>
    /\ \A a \in Notes!Alerts : \A i \in Notes!Items :
        Mentions(data[a], i) => Notes!AlertOf(i) = a

\* The last message an alert keeps about an item is the item's state.
DataCurrent ==
    \A i \in Notes!Items : Ends(data[Notes!AlertOf(i)], i, exp_state[i])

\* A registered client that reads its socket, and then what the alert still keeps, knows
\* the item's state.
WillKnow(c, i) ==
    c \notin missed /\ Notes!AlertOf(i) \in registered[c]
        => Leaves(socket[c] \o data[Notes!AlertOf(i)], i, seen[c][i], exp_state[i])

NotesInv ==
    /\ NotesForm /\ DataOwned /\ DataCurrent
    /\ \A c \in Observers, i \in Notes!Items : WillKnow(c, i)

\* A value may be exchanged for one that is the same to the observers.
LEMMA SameValue ==
    ASSUME NEW i, NEW v, NEW w, Same(i, v, w)
    PROVE  /\ Same(i, w, v)
           /\ \A u : Same(i, u, v) <=> Same(i, u, w)
           /\ \A s : Ends(s, i, v) <=> Ends(s, i, w)
           /\ \A s, u : Leaves(s, i, u, v) <=> Leaves(s, i, u, w)
<1>1. Same(i, w, v) /\ \A u : Same(i, u, v) <=> Same(i, u, w)
  BY DEF Same
<1>2. \A s : Ends(s, i, v) <=> Ends(s, i, w)
  BY <1>1 DEF Ends
<1> QED BY <1>1, <1>2 DEF Leaves

LEMMA SameAsItself == \A i, v : Same(i, v, v)
BY DEF Same

\* The last message of a concatenation is the last one of its second part, unless that
\* has none about the item.
LEMMA ConcatNews ==
    ASSUME NEW s, IsList(s), NEW t, IsList(t), NEW i
    PROVE  /\ IsList(s \o t)
           /\ Mentions(s \o t, i) <=> Mentions(s, i) \/ Mentions(t, i)
           /\ Mentions(t, i) => \A v : Ends(s \o t, i, v) <=> Ends(t, i, v)
           /\ ~Mentions(t, i) => \A v : Ends(s \o t, i, v) <=> Ends(s, i, v)
<1> DEFINE R == {s[k] : k \in DOMAIN s} \cup {t[k] : k \in DOMAIN t}
           q == s \o t
           n == Len(s)
           m == Len(t)
<1>1. s \in Seq(R) /\ t \in Seq(R) /\ n \in Nat /\ m \in Nat
  BY SeqDef, ListLength DEF IsList
<1> HIDE DEF R
<1>2. q \in Seq(R) /\ Len(q) = n + m
  BY <1>1, ConcatProperties
<1>3. \A k \in 1..n : k \in 1..Len(q) /\ q[k] = s[k]
  BY <1>1, <1>2, ConcatProperties
<1>4. \A k \in 1..m : n + k \in 1..Len(q) /\ q[n + k] = t[k]
  <2> TAKE k \in 1..m
  <2>1. n + k \in 1..n + m /\ ~(n + k <= n) /\ (n + k) - n = k
    BY <1>1
  <2>2. q[n + k] = t[(n + k) - n]
    BY <2>1, <1>1, ConcatProperties
  <2> QED BY <2>1, <2>2, <1>2
<1>5. \A k \in 1..Len(q) : k \in 1..n \/ (k - n \in 1..m /\ q[k] = t[k - n])
  <2> TAKE k \in 1..Len(q)
  <2>1. CASE k > n
    <3>1. k - n \in 1..m /\ n + (k - n) = k
      BY <1>1, <1>2, <2>1
    <3> QED BY <3>1, <1>4
  <2> QED BY <2>1, <1>1, <1>2
<1>6. IsList(q)
  BY <1>2, ListOfSeq
<1> HIDE DEF q, n, m
<1>7. Mentions(q, i) <=> Mentions(s, i) \/ Mentions(t, i)
  BY <1>3, <1>4, <1>5 DEF Mentions, n, m
<1>8. ASSUME Mentions(t, i), NEW v PROVE Ends(q, i, v) <=> Ends(t, i, v)
  <2>1. PICK x \in 1..m : t[x][1] = i
    BY <1>8 DEF Mentions, m
  <2>2. ASSUME Ends(q, i, v) PROVE Ends(t, i, v)
    <3> SUFFICES ASSUME NEW k \in 1..m, t[k][1] = i, \A j \in k + 1..m : t[j][1] # i
                 PROVE  Same(i, t[k][2], v)
      BY DEF Ends, m
    <3>1. n + k \in 1..Len(q) /\ q[n + k] = t[k]
      BY <1>4
    <3>2. ASSUME NEW j \in n + k + 1..Len(q) PROVE q[j][1] # i
      <4>1. j - n \in k + 1..m /\ j - n \in 1..m /\ n + (j - n) = j
        BY <1>1, <1>2
      <4>2. q[j] = t[j - n]
        BY <4>1, <1>4
      <4> QED BY <4>1, <4>2
    <3> QED BY <3>1, <3>2, <2>2 DEF Ends
  <2>3. ASSUME Ends(t, i, v) PROVE Ends(q, i, v)
    <3> SUFFICES ASSUME NEW k \in 1..Len(q), q[k][1] = i, \A j \in k + 1..Len(q) : q[j][1] # i
                 PROVE  Same(i, q[k][2], v)
      BY DEF Ends
    <3>1. n + x \in 1..Len(q) /\ q[n + x][1] = i
      BY <2>1, <1>4
    <3>2. ~(k \in 1..n)
      <4> SUFFICES ASSUME k \in 1..n PROVE FALSE
        OBVIOUS
      <4>1. n + x \in k + 1..Len(q)
        BY <1>1, <1>2, <3>1
      <4> QED BY <3>1, <4>1
    <3>3. k - n \in 1..m /\ q[k] = t[k - n]
      BY <3>2, <1>5
    <3>4. ASSUME NEW j \in (k - n) + 1..m PROVE t[j][1] # i
      <4>1. j \in 1..m /\ n + j \in k + 1..Len(q)
        BY <1>1, <1>2, <3>3
      <4> QED BY <4>1, <1>4
    <3> QED BY <3>3, <3>4, <2>3 DEF Ends, m
  <2> QED BY <2>2, <2>3
<1>9. ASSUME ~Mentions(t, i), NEW v PROVE Ends(q, i, v) <=> Ends(s, i, v)
  <2>0. \A k \in 1..m : t[k][1] # i
    BY <1>9 DEF Mentions, m
  <2>1. \A k \in 1..Len(q) : q[k][1] = i => k \in 1..n
    BY <2>0, <1>5
  <2>2. ASSUME NEW k \in 1..n
        PROVE  (\A j \in k + 1..n : s[j][1] # i) <=> (\A j \in k + 1..Len(q) : q[j][1] # i)
    <3>1. ASSUME \A j \in k + 1..n : s[j][1] # i, NEW j \in k + 1..Len(q) PROVE q[j][1] # i
      <4>0. j \in 1..Len(q)
        BY <1>1, <1>2
      <4>1. CASE j \in 1..n
        <5>1. j \in k + 1..n
          BY <4>1, <1>1
        <5> QED BY <5>1, <4>1, <3>1, <1>3
      <4> QED BY <4>0, <4>1, <2>1
    <3>2. ASSUME \A j \in k + 1..Len(q) : q[j][1] # i, NEW j \in k + 1..n PROVE s[j][1] # i
      <4>1. j \in k + 1..Len(q) /\ j \in 1..n
        BY <1>1, <1>2
      <4> QED BY <4>1, <3>2, <1>3
    <3> QED BY <3>1, <3>2
  <2>3. ASSUME Ends(q, i, v) PROVE Ends(s, i, v)
    <3> SUFFICES ASSUME NEW k \in 1..n, s[k][1] = i, \A j \in k + 1..n : s[j][1] # i
                 PROVE  Same(i, s[k][2], v)
      BY DEF Ends, n
    <3>1. k \in 1..Len(q) /\ q[k] = s[k] /\ \A j \in k + 1..Len(q) : q[j][1] # i
      BY <1>3, <2>2
    <3> QED BY <3>1, <2>3 DEF Ends
  <2>4. ASSUME Ends(s, i, v) PROVE Ends(q, i, v)
    <3> SUFFICES ASSUME NEW k \in 1..Len(q), q[k][1] = i, \A j \in k + 1..Len(q) : q[j][1] # i
                 PROVE  Same(i, q[k][2], v)
      BY DEF Ends
    <3>1. k \in 1..n
      BY <2>1
    <3>2. q[k] = s[k] /\ \A j \in k + 1..n : s[j][1] # i
      BY <3>1, <1>3, <2>2
    <3> QED BY <3>1, <3>2, <2>4 DEF Ends, n
  <2> QED BY <2>3, <2>4
<1> QED BY <1>6, <1>7, <1>8, <1>9 DEF q

\* One message.
LEMMA SingleNews ==
    ASSUME NEW m, NEW i
    PROVE  /\ IsList(<<m>>)
           /\ Mentions(<<m>>, i) <=> m[1] = i
           /\ \A v : Ends(<<m>>, i, v) <=> (m[1] = i => Same(i, m[2], v))
<1> DEFINE q == <<m>>
<1>1. q \in Seq({m}) /\ Len(q) = 1 /\ q[1] = m
  OBVIOUS
<1>2. IsList(q)
  BY <1>1, ListOfSeq
<1>3. 1..1 = {1} /\ 1 + 1..1 = {}
  OBVIOUS
<1> HIDE DEF q
<1>4. Mentions(q, i) <=> m[1] = i
  BY <1>1, <1>3 DEF Mentions
<1>5. ASSUME NEW v PROVE Ends(q, i, v) <=> (m[1] = i => Same(i, m[2], v))
  BY <1>1, <1>3 DEF Ends
<1> QED BY <1>2, <1>4, <1>5 DEF q

\* Nothing is said by no message.
LEMMA NoNews ==
    ASSUME NEW i
    PROVE  IsList(<<>>) /\ ~Mentions(<<>>, i) /\ \A v : Ends(<<>>, i, v)
<1>1. <<>> \in Seq({}) /\ Len(<<>>) = 0 /\ 1..0 = {}
  OBVIOUS
<1>2. IsList(<<>>)
  BY <1>1, ListOfSeq
<1> QED BY <1>1, <1>2 DEF Mentions, Ends

\* The alerts; only active_node has several items.
LEMMA AlertFacts ==
    /\ Notes!Alerts = {"volume", "mute", "capture_mute", "active_node", "streams_output",
                       "streams_input"}
    /\ \A i \in Notes!Items : Notes!AlertOf(i) \in Notes!Alerts
    /\ \A i \in Notes!Items, j \in Notes!Items :
        Notes!AlertOf(i) = Notes!AlertOf(j) /\ i # j => Notes!KeepsAll(Notes!AlertOf(i))
    /\ \A d \in Notes!Directions :
        Notes!ActiveNode(d) \in Notes!Items /\ Notes!NumActiveStreams(d) \in Notes!Items
    /\ {"volume", "mute", "capture_mute"} \subseteq Notes!Items
<1>1. /\ Notes!ActiveNode("output") = "active_output" /\ Notes!ActiveNode("input") = "active_input"
      /\ Notes!NumActiveStreams("output") = "streams_output"
      /\ Notes!NumActiveStreams("input") = "streams_input"
  BY DEF Notes!ActiveNode, Notes!NumActiveStreams
<1>2. ASSUME NEW i PROVE Notes!AlertOf(i) = IF i \in {"active_output", "active_input"}
                                            THEN "active_node" ELSE i
  BY <1>1 DEF Notes!AlertOf, Notes!Directions
<1>3. Notes!Alerts = {"volume", "mute", "capture_mute", "active_node", "streams_output",
                      "streams_input"}
  BY <1>2 DEF Notes!Alerts, Notes!Items
<1>4. \A i \in Notes!Items : Notes!AlertOf(i) \in Notes!Alerts
  BY DEF Notes!Alerts
<1>5. ASSUME NEW i \in Notes!Items, NEW j \in Notes!Items,
             Notes!AlertOf(i) = Notes!AlertOf(j), i # j
      PROVE  Notes!KeepsAll(Notes!AlertOf(i))
  BY <1>2, <1>5 DEF Notes!KeepsAll, Notes!Items
<1> QED BY <1>1, <1>3, <1>4, <1>5 DEF Notes!Items, Notes!Directions

\* What an alert keeps after item i became v: it ends with that, and what it says of the
\* other items is what it said before.
LEMMA NotifyData ==
    ASSUME NotesForm, DataOwned, NEW i \in Notes!Items, NEW v, Notes!notify(i, v)
    PROVE  /\ IsFunctionOn(data', Notes!Alerts)
           /\ \A a \in Notes!Alerts : a # Notes!AlertOf(i) => data'[a] = data[a]
           /\ IsList(data'[Notes!AlertOf(i)])
           /\ Mentions(data'[Notes!AlertOf(i)], i) /\ Ends(data'[Notes!AlertOf(i)], i, v)
           /\ \A j \in Notes!Items : j # i =>
                /\ Mentions(data'[Notes!AlertOf(i)], j) => Notes!AlertOf(j) = Notes!AlertOf(i)
                /\ Notes!AlertOf(j) = Notes!AlertOf(i) =>
                    /\ Mentions(data'[Notes!AlertOf(i)], j)
                          <=> Mentions(data[Notes!AlertOf(i)], j)
                    /\ \A w : Ends(data'[Notes!AlertOf(i)], j, w)
                                <=> Ends(data[Notes!AlertOf(i)], j, w)
<1> DEFINE a == Notes!AlertOf(i)
           m == <<i, v>>
           d == data[a]
           e == data'[a]
<1>0. a \in Notes!Alerts /\ m[1] = i /\ m[2] = v
  BY AlertFacts
<1>1. /\ IsFunctionOn(data, Notes!Alerts) /\ IsList(d)
      /\ \A j \in Notes!Items : Mentions(d, j) => Notes!AlertOf(j) = a
  BY <1>0 DEF NotesForm, DataOwned
<1>2. data' = [data EXCEPT ![a] = IF Notes!KeepsAll(a) THEN Append(d, m) ELSE <<m>>]
  BY DEF Notes!notify, Notes!cras_alert_pending_data
<1>3. /\ IsFunctionOn(data', Notes!Alerts)
      /\ \A b \in Notes!Alerts : b # a => data'[b] = data[b]
      /\ e = IF Notes!KeepsAll(a) THEN Append(d, m) ELSE <<m>>
  <2> HIDE DEF a, m
  <2> QED BY <1>0, <1>1, <1>2 DEF IsFunctionOn
<1> HIDE DEF m, e
<1>4. CASE Notes!KeepsAll(a)
  <2>1. e = d \o <<m>>
    <3>1. d \in Seq({d[k] : k \in DOMAIN d} \cup {m})
      BY <1>1, SeqMonotonic DEF IsList
    <3> HIDE DEF d
    <3> QED BY <3>1, <1>3, <1>4, AppendIsConcat
  <2>2. IsList(e) /\ Mentions(e, i) /\ Ends(e, i, v)
    <3>1. IsList(<<m>>) /\ Mentions(<<m>>, i) /\ Ends(<<m>>, i, v)
      BY <1>0, SingleNews, SameAsItself
    <3> HIDE DEF d
    <3> QED BY <2>1, <3>1, <1>1, ConcatNews
  <2>3. ASSUME NEW j \in Notes!Items, j # i
        PROVE  (Mentions(e, j) <=> Mentions(d, j)) /\ \A w : Ends(e, j, w) <=> Ends(d, j, w)
    <3>1. IsList(<<m>>) /\ ~Mentions(<<m>>, j)
      BY <2>3, <1>0, SingleNews
    <3> HIDE DEF d
    <3> QED BY <2>1, <3>1, <1>1, ConcatNews
  <2> QED BY <1>1, <1>3, <2>2, <2>3 DEF e
<1>5. CASE ~Notes!KeepsAll(a)
  <2>1. e = <<m>>
    BY <1>3, <1>5
  <2>2. IsList(e) /\ Mentions(e, i) /\ Ends(e, i, v)
    BY <2>1, <1>0, SingleNews, SameAsItself
  <2>3. ASSUME NEW j \in Notes!Items, j # i PROVE ~Mentions(e, j) /\ Notes!AlertOf(j) # a
    BY <2>1, <2>3, <1>0, <1>5, SingleNews, AlertFacts
  <2> QED BY <1>3, <2>2, <2>3 DEF e
<1> QED BY <1>4, <1>5

\* A change of an item, with its notification, as ChangeState makes it.
LEMMA NotifyKept ==
    ASSUME NotesInv, NEW i \in Notes!Items, NEW v, Notes!notify(i, v),
           exp_state' = [exp_state EXCEPT ![i] = v], Notes!NotTold
    PROVE  NotesInv'
<1> DEFINE a == Notes!AlertOf(i)
<1>0. a \in Notes!Alerts /\ NotesForm /\ DataOwned /\ DataCurrent
  BY AlertFacts DEF NotesInv
<1>1. /\ IsFunctionOn(data', Notes!Alerts)
      /\ \A b \in Notes!Alerts : b # a => data'[b] = data[b]
      /\ IsList(data'[a]) /\ Mentions(data'[a], i) /\ Ends(data'[a], i, v)
      /\ \A j \in Notes!Items : j # i =>
            /\ Mentions(data'[a], j) => Notes!AlertOf(j) = a
            /\ Notes!AlertOf(j) = a =>
                 /\ Mentions(data'[a], j) <=> Mentions(data[a], j)
                 /\ \A w : Ends(data'[a], j, w) <=> Ends(data[a], j, w)
  BY <1>0, NotifyData
<1>2. /\ IsFunctionOn(exp_state', Notes!Items) /\ exp_state'[i] = v
      /\ \A j \in Notes!Items : j # i => exp_state'[j] = exp_state[j]
  BY <1>0 DEF NotesForm, IsFunctionOn
<1>3. UNCHANGED <<registered, socket, seen, missed>> /\ pending' = pending \cup {a}
  BY DEF Notes!NotTold, Notes!notify
<1>4. NotesForm'
  BY <1>0, <1>1, <1>2, <1>3 DEF NotesForm
<1>5. DataOwned'
  <2>1. \A b \in Notes!Alerts : b \notin pending' => data'[b] = <<>>
    BY <1>0, <1>1, <1>3 DEF DataOwned
  <2>2. ASSUME NEW b \in Notes!Alerts, NEW j \in Notes!Items, Mentions(data'[b], j)
        PROVE  Notes!AlertOf(j) = b
    BY <2>2, <1>0, <1>1 DEF DataOwned
  <2> QED BY <2>1, <2>2 DEF DataOwned
<1> HIDE DEF a
<1>6. ASSUME NEW j \in Notes!Items PROVE Ends(data'[Notes!AlertOf(j)], j, exp_state'[j])
  <2>1. CASE j = i
    BY <2>1, <1>1, <1>2 DEF a
  <2>2. CASE j # i /\ Notes!AlertOf(j) = a
    BY <2>2, <1>0, <1>1, <1>2 DEF DataCurrent
  <2>3. CASE Notes!AlertOf(j) # a
    <3>1. Notes!AlertOf(j) \in Notes!Alerts /\ j # i
      BY <2>3, AlertFacts DEF a
    <3> QED BY <2>3, <3>1, <1>0, <1>1, <1>2 DEF DataCurrent
  <2> QED BY <2>1, <2>2, <2>3
<1>7. ASSUME NEW c \in Observers, NEW j \in Notes!Items PROVE WillKnow(c, j)'
  <2> DEFINE b == Notes!AlertOf(j)
             s == socket[c]
  <2> SUFFICES ASSUME c \notin missed, b \in registered[c]
               PROVE  Leaves(s \o data'[b], j, seen[c][j], exp_state'[j])
    BY <1>3 DEF WillKnow
  <2>1. Leaves(s \o data[b], j, seen[c][j], exp_state[j])
    BY DEF NotesInv, WillKnow
  <2>2. IsList(s) /\ b \in Notes!Alerts /\ IsList(data[b])
    BY <1>0, AlertFacts DEF NotesForm
  <2> HIDE DEF b, s
  <2>3. CASE b # a
    <3>1. j # i /\ data'[b] = data[b]
      BY <2>2, <2>3, <1>1 DEF a, b
    <3> QED BY <2>1, <3>1, <1>2
  <2>4. CASE j = i
    <3>1. b = a
      BY <2>4 DEF a, b
    <3>2. Mentions(data'[a], i) /\ Ends(data'[a], i, v) /\ IsList(data'[a])
      BY <1>1
    <3>3. Mentions(s \o data'[a], i) /\ Ends(s \o data'[a], i, v)
      BY <3>2, <2>2, ConcatNews
    <3> QED BY <3>1, <3>3, <2>4, <1>2 DEF Leaves
  <2>5. CASE j # i /\ b = a
    <3>1. /\ Mentions(data'[a], j) <=> Mentions(data[a], j)
          /\ \A w : Ends(data'[a], j, w) <=> Ends(data[a], j, w)
          /\ IsList(data'[a]) /\ IsList(data[a])
      BY <2>2, <2>5, <1>1 DEF b
    <3>2. /\ Mentions(s \o data'[a], j) <=> Mentions(s \o data[a], j)
          /\ \A w : Ends(s \o data'[a], j, w) <=> Ends(s \o data[a], j, w)
      <4>1. /\ Mentions(s \o data[a], j) <=> Mentions(s, j) \/ Mentions(data[a], j)
            /\ Mentions(data[a], j) => \A w : Ends(s \o data[a], j, w) <=> Ends(data[a], j, w)
            /\ ~Mentions(data[a], j) => \A w : Ends(s \o data[a], j, w) <=> Ends(s, j, w)
        BY <3>1, <2>2, ConcatNews
      <4>2. /\ Mentions(s \o data'[a], j) <=> Mentions(s, j) \/ Mentions(data'[a], j)
            /\ Mentions(data'[a], j) => \A w : Ends(s \o data'[a], j, w) <=> Ends(data'[a], j, w)
            /\ ~Mentions(data'[a], j) => \A w : Ends(s \o data'[a], j, w) <=> Ends(s, j, w)
        BY <3>1, <2>2, ConcatNews
      <4> QED BY <3>1, <4>1, <4>2
    <3> QED BY <2>1, <2>5, <3>2, <1>2 DEF Leaves
  <2> QED BY <2>3, <2>4, <2>5
<1> QED BY <1>4, <1>5, <1>6, <1>7 DEF NotesInv, DataCurrent

\* A change of an item that observers do not notice.
LEMMA UntoldKept ==
    ASSUME NotesInv, NEW i \in Notes!Items, NEW v, Same(i, exp_state[i], v),
           exp_state' = [exp_state EXCEPT ![i] = v],
           UNCHANGED <<pending, data>>, Notes!NotTold
    PROVE  NotesInv'
<1>1. UNCHANGED <<registered, socket, seen, missed>>
  BY DEF Notes!NotTold
<1>2. /\ IsFunctionOn(exp_state', Notes!Items) /\ exp_state'[i] = v
      /\ \A j \in Notes!Items : j # i => exp_state'[j] = exp_state[j]
  BY DEF NotesInv, NotesForm, IsFunctionOn
<1>3. \A j \in Notes!Items : Same(j, exp_state[j], exp_state'[j])
  BY <1>2, SameAsItself
<1>4. NotesForm' /\ DataOwned'
  BY <1>1, <1>2 DEF NotesInv, NotesForm, DataOwned
<1>5. ASSUME NEW j \in Notes!Items PROVE Ends(data[Notes!AlertOf(j)], j, exp_state'[j])
  BY <1>3, SameValue DEF NotesInv, DataCurrent
<1>6. ASSUME NEW c \in Observers, NEW j \in Notes!Items PROVE WillKnow(c, j)'
  <2>1. WillKnow(c, j)
    BY DEF NotesInv
  <2> DEFINE q == socket[c] \o data[Notes!AlertOf(j)]
  <2> SUFFICES ASSUME Leaves(q, j, seen[c][j], exp_state[j])
               PROVE  Leaves(q, j, seen[c][j], exp_state'[j])
    BY <1>1, <2>1 DEF WillKnow
  <2> HIDE DEF q
  <2> QED BY <1>3, SameValue
<1> QED BY <1>4, <1>5, <1>6 DEF NotesInv, DataCurrent

\* Observers hear of mute when muted or not muted has changed.
LEMMA MuteKept ==
    ASSUME NotesInv, NEW v, Notes!SetMuteFields(v), Notes!NotTold
    PROVE  NotesInv'
<1>1. /\ exp_state' = [exp_state EXCEPT !["mute"] = v]
      /\ \/ Notes!Muted(v) = Notes!Muted(exp_state["mute"]) /\ UNCHANGED <<pending, data>>
         \/ Notes!notify("mute", v)
  BY DEF Notes!SetMuteFields
<1>2. "mute" \in Notes!Items
  BY AlertFacts
<1>3. CASE Notes!Muted(v) = Notes!Muted(exp_state["mute"]) /\ UNCHANGED <<pending, data>>
  <2>1. Same("mute", exp_state["mute"], v)
    BY <1>3, Zenon DEF Same, Notes!Followed
  <2> QED BY <1>1, <1>2, <1>3, <2>1, UntoldKept
<1>4. CASE Notes!notify("mute", v)
  BY <1>1, <1>2, <1>4, NotifyKept
<1> QED BY <1>1, <1>3, <1>4

\* Every request that changes the state.
LEMMA NotesChange == NotesInv /\ Notes!ChangeState => NotesInv'
<1> SUFFICES ASSUME NotesInv, Notes!ChangeState PROVE NotesInv'
  OBVIOUS
<1>0. Notes!NotTold /\ {"volume", "mute", "capture_mute"} \subseteq Notes!Items
  BY AlertFacts DEF Notes!ChangeState
<1>1. ASSUME NEW w \in 0..MAX_VOLUME + 1, Notes!cras_system_set_volume(w) PROVE NotesInv'
  <2> DEFINE v == IF w > MAX_VOLUME THEN MAX_VOLUME ELSE w
  <2>1. exp_state' = [exp_state EXCEPT !["volume"] = v] /\ Notes!notify("volume", v)
    BY <1>1 DEF Notes!cras_system_set_volume
  <2> HIDE DEF v
  <2> QED BY <1>0, <2>1, NotifyKept
<1>2. ASSUME NEW b \in BOOLEAN, Notes!cras_system_set_mute(b) \/ Notes!cras_system_set_user_mute(b)
      PROVE  NotesInv'
  <2>1. PICK v : Notes!SetMuteFields(v)
    BY <1>2 DEF Notes!cras_system_set_mute, Notes!cras_system_set_user_mute
  <2> QED BY <1>0, <2>1, MuteKept
<1>3. ASSUME NEW b \in BOOLEAN, Notes!cras_system_set_mute_locked(b) PROVE NotesInv'
  <2> DEFINE u == exp_state["mute"]
             v == [u EXCEPT !.mute_locked = b]
  <2>1. exp_state' = [exp_state EXCEPT !["mute"] = v] /\ UNCHANGED <<pending, data>>
    BY <1>3 DEF Notes!cras_system_set_mute_locked
  <2>2. v.mute = u.mute /\ v.user_mute = u.user_mute
    <3> HIDE DEF u
    <3> QED OBVIOUS
  <2> HIDE DEF v
  <2>3. Notes!Muted(v) = Notes!Muted(u)
    BY <2>2, Zenon DEF Notes!Muted
  <2>4. Same("mute", u, v)
    BY <2>3, Zenon DEF Same, Notes!Followed
  <2> QED BY <1>0, <2>1, <2>4, UntoldKept
<1>4. ASSUME NEW b \in BOOLEAN,
             Notes!cras_system_set_capture_mute(b) \/ Notes!cras_system_set_capture_mute_locked(b)
      PROVE  NotesInv'
  <2>1. PICK v : Notes!SetCaptureMute(v)
    BY <1>4 DEF Notes!cras_system_set_capture_mute, Notes!cras_system_set_capture_mute_locked
  <2>2. exp_state' = [exp_state EXCEPT !["capture_mute"] = v] /\ Notes!notify("capture_mute", v)
    BY <2>1 DEF Notes!SetCaptureMute
  <2> QED BY <1>0, <2>2, NotifyKept
<1>5. ASSUME NEW d \in Notes!Directions,
             \/ Notes!cras_iodev_list_select_node(d)
             \/ Notes!cras_system_state_stream_added(d)
             \/ Notes!cras_system_state_stream_removed(d)
      PROVE  NotesInv'
  <2>1. \E i \in {Notes!ActiveNode(d), Notes!NumActiveStreams(d)} : \E v :
            exp_state' = [exp_state EXCEPT ![i] = v] /\ Notes!notify(i, v)
    BY <1>5 DEF Notes!cras_iodev_list_select_node, Notes!cras_system_state_stream_added,
        Notes!cras_system_state_stream_removed, Notes!StreamCount
  <2>2. PICK i \in {Notes!ActiveNode(d), Notes!NumActiveStreams(d)} : \E v :
            exp_state' = [exp_state EXCEPT ![i] = v] /\ Notes!notify(i, v)
    BY <2>1
  <2>3. PICK v : exp_state' = [exp_state EXCEPT ![i] = v] /\ Notes!notify(i, v)
    BY <2>2
  <2>4. i \in Notes!Items
    BY <2>2, AlertFacts
  <2> QED BY <1>0, <2>3, <2>4, NotifyKept
<1> QED BY <1>1, <1>2, <1>3, <1>4, <1>5 DEF Notes!ChangeState

\* A client that registers reads the state; what an alert keeps at that time will end with
\* the state as well.
LEMMA NotesRegister ==
    ASSUME NotesInv, NEW c \in Observers, NEW a \in Notes!Alerts,
           Notes!register_for_notification(c, a)
    PROVE  NotesInv'
<1>0. UNCHANGED <<exp_state, pending, data, socket>>
  BY DEF Notes!register_for_notification
<1>1. NotesForm /\ DataOwned /\ DataCurrent
  BY DEF NotesInv
<1>2. DataOwned' /\ DataCurrent'
  BY <1>0, <1>1 DEF DataOwned, DataCurrent
<1>3. CASE a \in registered[c]
  <2>1. registered' = [registered EXCEPT ![c] = registered[c] \ {a}] /\ UNCHANGED <<seen, missed>>
    BY <1>3 DEF Notes!register_for_notification
  <2>2. /\ IsFunctionOn(registered', Observers)
        /\ \A x \in Observers : registered'[x] \subseteq registered[x]
    BY <1>1, <2>1 DEF NotesForm, IsFunctionOn
  <2>3. NotesForm'
    BY <1>0, <1>1, <2>1, <2>2 DEF NotesForm
  <2>4. ASSUME NEW x \in Observers, NEW i \in Notes!Items PROVE WillKnow(x, i)'
    <3>1. WillKnow(x, i)
      BY DEF NotesInv
    <3> QED BY <3>1, <1>0, <2>1, <2>2 DEF WillKnow
  <2> QED BY <1>2, <2>3, <2>4 DEF NotesInv
<1>4. CASE a \notin registered[c]
  <2> DEFINE look == [i \in Notes!Items |-> IF i \in Notes!ItemsOf(a) THEN exp_state[i] ELSE seen[c][i]]
  <2>1. /\ registered' = [registered EXCEPT ![c] = registered[c] \cup {a}]
        /\ seen' = [seen EXCEPT ![c] = look]
        /\ missed' = IF Notes!Unread(c, a) THEN missed \cup {c} ELSE missed
    BY <1>4 DEF Notes!register_for_notification
  <2>2. /\ IsFunctionOn(look, Notes!Items)
        /\ \A i \in Notes!Items :
              look[i] = IF Notes!AlertOf(i) = a THEN exp_state[i] ELSE seen[c][i]
    BY DEF IsFunctionOn, Notes!ItemsOf
  <2> HIDE DEF look
  <2>3. /\ IsFunctionOn(registered', Observers) /\ IsFunctionOn(seen', Observers)
        /\ registered'[c] = registered[c] \cup {a} /\ seen'[c] = look
        /\ \A x \in Observers : x # c => registered'[x] = registered[x] /\ seen'[x] = seen[x]
    BY <1>1, <2>1 DEF NotesForm, IsFunctionOn
  <2>4. \A x \in Observers : IsFunctionOn(seen'[x], Notes!Items)
    BY <1>1, <2>2, <2>3 DEF NotesForm
  <2>5. NotesForm'
    BY <1>0, <1>1, <2>3, <2>4 DEF NotesForm
  <2>6. ASSUME NEW x \in Observers, NEW i \in Notes!Items PROVE WillKnow(x, i)'
    <3>1. WillKnow(x, i) /\ (x \notin missed' => x \notin missed)
      BY <2>1 DEF NotesInv
    <3>2. CASE x # c
      BY <3>1, <3>2, <1>0, <2>3 DEF WillKnow
    <3>3. CASE x = c /\ Notes!AlertOf(i) # a
      <4>1. seen'[x][i] = seen[x][i] /\ (Notes!AlertOf(i) \in registered'[x]
                                          => Notes!AlertOf(i) \in registered[x])
        BY <3>3, <2>2, <2>3
      <4> QED BY <3>1, <4>1, <1>0 DEF WillKnow
    <3>4. CASE x = c /\ Notes!AlertOf(i) = a
      <4> DEFINE s == socket[c]
                 d == data[a]
      <4> SUFFICES ASSUME c \notin missed'
                   PROVE  Leaves(s \o d, i, exp_state[i], exp_state[i])
        BY <3>4, <1>0, <2>2, <2>3 DEF WillKnow
      <4>1. ~Notes!Unread(c, a)
        BY <2>1
      <4>2. ~Mentions(s, i)
        BY <3>4, <4>1 DEF Notes!Unread, Notes!ItemsOf, Mentions
      <4>3. IsList(s) /\ IsList(d) /\ Ends(d, i, exp_state[i])
        BY <3>4, <1>1 DEF NotesForm, DataCurrent
      <4>4. Ends(s, i, exp_state[i])
        BY <4>2 DEF Ends, Mentions
      <4> HIDE DEF s, d
      <4>5. Ends(s \o d, i, exp_state[i])
        BY <4>3, <4>4, ConcatNews
      <4> QED BY <4>5, SameAsItself DEF Leaves
    <3> QED BY <3>2, <3>3, <3>4
  <2> QED BY <1>2, <2>5, <2>6 DEF NotesInv
<1> QED BY <1>3, <1>4

\* A client that leaves is registered for nothing.
LEMMA NotesLeave ==
    ASSUME NotesInv, NEW c \in Observers, Notes!rclient_destroy(c)
    PROVE  NotesInv'
<1>0. /\ UNCHANGED <<exp_state, pending, data, seen>> /\ missed' = missed \ {c}
      /\ registered' = [registered EXCEPT ![c] = {}] /\ socket' = [socket EXCEPT ![c] = <<>>]
  BY DEF Notes!rclient_destroy
<1>1. NotesForm /\ DataOwned /\ DataCurrent
  BY DEF NotesInv
<1>2. DataOwned' /\ DataCurrent'
  BY <1>0, <1>1 DEF DataOwned, DataCurrent
<1>3. /\ IsFunctionOn(registered', Observers) /\ IsFunctionOn(socket', Observers)
      /\ registered'[c] = {} /\ socket'[c] = <<>>
      /\ \A x \in Observers : x # c => registered'[x] = registered[x] /\ socket'[x] = socket[x]
  BY <1>0, <1>1 DEF NotesForm, IsFunctionOn
<1>4. \A x \in Observers : IsList(socket'[x])
  BY <1>1, <1>3, NoNews DEF NotesForm
<1>5. NotesForm'
  BY <1>0, <1>1, <1>3, <1>4 DEF NotesForm
<1>6. ASSUME NEW x \in Observers, NEW i \in Notes!Items PROVE WillKnow(x, i)'
  <2>1. WillKnow(x, i)
    BY DEF NotesInv
  <2>2. CASE x = c
    BY <2>2, <1>3 DEF WillKnow
  <2>3. CASE x # c
    BY <2>1, <2>3, <1>0, <1>3 DEF WillKnow
  <2> QED BY <2>2, <2>3
<1> QED BY <1>2, <1>5, <1>6 DEF NotesInv

\* Two sequences of messages say the same of item i.
SameNews(s, t, i) ==
    /\ IsList(s) /\ IsList(t)
    /\ Mentions(s, i) <=> Mentions(t, i)
    /\ \A v : Ends(s, i, v) <=> Ends(t, i, v)

\* Messages about other things change nothing, before or after.
LEMMA OtherNews ==
    ASSUME NEW s, NEW t, NEW u, NEW i, SameNews(s, t, i), IsList(u), ~Mentions(u, i)
    PROVE  SameNews(s \o u, t, i)
BY ConcatNews DEF SameNews

\* Messages after messages about other things say what they say.
LEMMA NewsAfter ==
    ASSUME NEW s, NEW t, NEW i, IsList(s), IsList(t), ~Mentions(s, i)
    PROVE  SameNews(s \o t, t, i)
<1>1. /\ IsList(s \o t) /\ (Mentions(s \o t, i) <=> Mentions(s, i) \/ Mentions(t, i))
      /\ Mentions(t, i) => \A v : Ends(s \o t, i, v) <=> Ends(t, i, v)
      /\ ~Mentions(t, i) => \A v : Ends(s \o t, i, v) <=> Ends(s, i, v)
  BY ConcatNews
<1>2. ~Mentions(t, i) => \A v : Ends(t, i, v)
  BY DEF Ends, Mentions
<1>3. \A v : Ends(s, i, v)
  BY DEF Ends, Mentions
<1> QED BY <1>1, <1>2, <1>3 DEF SameNews

\* Of an item the client registered for, the alerts send what its own alert keeps.
LEMMA SentNews ==
    ASSUME NotesInv, NEW c \in Observers, NEW i \in Notes!Items,
           Notes!AlertOf(i) \in registered[c]
    PROVE  SameNews(Notes!Sent(c), data[Notes!AlertOf(i)], i)
<1> DEFINE a == Notes!AlertOf(i)
           T(b) == Notes!Told(c, b)
<1>0. /\ a \in Notes!Alerts
      /\ Notes!Alerts = {"volume", "mute", "capture_mute", "active_node", "streams_output",
                         "streams_input"}
  BY AlertFacts
<1>1. IsList(T(a)) /\ T(a) = data[a]
  BY <1>0 DEF NotesInv, NotesForm, DataOwned, Notes!Told
<1>2. ASSUME NEW b \in Notes!Alerts PROVE IsList(T(b)) /\ (b # a => ~Mentions(T(b), i))
  BY <1>2, NoNews DEF NotesInv, NotesForm, DataOwned, Notes!Told
<1>3. Notes!Sent(c) = T("volume") \o T("mute") \o T("capture_mute") \o T("active_node")
                        \o T("streams_output") \o T("streams_input")
  BY DEF Notes!Sent
<1> DEFINE s2 == T("volume") \o T("mute")
           s3 == s2 \o T("capture_mute")
           s4 == s3 \o T("active_node")
           s5 == s4 \o T("streams_output")
           s6 == s5 \o T("streams_input")
           P(s, B) == /\ IsList(s)
                      /\ a \in B => SameNews(s, T(a), i)
                      /\ a \notin B => ~Mentions(s, i)
<1>4. Notes!Sent(c) = s6
  BY <1>3
<1> HIDE DEF a, T
<1>5. ASSUME NEW s, NEW B, P(s, B), NEW b \in Notes!Alerts, b \notin B
      PROVE  P(s \o T(b), B \cup {b})
  <2>0. IsList(s) /\ IsList(T(b))
    BY <1>2, <1>5
  <2>1. IsList(s \o T(b)) /\ (Mentions(s \o T(b), i) <=> Mentions(s, i) \/ Mentions(T(b), i))
    BY <2>0, ConcatNews
  <2>2. CASE a = b
    <3>1. SameNews(s \o T(a), T(a), i)
      BY <2>0, <2>2, <1>5, NewsAfter
    <3> QED BY <2>1, <2>2, <3>1
  <2>3. CASE a # b /\ a \in B
    <3>1. SameNews(s \o T(b), T(a), i)
      BY <2>0, <2>3, <1>2, <1>5, OtherNews
    <3> QED BY <2>1, <2>3, <3>1
  <2>4. CASE a # b /\ a \notin B
    BY <2>1, <2>4, <1>2, <1>5
  <2> QED BY <2>2, <2>3, <2>4
<1>6. P(T("volume"), {"volume"})
  BY <1>0, <1>2 DEF SameNews
<1> HIDE DEF P
<1>7. P(s2, {"volume"} \cup {"mute"})
  BY <1>0, <1>5, <1>6
<1> HIDE DEF s2
<1>8. P(s3, {"volume"} \cup {"mute"} \cup {"capture_mute"})
  BY <1>0, <1>5, <1>7
<1> HIDE DEF s3
<1>9. P(s4, {"volume"} \cup {"mute"} \cup {"capture_mute"} \cup {"active_node"})
  BY <1>0, <1>5, <1>8
<1> HIDE DEF s4
<1>10. P(s5, {"volume"} \cup {"mute"} \cup {"capture_mute"} \cup {"active_node"}
               \cup {"streams_output"})
  BY <1>0, <1>5, <1>9
<1> HIDE DEF s5
<1>11. P(s6, {"volume"} \cup {"mute"} \cup {"capture_mute"} \cup {"active_node"}
               \cup {"streams_output"} \cup {"streams_input"})
  BY <1>0, <1>5, <1>10
<1>12. SameNews(s6, T(a), i)
  BY <1>0, <1>11 DEF P
<1> QED BY <1>1, <1>4, <1>12 DEF a

LEMMA SentList ==
    ASSUME NotesInv, NEW c \in Observers
    PROVE  IsList(Notes!Sent(c))
<1> DEFINE T(b) == Notes!Told(c, b)
<1>1. \A b \in Notes!Alerts : IsList(T(b))
  BY NoNews DEF NotesInv, NotesForm, Notes!Told
<1>2. /\ IsList(T("volume")) /\ IsList(T("mute")) /\ IsList(T("capture_mute"))
      /\ IsList(T("active_node")) /\ IsList(T("streams_output")) /\ IsList(T("streams_input"))
  BY <1>1, AlertFacts
<1>3. Notes!Sent(c) = T("volume") \o T("mute") \o T("capture_mute") \o T("active_node")
                        \o T("streams_output") \o T("streams_input")
  BY DEF Notes!Sent
<1> HIDE DEF T
<1>4. \A s, t : IsList(s) /\ IsList(t) => IsList(s \o t)
  BY ConcatNews
<1> QED BY <1>2, <1>3, <1>4

\* A prefix of a list.
LEMMA PrefixList ==
    ASSUME NEW q, IsList(q), NEW n \in 0..Len(q)
    PROVE  IsList(SubSeq(q, 1, n)) /\ (n = Len(q) => SubSeq(q, 1, n) = q)
<1> DEFINE R == {q[k] : k \in DOMAIN q}
<1>1. q \in Seq(R) /\ Len(q) \in Nat /\ DOMAIN q = 1..Len(q)
  BY ListLength DEF IsList
<1>2. \A k \in 1..n : q[k] \in R
  BY <1>1
<1>3. SubSeq(q, 1, n) \in Seq(R)
  BY <1>1, <1>2, SubSeqProperties
<1>4. SubSeq(q, 1, Len(q)) = q
  BY <1>1, SubSeqFull
<1> DEFINE p == SubSeq(q, 1, n)
<1> HIDE DEF R
<1>5. p \in Seq(R) /\ (n = Len(q) => p = q)
  BY <1>3, <1>4, Zenon
<1> HIDE DEF p
<1>6. IsList(p)
  BY <1>5, ListOfSeq
<1> QED BY <1>5, <1>6 DEF p

\* The alerts are processed: what they kept is in the sockets now, or a client lost some.
LEMMA NotesProcess == NotesInv /\ Notes!cras_alert_process_all_pending_alerts => NotesInv'
<1> SUFFICES ASSUME NotesInv, Notes!cras_alert_process_all_pending_alerts PROVE NotesInv'
  OBVIOUS
<1> DEFINE q(c) == socket[c] \o Notes!Sent(c)
           n(c) == IF Len(q(c)) > SocketSize THEN SocketSize ELSE Len(q(c))
<1>0. /\ UNCHANGED <<exp_state, registered, seen>> /\ pending' = {}
      /\ data' = [a \in Notes!Alerts |-> Notes!cras_alert_process(a)]
      /\ socket' = [c \in Observers |-> SubSeq(q(c), 1, n(c))]
      /\ missed' = missed \cup {c \in Observers : Len(q(c)) > SocketSize}
  BY DEF Notes!cras_alert_process_all_pending_alerts
<1>1. NotesForm /\ DataOwned /\ DataCurrent
  BY DEF NotesInv
<1>2. ASSUME NEW c \in Observers
      PROVE  IsList(q(c)) /\ Len(q(c)) \in Nat /\ n(c) \in 0..Len(q(c)) /\ IsList(socket[c])
  <2>1. IsList(socket[c]) /\ IsList(Notes!Sent(c))
    BY <1>1, SentList DEF NotesForm
  <2>2. IsList(q(c))
    BY <2>1, ConcatNews
  <2>3. Len(q(c)) \in Nat
    BY <2>2, ListLength
  <2> HIDE DEF q
  <2> QED BY <2>1, <2>2, <2>3, ServerAssumption
<1>3. \A a \in Notes!Alerts : data'[a] = <<>>
  BY <1>0, <1>1 DEF Notes!cras_alert_process, DataOwned
<1>4. IsFunctionOn(data', Notes!Alerts) /\ IsFunctionOn(socket', Observers)
  BY <1>0 DEF IsFunctionOn
<1>5. ASSUME NEW c \in Observers
      PROVE  IsList(socket'[c]) /\ (c \notin missed' => socket'[c] = q(c))
  <2>1. socket'[c] = SubSeq(q(c), 1, n(c)) /\ (c \notin missed' => n(c) = Len(q(c)))
    BY <1>0
  <2> HIDE DEF q, n
  <2> QED BY <1>2, <2>1, PrefixList
<1> HIDE DEF n
<1>6. NotesForm'
  <2>1. \A a \in Notes!Alerts : IsList(data'[a])
    BY <1>3, NoNews
  <2> QED BY <1>0, <1>1, <1>4, <1>5, <2>1 DEF NotesForm
<1>7. DataOwned' /\ DataCurrent'
  <2>1. \A i \in Notes!Items : ~Mentions(<<>>, i) /\ Ends(<<>>, i, exp_state'[i])
    BY NoNews
  <2> QED BY <1>3, <2>1, AlertFacts DEF DataOwned, DataCurrent
<1>8. ASSUME NEW c \in Observers, NEW i \in Notes!Items PROVE WillKnow(c, i)'
  <2> DEFINE a == Notes!AlertOf(i)
             s == socket[c]
             t == Notes!Sent(c)
             d == data[a]
  <2> SUFFICES ASSUME c \notin missed', a \in registered[c]
               PROVE  Leaves(socket'[c] \o data'[a], i, seen[c][i], exp_state[i])
    BY <1>0 DEF WillKnow
  <2>0. a \in Notes!Alerts /\ c \notin missed
    BY <1>0, AlertFacts
  <2>1. Leaves(s \o d, i, seen[c][i], exp_state[i])
    BY <2>0 DEF NotesInv, WillKnow
  <2>2. SameNews(t, d, i) /\ IsList(s)
    BY <1>2, SentNews
  <2>3. socket'[c] = s \o t /\ data'[a] = <<>>
    BY <1>3, <1>5, <2>0
  <2> HIDE DEF a, s, t, d
  <2>4. /\ IsList(s \o t)
        /\ Mentions(s \o t, i) <=> Mentions(s, i) \/ Mentions(t, i)
        /\ Mentions(t, i) => \A v : Ends(s \o t, i, v) <=> Ends(t, i, v)
        /\ ~Mentions(t, i) => \A v : Ends(s \o t, i, v) <=> Ends(s, i, v)
    BY <2>2, ConcatNews DEF SameNews
  <2>5. /\ Mentions(s \o d, i) <=> Mentions(s, i) \/ Mentions(d, i)
        /\ Mentions(d, i) => \A v : Ends(s \o d, i, v) <=> Ends(d, i, v)
        /\ ~Mentions(d, i) => \A v : Ends(s \o d, i, v) <=> Ends(s, i, v)
    BY <2>2, ConcatNews DEF SameNews
  <2>6. Mentions(s \o t, i) <=> Mentions(s \o d, i)
    BY <2>2, <2>4, <2>5 DEF SameNews
  <2>7. \A v : Ends(s \o t, i, v) <=> Ends(s \o d, i, v)
    BY <2>2, <2>4, <2>5 DEF SameNews
  <2>8. SameNews((s \o t) \o <<>>, s \o t, i)
    BY <2>4, NoNews, OtherNews DEF SameNews
  <2> QED BY <2>1, <2>3, <2>6, <2>7, <2>8 DEF Leaves, SameNews
<1> QED BY <1>0, <1>1, <1>6, <1>7, <1>8 DEF NotesInv

\* A message is read: the rest of them leaves the client with the same belief.
LEMMA NotesRead ==
    ASSUME NotesInv, NEW c \in Observers, Notes!handle_system_message(c)
    PROVE  NotesInv'
<1> DEFINE m == Head(socket[c])
           r == Tail(socket[c])
<1>0. /\ UNCHANGED <<exp_state, pending, data, registered, missed>> /\ socket[c] # <<>>
      /\ seen' = [seen EXCEPT ![c][m[1]] = m[2]]
      /\ socket' = [socket EXCEPT ![c] = r]
  BY DEF Notes!handle_system_message
<1>1. NotesForm /\ DataOwned /\ DataCurrent
  BY DEF NotesInv
<1>2. DataOwned' /\ DataCurrent'
  BY <1>0, <1>1 DEF DataOwned, DataCurrent
<1> DEFINE R == {socket[c][k] : k \in DOMAIN socket[c]}
<1>3. socket[c] \in Seq(R)
  BY <1>1 DEF NotesForm, IsList
<1>4. /\ socket[c] = <<m>> \o r /\ m \in R /\ r \in Seq(R)
  <2> DEFINE s == socket[c]
  <2> HIDE DEF R, s
  <2>0. s \in Seq(R) /\ s # <<>> /\ m = Head(s) /\ r = Tail(s)
    BY <1>0, <1>3 DEF s
  <2> HIDE DEF m, r
  <2>1. m \in R /\ r \in Seq(R) /\ Len(r) = Len(s) - 1 /\ \A k \in 1..Len(r) : r[k] = s[k + 1]
    BY <2>0, HeadTailProperties
  <2>2. m = s[1] /\ Len(s) \in Nat /\ Len(s) >= 1
    BY <2>0
  <2>3. <<m>> \in Seq(R) /\ Len(<<m>>) = 1 /\ <<m>>[1] = m
    BY <2>1
  <2>4. <<m>> \o r \in Seq(R) /\ Len(<<m>> \o r) = Len(s)
    BY <2>1, <2>2, <2>3, ConcatProperties
  <2>5. ASSUME NEW k \in 1..Len(s) PROVE s[k] = (<<m>> \o r)[k]
    <3>1. (<<m>> \o r)[k] = IF k <= 1 THEN <<m>>[k] ELSE r[k - 1]
      BY <2>1, <2>2, <2>3, ConcatProperties
    <3>2. CASE k = 1
      BY <3>1, <3>2, <2>2, <2>3
    <3>3. CASE k # 1
      <4>1. k - 1 \in 1..Len(r) /\ ~(k <= 1) /\ (k - 1) + 1 = k
        BY <3>3, <2>1, <2>2
      <4> QED BY <3>1, <4>1, <2>1
    <3> QED BY <3>2, <3>3
  <2>6. s = <<m>> \o r
    BY <2>0, <2>4, <2>5, SeqEqual
  <2> QED BY <2>1, <2>6 DEF s
<1>5. IsList(r)
  BY <1>4, ListOfSeq
<1> HIDE DEF R, r, m
<1>6. /\ IsFunctionOn(socket', Observers) /\ socket'[c] = r
      /\ \A x \in Observers : x # c => socket'[x] = socket[x]
  BY <1>0, <1>1 DEF NotesForm, IsFunctionOn
<1>7. /\ IsFunctionOn(seen', Observers)
      /\ seen'[c] = [seen[c] EXCEPT ![m[1]] = m[2]]
      /\ \A x \in Observers : x # c => seen'[x] = seen[x]
  BY <1>0, <1>1 DEF NotesForm, IsFunctionOn
<1>8. /\ IsFunctionOn(seen'[c], Notes!Items)
      /\ \A i \in Notes!Items : seen'[c][i] = IF i = m[1] THEN m[2] ELSE seen[c][i]
  <2>1. IsFunctionOn(seen[c], Notes!Items)
    BY <1>1 DEF NotesForm
  <2> QED BY <1>7, <2>1 DEF IsFunctionOn
<1>9. NotesForm'
  <2>1. \A x \in Observers : IsFunctionOn(seen'[x], Notes!Items) /\ IsList(socket'[x])
    BY <1>1, <1>5, <1>6, <1>7, <1>8 DEF NotesForm
  <2> QED BY <1>0, <1>1, <1>6, <1>7, <2>1 DEF NotesForm
<1>10. ASSUME NEW x \in Observers, NEW i \in Notes!Items PROVE WillKnow(x, i)'
  <2>0. WillKnow(x, i)
    BY DEF NotesInv
  <2>1. CASE x # c
    BY <2>0, <2>1, <1>0, <1>6, <1>7 DEF WillKnow
  <2>2. CASE x = c
    <3> DEFINE d == data[Notes!AlertOf(i)]
               v == exp_state[i]
               u == seen[c][i]
    <3> SUFFICES ASSUME Leaves(socket[c] \o d, i, u, v) PROVE Leaves(r \o d, i, seen'[c][i], v)
      BY <2>0, <2>2, <1>0, <1>6 DEF WillKnow
    <3>1. IsList(d) /\ IsList(r) /\ IsList(<<m>>)
      BY <1>1, <1>5, AlertFacts, SingleNews DEF NotesForm
    <3>2. socket[c] \o d = <<m>> \o (r \o d)
      <4> DEFINE S == R \cup {d[k] : k \in DOMAIN d}
      <4>1. d \in Seq(S) /\ r \in Seq(S) /\ <<m>> \in Seq(S)
        <5>1. d \in Seq(S)
          BY <3>1, SeqMonotonic DEF IsList
        <5>2. r \in Seq(S) /\ m \in S
          BY <1>4, SeqMonotonic
        <5> HIDE DEF S
        <5> QED BY <5>1, <5>2
      <4> DEFINE h == <<m>>
      <4> HIDE DEF S, d, h
      <4>2. h \in Seq(S) /\ r \in Seq(S) /\ d \in Seq(S)
        BY <4>1 DEF h, d
      <4>3. (h \o r) \o d = h \o (r \o d)
        BY <4>2, ConcatAssociative
      <4> QED BY <4>3, <1>4, Zenon DEF h, d
    <3> HIDE DEF d, v, u
    <3>3. IsList(r \o d)
      BY <3>1, ConcatNews
    <3> DEFINE t == r \o d
    <3> HIDE DEF t
    <3>4. /\ Mentions(<<m>> \o t, i) <=> Mentions(<<m>>, i) \/ Mentions(t, i)
          /\ Mentions(t, i) => \A w : Ends(<<m>> \o t, i, w) <=> Ends(t, i, w)
          /\ ~Mentions(t, i) => \A w : Ends(<<m>> \o t, i, w) <=> Ends(<<m>>, i, w)
      BY <3>1, <3>3, ConcatNews DEF t
    <3>5. Leaves(<<m>> \o t, i, u, v)
      BY <3>2 DEF t
    <3>6. /\ Mentions(<<m>>, i) <=> m[1] = i
          /\ Ends(<<m>>, i, v) <=> (m[1] = i => Same(i, m[2], v))
      BY SingleNews
    <3>7. seen'[c][i] = IF i = m[1] THEN m[2] ELSE u
      BY <1>8 DEF u
    <3>8. CASE Mentions(t, i)
      BY <3>4, <3>5, <3>8 DEF Leaves, t
    <3>9. CASE ~Mentions(t, i)
      <4>1. Ends(t, i, v)
        BY <3>9 DEF Ends, Mentions
      <4>2. Same(i, seen'[c][i], v)
        BY <3>4, <3>5, <3>6, <3>7, <3>9 DEF Leaves
      <4> QED BY <4>1, <4>2 DEF Leaves, t
    <3> QED BY <3>8, <3>9
  <2> QED BY <2>1, <2>2
<1> QED BY <1>2, <1>9, <1>10 DEF NotesInv

\* Nothing is pending at the start, and everybody knows the state.
LEMMA NotesStart == Notes!Init => NotesInv
<1> SUFFICES ASSUME Notes!Init PROVE NotesInv
  OBVIOUS
<1>1. /\ pending = {} /\ missed = {} /\ data = [a \in Notes!Alerts |-> <<>>]
      /\ registered = [c \in Observers |-> {}] /\ socket = [c \in Observers |-> <<>>]
      /\ seen = [c \in Observers |-> exp_state]
  BY DEF Notes!Init
<1>2. IsFunctionOn(exp_state, Notes!Items)
  BY DEF Notes!Init, IsFunctionOn, Notes!Items
<1>5. IsList(<<>>) /\ \A i \in Notes!Items : ~Mentions(<<>>, i) /\ \A v : Ends(<<>>, i, v)
  BY NoNews
<1>6. NotesForm
  BY <1>1, <1>2, <1>5 DEF NotesForm, IsFunctionOn
<1>7. DataOwned /\ DataCurrent
  BY <1>1, <1>5, AlertFacts DEF DataOwned, DataCurrent
<1>8. \A c \in Observers, i \in Notes!Items : WillKnow(c, i)
  BY <1>1 DEF WillKnow
<1> QED BY <1>6, <1>7, <1>8 DEF NotesInv

LEMMA NotesStep == NotesInv /\ Notes!Next => NotesInv'
BY NotesChange, NotesProcess, NotesRegister, NotesLeave, NotesRead DEF Notes!Next

LEMMA NotesStutter == NotesInv /\ UNCHANGED noteVars => NotesInv'
<1> SUFFICES ASSUME NotesInv, UNCHANGED noteVars PROVE NotesInv'
  OBVIOUS
<1>1. UNCHANGED <<exp_state, pending, data, registered, socket, seen, missed>>
  BY DEF noteVars
<1> QED BY <1>1 DEF NotesInv, NotesForm, DataOwned, DataCurrent, WillKnow

\* With nothing pending and nothing to read the belief is the state, as far as it is
\* followed.
LEMMA NotesSafe == NotesInv => ObserversUpToDate
<1> SUFFICES ASSUME NotesInv, NEW c \in Observers, NEW i \in Notes!Items,
                    pending = {}, socket[c] = <<>>, c \notin missed,
                    Notes!AlertOf(i) \in registered[c]
             PROVE  Same(i, seen[c][i], exp_state[i])
  BY DEF ObserversUpToDate, Notes!ObserversUpToDate, Same
<1>1. data[Notes!AlertOf(i)] = <<>>
  BY AlertFacts DEF NotesInv, DataOwned
<1>2. Leaves(<<>> \o <<>>, i, seen[c][i], exp_state[i])
  BY <1>1 DEF NotesInv, WillKnow
<1>3. ~Mentions(<<>> \o <<>>, i)
  BY NoNews, ConcatNews
<1> QED BY <1>2, <1>3 DEF Leaves

\* Once the alerts are processed and a client has read its messages, it believes what the
\* server's state is, for all that it registered for and unless it lost a message or took
\* an old one for news, whatever requests came in between; of mute it believes whether the
\* output is muted, not by which of mute and user_mute nor whether mute is locked.
THEOREM ObserversKeepUp == MCSpec => []ObserversUpToDate
<1>1. MCInit => NotesInv
  BY NotesStart DEF MCInit
<1>2. NotesInv /\ [MCNext]_mcVars => NotesInv'
  BY NotesStep, NotesStutter DEF MCNext, mcVars, noteVars
<1> QED BY <1>1, <1>2, NotesSafe, PTL DEF MCSpec
=============================================================================
