---------------------------- MODULE ClientProofs ----------------------------
(***************************************************************************)
(* Proofs about the client library as MCClient composes it, for any number *)
(* of threads, updates and path components: streams outlive their audio    *)
(* thread, the exported server state is read whole and only while it is    *)
(* mapped, and cras_file_wait misses no creation while it has a watch.     *)
(***************************************************************************)
EXTENDS MCClient, TLAPS

-----------------------------------------------------------------------------
(* The audio thread of a stream.                                           *)

\* Until start_aud_thread has returned nothing else happens to the stream, so a
\* freed stream is never started again.
ThreadInv ==
    /\ started # "done" => control = "ready" /\ audEof = FALSE /\ at \in {"none", "start"}
    /\ Thread!FreedAfterExit

LEMMA ThreadInit == Thread!Init => ThreadInv
  BY DEF Thread!Init, ThreadInv, Thread!FreedAfterExit

LEMMA ThreadNext == ThreadInv /\ [Thread!Next]_threadVars => ThreadInv'
<1> SUFFICES ASSUME ThreadInv, [Thread!Next]_threadVars PROVE ThreadInv'
  OBVIOUS
<1> USE DEF ThreadInv, Thread!FreedAfterExit
<1>1. CASE Thread!start_aud_thread
  BY <1>1 DEF Thread!start_aud_thread
<1>2. CASE Thread!stream_connected
  BY <1>2 DEF Thread!stream_connected
<1>3. CASE Thread!stop_aud_thread
  BY <1>3 DEF Thread!stop_aud_thread
<1>9. CASE Thread!stream_connected_fails \/ Thread!stream_connected_joins
  BY <1>9 DEF Thread!stream_connected_fails, Thread!stream_connected_joins
<1>4. CASE Thread!client_thread_rm_stream
  BY <1>4 DEF Thread!client_thread_rm_stream
<1>5. CASE Thread!handle_stream_message
  BY <1>5 DEF Thread!handle_stream_message
<1>6. CASE Thread!AudioThread
  <2>1. CASE Thread!Broadcast
    BY <2>1 DEF Thread!Broadcast
  <2>2. CASE Thread!CheckRunning
    BY <2>2 DEF Thread!CheckRunning
  <2>3. CASE Thread!ChooseFd
    BY <2>3 DEF Thread!ChooseFd
  <2>4. CASE Thread!read_with_wake_fd
    BY <2>4 DEF Thread!read_with_wake_fd
  <2>5. CASE Thread!handle_message
    BY <2>5 DEF Thread!handle_message
  <2> QED BY <1>6, <2>1, <2>2, <2>3, <2>4, <2>5 DEF Thread!AudioThread
<1>7. CASE Thread!ServerAsks \/ Thread!ServerCloses
  BY <1>7 DEF Thread!ServerAsks, Thread!ServerCloses
<1>8. CASE UNCHANGED threadVars
  BY <1>8 DEF threadVars
<1> QED BY <1>1, <1>2, <1>3, <1>4, <1>5, <1>6, <1>7, <1>8, <1>9 DEF Thread!Next

-----------------------------------------------------------------------------
(* The exported server state.                                              *)

ShmType ==
    /\ update_count \in Nat
    /\ words \in [{1, 2} -> Nat]
    /\ wpc \in [Writers -> {"idle", "first", "second", "complete"}]
    /\ rpc \in [Readers -> {"idle", "begin", "first", "second", "end"}]
    /\ getter \in [Readers -> Getters]
    /\ version \in [Readers -> Nat]
    /\ copy \in [Readers -> [{1, 2} -> Nat]]
    /\ result \in [Readers -> [{1, 2} -> Nat]]
    /\ page \in BOOLEAN /\ rwlock \subseteq Readers

\* One writer at a time, between an odd count and the next even one; the words
\* differ only between its two stores.
WriterAlone ==
    /\ \A w \in Writers : wpc[w] # "idle" => update_lock = {w}
    /\ update_count % 2 = (IF update_lock = {} THEN 0 ELSE 1)
    /\ words[1] # words[2] => \E w \in Writers : wpc[w] = "second"

\* A copy made at a count that has not moved is a copy of the page.
CopyCurrent ==
    \A r \in Readers :
        /\ rpc[r] \in {"first", "second", "end"} =>
                version[r] <= update_count /\ version[r] % 2 = 0
        /\ rpc[r] \in {"second", "end"} /\ version[r] = update_count =>
                copy[r][1] = words[1]
        /\ rpc[r] = "end" /\ version[r] = update_count => copy[r][2] = words[2]

\* A reader past server_state_rdlock holds the lock that keeps the page mapped;
\* cras_client_get_input_devices goes on without it.
ReadersHold ==
    /\ rwlock # {} => page
    /\ \A r \in Readers :
         rpc[r] # "idle" /\ getter[r] # "inputs" => r \in rwlock

\* What a getter that looks at the count returns is the page at one moment.
ResultsWhole ==
    \A r \in Readers : getter[r] # "first_node" => result[r][1] = result[r][2]

ShmInv == ShmType /\ WriterAlone /\ CopyCurrent /\ ReadersHold /\ ResultsWhole

LEMMA ShmInit == Shm!Init => ShmInv
<1> SUFFICES ASSUME Shm!Init PROVE ShmInv
  OBVIOUS
<1> USE DEF Shm!Init, Shm!Nothing
<1>1. words \in [{1, 2} -> Nat] /\ words[1] = words[2] /\ words[1] = 0
  OBVIOUS
<1>2. ShmType
  BY <1>1 DEF ShmType
<1>3. WriterAlone /\ CopyCurrent
  BY <1>1 DEF WriterAlone, CopyCurrent
<1>4. ReadersHold
  BY DEF ReadersHold
<1>5. ResultsWhole
  BY DEF ResultsWhole
<1> QED BY <1>2, <1>3, <1>4, <1>5 DEF ShmInv

LEMMA ShmUpdate == ShmInv /\ Shm!Update => ShmInv'
<1> SUFFICES ASSUME ShmInv, Shm!Update PROVE ShmInv'
  OBVIOUS
<1> USE DEF ShmInv, Shm!client
<1>1. PICK w \in Writers : \/ Shm!cras_system_state_update_begin(w)
                          \/ Shm!WriteFirst(w)
                          \/ Shm!WriteSecond(w)
                          \/ Shm!cras_system_state_update_complete(w)
  BY DEF Shm!Update
<1>2. UNCHANGED Shm!client
  BY DEF Shm!Update
<1>3. ReadersHold' /\ ResultsWhole'
  BY <1>2 DEF ReadersHold, ResultsWhole
<1>4. CASE Shm!cras_system_state_update_begin(w)
  <2>1. ShmType'
    BY <1>2, <1>4 DEF ShmType, Shm!cras_system_state_update_begin
  <2>2. WriterAlone'
    <3>1. update_count % 2 = 0 /\ update_count \in Nat
      BY <1>4 DEF ShmType, WriterAlone, Shm!cras_system_state_update_begin
    <3>2. (update_count + 1) % 2 = 1
      BY ONLY <3>1
    <3> QED BY <1>4, <3>2 DEF ShmType, WriterAlone, Shm!cras_system_state_update_begin
  <2>3. CopyCurrent'
    BY <1>2, <1>4 DEF ShmType, CopyCurrent, Shm!cras_system_state_update_begin
  <2> QED BY <1>3, <2>1, <2>2, <2>3
<1>5. CASE Shm!WriteFirst(w)
  <2>1. ShmType'
    BY <1>2, <1>5 DEF ShmType, Shm!WriteFirst
  <2>2. WriterAlone'
    BY <1>5 DEF ShmType, WriterAlone, Shm!WriteFirst
  <2>3. update_count % 2 = 1
    BY <1>5 DEF WriterAlone, Shm!WriteFirst
  <2>4. \A r \in Readers : rpc[r] \in {"first", "second", "end"} => version[r] # update_count
    <3> TAKE r \in Readers
    <3> HAVE rpc[r] \in {"first", "second", "end"}
    <3>1. version[r] % 2 = 0
      BY DEF CopyCurrent
    <3> QED BY <2>3, <3>1
  <2>5. CopyCurrent'
    BY <1>2, <1>5, <2>4 DEF ShmType, CopyCurrent, Shm!WriteFirst
  <2> QED BY <1>3, <2>1, <2>2, <2>5
<1>6. CASE Shm!WriteSecond(w)
  <2>1. ShmType'
    BY <1>2, <1>6 DEF ShmType, Shm!WriteSecond
  <2>2. WriterAlone'
    BY <1>6 DEF ShmType, WriterAlone, Shm!WriteSecond
  <2>3. update_count % 2 = 1
    BY <1>6 DEF WriterAlone, Shm!WriteSecond
  <2>4. \A r \in Readers : rpc[r] \in {"first", "second", "end"} => version[r] # update_count
    <3> TAKE r \in Readers
    <3> HAVE rpc[r] \in {"first", "second", "end"}
    <3>1. version[r] % 2 = 0
      BY DEF CopyCurrent
    <3> QED BY <2>3, <3>1
  <2>5. CopyCurrent'
    BY <1>2, <1>6, <2>4 DEF ShmType, CopyCurrent, Shm!WriteSecond
  <2> QED BY <1>3, <2>1, <2>2, <2>5
<1>7. CASE Shm!cras_system_state_update_complete(w)
  <2>1. ShmType'
    BY <1>2, <1>7 DEF ShmType, Shm!cras_system_state_update_complete
  <2>2. WriterAlone'
    <3>1. update_count % 2 = 1 /\ update_count \in Nat
      BY <1>7 DEF ShmType, WriterAlone, Shm!cras_system_state_update_complete
    <3>2. (update_count + 1) % 2 = 0
      BY ONLY <3>1
    <3>3. /\ wpc[w] = "complete" /\ wpc' = [wpc EXCEPT ![w] = "idle"] /\ DOMAIN wpc = Writers
          /\ update_count' = update_count + 1 /\ update_lock' = {} /\ words' = words
      BY <1>7 DEF ShmType, Shm!cras_system_state_update_complete
    <3>4. \A x \in Writers : wpc[x] # "idle" => x = w
      BY <1>7, <3>3 DEF WriterAlone
    <3>5. \A x \in Writers : wpc'[x] = "idle"
      BY <3>3, <3>4
    <3>6. words[1] = words[2]
      BY <3>3, <3>4 DEF WriterAlone
    <3> QED BY <3>2, <3>3, <3>5, <3>6 DEF WriterAlone
  <2>3. CopyCurrent'
    BY <1>2, <1>7 DEF ShmType, CopyCurrent, Shm!cras_system_state_update_complete
  <2> QED BY <1>3, <2>1, <2>2, <2>3
<1> QED BY <1>1, <1>4, <1>5, <1>6, <1>7

LEMMA ShmRead == ShmInv /\ Shm!Read => ShmInv'
<1> SUFFICES ASSUME ShmInv, Shm!Read PROVE ShmInv'
  OBVIOUS
<1> USE DEF ShmInv, ShmType, Shm!server
<1>1. PICK r \in Readers : \/ Shm!server_state_rdlock(r)
                          \/ Shm!begin_server_state_read(r)
                          \/ Shm!CopyFirst(r)
                          \/ Shm!CopySecond(r)
                          \/ Shm!FinishRead(r)
  BY DEF Shm!Read
<1>2. UNCHANGED Shm!server
  BY DEF Shm!Read
<1>3. WriterAlone'
  BY <1>2 DEF WriterAlone
<1>4. CASE Shm!server_state_rdlock(r)
  <2> USE <1>2, <1>4 DEF Shm!server_state_rdlock
  <2>1. ShmType'
    OBVIOUS
  <2>2. CopyCurrent'
    BY DEF CopyCurrent
  <2>3. ReadersHold'
    BY DEF ReadersHold
  <2>4. ResultsWhole'
    BY DEF ResultsWhole
  <2> QED BY <1>3, <2>1, <2>2, <2>3, <2>4
<1>5. CASE Shm!begin_server_state_read(r)
  <2> USE <1>2, <1>5 DEF Shm!begin_server_state_read
  <2>1. ShmType'
    OBVIOUS
  <2>2. CopyCurrent'
    BY DEF CopyCurrent
  <2>3. ReadersHold'
    BY DEF ReadersHold
  <2>4. ResultsWhole'
    BY DEF ResultsWhole
  <2> QED BY <1>3, <2>1, <2>2, <2>3, <2>4
<1>6. CASE Shm!CopyFirst(r)
  <2> USE <1>2, <1>6 DEF Shm!CopyFirst
  <2>1. ShmType'
    OBVIOUS
  <2>2. CopyCurrent'
    BY DEF CopyCurrent
  <2>3. ReadersHold'
    BY DEF ReadersHold
  <2>4. ResultsWhole'
    BY DEF ResultsWhole
  <2> QED BY <1>3, <2>1, <2>2, <2>3, <2>4
<1>7. CASE Shm!CopySecond(r)
  <2> USE <1>2, <1>7 DEF Shm!CopySecond
  <2>1. ShmType'
    OBVIOUS
  <2>2. CopyCurrent'
    BY DEF CopyCurrent
  <2>3. ReadersHold'
    BY DEF ReadersHold
  <2>4. ResultsWhole'
    BY DEF ResultsWhole
  <2> QED BY <1>3, <2>1, <2>2, <2>3, <2>4
<1>8. CASE Shm!FinishRead(r)
  <2> USE <1>2, <1>8 DEF Shm!FinishRead
  <2>1. ShmType'
    OBVIOUS
  <2>2. CopyCurrent'
    BY DEF CopyCurrent
  <2>3. ReadersHold'
    BY DEF ReadersHold
  <2>4. ASSUME Shm!end_server_state_read(r) PROVE copy[r][1] = copy[r][2]
    <3>1. version[r] = update_count /\ update_count % 2 = 0
      BY <2>4 DEF Shm!end_server_state_read, CopyCurrent
    <3>2. update_lock = {}
      BY <3>1 DEF WriterAlone
    <3>3. words[1] = words[2]
      BY <3>2 DEF WriterAlone
    <3> QED BY <3>1, <3>3 DEF CopyCurrent
  <2>5. ResultsWhole'
    BY <2>4 DEF ResultsWhole
  <2> QED BY <1>3, <2>1, <2>2, <2>3, <2>5
<1> QED BY <1>1, <1>4, <1>5, <1>6, <1>7, <1>8

LEMMA ShmNext == ShmInv /\ [Shm!Next]_shmVars => ShmInv'
<1> SUFFICES ASSUME ShmInv, [Shm!Next]_shmVars PROVE ShmInv'
  OBVIOUS
<1>1. CASE Shm!Connection
  BY <1>1 DEF ShmInv, ShmType, WriterAlone, CopyCurrent, ReadersHold, ResultsWhole,
              Shm!Connection, Shm!Unmap, Shm!client_attach_shm, Shm!server
<1>2. CASE UNCHANGED shmVars
  BY <1>2 DEF shmVars, ShmInv, ShmType, WriterAlone, CopyCurrent, ReadersHold, ResultsWhole
<1> QED BY <1>1, <1>2, ShmUpdate, ShmRead DEF Shm!Next

-----------------------------------------------------------------------------
(* Waiting for the socket file.                                            *)

EventType == [kind : {"create", "delete", "ignored"}, current : BOOLEAN]

WaitType ==
    /\ exists \in 0..Depth
    /\ watch \in 0..Depth - 1 \cup {Wait!None}
    /\ target \in 1..Depth
    /\ attached \in BOOLEAN /\ told \in BOOLEAN
    /\ step \in {"add", "access", "idle", "process", "dead"}
    /\ status \in {"new", "ok", "failed"}
    /\ notices \in Seq(EventType) /\ buffer \in Seq(EventType)

\* What the dispatcher has not looked at yet, oldest first.
Unprocessed == buffer \o notices

Happened(q, i, kind) == i \in 1..Len(q) /\ q[i].current /\ q[i].kind = kind

AllStale(q) == \A i \in 1..Len(q) : ~q[i].current

\* The last thing the queue has to say of the file is that it is there.
Announced(q) ==
    \E i \in 1..Len(q) : /\ Happened(q, i, "create")
                        /\ \A j \in i + 1 .. Len(q) : ~Happened(q, j, "delete")

NoDelete(q) == \A i \in 1..Len(q) : ~Happened(q, i, "delete")

\* Where the watch is at each step of cras_file_wait_dispatch.
WatchPlaced ==
    /\ step # "process" => buffer = <<>>
    /\ step = "add" => watch = Wait!None
    /\ step = "access" => watch = target - 1
    /\ step = "idle" => watch # Wait!None \/ status = "failed"
    /\ watch = Wait!None => attached = FALSE /\ AllStale(Unprocessed)

\* A watch the kernel has dropped is announced by IN_IGNORED, its last event.
LostWatchTold ==
    /\ attached => \A i \in 1..Len(Unprocessed) : ~Happened(Unprocessed, i, "ignored")
    /\ ~attached /\ watch # Wait!None =>
         \E i \in 1..Len(Unprocessed) : Happened(Unprocessed, i, "ignored")
    /\ \A i, j \in 1..Len(Unprocessed) :
         Happened(Unprocessed, i, "ignored") /\ i < j => ~Unprocessed[j].current

\* The next directory on the way to the file does not appear unnoticed ...
DirectoryNoticed ==
    attached /\ watch < Depth - 1 /\ step \in {"idle", "process"} /\ exists > watch =>
        \E i \in 1..Len(Unprocessed) : Unprocessed[i].current

\* ... and neither does the file.
FileNoticed ==
    attached /\ watch = Depth - 1 /\ exists = Depth =>
        \/ Announced(Unprocessed)
        \/ NoDelete(Unprocessed) /\ (step # "access" => told)

WaitInv == WaitType /\ WatchPlaced /\ LostWatchTold /\ DirectoryNoticed /\ FileNoticed

(* The queue under the operations of the dispatcher and of inotify. *)
LEMMA QueueAppend ==
  ASSUME NEW b \in Seq(EventType), NEW q \in Seq(EventType), NEW e \in EventType
  PROVE  b \o Append(q, e) = Append(b \o q, e)
  OBVIOUS

LEMMA QueuePop ==
  ASSUME NEW b \in Seq(EventType), NEW q \in Seq(EventType), b # <<>>
  PROVE  Tail(b) \o q = Tail(b \o q) /\ Head(b) = (b \o q)[1]
  OBVIOUS

LEMMA QueueRead ==
  ASSUME NEW q \in Seq(EventType), NEW n \in 1..Len(q)
  PROVE  /\ SubSeq(q, 1, n) \in Seq(EventType)
         /\ SubSeq(q, n + 1, Len(q)) \in Seq(EventType)
         /\ SubSeq(q, 1, n) \o SubSeq(q, n + 1, Len(q)) = q
  OBVIOUS

LEMMA QueueStale ==
  ASSUME NEW q \in Seq(EventType)
  PROVE  /\ Wait!Stale(q) \in Seq(EventType) /\ Len(Wait!Stale(q)) = Len(q)
         /\ AllStale(Wait!Stale(q))
<1>1. \A i \in 1..Len(q) : q[i] \in EventType
  OBVIOUS
<1>2. ASSUME NEW e \in EventType
      PROVE  [e EXCEPT !.current = FALSE] \in EventType /\ [e EXCEPT !.current = FALSE].current = FALSE
  BY DEF EventType
<1>3. Wait!Stale(q) \in Seq(EventType) /\ Len(Wait!Stale(q)) = Len(q)
  BY <1>1, <1>2 DEF Wait!Stale
<1>4. \A i \in 1..Len(q) : Wait!Stale(q)[i].current = FALSE
  BY <1>1, <1>2 DEF Wait!Stale
<1> QED BY <1>3, <1>4 DEF AllStale

LEMMA QueueStaleBoth ==
  ASSUME NEW b \in Seq(EventType), NEW q \in Seq(EventType), AllStale(b), AllStale(q)
  PROVE  AllStale(b \o q)
  BY DEF AllStale

LEMMA QueueTail ==
  ASSUME NEW q \in Seq(EventType), q # <<>>
  PROVE  LET t == Tail(q) IN
         /\ t \in Seq(EventType) /\ Len(t) = Len(q) - 1 /\ Len(q) \in Nat \ {0}
         /\ \A i \in 1..Len(t) : t[i] = q[i + 1]
         /\ AllStale(q) => AllStale(t)
         /\ \A i \in 1..Len(t) : Happened(t, i, "ignored") <=> Happened(q, i + 1, "ignored")
         /\ ~Happened(q, 1, "ignored") /\ (\E i \in 1..Len(q) : Happened(q, i, "ignored"))
              => \E i \in 1..Len(t) : Happened(t, i, "ignored")
         /\ NoDelete(q) => NoDelete(t) /\ ~Happened(q, 1, "delete")
         /\ Announced(q) => Announced(t) \/ (NoDelete(t) /\ Happened(q, 1, "create"))
<1> DEFINE t == Tail(q)
<1>1. /\ t \in Seq(EventType) /\ Len(t) = Len(q) - 1 /\ Len(q) \in Nat \ {0}
      /\ \A i \in 1..Len(t) : t[i] = q[i + 1]
  OBVIOUS
<1> HIDE DEF t
<1>2. \A i \in 1..Len(q) : i # 1 => i - 1 \in 1..Len(t) /\ (i - 1) + 1 = i
  BY <1>1
<1>3. \A i \in 1..Len(t) : i + 1 \in 1..Len(q) /\ i + 1 # 1
  BY <1>1
<1>4. AllStale(q) => AllStale(t)
  BY <1>1, <1>3 DEF AllStale
<1>5. ASSUME NEW i \in 1..Len(t), NEW kind
      PROVE  Happened(t, i, kind) <=> Happened(q, i + 1, kind)
  BY <1>1, <1>3, Zenon DEF Happened
<1>6. ASSUME ~Happened(q, 1, "ignored"), NEW i \in 1..Len(q), Happened(q, i, "ignored")
      PROVE  \E j \in 1..Len(t) : Happened(t, j, "ignored")
  <2>1. i # 1 /\ i - 1 \in 1..Len(t) /\ (i - 1) + 1 = i
    BY <1>2, <1>6
  <2> QED BY <1>5, <1>6, <2>1, Zenon
<1>7. NoDelete(q) => NoDelete(t) /\ ~Happened(q, 1, "delete")
  <2>1. 1 \in 1..Len(q)
    BY <1>1
  <2> QED BY <1>3, <1>5, <2>1, Zenon DEF NoDelete
<1>8. ASSUME Announced(q) PROVE Announced(t) \/ (NoDelete(t) /\ Happened(q, 1, "create"))
  <2>1. PICK i \in 1..Len(q) : /\ Happened(q, i, "create")
                              /\ \A j \in i + 1 .. Len(q) : ~Happened(q, j, "delete")
    BY <1>8 DEF Announced
  <2>2. CASE i = 1
    <3>1. \A j \in 1..Len(t) : j + 1 \in i + 1 .. Len(q)
      BY <1>1, <2>2
    <3> QED BY <1>5, <2>1, <2>2, <3>1, Zenon DEF NoDelete
  <2>3. CASE i # 1
    <3>1. i - 1 \in 1..Len(t) /\ Happened(t, i - 1, "create")
      BY <1>2, <1>5, <2>1, <2>3, Zenon
    <3>2. \A j \in (i - 1) + 1 .. Len(t) : j + 1 \in i + 1 .. Len(q) /\ j \in 1..Len(t)
      BY <1>1, <2>3
    <3>3. \A j \in (i - 1) + 1 .. Len(t) : ~Happened(t, j, "delete")
      BY <1>5, <2>1, <3>2, Zenon
    <3> QED BY <3>1, <3>3, Zenon DEF Announced
  <2> QED BY <2>2, <2>3
<1> QED BY <1>1, <1>4, <1>5, <1>6, <1>7, <1>8, Zenon DEF t

LEMMA WaitInit == Wait!Init => WaitInv
<1> SUFFICES ASSUME Wait!Init PROVE WaitInv
  OBVIOUS
<1> USE ClientAssumption DEF Wait!Init, Wait!None
<1>1. WaitType
  <2>1. attached \in BOOLEAN /\ told \in BOOLEAN
    BY Zenon
  <2>2. /\ exists \in 0..Depth /\ watch \in 0..Depth - 1 \cup {Wait!None} /\ target \in 1..Depth
        /\ step \in {"add", "access", "idle", "process", "dead"}
        /\ status \in {"new", "ok", "failed"}
        /\ notices \in Seq(EventType) /\ buffer \in Seq(EventType)
    OBVIOUS
  <2> QED BY <2>1, <2>2 DEF WaitType
<1>2. Unprocessed = <<>>
  BY DEF Unprocessed
<1>3. WatchPlaced /\ LostWatchTold /\ DirectoryNoticed /\ FileNoticed
  BY <1>2 DEF WatchPlaced, LostWatchTold, DirectoryNoticed, FileNoticed, AllStale
<1> QED BY <1>1, <1>3 DEF WaitInv

\* A component of the path is created.
LEMMA WaitCreate == WaitInv /\ Wait!Create => WaitInv'
<1> SUFFICES ASSUME WaitInv, Wait!Create PROVE WaitInv'
  OBVIOUS
<1> USE ClientAssumption DEF Wait!None
<1>0. WaitType /\ WatchPlaced /\ LostWatchTold /\ DirectoryNoticed /\ FileNoticed
  BY DEF WaitInv
<1>1. /\ exists < Depth /\ exists' = exists + 1
      /\ UNCHANGED <<watch, attached, buffer, step, target, told, status>>
  BY DEF Wait!Create
<1>2. CASE attached /\ watch = exists
  <2> DEFINE e == Wait!Event("create")
  <2>1. e \in EventType /\ e.current = TRUE /\ e.kind = "create"
    BY DEF EventType, Wait!Event
  <2> HIDE DEF e
  <2>2. notices' = Append(notices, e)
    BY <1>2 DEF Wait!Create, e
  <2>3. WaitType'
    BY <1>0, <1>1, <2>1, <2>2 DEF WaitType
  <2>4. Unprocessed' = Append(Unprocessed, e) /\ Unprocessed \in Seq(EventType)
    BY <1>0, <1>1, <2>1, <2>2, QueueAppend DEF WaitType, Unprocessed
  <2> DEFINE q == Unprocessed
             n == Len(Unprocessed)
  <2> HIDE DEF q, n
  <2>5. /\ Len(q') = n + 1 /\ n \in Nat /\ n = Len(q)
        /\ q'[n + 1] = e /\ \A i \in 1..n : q'[i] = q[i]
    BY <2>1, <2>4 DEF q, n
  <2>6. WatchPlaced'
    BY <1>0, <1>1, <1>2 DEF WatchPlaced, WaitType
  <2>7. LostWatchTold'
    <3>1. /\ \A i \in 1..n : ~Happened(q, i, "ignored")
          /\ attached' = attached
      BY <1>0, <1>1, <1>2 DEF LostWatchTold, q, n
    <3>2. \A i \in 1..Len(q') : ~Happened(q', i, "ignored")
      BY <2>1, <2>5, <3>1 DEF Happened
    <3> QED BY <1>2, <3>1, <3>2 DEF LostWatchTold, q
  <2>8. DirectoryNoticed'
    BY <2>1, <2>5 DEF DirectoryNoticed, q
  <2>9. FileNoticed'
    <3>1. Announced(q')
      BY <2>1, <2>5 DEF Announced, Happened
    <3> QED BY <3>1 DEF FileNoticed, q
  <2> QED BY <2>3, <2>6, <2>7, <2>8, <2>9 DEF WaitInv
<1>3. CASE ~(attached /\ watch = exists)
  <2>1. notices' = notices
    BY <1>3 DEF Wait!Create
  <2>2. Unprocessed' = Unprocessed
    BY <1>1, <2>1 DEF Unprocessed
  <2>3. WaitType' /\ WatchPlaced' /\ LostWatchTold'
    BY <1>0, <1>1, <2>1, <2>2 DEF WaitType, WatchPlaced, LostWatchTold
  <2>4. DirectoryNoticed' /\ FileNoticed'
    BY <1>0, <1>1, <1>3, <2>2 DEF WaitType, DirectoryNoticed, FileNoticed
  <2> QED BY <2>3, <2>4 DEF WaitInv
<1> QED BY <1>2, <1>3

\* The last component of the path is deleted.
LEMMA WaitDelete == WaitInv /\ Wait!Delete => WaitInv'
<1> SUFFICES ASSUME WaitInv, Wait!Delete PROVE WaitInv'
  OBVIOUS
<1> USE ClientAssumption DEF Wait!None
<1>0. WaitType /\ WatchPlaced /\ LostWatchTold /\ DirectoryNoticed /\ FileNoticed
  BY DEF WaitInv
<1>1. /\ exists > 0 /\ exists' = exists - 1
      /\ UNCHANGED <<watch, buffer, step, target, told, status>>
  BY DEF Wait!Delete
<1>2. attached' \in BOOLEAN /\ attached' = (attached /\ watch # exists)
  BY Zenon DEF Wait!Delete
<1>3. CASE attached /\ watch \in {exists - 1, exists}
  <2> DEFINE e == Wait!Event(IF watch = exists THEN "ignored" ELSE "delete")
  <2>1. /\ e \in EventType /\ e.current = TRUE
        /\ e.kind = IF watch = exists THEN "ignored" ELSE "delete"
    BY DEF EventType, Wait!Event
  <2>2. notices' = Append(notices, e)
    <3>1. CASE watch = exists
      <4>1. watch # exists - 1
        BY <1>0, <3>1 DEF WaitType
      <4> QED BY <1>3, <3>1, <4>1 DEF Wait!Delete
    <3>2. CASE watch = exists - 1 /\ watch # exists
      BY <1>3, <3>2 DEF Wait!Delete
    <3> QED BY <1>3, <3>1, <3>2
  <2> HIDE DEF e
  <2>3. WaitType'
    BY <1>0, <1>1, <1>2, <2>1, <2>2 DEF WaitType
  <2>4. Unprocessed' = Append(Unprocessed, e) /\ Unprocessed \in Seq(EventType)
    BY <1>0, <1>1, <2>1, <2>2, QueueAppend DEF WaitType, Unprocessed
  <2> DEFINE q == Unprocessed
             n == Len(Unprocessed)
  <2> HIDE DEF q, n
  <2>5. /\ Len(q') = n + 1 /\ n \in Nat /\ n = Len(q)
        /\ q'[n + 1] = e /\ \A i \in 1..n : q'[i] = q[i]
    BY <2>1, <2>4 DEF q, n
  <2>6. WatchPlaced'
    BY <1>0, <1>1, <1>3 DEF WatchPlaced, WaitType
  <2>7. LostWatchTold'
    <3>1. \A i \in 1..n : ~Happened(q, i, "ignored")
      BY <1>0, <1>3 DEF LostWatchTold, q, n
    <3>2. \A i \in 1..n : ~Happened(q', i, "ignored")
      BY <2>5, <3>1 DEF Happened
    <3>3. watch = exists => Happened(q', n + 1, "ignored")
      BY <2>1, <2>5 DEF Happened
    <3>4. watch # exists => ~Happened(q', n + 1, "ignored")
      BY <2>1, <2>5 DEF Happened
    <3>a. (attached' => watch # exists) /\ (~attached' => watch = exists)
      BY <1>2, <1>3, Zenon
    <3>5. watch # exists => \A i \in 1..Len(q') : ~Happened(q', i, "ignored")
      BY <2>5, <3>2, <3>4
    <3>6. watch = exists => \E i \in 1..Len(q') : Happened(q', i, "ignored")
      BY <2>5, <3>3
    <3>7. \A i, j \in 1..Len(q') : Happened(q', i, "ignored") /\ i < j => ~q'[j].current
      BY <2>5, <3>2
    <3> QED BY <3>a, <3>5, <3>6, <3>7 DEF LostWatchTold, q
  <2>8. DirectoryNoticed'
    BY <2>1, <2>5 DEF DirectoryNoticed, q
  <2>9. FileNoticed'
    BY <1>0, <1>1 DEF FileNoticed, WaitType
  <2> QED BY <2>3, <2>6, <2>7, <2>8, <2>9 DEF WaitInv
<1>4. CASE ~(attached /\ watch \in {exists - 1, exists})
  <2>1. notices' = notices
    BY <1>4 DEF Wait!Delete
  <2>2. Unprocessed' = Unprocessed
    BY <1>1, <2>1 DEF Unprocessed
  <2>3. attached' = attached
    BY <1>0, <1>2, <1>4 DEF WaitType
  <2>4. WaitType' /\ WatchPlaced' /\ LostWatchTold'
    BY <1>0, <1>1, <2>1, <2>2, <2>3 DEF WaitType, WatchPlaced, LostWatchTold
  <2>5. DirectoryNoticed' /\ FileNoticed'
    BY <1>0, <1>1, <1>4, <2>2, <2>3 DEF WaitType, DirectoryNoticed, FileNoticed
  <2> QED BY <2>4, <2>5 DEF WaitInv
<1> QED BY <1>3, <1>4

\* The dispatcher reads what fits its buffer.
LEMMA WaitRead == WaitInv /\ Wait!ReadEvents => WaitInv'
<1> SUFFICES ASSUME WaitInv, Wait!ReadEvents PROVE WaitInv'
  OBVIOUS
<1>0. WaitType /\ WatchPlaced /\ LostWatchTold /\ DirectoryNoticed /\ FileNoticed
  BY DEF WaitInv
<1>1. /\ step = "idle" /\ step' = "process" /\ buffer = <<>>
      /\ UNCHANGED <<exists, watch, attached, target, told, status>>
  BY <1>0 DEF Wait!ReadEvents, WatchPlaced
<1>2. PICK n \in 1..Len(notices) : /\ buffer' = SubSeq(notices, 1, n)
                                  /\ notices' = SubSeq(notices, n + 1, Len(notices))
  BY DEF Wait!ReadEvents
<1>3. /\ buffer' \in Seq(EventType) /\ notices' \in Seq(EventType)
      /\ Unprocessed' = Unprocessed
  BY <1>0, <1>1, <1>2, QueueRead DEF WaitType, Unprocessed
<1>4. WaitType' /\ WatchPlaced'
  BY <1>0, <1>1, <1>3 DEF WaitType, WatchPlaced
<1>5. LostWatchTold' /\ DirectoryNoticed' /\ FileNoticed'
  BY <1>0, <1>1, <1>3 DEF LostWatchTold, DirectoryNoticed, FileNoticed
<1> QED BY <1>4, <1>5 DEF WaitInv

\* Whatever drops the watch drops what it has announced with it.
LEMMA WaitDropped ==
  ASSUME WaitType', step' # "access", step' = "idle" => status' = "failed",
         step' # "process" => buffer' = <<>>,
         watch' = Wait!None, attached' = FALSE, AllStale(Unprocessed')
  PROVE  WaitInv'
<1>1. WatchPlaced' /\ DirectoryNoticed' /\ FileNoticed'
  BY DEF WatchPlaced, DirectoryNoticed, FileNoticed
<1>2. LostWatchTold'
  BY DEF LostWatchTold, AllStale, Happened
<1> QED BY <1>1, <1>2 DEF WaitInv

\* The watch is removed, or was already, with some of the buffer left.
LEMMA WaitRemoved ==
  ASSUME WaitType, NEW rest \in Seq(EventType), NEW next \in {"add", "process"},
         Wait!cras_file_wait_rm_watch(rest, next), next = "add" => rest = <<>>,
         UNCHANGED <<exists, told>>, target' \in 1..Depth
  PROVE  WaitInv'
<1> USE DEF Wait!None
<1>1. /\ watch' = Wait!None /\ attached' = FALSE /\ notices' = Wait!Stale(notices)
      /\ buffer' = Wait!Stale(rest) \/ buffer' = <<>>
      /\ step' \in {next, "idle", "dead"} /\ (step' = "idle" => status' = "failed")
      /\ status' \in {"new", "ok", "failed"}
      /\ step' # "process" => buffer' = <<>>
  <2>1. CASE attached
    <3>1. rest = <<>> => Wait!Stale(rest) = <<>>
      BY DEF Wait!Stale
    <3> QED BY <2>1, <3>1 DEF Wait!cras_file_wait_rm_watch, WaitType
  <2>2. CASE ~attached
    BY <2>2 DEF Wait!cras_file_wait_rm_watch
  <2> QED BY <2>1, <2>2
<1>2. notices' \in Seq(EventType) /\ AllStale(notices')
  BY <1>1, QueueStale DEF WaitType
<1>3. buffer' \in Seq(EventType) /\ AllStale(buffer')
  <2>1. <<>> \in Seq(EventType) /\ AllStale(<<>>)
    BY DEF AllStale
  <2> QED BY <1>1, <2>1, QueueStale
<1>4. AllStale(Unprocessed')
  BY <1>2, <1>3, QueueStaleBoth DEF Unprocessed
<1>5. attached' \in BOOLEAN
  BY <1>1, Zenon
<1>6. WaitType'
  BY <1>1, <1>2, <1>3, <1>5 DEF WaitType
<1>7. step' # "access"
  BY <1>1
<1> QED BY <1>1, <1>4, <1>6, <1>7, WaitDropped

\* An event is looked at.
LEMMA WaitProcess == WaitInv /\ Wait!cras_file_wait_process_event => WaitInv'
<1> SUFFICES ASSUME WaitInv, Wait!cras_file_wait_process_event PROVE WaitInv'
  OBVIOUS
<1> USE ClientAssumption DEF Wait!None
<1>0. WaitType /\ WatchPlaced /\ LostWatchTold /\ DirectoryNoticed /\ FileNoticed
  BY DEF WaitInv
<1>1. /\ step = "process" /\ buffer # <<>>
      /\ UNCHANGED <<exists, target>>
  BY DEF Wait!cras_file_wait_process_event
<1> DEFINE q == Unprocessed
           t == Tail(Unprocessed)
           e == Head(buffer)
<1> HIDE DEF q, t, e
<1>2. /\ Tail(buffer) \in Seq(EventType) /\ e \in EventType
      /\ q \in Seq(EventType) /\ q # <<>>
      /\ e = q[1] /\ Tail(buffer) \o notices = t /\ t = Tail(q)
  BY <1>0, <1>1, QueuePop DEF WaitType, Unprocessed, q, t, e
<1>3. /\ t \in Seq(EventType) /\ Len(t) = Len(q) - 1 /\ Len(q) \in Nat \ {0}
      /\ \A i \in 1..Len(t) : t[i] = q[i + 1]
      /\ AllStale(q) => AllStale(t)
      /\ \A i \in 1..Len(t) : Happened(t, i, "ignored") <=> Happened(q, i + 1, "ignored")
      /\ ~Happened(q, 1, "ignored") /\ (\E i \in 1..Len(q) : Happened(q, i, "ignored"))
              => \E i \in 1..Len(t) : Happened(t, i, "ignored")
      /\ NoDelete(q) => NoDelete(t) /\ ~Happened(q, 1, "delete")
      /\ Announced(q) => Announced(t) \/ (NoDelete(t) /\ Happened(q, 1, "create"))
  BY <1>2, QueueTail
<1>4. ASSUME ~Happened(q, 1, "ignored"), UNCHANGED <<watch, attached>>, q' = t
      PROVE  LostWatchTold'
  <2>1. \A i \in 1..Len(t) : i + 1 \in 1..Len(q)
    BY <1>3
  <2>2. attached => \A i \in 1..Len(t) : ~Happened(t, i, "ignored")
    BY <1>0, <1>3, <2>1 DEF LostWatchTold, q
  <2>3. ~attached /\ watch # Wait!None => \E i \in 1..Len(t) : Happened(t, i, "ignored")
    BY <1>0, <1>3, <1>4 DEF LostWatchTold, q
  <2>4. \A i, j \in 1..Len(t) : Happened(t, i, "ignored") /\ i < j => ~t[j].current
    <3> TAKE i, j \in 1..Len(t)
    <3> HAVE Happened(t, i, "ignored") /\ i < j
    <3>1. i + 1 \in 1..Len(q) /\ j + 1 \in 1..Len(q) /\ i + 1 < j + 1
      BY <2>1
    <3>2. Happened(q, i + 1, "ignored")
      BY <1>3
    <3>3. ~q[j + 1].current
      BY <1>0, <3>1, <3>2 DEF LostWatchTold, q
    <3> QED BY <1>3, <3>3
  <2> QED BY <1>4, <2>2, <2>3, <2>4 DEF LostWatchTold, q
<1>5. CASE ~e.current
  <2>1. buffer' = Tail(buffer) /\ UNCHANGED <<watch, attached, notices, told, step, status>>
    BY <1>5 DEF Wait!cras_file_wait_process_event, e
  <2>2. q' = t
    BY <1>2, <2>1 DEF q, Unprocessed
  <2>3. ~Happened(q, 1, "ignored") /\ ~Happened(q, 1, "create")
    BY <1>2, <1>5 DEF Happened
  <2>4. WaitType'
    BY <1>0, <1>1, <1>2, <2>1 DEF WaitType
  <2>5. WatchPlaced'
    BY <1>0, <1>1, <1>3, <2>1, <2>2 DEF WatchPlaced, q
  <2>6. LostWatchTold'
    BY <1>4, <2>1, <2>2, <2>3
  <2>7. DirectoryNoticed'
    <3>1. (\E i \in 1..Len(q) : q[i].current) => \E i \in 1..Len(t) : t[i].current
      <4> SUFFICES ASSUME NEW i \in 1..Len(q), q[i].current PROVE \E j \in 1..Len(t) : t[j].current
        OBVIOUS
      <4>1. i # 1
        BY <1>2, <1>5
      <4>2. i - 1 \in 1..Len(t) /\ t[i - 1] = q[i]
        BY <1>3, <4>1
      <4> QED BY <4>2
    <3> QED BY <1>0, <1>1, <2>1, <2>2, <3>1 DEF DirectoryNoticed, q
  <2>8. FileNoticed'
    BY <1>0, <1>1, <1>3, <2>1, <2>2, <2>3 DEF FileNoticed, q
  <2> QED BY <2>4, <2>5, <2>6, <2>7, <2>8 DEF WaitInv
<1>6. CASE e.current /\ e.kind = "ignored"
  <2>1. /\ watch' = Wait!None /\ buffer' = Wait!Stale(Tail(buffer))
        /\ UNCHANGED <<attached, notices, told, step, status>>
    BY <1>6 DEF Wait!cras_file_wait_process_event, e
  <2>2. Happened(q, 1, "ignored") /\ 1 \in 1..Len(q)
    <3>1. 1 \in 1..Len(q)
      BY <1>3
    <3> QED BY <1>2, <1>6, <3>1, Zenon DEF Happened
  <2>3. attached = FALSE
    <3>1. attached \in BOOLEAN /\ ~attached
      BY <1>0, <2>2 DEF LostWatchTold, WaitType, q
    <3> QED BY <3>1, Zenon
  <2>4. \A i \in 1..Len(t) : ~t[i].current
    <3> TAKE i \in 1..Len(t)
    <3>1. i + 1 \in 1..Len(q) /\ 1 < i + 1
      BY <1>3
    <3>2. ~q[i + 1].current
      BY <1>0, <2>2, <3>1 DEF LostWatchTold, q
    <3> QED BY <1>3, <3>2
  <2>5. AllStale(notices)
    <3>1. \A j \in 1..Len(notices) : /\ Len(Tail(buffer)) + j \in 1..Len(t)
                                     /\ notices[j] = t[Len(Tail(buffer)) + j]
      <4>1. Tail(buffer) \in Seq(EventType) /\ notices \in Seq(EventType)
        BY <1>0, <1>2 DEF WaitType
      <4>2. t = Tail(buffer) \o notices
        BY <1>2
      <4> QED BY ONLY <4>1, <4>2
    <3> QED BY <2>4, <3>1 DEF AllStale
  <2>6. AllStale(Unprocessed')
    BY <1>0, <1>2, <2>1, <2>5, QueueStale, QueueStaleBoth DEF WaitType, Unprocessed
  <2>7. WaitType'
    BY <1>0, <1>1, <1>2, <2>1, QueueStale DEF WaitType
  <2> QED BY <1>1, <2>1, <2>3, <2>6, <2>7, WaitDropped
<1>7. CASE e.current /\ e.kind # "ignored" /\ watch = Depth - 1
  <2>1. /\ buffer' = Tail(buffer) /\ UNCHANGED <<watch, attached, notices, step, status>>
        /\ told' = (e.kind = "create")
    BY <1>7 DEF Wait!cras_file_wait_process_event, e
  <2>2. q' = t
    BY <1>2, <2>1 DEF q, Unprocessed
  <2>3. WaitType'
    <3>1. told' \in BOOLEAN
      BY <2>1, Zenon
    <3> QED BY <1>0, <1>1, <1>2, <2>1, <3>1 DEF WaitType
  <2>4. WatchPlaced'
    BY <1>0, <1>1, <1>7, <2>1 DEF WatchPlaced, WaitType
  <2>5. LostWatchTold'
    <3>1. ~Happened(q, 1, "ignored")
      BY <1>2, <1>7 DEF Happened
    <3> QED BY <1>4, <2>1, <2>2, <3>1
  <2>6. DirectoryNoticed'
    BY <1>7, <2>1 DEF DirectoryNoticed
  <2>7. FileNoticed'
    <3> SUFFICES ASSUME attached, exists = Depth PROVE Announced(t) \/ (NoDelete(t) /\ told')
      BY <1>1, <2>1, <2>2 DEF FileNoticed, q
    <3>1. Announced(q) \/ NoDelete(q)
      BY <1>0, <1>7 DEF FileNoticed, q
    <3>2. CASE e.kind = "delete"
      <4>1. Happened(q, 1, "delete") /\ ~Happened(q, 1, "create")
        <5>1. 1 \in 1..Len(q) /\ e.kind # "create"
          BY <1>3, <3>2
        <5> QED BY <1>2, <1>7, <3>2, <5>1, Zenon DEF Happened
      <4> QED BY <1>3, <3>1, <4>1
    <3>3. CASE e.kind = "create"
      <4>1. told'
        BY <2>1, <3>3, Zenon
      <4> QED BY <1>3, <3>1, <4>1
    <3> QED BY <1>2, <1>7, <3>2, <3>3 DEF EventType
  <2> QED BY <2>3, <2>4, <2>5, <2>6, <2>7 DEF WaitInv
<1>8. CASE e.current /\ e.kind # "ignored" /\ watch # Depth - 1
  <2>1. Wait!cras_file_wait_rm_watch(Tail(buffer), "process") /\ UNCHANGED told
    BY <1>8 DEF Wait!cras_file_wait_process_event, e
  <2>2. target' \in 1..Depth
    BY <1>0, <1>1 DEF WaitType
  <2> QED BY <1>0, <1>1, <1>2, <2>1, <2>2, WaitRemoved
<1> QED BY <1>5, <1>6, <1>7, <1>8

\* The buffer is used up.
LEMMA WaitProcessed == WaitInv /\ Wait!Processed => WaitInv'
<1> SUFFICES ASSUME WaitInv, Wait!Processed PROVE WaitInv'
  OBVIOUS
<1> USE ClientAssumption
<1>0. WaitType /\ WatchPlaced /\ LostWatchTold /\ DirectoryNoticed /\ FileNoticed
  BY DEF WaitInv
<1>1. /\ step = "process" /\ buffer = <<>> /\ target' = Depth
      /\ step' = IF watch = Wait!None THEN "add" ELSE "idle"
      /\ UNCHANGED <<exists, watch, attached, notices, buffer, told, status>>
  BY DEF Wait!Processed
<1>2. Unprocessed' = Unprocessed
  BY <1>1 DEF Unprocessed
<1>3. WaitType'
  BY <1>0, <1>1 DEF WaitType
<1>4. WatchPlaced'
  BY <1>0, <1>1, <1>2 DEF WatchPlaced
<1>5. LostWatchTold' /\ DirectoryNoticed' /\ FileNoticed'
  BY <1>0, <1>1, <1>2 DEF LostWatchTold, DirectoryNoticed, FileNoticed
<1> QED BY <1>3, <1>4, <1>5 DEF WaitInv

\* A directory is watched, or the one above it is tried.
LEMMA WaitAdd == WaitInv /\ Wait!inotify_add_watch => WaitInv'
<1> SUFFICES ASSUME WaitInv, Wait!inotify_add_watch PROVE WaitInv'
  OBVIOUS
<1> USE ClientAssumption DEF Wait!None
<1>0. WaitType /\ WatchPlaced /\ LostWatchTold /\ DirectoryNoticed /\ FileNoticed
  BY DEF WaitInv
<1>1. /\ step = "add" /\ watch = Wait!None /\ buffer = <<>> /\ AllStale(Unprocessed)
      /\ UNCHANGED <<exists, notices, buffer, told>>
  BY <1>0 DEF Wait!inotify_add_watch, WatchPlaced
<1>2. Unprocessed' = Unprocessed
  BY <1>1 DEF Unprocessed
<1>3. CASE target - 1 <= exists
  <2>1. /\ watch' = target - 1 /\ attached' = TRUE /\ step' = "access" /\ UNCHANGED target
        /\ status' \in {"new", "ok"}
    BY <1>3 DEF Wait!inotify_add_watch
  <2>2. WaitType'
    <3>1. attached' \in BOOLEAN
      BY <2>1, Zenon
    <3> QED BY <1>0, <1>1, <2>1, <3>1 DEF WaitType
  <2>3. WatchPlaced'
    BY <1>0, <1>1, <2>1 DEF WatchPlaced, WaitType
  <2>4. \A i \in 1..Len(Unprocessed') : \A kind : ~Happened(Unprocessed', i, kind)
    BY <1>1, <1>2, Zenon DEF AllStale, Happened
  <2>5. LostWatchTold'
    BY <2>1, <2>4 DEF LostWatchTold
  <2>6. DirectoryNoticed'
    BY <2>1 DEF DirectoryNoticed
  <2>7. FileNoticed'
    BY <2>1, <2>4 DEF FileNoticed, NoDelete
  <2> QED BY <2>2, <2>3, <2>5, <2>6, <2>7 DEF WaitInv
<1>4. CASE ~(target - 1 <= exists)
  <2>1. target' = target - 1 /\ UNCHANGED <<watch, attached, step, status>>
    BY <1>4 DEF Wait!inotify_add_watch
  <2>2. WaitType'
    BY <1>0, <1>1, <1>4, <2>1 DEF WaitType
  <2>3. WatchPlaced' /\ LostWatchTold' /\ DirectoryNoticed' /\ FileNoticed'
    BY <1>0, <1>1, <1>2, <2>1 DEF WatchPlaced, LostWatchTold, DirectoryNoticed, FileNoticed
  <2> QED BY <2>2, <2>3 DEF WaitInv
<1> QED BY <1>3, <1>4

\* access(): the race between existence and the watch.
LEMMA WaitAccess == WaitInv /\ Wait!CheckAccess => WaitInv'
<1> SUFFICES ASSUME WaitInv, Wait!CheckAccess PROVE WaitInv'
  OBVIOUS
<1> USE ClientAssumption DEF Wait!None, Wait!CheckAccess
<1>0. WaitType /\ WatchPlaced /\ LostWatchTold /\ DirectoryNoticed /\ FileNoticed
  BY DEF WaitInv
<1>1. step = "access" /\ UNCHANGED exists /\ buffer = <<>> /\ watch = target - 1
  BY <1>0 DEF Wait!access, WatchPlaced
<1>2. CASE target > exists
  <2>0. ~(target <= exists)
    BY <1>0, <1>2 DEF WaitType
  <2>1. /\ step' = "idle" /\ status' = "ok"
        /\ UNCHANGED <<watch, attached, notices, buffer, target, told>>
    BY <1>2, <2>0 DEF Wait!access
  <2>2. Unprocessed' = Unprocessed
    BY <2>1 DEF Unprocessed
  <2>3. WaitType' /\ WatchPlaced'
    BY <1>0, <1>1, <2>1, <2>2 DEF WaitType, WatchPlaced
  <2>4. LostWatchTold'
    BY <1>0, <2>1, <2>2 DEF LostWatchTold
  <2>5. DirectoryNoticed' /\ FileNoticed'
    BY <1>0, <1>1, <1>2, <2>1 DEF WaitType, DirectoryNoticed, FileNoticed
  <2> QED BY <2>3, <2>4, <2>5 DEF WaitInv
<1>3. CASE target <= exists /\ target = Depth
  <2>1. ~(target > exists)
    BY <1>0, <1>3 DEF WaitType
  <2>2. /\ step' = "idle" /\ told' = TRUE /\ status' = "ok"
        /\ UNCHANGED <<watch, attached, notices, buffer, target>>
    BY <1>3, <2>1 DEF Wait!access
  <2>3. Unprocessed' = Unprocessed
    BY <2>2 DEF Unprocessed
  <2>4. WaitType'
    <3>1. told' \in BOOLEAN
      BY <2>2, Zenon
    <3> QED BY <1>0, <1>1, <2>2, <3>1 DEF WaitType
  <2>5. WatchPlaced'
    BY <1>0, <1>1, <2>2, <2>3 DEF WatchPlaced, WaitType
  <2>6. LostWatchTold'
    BY <1>0, <2>2, <2>3 DEF LostWatchTold
  <2>7. DirectoryNoticed'
    BY <1>1, <1>3, <2>2 DEF DirectoryNoticed
  <2>8. FileNoticed'
    BY <1>0, <1>1, <2>2, <2>3 DEF FileNoticed
  <2> QED BY <2>4, <2>5, <2>6, <2>7, <2>8 DEF WaitInv
<1>4. CASE target <= exists /\ target # Depth
  <2>1. ~(target > exists)
    BY <1>0, <1>4 DEF WaitType
  <2>2. Wait!cras_file_wait_rm_watch(buffer, "add") /\ target' = Depth /\ UNCHANGED told
    BY <1>4, <2>1 DEF Wait!access
  <2>3. target' \in 1..Depth /\ buffer \in Seq(EventType)
    BY <1>0, <2>2 DEF WaitType
  <2> QED BY <1>0, <1>1, <2>2, <2>3, WaitRemoved
<1> QED
  <2>1. target > exists \/ target <= exists
    BY <1>0 DEF WaitType
  <2> QED BY <1>2, <1>3, <1>4, <2>1

LEMMA WaitNext == WaitInv /\ [Wait!Next]_waitVars => WaitInv'
<1>1. ASSUME WaitInv, UNCHANGED waitVars PROVE WaitInv'
  BY <1>1 DEF waitVars, WaitInv, WaitType, WatchPlaced, LostWatchTold, DirectoryNoticed,
              FileNoticed, Unprocessed
<1> QED BY <1>1, WaitCreate, WaitDelete, WaitRead, WaitProcess, WaitProcessed, WaitAdd,
           WaitAccess DEF Wait!Next, Wait!Dispatch

-----------------------------------------------------------------------------
(* The composition: a part that does not run keeps its variables.          *)

ClientInv == ThreadInv /\ ShmInv /\ WaitInv

LEMMA ClientInit == MCInit => ClientInv
  BY ThreadInit, ShmInit, WaitInit DEF MCInit, ClientInv

LEMMA ClientNext == ClientInv /\ [MCNext]_mcVars => ClientInv'
<1>1. [MCNext]_mcVars =>
        [Thread!Next]_threadVars /\ [Shm!Next]_shmVars /\ [Wait!Next]_waitVars
  BY DEF MCNext, mcVars
<1> QED BY <1>1, ThreadNext, ShmNext, WaitNext DEF ClientInv

(* A stream is freed only when its audio thread has ended; a getter that   *)
(* takes server_state_rwlock reads the page only while it is mapped; and   *)
(* one that checks update_count returns the state as it was at one moment  *)
(* (cras_client.c, end_server_state_read).                                 *)
THEOREM GettersSafe ==
  MCSpec => []( /\ Thread!FreedAfterExit
                /\ \A r \in Readers : getter[r] # "inputs" /\ rpc[r] # "idle" => page
                /\ \A r \in Readers : getter[r] # "first_node" => result[r][1] = result[r][2] )
<1>1. ClientInv => /\ Thread!FreedAfterExit
                   /\ \A r \in Readers : getter[r] # "inputs" /\ rpc[r] # "idle" => page
                   /\ \A r \in Readers : getter[r] # "first_node" => result[r][1] = result[r][2]
  BY DEF ClientInv, ThreadInv, ShmInv, ReadersHold, ResultsWhole
<1> QED BY <1>1, ClientInit, ClientNext, PTL DEF MCSpec

(* With the getters that do both, shared memory is used whole and in time. *)
THEOREM MemorySafety ==
  ASSUME Getters \subseteq {"snapshot"}
  PROVE  MCSpec => []MemorySafe
<1>1. ClientInv => MemorySafe
  <2> SUFFICES ASSUME ClientInv PROVE MemorySafe
    OBVIOUS
  <2>1. \A r \in Readers : getter[r] = "snapshot"
    BY DEF ClientInv, ShmInv, ShmType
  <2>2. Thread!FreedAfterExit
    BY DEF ClientInv, ThreadInv
  <2>3. Shm!PageMappedWhileRead
    BY <2>1 DEF ClientInv, ShmInv, ReadersHold, Shm!PageMappedWhileRead
  <2>4. Shm!NoTornResult
    BY <2>1 DEF ClientInv, ShmInv, ResultsWhole, Shm!NoTornResult
  <2> QED BY <2>2, <2>3, <2>4 DEF MemorySafe
<1> QED BY <1>1, ClientInit, ClientNext, PTL DEF MCSpec

(* cras_file_wait misses no creation of the file it waits for, however the *)
(* directories above it come and go between its system calls, as long as   *)
(* no inotify_rm_watch has failed and left it without a watch.             *)
THEOREM NoCreationMissed == MCSpec => []CreationTold
<1>1. ClientInv => CreationTold
  <2> SUFFICES ASSUME WaitInv, step = "idle", notices = <<>>, exists = Depth,
                      status # "failed"
               PROVE  told
    BY DEF ClientInv, CreationTold, Wait!CreationTold
  <2>1. Unprocessed = <<>> /\ watch # Wait!None
    BY DEF WaitInv, WatchPlaced, Unprocessed
  <2>2. attached
    BY <2>1 DEF WaitInv, LostWatchTold
  <2>3. watch \in 0..Depth - 1 /\ Depth \in Nat
    BY <2>1, ClientAssumption DEF WaitInv, WaitType
  <2>4. watch = Depth - 1
    BY <2>1, <2>2, <2>3 DEF WaitInv, DirectoryNoticed
  <2> QED BY <2>1, <2>2, <2>4 DEF WaitInv, FileNoticed, Announced
<1> QED BY <1>1, ClientInit, ClientNext, PTL DEF MCSpec
=============================================================================
