---------------------------- MODULE AudioThread -----------------------------
(***************************************************************************)
(* audio_thread.c: the loop of the audio thread and the commands the main  *)
(* thread sends it.  A command is written to one pipe and its answer read  *)
(* from another before the main thread goes on.  The thread polls the      *)
(* command pipe, the descriptors of the registered callbacks and those of  *)
(* the streams that owe an answer through an array that is reallocated as  *)
(* it grows.  The list of callbacks has no lock.                           *)
(***************************************************************************)
EXTENDS Integers, Sequences, SequencesExt, FiniteSets, FiniteSetsExt

CONSTANTS Devs,             \* devices that register a callback while they are open
          Streams,          \* streams of the devices
          Outputs,          \* the devices of the list dumped first
          InitialSize,      \* pollfds_size at creation
          MaxDebugDevs,     \* MAX_DEBUG_DEVS
          MaxDebugStreams,  \* MAX_DEBUG_STREAMS
          MaxCommands       \* commands that start something, in a behaviour

ASSUME AudioThreadAssumption ==
  /\ IsFiniteSet(Devs) /\ IsFiniteSet(Streams) /\ "none" \notin Devs \cup Streams
  /\ MaxDebugDevs \in Nat /\ MaxDebugStreams \in Nat /\ InitialSize \in Nat

VARIABLES thread,      \* struct audio_thread and where its loop is
          callbacks,   \* iodev_callbacks, in order
          attached,    \* dev->streams of every device
          main         \* the main thread: what it waits for and what it owns

vars == <<thread, callbacks, attached, main>>

None == "none"
Null == [gen |-> 0, idx |-> 0]
Of(d) == CHOOSE i \in DOMAIN callbacks : callbacks[i].dev = d
Registered == {callbacks[i].dev : i \in DOMAIN callbacks}
\* DL_DELETE of a list that has no element twice
Without(q, e) == IF Contains(q, e) THEN RemoveAt(q, CHOOSE i \in DOMAIN q : q[i] = e) ELSE q
\* The entry of the array that the callback at place i of the list takes, and the callback of an entry
Entry(i) == Cardinality({j \in 1..i : callbacks[j].enabled})
At(k) == CHOOSE i \in DOMAIN callbacks : callbacks[i].enabled /\ Entry(i) = k
Asked(id, d, s) == [id |-> id, dev |-> d, stream |-> s, conv |-> 0]
NoCommand == Asked(None, None, None)
Answer(kind, rc) == [kind |-> kind, rc |-> rc]

Init ==
  /\ thread = [pc |-> "created", open |-> <<>>, pollfds |-> <<>>, fds |-> 0, size |-> InitialSize, gen |-> 1,
               remix |-> 0, ready |-> {}, cur |-> None, msgs |-> <<>>, info |-> [devs |-> 0, streams |-> 0]]
  /\ callbacks = <<>>
  /\ attached = [d \in Devs |-> {}]
  /\ main = [pc |-> "idle", cmd |-> NoCommand, rsp |-> <<>>, devs |-> {}, streams |-> {},
             draining |-> {}, remix |-> {}, tail |-> None, commands |-> 0]

-----------------------------------------------------------------------------
(* The main thread *)

audio_thread_post_message(m, id, d, s) ==
  /\ thread' = [thread EXCEPT !.msgs = Append(@, Asked(id, d, s))]
  /\ main' = [m EXCEPT !.pc = "waiting", !.cmd = Asked(id, d, s), !.commands = @ + 1]

CanPost == thread.pc # "created" /\ main.pc = "idle" /\ main.commands < MaxCommands

audio_thread_start ==
  /\ thread.pc = "created"
  /\ thread' = [thread EXCEPT !.pc = "run"]
  /\ UNCHANGED <<callbacks, attached, main>>

audio_thread_add_events_callback(d) ==
  IF d \in Registered THEN callbacks
  ELSE Append(callbacks, [dev |-> d, enabled |-> TRUE, pollfd |-> Null])

audio_thread_rm_callback(d) ==
  IF d \in Registered THEN RemoveAt(callbacks, Of(d)) ELSE callbacks

audio_thread_enable_callback(d, on) ==
  IF d \in Registered THEN [callbacks EXCEPT ![Of(d)].enabled = on] ELSE callbacks

\* configure_dev registers the callback from the main thread: DL_APPEND notes the last one of the list
configure_dev(d) ==
  /\ CanPost
  /\ d \notin main.devs
  /\ main' = [main EXCEPT !.pc = "appending", !.cmd = Asked(None, d, None), !.devs = @ \cup {d},
                          !.tail = IF callbacks = <<>> THEN None ELSE Last(callbacks).dev]
  /\ UNCHANGED <<thread, callbacks, attached>>

\* It links the new one behind that.  When the last one was freed meanwhile by its own callback, on the
\* audio thread, the new one is in the list or not, as the reads of the macro fall (or the write to freed
\* memory ends the server)
DL_APPEND ==
  /\ main.pc = "appending"
  /\ \/ callbacks' = audio_thread_add_events_callback(main.cmd.dev)
     \/ main.tail # None /\ main.tail \notin Registered /\ UNCHANGED callbacks
  /\ main' = [main EXCEPT !.pc = "opening", !.tail = None]
  /\ UNCHANGED <<thread, attached>>

audio_thread_add_open_dev ==
  /\ main.pc = "opening"
  /\ audio_thread_post_message(main, "ADD_OPEN_DEV", main.cmd.dev, None)
  /\ UNCHANGED <<callbacks, attached>>

audio_thread_rm_open_dev(d) ==
  /\ CanPost
  /\ d \in main.devs
  /\ audio_thread_post_message(main, "RM_OPEN_DEV", d, None)
  /\ UNCHANGED <<callbacks, attached>>

\* close_dev takes the callback away before it closes the descriptor
audio_thread_rm_callback_sync ==
  /\ main.pc = "closing"
  /\ audio_thread_post_message(main, "REMOVE_CALLBACK", main.cmd.dev, None)
  /\ UNCHANGED <<callbacks, attached>>

audio_thread_add_stream(s, d) ==
  /\ CanPost
  /\ d \in main.devs
  /\ audio_thread_post_message([main EXCEPT !.streams = @ \cup {s}], "ADD_STREAM", d, s)
  /\ UNCHANGED <<callbacks, attached>>

audio_thread_disconnect_stream(s) ==
  /\ CanPost
  /\ s \in main.streams
  /\ audio_thread_post_message(main, "DISCONNECT_STREAM", None, s)
  /\ UNCHANGED <<callbacks, attached>>

audio_thread_drain_stream(s) ==
  /\ CanPost
  /\ s \in main.streams
  /\ audio_thread_post_message([main EXCEPT !.draining = @ \cup {s}], "DRAIN_STREAM", None, s)
  /\ UNCHANGED <<callbacks, attached>>

\* The commands that change nothing the thread keeps: a question, a ramp, a dump
audio_thread_ask(id, d) ==
  /\ CanPost
  /\ d \in main.devs
  /\ audio_thread_post_message(main, id, d, None)
  /\ UNCHANGED <<callbacks, attached>>

audio_thread_dump_thread_info ==
  /\ CanPost
  /\ audio_thread_post_message(main, "DUMP_THREAD_INFO", None, None)
  /\ UNCHANGED <<callbacks, attached>>

\* A converter for a remix that is not the identity (0); the one it replaces comes back as the answer
audio_thread_config_global_remix(conv) ==
  /\ CanPost
  /\ conv \notin main.remix
  /\ thread' = [thread EXCEPT !.msgs = Append(@, [Asked("CONFIG_GLOBAL_REMIX", None, None) EXCEPT !.conv = conv])]
  /\ main' = [main EXCEPT !.pc = "waiting", !.cmd = Asked("CONFIG_GLOBAL_REMIX", None, None), !.commands = @ + 1,
                          !.remix = @ \cup ({conv} \ {0})]
  /\ UNCHANGED <<callbacks, attached>>

audio_thread_destroy ==
  /\ CanPost
  /\ audio_thread_post_message(main, "STOP", None, None)
  /\ UNCHANGED <<callbacks, attached>>

\* What the caller does with the answer: a device taken away is closed, a stream disconnected or
\* drained is destroyed, a replaced converter is freed, a stopped thread is joined
GotAnswer(m, rsp) ==
  CASE m.cmd.id = "RM_OPEN_DEV" -> [m EXCEPT !.pc = "closing"]
    [] m.cmd.id = "REMOVE_CALLBACK" -> [m EXCEPT !.pc = "idle", !.cmd = NoCommand, !.devs = @ \ {m.cmd.dev}]
    [] m.cmd.id = "DISCONNECT_STREAM" \/ (m.cmd.id = "DRAIN_STREAM" /\ rsp.rc = 0)
         -> [m EXCEPT !.pc = "idle", !.cmd = NoCommand, !.streams = @ \ {m.cmd.stream}, !.draining = @ \ {m.cmd.stream}]
    [] m.cmd.id = "CONFIG_GLOBAL_REMIX" -> [m EXCEPT !.pc = "idle", !.cmd = NoCommand, !.remix = @ \ {rsp.rc}]
    [] m.cmd.id = "STOP" -> [m EXCEPT !.pc = "joining"]
    [] OTHER -> [m EXCEPT !.pc = "idle", !.cmd = NoCommand]

read_until_finished ==
  /\ main.pc = "waiting" /\ main.rsp # <<>>
  /\ main' = GotAnswer([main EXCEPT !.rsp = Tail(@)], Head(main.rsp))
  /\ UNCHANGED <<thread, callbacks, attached>>

pthread_join ==
  /\ main.pc = "joining" /\ thread.pc = "exited"
  /\ main' = [main EXCEPT !.pc = "destroyed"]
  /\ UNCHANGED <<thread, callbacks, attached>>

-----------------------------------------------------------------------------
(* The audio thread *)

\* A device that fails is dropped with its streams
dev_io_run ==
  /\ thread.pc = "run"
  /\ \E bad \in {None} \cup Range(thread.open) :
       /\ thread' = [thread EXCEPT !.pc = "poll", !.open = Without(@, bad)]
       /\ attached' = [d \in Devs |-> IF d = bad THEN {} ELSE attached[d]]
  /\ UNCHANGED <<callbacks, main>>

\* The streams of open devices that owe an answer are polled behind the callbacks: any of the attached ones
StreamFds == 0..Cardinality({e \in (DOMAIN thread.open) \X Streams : e[2] \in attached[thread.open[e[1]]]})

\* mutant: when the array grows for a stream, the entries of the callbacks are kept
add_pollfds_kept(fds) ==
  LET on == Entry(Len(callbacks))
      full == on + 1 >= thread.size
      grown == on + fds + 1 >= thread.size
  IN /\ callbacks' = [i \in DOMAIN callbacks |->
                        [callbacks[i] EXCEPT !.pollfd =
                           IF callbacks[i].enabled /\ (full => Entry(i) < thread.size - 1)
                             THEN [gen |-> thread.gen, idx |-> Entry(i)]
                           ELSE IF full /\ callbacks[i].enabled /\ Entry(i) > thread.size - 1 THEN @
                           ELSE Null]]
     /\ thread' = [thread EXCEPT !.pollfds = [k \in 1..on |-> callbacks[At(k)].dev], !.fds = fds,
                                 !.gen = IF grown THEN @ + 1 ELSE @,
                                 !.size = IF grown THEN 2 * @ ELSE @,
                                 !.pc = IF full THEN "poll" ELSE "wait"]
     /\ UNCHANGED <<attached, main>>

\* mutant: the loop ends at the first callback that is off
add_pollfds_upto(fds) ==
  LET off == {i \in DOMAIN callbacks : ~callbacks[i].enabled}
      on == IF off = {} THEN Len(callbacks) ELSE Min(off) - 1
      full == on + fds + 1 >= thread.size
  IN /\ callbacks' = [i \in DOMAIN callbacks |->
                        [callbacks[i] EXCEPT !.pollfd =
                           IF i <= on /\ (full => i < thread.size - 1) THEN [gen |-> thread.gen, idx |-> i]
                           ELSE IF full /\ i <= on /\ i > thread.size - 1 THEN @
                           ELSE Null]]
     /\ thread' = [thread EXCEPT !.pollfds = [k \in 1..on |-> callbacks[k].dev], !.fds = fds,
                                 !.gen = IF full THEN @ + 1 ELSE @,
                                 !.size = IF full THEN 2 * @ ELSE @,
                                 !.pc = IF full THEN "poll" ELSE "wait"]
     /\ UNCHANGED <<attached, main>>

\* add_pollfd for every enabled callback and then for fds streams; when the array grows, also for a stream,
\* every entry is made anew
add_pollfds(fds) ==
  LET on == Entry(Len(callbacks))
      full == on + fds + 1 >= thread.size
  IN /\ callbacks' = [i \in DOMAIN callbacks |->
                        [callbacks[i] EXCEPT !.pollfd =
                           IF callbacks[i].enabled /\ (full => Entry(i) < thread.size - 1)
                             THEN [gen |-> thread.gen, idx |-> Entry(i)]
                           ELSE IF full /\ callbacks[i].enabled /\ Entry(i) > thread.size - 1 THEN @
                           ELSE Null]]
     /\ thread' = [thread EXCEPT !.pollfds = [k \in 1..on |-> callbacks[At(k)].dev], !.fds = fds,
                                 !.gen = IF full THEN @ + 1 ELSE @,
                                 !.size = IF full THEN 2 * @ ELSE @,
                                 !.pc = IF full THEN "poll" ELSE "wait"]
     /\ UNCHANGED <<attached, main>>

audio_io_thread_poll == thread.pc = "poll" /\ \E fds \in StreamFds : add_pollfds(fds)

\* mutant: the command waits while descriptors are ready
ppoll_last ==
  /\ thread.pc = "wait"
  /\ \E ready \in SUBSET Range(thread.pollfds), answered \in BOOLEAN :
       /\ answered => thread.fds > 0
       /\ ready # {} \/ thread.msgs # <<>> \/ thread.open # <<>>
       /\ thread' = [thread EXCEPT !.ready = ready, !.fds = 0,
                                   !.pc = IF ready # {} \/ answered THEN "dispatch" ELSE IF thread.msgs # <<>> THEN "message" ELSE "run",
                                   !.cur = IF callbacks = <<>> THEN None ELSE callbacks[1].dev]
  /\ UNCHANGED <<callbacks, attached, main>>

\* ppoll returns for a command, for descriptors that are ready, those of streams (answered) included, or at the wake time of an open device
ppoll ==
  /\ thread.pc = "wait"
  /\ \E ready \in SUBSET Range(thread.pollfds), answered \in BOOLEAN :
       /\ answered => thread.fds > 0
       /\ ready # {} \/ thread.msgs # <<>> \/ thread.open # <<>>
       /\ thread' = [thread EXCEPT !.ready = ready, !.fds = 0,
                                   !.pc = IF thread.msgs # <<>> THEN "message" ELSE IF ready # {} \/ answered THEN "dispatch" ELSE "run",
                                   !.cur = IF callbacks = <<>> THEN None ELSE callbacks[1].dev]
  /\ UNCHANGED <<callbacks, attached, main>>

\* mutant: the device is answered for but stays
thread_rm_open_dev_kept(t, d) == t

thread_rm_open_dev(t, d) == [t EXCEPT !.open = Without(@, d)]

thread_add_open_dev(t, d) == [t EXCEPT !.open = IF Contains(@, d) THEN @ ELSE Append(@, d)]

thread_find_stream(s) == \E d \in Range(thread.open) : s \in attached[d]

thread_disconnect_stream(s) ==
  IF thread_find_stream(s) THEN [d \in Devs |-> attached[d] \ {s}] ELSE attached

thread_add_stream(s, d) ==
  IF Contains(thread.open, d) THEN [attached EXCEPT ![d] = @ \cup {s}] ELSE attached

\* The place of the i-th open device among the output or the input devices it is listed with
Place(i, those) == Cardinality({j \in those : j <= i})

\* mutant: a device is counted after its streams are, and the list goes on at the limit
dump_thread_info_unchecked ==
  LET outs == {i \in DOMAIN thread.open : thread.open[i] \in Outputs}
      nout == Min({MaxDebugDevs, Cardinality(outs)})
  IN [devs |-> nout + Cardinality(DOMAIN thread.open \ outs), streams |-> 0]

\* An output device that takes the last place is listed without its streams
dump_thread_info ==
  LET outs == {i \in DOMAIN thread.open : thread.open[i] \in Outputs}
      ins == DOMAIN thread.open \ outs
      nout == Min({MaxDebugDevs, Cardinality(outs)})
      nin == Min({MaxDebugDevs - nout, Cardinality(ins)})
      listed == {i \in outs : Place(i, outs) < MaxDebugDevs} \cup {i \in ins : Place(i, ins) <= nin}
      streams == {e \in listed \X Streams : e[2] \in attached[thread.open[e[1]]]}
  IN [devs |-> nout + nin, streams |-> Min({MaxDebugStreams, Cardinality(streams)})]

\* Draining: 0 when nothing is buffered, and then the stream is removed
Drained(s) ==
  IF thread_find_stream(s) THEN {<<0, thread_disconnect_stream(s)>>, <<1, attached>>} ELSE {<<0, attached>>}

\* mutant: the converter is answered twice, as a pointer and as a return code
Respond_twice(t, rsp) ==
  /\ thread' = t
  /\ main' = [main EXCEPT !.rsp = @ \o (IF rsp.kind = "ptr" THEN <<rsp, Answer("int", 0)>> ELSE <<rsp>>)]

\* audio_thread_send_response; the remix command writes a pointer instead
Respond(t, rsp) ==
  /\ thread' = t
  /\ main' = [main EXCEPT !.rsp = Append(@, rsp)]

handle_playback_thread_message ==
  /\ thread.pc = "message"
  /\ LET msg == Head(thread.msgs)
         t == [thread EXCEPT !.msgs = Tail(@), !.pc = "dispatch"]
     IN \/ /\ msg.id = "ADD_STREAM"
           /\ attached' = thread_add_stream(msg.stream, msg.dev)
           /\ Respond(t, Answer("int", 0)) /\ UNCHANGED callbacks
        \/ /\ msg.id = "DISCONNECT_STREAM"
           /\ attached' = thread_disconnect_stream(msg.stream)
           /\ Respond(t, Answer("int", 0)) /\ UNCHANGED callbacks
        \/ /\ msg.id = "DRAIN_STREAM"
           /\ \E r \in Drained(msg.stream) : attached' = r[2] /\ Respond(t, Answer("int", r[1]))
           /\ UNCHANGED callbacks
        \/ /\ msg.id = "ADD_OPEN_DEV"
           /\ Respond(thread_add_open_dev(t, msg.dev), Answer("int", 0))
           /\ UNCHANGED <<callbacks, attached>>
        \/ /\ msg.id = "RM_OPEN_DEV"
           /\ attached' = [attached EXCEPT ![msg.dev] = IF Contains(thread.open, msg.dev) THEN {} ELSE @]
           /\ Respond(thread_rm_open_dev(t, msg.dev), Answer("int", 0)) /\ UNCHANGED callbacks
        \/ /\ msg.id = "REMOVE_CALLBACK"
           /\ callbacks' = audio_thread_rm_callback(msg.dev)
           /\ Respond([t EXCEPT !.cur = IF callbacks' = <<>> THEN None ELSE callbacks'[1].dev], Answer("int", 0))
           /\ UNCHANGED attached
        \/ /\ msg.id = "CONFIG_GLOBAL_REMIX"
           /\ Respond([t EXCEPT !.remix = msg.conv], Answer("ptr", thread.remix))
           /\ UNCHANGED <<callbacks, attached>>
        \/ /\ msg.id = "DUMP_THREAD_INFO"
           /\ Respond([t EXCEPT !.info = dump_thread_info], Answer("int", 0))
           /\ UNCHANGED <<callbacks, attached>>
        \/ /\ msg.id \in {"IS_DEV_OPEN", "DEV_START_RAMP", "AEC_DUMP"}
           /\ Respond(t, Answer("int", IF Contains(thread.open, msg.dev) THEN 1 ELSE 0))
           /\ UNCHANGED <<callbacks, attached>>
        \/ /\ msg.id = "STOP"
           /\ Respond([t EXCEPT !.pc = "exited"], Answer("int", 0))
           /\ UNCHANGED <<callbacks, attached>>

\* One callback of the list; it may turn itself off or take itself away.  The next one is noted before
dispatch_callback ==
  /\ thread.pc = "dispatch" /\ thread.cur # None
  /\ LET d == thread.cur
         i == Of(d)
         cb == callbacks[i]
         fire == cb.pollfd # Null /\ thread.pollfds[cb.pollfd.idx] \in thread.ready
     IN /\ thread' = [thread EXCEPT !.cur = IF i < Len(callbacks) THEN callbacks[i + 1].dev ELSE None,
                                    !.ready = @ \ {d}]
        /\ \/ UNCHANGED callbacks
           \/ fire /\ callbacks' = audio_thread_rm_callback(d)
           \/ fire /\ \E on \in BOOLEAN : callbacks' = audio_thread_enable_callback(d, on)
  /\ UNCHANGED <<attached, main>>

dispatch_done ==
  /\ thread.pc = "dispatch" /\ thread.cur = None
  /\ thread' = [thread EXCEPT !.pc = "run", !.ready = {}]
  /\ UNCHANGED <<callbacks, attached, main>>

AudioThreadStep == dev_io_run \/ audio_io_thread_poll \/ ppoll \/ handle_playback_thread_message
                     \/ dispatch_callback \/ dispatch_done

MainStep == DL_APPEND \/ audio_thread_add_open_dev \/ audio_thread_rm_callback_sync \/ read_until_finished \/ pthread_join

Next ==
  \/ audio_thread_start
  \/ \E d \in Devs : configure_dev(d) \/ audio_thread_rm_open_dev(d)
  \/ \E d \in Devs, id \in {"IS_DEV_OPEN", "DEV_START_RAMP", "AEC_DUMP"} : audio_thread_ask(id, d)
  \/ \E s \in Streams, d \in Devs : audio_thread_add_stream(s, d)
  \/ \E s \in Streams : audio_thread_disconnect_stream(s) \/ audio_thread_drain_stream(s)
  \/ audio_thread_dump_thread_info
  \/ \E conv \in 0..2 : audio_thread_config_global_remix(conv)
  \/ audio_thread_destroy
  \/ MainStep
  \/ AudioThreadStep

\* Both threads are scheduled; the main thread is in the middle of an operation until it is answered
Fairness == WF_vars(AudioThreadStep) /\ WF_vars(MainStep) /\ WF_vars(audio_thread_start)

Spec == Init /\ [][Next]_vars /\ Fairness

-----------------------------------------------------------------------------
(* Properties *)

\* When ppoll has returned, the pollfd of every callback points into the array as it is allocated now,
\* at the entry for the callback's own descriptor: add_pollfd may have moved the array in between.
PollfdsCurrent ==
  thread.pc \in {"wait", "message", "dispatch"} =>
    \A i \in DOMAIN callbacks :
      LET p == callbacks[i].pollfd
      IN p # Null => p.gen = thread.gen /\ thread.pollfds[p.idx] = callbacks[i].dev

\* The two pipes stay in step: when the main thread is not waiting no answer is left for it to read in
\* place of the next one (the remix command answers with a pointer, the others with a return code).
AnswersInStep == main.pc # "waiting" => main.rsp = <<>> /\ thread.msgs = <<>>

\* What the main thread frees after a command, the audio thread no longer holds: devices of its open
\* lists, streams attached to them, callbacks and the remix converter.
HeldIsLive ==
  /\ Range(thread.open) \subseteq main.devs
  /\ \A d \in Range(thread.open) : attached[d] \subseteq main.streams
  /\ Registered \subseteq main.devs
  /\ thread.remix \in main.remix \cup {0}

\* A dump never writes past the arrays of struct audio_debug_info.
DumpFits == thread.info.devs <= MaxDebugDevs /\ thread.info.streams <= MaxDebugStreams

\* Every command is answered: the main thread, which blocks meanwhile, always goes on.
Answered == main.pc = "waiting" ~> main.pc # "waiting"

\* A callback that stays enabled is polled: registering it from the main thread does not wake the audio
\* thread, the command that hands over the device next does.  A callback that DL_APPEND lost to the removal
\* of the one before it (audio_thread.c:145 against cras_hfp_info.c:590, cras_alsa_io.c:365) is in no list
\* and is not polled: the property is about those in the list.
Enabled(d) == \E i \in DOMAIN callbacks : callbacks[i].dev = d /\ callbacks[i].enabled
Polled ==
  \A d \in Devs : (main.pc = "idle" /\ Enabled(d)) ~> (d \in Range(thread.pollfds) \/ ~Enabled(d))
=============================================================================
