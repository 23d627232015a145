-------------------------- MODULE IodevListProofs ---------------------------
(***************************************************************************)
(* TypeOK, ThreadHoldsLive, DevicesSettled and PinnedUndisturbed of        *)
(* IodevList, for any devices and streams.  Every function of the source   *)
(* is an operator on state records, so the proofs have one lemma for each: *)
(* it takes good records to good records, and tidy ones, in which every    *)
(* stream is where it may be and every device has a reason to be open, to  *)
(* tidy ones.  An action is then a composition of lemmas.                  *)
(***************************************************************************)
EXTENDS MCDevices, TLAPS

StateType ==
  [devs : SUBSET RealDevs, enabled : SUBSET Devs, open : SUBSET Devs,
   thread_open : SUBSET Devs, attached : SUBSET (Streams \X Devs),
   retries : [Devs -> Nat], idle : SUBSET Devs, expired : SUBSET Devs,
   idle_timer : BOOLEAN, stray : BOOLEAN, list : SUBSET Streams,
   to_delete : SUBSET Streams, drain_timer : BOOLEAN, suspended : BOOLEAN]

(* The two invariants, of a record. *)
Safe(st) ==
  /\ st.expired \subseteq st.idle
  /\ st.thread_open \subseteq st.open
  /\ \A p \in st.attached : p[2] \in st.thread_open /\ p[1] \in st.list \union st.to_delete

Good(st) == st \in StateType /\ Safe(st)
-----------------------------------------------------------------------------
(* Appending streams that are listed keeps the record good. *)
LEMMA AddStreamGood ==
  ASSUME NEW st, Good(st), NEW pairs \in SUBSET (Streams \X Devs), NEW e,
         \A p \in pairs : p[1] \in st.list
  PROVE  Good(audio_thread_add_stream(st, pairs, e))
BY DEF Good, Safe, StateType, audio_thread_add_stream

(* So does taking streams off devices. *)
LEMMA DisconnectGood ==
  ASSUME NEW st, Good(st), NEW S, NEW D
  PROVE  Good(audio_thread_disconnect_streams(st, S, D))
BY DEF Good, Safe, StateType, audio_thread_disconnect_streams

(* Closing a device takes it and its streams out of the audio thread. *)
LEMMA CloseGood ==
  ASSUME NEW st, Good(st), NEW D
  PROVE  Good(close_dev_without_idle_check(st, D))
BY DEF Good, Safe, StateType, close_dev_without_idle_check

LEMMA IdleCheckGood ==
  ASSUME NEW st, Good(st)
  PROVE  Good(idle_dev_check(st))
<1> DEFINE c == close_dev_without_idle_check(st, st.enabled \intersect st.expired \intersect st.open)
<1>1. Good(c)
  BY CloseGood
<1>2. idle_dev_check(st) = [c EXCEPT !.idle_timer = c.enabled \intersect (c.idle \ c.expired) # {}]
  BY DEF idle_dev_check
<1> HIDE DEF c
<1> QED
  BY <1>1, <1>2 DEF Good, Safe, StateType

LEMMA CloseDevGood ==
  ASSUME NEW st, Good(st), NEW D
  PROVE  Good(close_dev(st, D))
BY CloseGood, IdleCheckGood DEF close_dev

LEMMA DisableGood ==
  ASSUME NEW st, Good(st), NEW D, NEW force \in BOOLEAN
  PROVE  Good(disable_device(st, D, force))
<1> DEFINE off == [st EXCEPT !.enabled = @ \ D,
                             !.retries = [d \in Devs |-> IF force /\ d \in D THEN 0 ELSE @[d]]]
           pulled == {s \in st.list : force \/ ~ is_pinned(s)}
<1>1. Good(off)
  BY DEF Good, Safe, StateType
<1> HIDE DEF off
<1>2. Good(audio_thread_disconnect_streams(off, pulled, D))
  BY <1>1, DisconnectGood
<1> QED
  BY <1>2, CloseDevGood DEF disable_device, off

LEMMA DisableFallbackGood ==
  ASSUME NEW st, Good(st)
  PROVE  Good(possibly_disable_fallback(st))
BY DisableGood DEF possibly_disable_fallback

(* Opening adds a device to the thread and to the open ones together. *)
LEMMA InitDeviceGood ==
  ASSUME NEW st, Good(st), NEW D \in SUBSET Devs, NEW opens
  PROVE  /\ Good(init_device(st, D, opens))
         /\ init_device(st, D, opens).list = st.list
         /\ init_device(st, D, opens).attached = st.attached
         /\ init_device(st, D, opens).thread_open
              = st.thread_open \union ((D \ st.open) \intersect opens)
<1> DEFINE t == init_device(st, D, opens)
           new == (D \ st.open) \intersect opens
<1>1. t \in StateType
  BY ZenonT(60) DEF Good, StateType, init_device, exit_idle
<1>2. /\ t.expired = st.expired \ D /\ t.idle = st.idle \ D
      /\ t.thread_open = st.thread_open \union new /\ t.open = st.open \union new
      /\ t.attached = st.attached /\ t.list = st.list /\ t.to_delete = st.to_delete
  BY DEF Good, StateType, init_device, exit_idle
<1> HIDE DEF t, new
<1>3. Safe(t)
  BY <1>2 DEF Good, Safe
<1> QED BY <1>1, <1>2, <1>3 DEF Good, t, new

LEMMA ScheduleGood ==
  ASSUME NEW st, Good(st), NEW D
  PROVE  /\ Good(schedule_init_device_retry(st, D))
         /\ schedule_init_device_retry(st, D).list = st.list
         /\ schedule_init_device_retry(st, D).attached = st.attached
         /\ schedule_init_device_retry(st, D).thread_open = st.thread_open
BY DEF Good, Safe, StateType, schedule_init_device_retry

LEMMA InitAttachGood ==
  ASSUME NEW st, Good(st), NEW d \in Devs, NEW e
  PROVE  Good(init_and_attach_streams(st, d, e))
<1> DEFINE opens == e.ok \union {Fallback}
           D == {d}
           opened == init_device(st, D, opens)
<1>0. D \in SUBSET Devs
  OBVIOUS
<1> HIDE DEF opens, D
<1>1. Good(opened) /\ opened.list = st.list
  BY <1>0, InitDeviceGood
<1>2. CanAttach(st, d) \subseteq st.list
  BY DEF CanAttach
<1>3. st.list \subseteq Streams
  BY DEF Good, StateType
<1> HIDE DEF opened
<1>4. Good(audio_thread_add_stream(opened, CanAttach(st, d) \X {d}, e))
  BY <1>1, <1>2, <1>3, AddStreamGood
<1> QED
  BY <1>1, <1>4 DEF init_and_attach_streams, opened, opens, D

LEMMA EnableGood ==
  ASSUME NEW st, Good(st), NEW d \in Devs, NEW e
  PROVE  Good(enable_device(st, d, e))
<1> DEFINE on == [st EXCEPT !.enabled = @ \union {d}]
<1>1. Good(on)
  BY DEF Good, Safe, StateType
<1> HIDE DEF on
<1>2. Good(init_and_attach_streams(on, d, e))
  BY <1>1, InitAttachGood
<1>3. Good(schedule_init_device_retry(init_and_attach_streams(on, d, e), {d}))
  BY <1>2, ScheduleGood
<1> QED
  BY <1>2, <1>3 DEF enable_device, on

(* Enabling a device adds no other device to the audio thread. *)
LEMMA EnableThread ==
  ASSUME NEW st, Good(st), NEW d \in Devs, NEW e
  PROVE  enable_device(st, d, e).thread_open \subseteq st.thread_open \union {d}
<1> DEFINE on == [st EXCEPT !.enabled = @ \union {d}]
           opens == e.ok \union {Fallback}
           D == {d}
           opened == init_device(on, D, opens)
           att == audio_thread_add_stream(opened, CanAttach(on, d) \X {d}, e)
           up == init_and_attach_streams(on, d, e)
<1>1. Good(on) /\ on.thread_open = st.thread_open
  BY DEF Good, Safe, StateType
<1>0. D \in SUBSET Devs
  OBVIOUS
<1> HIDE DEF on, opens, D
<1>2. Good(opened) /\ opened.thread_open = on.thread_open \union ((D \ on.open) \intersect opens)
  BY <1>0, <1>1, InitDeviceGood
<1> HIDE DEF opened
<1>3. att.thread_open = opened.thread_open
  BY <1>2 DEF Good, StateType, audio_thread_add_stream
<1>4. up.thread_open \subseteq on.thread_open \union {d}
  BY <1>2, <1>3 DEF init_and_attach_streams, opened, opens, D
<1>5. Good(up)
  BY <1>1, InitAttachGood
<1> HIDE DEF up
<1>6. schedule_init_device_retry(up, {d}).thread_open = up.thread_open
  BY <1>5, ScheduleGood
<1> QED
  BY <1>1, <1>4, <1>6 DEF enable_device, on, up
-----------------------------------------------------------------------------
(* The pieces of streams_added, and what a stream that was refused left.   *)
Wanted(st, X) == UNION {Targets(st, s) : s \in X}
Routes(st, X, late) ==
  {p \in X \X Wanted(st, X) : /\ p[2] \in Targets(st, p[1])
                              /\ p[2] \in st.open \union {Fallback} \/ p \in late}
Reached(st, X, late) == {p[2] : p \in Routes(st, X, late)}
Opened(st, X, late) ==
  schedule_init_device_retry(init_device(st, Wanted(st, X), Reached(st, X, late)),
                             Wanted(st, X) \ (st.open \union Reached(st, X, late)))
Routed(st, X, late, e) == audio_thread_add_stream(Opened(st, X, late), Routes(st, X, late), e)
Stranded(st, X, late) ==
  {s \in X : ~ is_pinned(s) /\ \A p \in Routes(st, X, late) : p[1] # s}

LEMMA StreamsAddedParts ==
  ASSUME NEW st, NEW X, NEW late, NEW e
  PROVE  streams_added(st, X, late, e) =
           CASE st.suspended -> st
             [] ~ st.suspended /\ Stranded(st, X, late) = {} -> Routed(st, X, late, e)
             [] OTHER -> possibly_enable_fallback(Routed(st, X, late, e), e)
BY DEF streams_added, Wanted, Routes, Reached, Opened, Routed, Stranded

LEMMA WantedType ==
  ASSUME NEW st, Good(st), NEW X \in SUBSET st.list
  PROVE  Wanted(st, X) \in SUBSET Devs
<1>1. st.devs \subseteq RealDevs /\ st.enabled \subseteq Devs
  BY DEF Good, StateType
<1>2. \A s \in X : Targets(st, s) \subseteq Devs
  BY <1>1 DEF Targets, Devs
<1> QED
  BY <1>2 DEF Wanted

LEMMA OpenedGood ==
  ASSUME NEW st, Good(st), NEW X \in SUBSET st.list, NEW late
  PROVE  /\ Good(Opened(st, X, late))
         /\ Opened(st, X, late).list = st.list
         /\ Opened(st, X, late).attached = st.attached
         /\ Opened(st, X, late).thread_open
              = st.thread_open \union ((Wanted(st, X) \ st.open) \intersect Reached(st, X, late))
<1> DEFINE W == Wanted(st, X)
           R == Reached(st, X, late)
           i == init_device(st, W, R)
<1>1. W \in SUBSET Devs
  BY WantedType
<1> HIDE DEF W, R
<1>2. /\ Good(i) /\ i.list = st.list /\ i.attached = st.attached
      /\ i.thread_open = st.thread_open \union ((W \ st.open) \intersect R)
  BY <1>1, InitDeviceGood
<1> HIDE DEF i
<1>3. LET o == schedule_init_device_retry(i, W \ (st.open \union R)) IN
      /\ Good(o) /\ o.list = i.list
      /\ o.thread_open = i.thread_open /\ o.attached = i.attached
  BY <1>2, ScheduleGood
<1> QED
  BY <1>2, <1>3 DEF Opened, W, R, i

LEMMA RoutedGood ==
  ASSUME NEW st, Good(st), NEW X \in SUBSET st.list, NEW late, NEW e
  PROVE  Good(Routed(st, X, late, e))
<1> DEFINE o == Opened(st, X, late)
           P == Routes(st, X, late)
<1>1. Good(o) /\ o.list = st.list
  BY OpenedGood
<1>2. st.list \subseteq Streams
  BY DEF Good, StateType
<1>3. Wanted(st, X) \subseteq Devs
  BY WantedType
<1>4. P \in SUBSET (Streams \X Devs) /\ \A p \in P : p[1] \in st.list
  BY <1>2, <1>3 DEF Routes
<1> HIDE DEF o, P
<1>5. Good(audio_thread_add_stream(o, P, e))
  BY <1>1, <1>4, AddStreamGood
<1> QED
  BY <1>5 DEF Routed, o, P

LEMMA StreamsAddedGood ==
  ASSUME NEW st, Good(st), NEW X \in SUBSET st.list, NEW late, NEW e
  PROVE  Good(streams_added(st, X, late, e))
<1>1. Good(Routed(st, X, late, e))
  BY RoutedGood
<1>2. Fallback \in Devs
  BY DEF Devs
<1>3. Good(possibly_enable_fallback(Routed(st, X, late, e), e))
  BY <1>1, <1>2, EnableGood DEF possibly_enable_fallback
<1> QED
  BY <1>1, <1>3, StreamsAddedParts

(* A stream the audio thread refused is on no device. *)
LEMMA RefusedDetached ==
  ASSUME NEW st, Good(st), NEW s \in st.list, s \notin st.to_delete,
         \A p \in st.attached : p[1] # s,
         NEW late, NEW e, ~ st.suspended,
         \/ is_pinned(s) /\ PinnedTo[s] \notin st.devs
         \/ s \in e.bad /\ Targets(st, s) \intersect streams_added(st, {s}, late, e).thread_open # {}
  PROVE  \A p \in streams_added(st, {s}, late, e).attached : p[1] # s
<1> DEFINE X == {s}
           o == Opened(st, X, late)
           P == Routes(st, X, late)
           r == Routed(st, X, late, e)
           res == streams_added(st, X, late, e)
<1>1. X \in SUBSET st.list
  OBVIOUS
<1>2. /\ Good(o) /\ o.attached = st.attached
      /\ o.thread_open = st.thread_open \union ((Wanted(st, X) \ st.open) \intersect Reached(st, X, late))
  BY <1>1, OpenedGood
<1>3. /\ r.thread_open = o.thread_open
      /\ r.attached = {p \in o.attached \union {q \in P : q[2] \in o.thread_open /\ q \notin o.attached} :
                         p[1] \notin {q[1] : q \in {q \in P : q[2] \in o.thread_open /\ q \notin o.attached}}
                                       \intersect e.bad}
  <2> HIDE DEF o, P
  <2> QED BY <1>2 DEF Good, StateType, Routed, audio_thread_add_stream, o, P
<1>4. st.thread_open \subseteq st.open
  BY DEF Good, Safe
<1>5. Wanted(st, X) = Targets(st, s)
  BY DEF Wanted
<1>6. ASSUME NEW d \in Targets(st, s), d \in o.thread_open
      PROVE  <<s, d>> \in P
  <2>1. CASE d \in st.thread_open
    BY <2>1, <1>4, <1>5, <1>6 DEF Routes
  <2>2. CASE d \in Reached(st, X, late)
    BY <2>2, <1>6 DEF Reached, Routes
  <2> QED
    BY <2>1, <2>2, <1>2, <1>6
<1>7. CASE is_pinned(s) /\ PinnedTo[s] \notin st.devs
  <2>1. Targets(st, s) = {}
    BY <1>7 DEF Targets
  <2>2. P = {} /\ Stranded(st, X, late) = {}
    BY <2>1, <1>5, <1>7 DEF Routes, Stranded
  <2>3. res = r
    BY <2>2, StreamsAddedParts
  <2> QED
    BY <2>2, <2>3, <1>2, <1>3
<1>8. CASE s \in e.bad /\ Targets(st, s) \intersect res.thread_open # {}
  <2>1. PICK d \in Targets(st, s) : d \in res.thread_open
    BY <1>8
  <2>2. CASE Stranded(st, X, late) = {}
    <3>1. res = r
      BY <2>2, StreamsAddedParts
    <3>2. <<s, d>> \in P /\ d \in o.thread_open
      BY <2>1, <3>1, <1>3, <1>6
    <3>3. <<s, d>> \notin o.attached
      BY <1>2
    <3>4. s \in {q[1] : q \in {q \in P : q[2] \in o.thread_open /\ q \notin o.attached}} \intersect e.bad
      BY <1>8, <3>2, <3>3
    <3> QED
      BY <3>1, <3>4, <1>3
  <2>3. CASE Stranded(st, X, late) # {}
    <3>1. ~ is_pinned(s) /\ \A p \in P : p[1] # s
      BY <2>3 DEF Stranded
    <3>2. Targets(st, s) = st.enabled
      BY <3>1 DEF Targets
    <3>3. d # Fallback
      <4>1. ASSUME d = Fallback PROVE <<s, d>> \in P
        BY <4>1, <2>1, <1>5 DEF Routes
      <4> QED
        BY <4>1, <3>1
    <3>4. Good(r)
      BY <1>1, RoutedGood
    <3>5. Fallback \in Devs
      BY DEF Devs
    <3>6. res = enable_device(r, Fallback, e)
      BY <2>3, StreamsAddedParts DEF possibly_enable_fallback
    <3> HIDE DEF r, res
    <3>7. res.thread_open \subseteq r.thread_open \union {Fallback}
      BY <3>4, <3>5, <3>6, EnableThread
    <3>8. d \in o.thread_open
      BY <2>1, <3>3, <3>7, <1>3
    <3> QED
      BY <3>8, <3>1, <2>1, <1>6
  <2> QED
    BY <2>2, <2>3
<1> QED
  BY <1>7, <1>8
-----------------------------------------------------------------------------
(* The functions the actions are made of. *)

LEMMA DisableDevGood ==
  ASSUME NEW st, Good(st), NEW d \in Devs, NEW force \in BOOLEAN, NEW e
  PROVE  Good(cras_iodev_list_disable_dev(st, d, force, e))
<1> DEFINE covered == IF st.enabled = {d} THEN enable_device(st, Fallback, e) ELSE st
           pulled == {s \in st.list : PinnedTo[s] = d}
<1>1. Good(covered)
  BY EnableGood DEF Devs
<1> HIDE DEF covered
<1>2. Good(disable_device(covered, {d}, force))
  BY <1>1, DisableGood
<1>3. Good(close_dev(audio_thread_disconnect_streams(st, pulled, {d}), {d}))
  BY DisconnectGood, CloseDevGood
<1> QED
  BY <1>2, <1>3 DEF cras_iodev_list_disable_dev, covered

LEMMA SuspendDevGood ==
  ASSUME NEW st, Good(st), NEW d
  PROVE  Good(cras_iodev_list_suspend_dev(st, d))
BY DisconnectGood, CloseDevGood DEF cras_iodev_list_suspend_dev

LEMMA ResumeDevGood ==
  ASSUME NEW st, Good(st), NEW d \in Devs, NEW e
  PROVE  Good(cras_iodev_list_resume_dev(st, d, e))
<1> DEFINE up == init_and_attach_streams(st, d, e)
<1>1. Good(up)
  BY InitAttachGood
<1> HIDE DEF up
<1>2. Good(possibly_disable_fallback(up)) /\ Good(schedule_init_device_retry(up, {d}))
  BY <1>1, DisableFallbackGood, ScheduleGood
<1> QED
  BY <1>1, <1>2 DEF cras_iodev_list_resume_dev, up

LEMMA PinnedRemovedGood ==
  ASSUME NEW st, Good(st), NEW S
  PROVE  Good(pinned_stream_removed(st, S))
BY CloseDevGood DEF pinned_stream_removed

LEMMA PossiblyCloseGood ==
  ASSUME NEW st, Good(st)
  PROVE  Good(possibly_close_enabled_devs(st))
<1> DEFINE D == {d \in st.enabled : ~ stream_list_has_pinned_stream(st, d)}
           passed == (st.enabled \intersect st.expired \intersect st.open) \ {CHOOSE d \in D : TRUE}
           c == close_dev_without_idle_check(st, passed)
           last == [c EXCEPT !.idle = @ \union D, !.expired = @ \ D,
                             !.idle_timer = TRUE, !.stray = TRUE]
<1>1. D \in SUBSET Devs
  BY DEF Good, StateType
<1> HIDE DEF D, passed
<1>2. Good(c)
  BY CloseGood
<1> HIDE DEF c
<1>3. Good(last)
  BY <1>1, <1>2 DEF Good, Safe, StateType
<1>4. Good(close_dev(st, D))
  BY CloseDevGood
<1> QED
  BY <1>3, <1>4 DEF possibly_close_enabled_devs, D, passed, c

(* A stream that is done is off all devices before it is destroyed. *)
LEMMA DeleteStreamsGood ==
  ASSUME NEW st, Good(st), NEW left \in SUBSET st.to_delete
  PROVE  Good(delete_streams(st, left))
<1> DEFINE done == st.to_delete \ left
           a == audio_thread_disconnect_streams(st, done, Devs)
           gone == [a EXCEPT !.to_delete = left, !.drain_timer = left # {}]
<1>1. Good(a)
  BY DisconnectGood
<1>2. /\ a.list = st.list /\ a.to_delete = st.to_delete
      /\ \A p \in a.attached : p \in Streams \X Devs /\ p[1] \notin done
  BY DEF Good, StateType, audio_thread_disconnect_streams
<1> HIDE DEF a
<1>3. left \in SUBSET Streams
  BY DEF Good, StateType
<1>4. Good(gone)
  BY <1>1, <1>2, <1>3 DEF Good, Safe, StateType
<1> HIDE DEF gone
<1>5. Good(possibly_close_enabled_devs(pinned_stream_removed(gone, done)))
  BY <1>4, PinnedRemovedGood, PossiblyCloseGood
<1> QED
  BY <1>4, <1>5 DEF delete_streams, gone, a
-----------------------------------------------------------------------------
IInv == TypeOK /\ ThreadHoldsLive

(* The invariant of the variables is goodness of the record of them. *)
LEMMA StateGood == IInv => Good(State)
BY DEF IInv, TypeOK, ThreadHoldsLive, Good, Safe, StateType, State

LEMMA BecomeGood ==
  ASSUME NEW st, Good(st), Become(st),
         removed' \subseteq RealDevs, resets' \subseteq RealDevs
  PROVE  IInv'
BY DEF Become, IInv, TypeOK, ThreadHoldsLive, Good, Safe, StateType

LEMMA InitIInv == Init => IInv
<1> SUFFICES ASSUME Init PROVE IInv
  OBVIOUS
<1>1. /\ devs = {} /\ removed = {} /\ enabled = {Fallback} /\ open = {} /\ thread_open = {}
      /\ attached = {} /\ idle = {} /\ expired = {} /\ list = {} /\ to_delete = {} /\ resets = {}
  BY DEF Init
<1>2. retries \in [Devs -> Nat]
  BY DEF Init
<1>3. idle_timer \in BOOLEAN /\ stray \in BOOLEAN /\ drain_timer \in BOOLEAN /\ suspended \in BOOLEAN
  BY DEF Init
<1>4. TypeOK
  BY <1>1, <1>2, <1>3 DEF TypeOK, Devs
<1>5. ThreadHoldsLive
  BY <1>1 DEF ThreadHoldsLive
<1> QED
  BY <1>4, <1>5 DEF IInv

LEMMA NextIInv == IInv /\ [Next]_vars => IInv'
<1> SUFFICES ASSUME IInv, [Next]_vars PROVE IInv'
  OBVIOUS
<1>0. Good(State)
  BY StateGood
<1>t. removed \subseteq RealDevs /\ resets \subseteq RealDevs /\ RealDevs \subseteq Devs /\ Fallback \in Devs
  BY DEF IInv, TypeOK, Devs
<1>1. ASSUME NEW d \in RealDevs, cras_iodev_list_add(d) PROVE IInv'
  <2>1. Good([State EXCEPT !.devs = @ \union {d}])
    BY <1>0 DEF Good, Safe, StateType
  <2> QED
    BY <2>1, <1>1, <1>t, BecomeGood DEF cras_iodev_list_add
<1>2. ASSUME NEW d \in RealDevs, SuspendDev(d) PROVE IInv'
  BY <1>0, <1>t, <1>2, SuspendDevGood, BecomeGood DEF SuspendDev
<1>3. ASSUME NEW d \in RealDevs, NEW severe \in BOOLEAN, handle_dev_err(d, severe) PROVE IInv'
  <2> DEFINE st == [State EXCEPT !.thread_open = @ \ {d}, !.attached = {p \in @ : p[2] # d}]
  <2>1. Good(st)
    BY <1>0 DEF Good, Safe, StateType
  <2>2. Become(st) /\ removed' \subseteq RealDevs /\ resets' \subseteq RealDevs
    BY <1>3, <1>t DEF handle_dev_err
  <2> HIDE DEF st
  <2> QED
    BY <2>1, <2>2, BecomeGood
<1>4. ASSUME NEW d \in RealDevs, NEW e, cras_iodev_list_rm(d, e) PROVE IInv'
  <2> DEFINE off == cras_iodev_list_disable_dev(State, d, TRUE, e)
             st == IF d \in off.open THEN off ELSE [off EXCEPT !.devs = @ \ {d}]
  <2>1. Good(off)
    BY <1>0, <1>t, DisableDevGood
  <2>2. Become(st) /\ removed' \subseteq RealDevs /\ resets' \subseteq RealDevs
    BY <1>4, <1>t DEF cras_iodev_list_rm
  <2> HIDE DEF off
  <2>3. Good(st)
    BY <2>1 DEF Good, Safe, StateType
  <2> QED
    BY <2>2, <2>3, BecomeGood
<1>5. ASSUME NEW d \in RealDevs, NEW force \in BOOLEAN, NEW e, DisableDev(d, force, e) PROVE IInv'
  BY <1>0, <1>t, <1>5, DisableDevGood, BecomeGood DEF DisableDev
<1>6. ASSUME NEW d \in RealDevs, NEW e, ResumeDev(d, e) PROVE IInv'
  BY <1>0, <1>t, <1>6, ResumeDevGood, BecomeGood DEF ResumeDev
<1>7. ASSUME NEW d \in RealDevs, NEW e, handle_device_message(d, e) PROVE IInv'
  <2> DEFINE st == IF d \in devs
                   THEN cras_iodev_list_resume_dev(cras_iodev_list_suspend_dev(State, d), d, e)
                   ELSE State
  <2>1. Good(st)
    BY <1>0, <1>t, SuspendDevGood, ResumeDevGood
  <2>2. Become(st) /\ removed' \subseteq RealDevs /\ resets' \subseteq RealDevs
    BY <1>7, <1>t DEF handle_device_message
  <2> HIDE DEF st
  <2> QED
    BY <2>1, <2>2, BecomeGood
<1>8. ASSUME NEW d \in RealDevs, NEW e, init_device_cb(d, e) PROVE IInv'
  <2> DEFINE popped == [State EXCEPT !.retries[d] = @ - 1]
             up == init_and_attach_streams(popped, d, e)
             st == CASE d \notin devs \/ d \in open -> popped
                     [] d \in devs \ open /\ AttachOk(popped, d, e) -> possibly_disable_fallback(up)
                     [] OTHER -> up
  <2>1. Good(popped)
    <3>1. State.retries = retries /\ retries \in [Devs -> Nat] /\ retries[d] > 0
      BY <1>8 DEF State, IInv, TypeOK, init_device_cb
    <3> QED
      BY <1>0, <1>t, <3>1 DEF Good, Safe, StateType
  <2>2. Become(st) /\ removed' \subseteq RealDevs /\ resets' \subseteq RealDevs
    BY <1>8, <1>t DEF init_device_cb
  <2> HIDE DEF popped
  <2>3. Good(up)
    BY <2>1, <1>t, InitAttachGood
  <2> HIDE DEF up
  <2>4. Good(st)
    BY <2>1, <2>3, DisableFallbackGood
  <2> HIDE DEF st
  <2> QED
    BY <2>2, <2>4, BecomeGood
<1>9. ASSUME NEW d \in RealDevs \union {NoDev}, NEW same_node \in BOOLEAN, NEW e,
             cras_iodev_list_select_node(d, same_node, e)
      PROVE  IInv'
  <2> DEFINE already == d \in enabled /\ same_node
             st1 == IF already THEN State ELSE possibly_enable_fallback(State, e)
             st2 == disable_device(st1, st1.enabled \ {d, Fallback}, FALSE)
             st3 == IF already THEN st2 ELSE disable_device(st2, st2.enabled \intersect {d}, TRUE)
             st4 == enable_device(st3, d, e)
             st == CASE already \/ d = NoDev -> st3
                     [] ~ already /\ d # NoDev /\ EnableOk(st3, d, e) -> possibly_disable_fallback(st4)
                     [] OTHER -> st4
  <2>1. Become(st) /\ removed' \subseteq RealDevs /\ resets' \subseteq RealDevs
    BY <1>9, <1>t DEF cras_iodev_list_select_node
  <2>2. Good(st1)
    BY <1>0, <1>t, EnableGood DEF possibly_enable_fallback
  <2> HIDE DEF st1
  <2>3. Good(st2)
    BY <2>2, DisableGood
  <2> HIDE DEF st2
  <2>4. Good(st3)
    BY <2>3, DisableGood
  <2> HIDE DEF st3
  <2>5. d # NoDev => Good(st4)
    BY <2>4, <1>t, EnableGood
  <2> HIDE DEF st4
  <2>6. Good(st)
    BY <2>4, <2>5, DisableFallbackGood
  <2> HIDE DEF st
  <2> QED
    BY <2>1, <2>6, BecomeGood
<1>10. ASSUME NEW d \in RealDevs, NEW same_node \in BOOLEAN, NEW e,
              cras_iodev_list_add_active_node(d, same_node, e)
       PROVE  IInv'
  <2> DEFINE off == IF d \in enabled THEN cras_iodev_list_disable_dev(State, d, TRUE, e) ELSE State
             st == enable_device(possibly_disable_fallback(off), d, e)
  <2>1. Become(st) /\ removed' \subseteq RealDevs /\ resets' \subseteq RealDevs
    BY <1>10, <1>t DEF cras_iodev_list_add_active_node
  <2>2. Good(off)
    BY <1>0, <1>t, DisableDevGood
  <2> HIDE DEF off
  <2>3. Good(st)
    BY <2>2, <1>t, DisableFallbackGood, EnableGood
  <2> HIDE DEF st
  <2> QED
    BY <2>1, <2>3, BecomeGood
<1>11. ASSUME NEW s \in Streams, NEW late, NEW e, stream_list_add(s, late, e) PROVE IInv'
  <2> DEFINE base == [State EXCEPT !.list = @ \union {s}]
             st == streams_added(base, {s}, late, e)
             refused == ~ suspended /\ \/ is_pinned(s) /\ PinnedTo[s] \notin devs
                                       \/ s \in e.bad /\ Targets(State, s) \intersect st.thread_open # {}
             res == IF refused THEN [st EXCEPT !.list = @ \ {s}] ELSE st
  <2>1. Become(res) /\ removed' \subseteq RealDevs /\ resets' \subseteq RealDevs
    BY <1>11, <1>t DEF stream_list_add
  <2>2. s \notin list \union to_delete
    BY <1>11 DEF stream_list_add
  <2>3. Good(base)
    BY <1>0 DEF Good, Safe, StateType
  <2>4. /\ s \in base.list /\ base.to_delete = to_delete /\ base.attached = attached
        /\ base.suspended = suspended /\ base.devs = devs /\ base.enabled = enabled
    BY DEF State
  <2>5. \A p \in base.attached : p[1] # s
    BY <2>2, <2>4 DEF IInv, ThreadHoldsLive
  <2>6. Targets(State, s) = Targets(base, s)
    BY <2>4 DEF Targets, State
  <2> HIDE DEF base
  <2>7. Good(st)
    <3> DEFINE X == {s}
    <3>1. X \in SUBSET base.list
      BY <2>4
    <3> HIDE DEF X
    <3>2. Good(streams_added(base, X, late, e))
      BY <3>1, <2>3, StreamsAddedGood
    <3> QED
      BY <3>2 DEF X
  <2>8. refused => \A p \in st.attached : p[1] # s
    BY <2>2, <2>3, <2>4, <2>5, <2>6, RefusedDetached
  <2> HIDE DEF st, refused
  <2>9. Good(res)
    BY <2>7, <2>8 DEF Good, Safe, StateType
  <2> HIDE DEF res
  <2> QED
    BY <2>1, <2>9, BecomeGood
<1>12. ASSUME NEW on \in BOOLEAN, NEW late, NEW e, sys_suspend_change(on, late, e) PROVE IInv'
  <2> DEFINE pins == {PinnedTo[s] : s \in list} \intersect devs
             off == [State EXCEPT !.attached = {p \in @ : ~ (p[1] \in list /\ PinnedTo[p[1]] \in {p[2], NoDev})},
                                  !.suspended = TRUE]
             back == [State EXCEPT !.suspended = FALSE]
             st == IF on THEN close_dev(off, pins \union enabled)
                         ELSE streams_added(back, list, late, e)
  <2>1. Become(st) /\ removed' \subseteq RealDevs /\ resets' \subseteq RealDevs
    BY <1>12, <1>t DEF sys_suspend_change
  <2>2. Good(off) /\ Good(back)
    BY <1>0 DEF Good, Safe, StateType
  <2>3. list \in SUBSET back.list
    BY DEF State
  <2> HIDE DEF off, back
  <2>4. Good(st)
    BY <2>2, <2>3, CloseDevGood, StreamsAddedGood
  <2> HIDE DEF st
  <2> QED
    BY <2>1, <2>4, BecomeGood
<1>13. ASSUME NEW S, NEW left, stream_list_rm(S, left) PROVE IInv'
  <2> DEFINE base == [State EXCEPT !.list = @ \ S, !.to_delete = @ \union S]
  <2>1. Become(delete_streams(base, left)) /\ removed' \subseteq RealDevs /\ resets' \subseteq RealDevs
    BY <1>13, <1>t DEF stream_list_rm
  <2>2. S \subseteq list /\ left \subseteq to_delete \union S
    BY <1>13 DEF stream_list_rm, MayDrain
  <2>3. Good(base)
    <3>1. base \in StateType
      BY <1>0, <2>2 DEF Good, StateType, State
    <3>2. /\ base.expired = State.expired /\ base.idle = State.idle /\ base.open = State.open
          /\ base.thread_open = State.thread_open /\ base.attached = State.attached
          /\ base.list = State.list \ S /\ base.to_delete = State.to_delete \union S
      BY DEF State
    <3> HIDE DEF base
    <3>3. Safe(base)
      BY <1>0, <3>2 DEF Good, Safe
    <3> QED BY <3>1, <3>3 DEF Good
  <2>4. left \in SUBSET base.to_delete
    BY <2>2 DEF State
  <2> HIDE DEF base
  <2> QED
    BY <2>1, <2>3, <2>4, DeleteStreamsGood, BecomeGood
<1>14. ASSUME NEW left, DrainTimer(left) PROVE IInv'
  <2>1. left \in SUBSET State.to_delete
    BY <1>14 DEF DrainTimer, MayDrain, State
  <2> QED
    BY <2>1, <1>0, <1>t, <1>14, DeleteStreamsGood, BecomeGood DEF DrainTimer
<1>15. ASSUME NEW d, IdleExpires(d) PROVE IInv'
  <2>1. d \in State.idle
    BY <1>15 DEF IdleExpires, State
  <2>2. Good([State EXCEPT !.expired = @ \union {d}])
    BY <2>1, <1>0 DEF Good, Safe, StateType
  <2> QED
    BY <2>2, <1>t, <1>15, BecomeGood DEF IdleExpires
<1>16. ASSUME IdleTimer PROVE IInv'
  BY <1>0, <1>t, <1>16, IdleCheckGood, BecomeGood DEF IdleTimer
<1>17. ASSUME StrayIdleTimer PROVE IInv'
  <2> DEFINE c == idle_dev_check(State)
  <2>1. PICK more \in BOOLEAN : Become([c EXCEPT !.stray = more \/ idle_timer])
    BY <1>17 DEF StrayIdleTimer
  <2>2. Good(c)
    BY <1>0, IdleCheckGood
  <2> HIDE DEF c
  <2>3. idle_timer \in BOOLEAN
    BY DEF IInv, TypeOK
  <2>4. Good([c EXCEPT !.stray = more \/ idle_timer])
    BY <2>2, <2>3 DEF Good, Safe, StateType
  <2>5. removed' \subseteq RealDevs /\ resets' \subseteq RealDevs
    BY <1>17, <1>t DEF StrayIdleTimer
  <2> QED
    BY <2>1, <2>4, <2>5, BecomeGood
<1>18. ASSUME UNCHANGED vars PROVE IInv'
  BY <1>18 DEF IInv, TypeOK, ThreadHoldsLive, vars
<1> QED
  BY <1>1, <1>2, <1>3, <1>4, <1>5, <1>6, <1>7, <1>8, <1>9, <1>10, <1>11, <1>12,
     <1>13, <1>14, <1>15, <1>16, <1>17, <1>18 DEF Next

(* TypeOK and ThreadHoldsLive hold in every reachable state, for any set   *)
(* of devices and streams: no interleaving of stream, device, selection,   *)
(* suspend, timer and error handlers leaves the audio thread with a closed *)
(* device or a destroyed stream.                                           *)
THEOREM ThreadSafe == Spec => [](TypeOK /\ ThreadHoldsLive)
<1>1. Spec => []IInv
  BY InitIInv, NextIInv, PTL DEF Spec
<1>2. IInv => TypeOK /\ ThreadHoldsLive
  BY DEF IInv
<1> QED
  BY <1>1, <1>2, PTL
-----------------------------------------------------------------------------
(* What the other invariants need of a record.  A device that is open and  *)
(* idle is waited for by idle_timer, or the system is suspended and a      *)
(* stream that is listed will use the device when it resumes.              *)
Sturdy == \A s \in Fragile : ~ is_pinned(s)

Waited(st, d) ==
  d \in st.enabled /\ st.idle_timer /\ ~ stream_list_has_pinned_stream(st, d)

Awaits(st, d) ==
  /\ st.suspended
  /\ \E s \in st.list : PinnedTo[s] = d \/ (~ is_pinned(s) /\ d \in st.enabled)

Timed(st) == \A d \in st.open \intersect st.idle : Waited(st, d) \/ Awaits(st, d)

Placed(st) ==
  \A p \in st.attached :
    IF is_pinned(p[1]) THEN p[2] = PinnedTo[p[1]] \/ (p[2] = Fallback /\ Fallback \in st.enabled)
                       ELSE p[2] \in st.enabled \/ p[1] \in st.to_delete

Unused(st) ==
  \A p \in st.attached :
    p[2] \in st.idle => p[1] \in st.to_delete \/ (p[2] = Fallback /\ is_pinned(p[1]))

Silent(st) == st.suspended => \A p \in st.attached : p[1] \in st.to_delete

Needed(st) ==
  \A d \in st.open \ st.enabled : \E s \in st.list \union st.to_delete : PinnedTo[s] = d

(* Devices in use are in the list of devices, no stream is both listed and *)
(* draining, and the counters.                                             *)
Known(st) ==
  /\ st.open \union st.enabled \subseteq st.devs \union {Fallback}
  /\ st.list \intersect st.to_delete = {}
  /\ st.to_delete # {} => st.drain_timer
  /\ \A d \in Devs : st.retries[d] <= 1

Tidy(st) ==
  /\ Good(st) /\ Placed(st) /\ Unused(st) /\ Silent(st) /\ Known(st)
  /\ Sturdy => Needed(st)

(* t is st with the devices of C closed by idle_dev_check or its callers.  *)
Closes(st, t, C) ==
  /\ C \subseteq st.open
  /\ t.devs = st.devs /\ t.enabled = st.enabled /\ t.retries = st.retries
  /\ t.list = st.list /\ t.to_delete = st.to_delete
  /\ t.drain_timer = st.drain_timer /\ t.suspended = st.suspended
  /\ t.open = st.open \ C /\ t.thread_open = st.thread_open \ C
  /\ t.attached = {p \in st.attached : p[2] \notin C}
  /\ t.idle = st.idle \ C /\ t.expired = st.expired \ C
  /\ t.idle_timer = st.idle_timer \/ (t.enabled \intersect t.idle \intersect t.open # {} => t.idle_timer)

LEMMA CloseEffect ==
  ASSUME NEW st, Good(st), NEW D
  PROVE  LET t == close_dev_without_idle_check(st, D) IN
         /\ t.devs = st.devs /\ t.enabled = st.enabled /\ t.retries = st.retries
         /\ t.list = st.list /\ t.to_delete = st.to_delete
         /\ t.drain_timer = st.drain_timer /\ t.suspended = st.suspended
         /\ t.open = st.open \ D /\ t.thread_open = st.thread_open \ D
         /\ t.attached = {p \in st.attached : p[2] \notin D}
         /\ t.idle = st.idle \ D /\ t.expired = st.expired \ D
         /\ t.idle_timer = st.idle_timer
BY DEF Good, StateType, close_dev_without_idle_check

(* idle_dev_check closes enabled devices whose time has passed. *)
LEMMA IdleCheckEffect ==
  ASSUME NEW st, Good(st)
  PROVE  /\ Closes(st, idle_dev_check(st), st.enabled \intersect st.expired \intersect st.open)
         /\ idle_dev_check(st).enabled \intersect idle_dev_check(st).idle \intersect idle_dev_check(st).open # {}
              => idle_dev_check(st).idle_timer
<1> DEFINE C == st.enabled \intersect st.expired \intersect st.open
           c == close_dev_without_idle_check(st, C)
           t == idle_dev_check(st)
<1>0. C = st.enabled \intersect st.expired \intersect st.open
  OBVIOUS
<1> HIDE DEF C
<1>1. Good(c)
  BY CloseGood
<1>2. /\ c.devs = st.devs /\ c.enabled = st.enabled /\ c.retries = st.retries
      /\ c.list = st.list /\ c.to_delete = st.to_delete
      /\ c.drain_timer = st.drain_timer /\ c.suspended = st.suspended
      /\ c.open = st.open \ C /\ c.thread_open = st.thread_open \ C
      /\ c.attached = {p \in st.attached : p[2] \notin C}
      /\ c.idle = st.idle \ C /\ c.expired = st.expired \ C
      /\ c.idle_timer = st.idle_timer
  BY CloseEffect
<1>3. t = [c EXCEPT !.idle_timer = c.enabled \intersect (c.idle \ c.expired) # {}]
  BY <1>0 DEF idle_dev_check
<1> HIDE DEF c, t
<1>4. /\ t.devs = c.devs /\ t.enabled = c.enabled /\ t.retries = c.retries
      /\ t.list = c.list /\ t.to_delete = c.to_delete
      /\ t.drain_timer = c.drain_timer /\ t.suspended = c.suspended
      /\ t.open = c.open /\ t.thread_open = c.thread_open
      /\ t.attached = c.attached /\ t.idle = c.idle /\ t.expired = c.expired
      /\ t.idle_timer = (c.enabled \intersect (c.idle \ c.expired) # {})
  BY <1>1, <1>3 DEF Good, StateType
<1>5. t.enabled \intersect t.idle \intersect t.open # {} => t.idle_timer
  BY <1>0, <1>2, <1>4
<1>6. C \subseteq st.open
  BY <1>0
<1>7. Closes(st, t, C)
  BY <1>2, <1>4, <1>5, <1>6 DEF Closes
<1> QED BY <1>0, <1>5, <1>7 DEF t

(* close_dev closes what it is asked to, and what idle_dev_check closes.   *)
LEMMA CloseDevEffect ==
  ASSUME NEW st, Good(st), NEW D
  PROVE  \E C : /\ Closes(st, close_dev(st, D), C)
                /\ D \intersect st.open \subseteq C
                /\ C \subseteq D \union (st.enabled \intersect st.expired)
<1>1. CASE D \intersect st.open = {}
  <2>1. close_dev(st, D) = st
    BY <1>1 DEF close_dev
  <2>2. Closes(st, st, {})
    <3>1. /\ st.open = st.open \ {} /\ st.thread_open = st.thread_open \ {}
          /\ st.idle = st.idle \ {} /\ st.expired = st.expired \ {}
          /\ st.attached = {p \in st.attached : p[2] \notin {}}
      OBVIOUS
    <3> QED BY <3>1, Zenon DEF Closes
  <2> QED BY <1>1, <2>1, <2>2
<1>2. CASE D \intersect st.open # {}
  <2> DEFINE E == D \intersect st.open
             c == close_dev_without_idle_check(st, E)
             t == idle_dev_check(c)
             F == c.enabled \intersect c.expired \intersect c.open
  <2>0. E = D \intersect st.open
    OBVIOUS
  <2>1. close_dev(st, D) = t
    BY <1>2 DEF close_dev
  <2> HIDE DEF E
  <2>2. Good(c)
    BY CloseGood
  <2>3. /\ c.devs = st.devs /\ c.enabled = st.enabled /\ c.retries = st.retries
        /\ c.list = st.list /\ c.to_delete = st.to_delete
        /\ c.drain_timer = st.drain_timer /\ c.suspended = st.suspended
        /\ c.open = st.open \ E /\ c.thread_open = st.thread_open \ E
        /\ c.attached = {p \in st.attached : p[2] \notin E}
        /\ c.idle = st.idle \ E /\ c.expired = st.expired \ E
    BY CloseEffect
  <2> HIDE DEF c
  <2>4. Closes(c, t, F) /\ (t.enabled \intersect t.idle \intersect t.open # {} => t.idle_timer)
    BY <2>2, IdleCheckEffect
  <2>5. F \subseteq st.enabled \intersect st.expired /\ F \subseteq st.open
    BY <2>3
  <2> HIDE DEF F, t
  <2>6. Closes(st, t, E \union F)
    <3>1. t.open = st.open \ (E \union F) /\ t.thread_open = st.thread_open \ (E \union F)
      BY <2>3, <2>4 DEF Closes
    <3>2. t.idle = st.idle \ (E \union F) /\ t.expired = st.expired \ (E \union F)
      BY <2>3, <2>4 DEF Closes
    <3>3. t.attached = {p \in st.attached : p[2] \notin E \union F}
      BY <2>3, <2>4 DEF Closes
    <3>4. E \union F \subseteq st.open
      BY <2>0, <2>5
    <3>5. /\ t.devs = st.devs /\ t.enabled = st.enabled /\ t.retries = st.retries
          /\ t.list = st.list /\ t.to_delete = st.to_delete
          /\ t.drain_timer = st.drain_timer /\ t.suspended = st.suspended
      BY <2>3, <2>4 DEF Closes
    <3> QED BY <2>4, <3>1, <3>2, <3>3, <3>4, <3>5, Zenon DEF Closes
  <2> QED BY <2>0, <2>1, <2>5, <2>6
<1> QED BY <1>1, <1>2

(* Closing devices leaves a tidy state tidy. *)
LEMMA ClosesKeeps ==
  ASSUME NEW st, NEW t, NEW C, Closes(st, t, C), Good(st), Good(t)
  PROVE  /\ Tidy(st) => Tidy(t)
         /\ Timed(st) => Timed(t)
<1>1. ASSUME Tidy(st) PROVE Tidy(t)
  <2>1. /\ t.enabled = st.enabled /\ t.to_delete = st.to_delete /\ t.list = st.list
        /\ t.attached \subseteq st.attached /\ t.idle \subseteq st.idle
        /\ t.open \subseteq st.open /\ t.suspended = st.suspended
        /\ t.devs = st.devs /\ t.retries = st.retries /\ t.drain_timer = st.drain_timer
    BY DEF Closes
  <2>2. Placed(t) /\ Unused(t)
    BY <2>1, <1>1 DEF Tidy, Placed, Unused
  <2>3. Silent(t)
    BY <2>1, <1>1 DEF Tidy, Silent
  <2>4. Known(t)
    BY <2>1, <1>1 DEF Tidy, Known
  <2>5. Sturdy => Needed(t)
    BY <2>1, <1>1 DEF Tidy, Needed
  <2> QED BY <2>2, <2>3, <2>4, <2>5 DEF Tidy
<1>2. ASSUME Timed(st), NEW d \in t.open \intersect t.idle PROVE Waited(t, d) \/ Awaits(t, d)
  <2>1. d \in st.open \intersect st.idle /\ t.enabled = st.enabled
        /\ t.list = st.list /\ t.suspended = st.suspended
    BY DEF Closes
  <2>2. CASE Awaits(st, d)
    BY <2>1, <2>2 DEF Awaits
  <2>3. CASE Waited(st, d)
    <3>1. d \in t.enabled /\ ~ stream_list_has_pinned_stream(t, d)
      BY <2>1, <2>3 DEF Waited, stream_list_has_pinned_stream
    <3>2. t.idle_timer
      <4>1. st.idle_timer
        BY <2>3 DEF Waited
      <4>2. t.enabled \intersect t.idle \intersect t.open # {}
        BY <3>1
      <4>3. t.idle_timer = st.idle_timer
            \/ (t.enabled \intersect t.idle \intersect t.open # {} => t.idle_timer)
        BY DEF Closes
      <4> QED BY <4>1, <4>2, <4>3, Zenon
    <3> QED BY <3>1, <3>2 DEF Waited
  <2> QED BY <1>2, <2>1, <2>2, <2>3 DEF Timed
<1> QED BY <1>1, <1>2 DEF Timed

LEMMA DisconnectEffect ==
  ASSUME NEW st, Good(st), NEW S, NEW D
  PROVE  LET t == audio_thread_disconnect_streams(st, S, D) IN
         /\ t.devs = st.devs /\ t.enabled = st.enabled /\ t.retries = st.retries
         /\ t.list = st.list /\ t.to_delete = st.to_delete
         /\ t.drain_timer = st.drain_timer /\ t.suspended = st.suspended
         /\ t.open = st.open /\ t.thread_open = st.thread_open
         /\ t.attached = {p \in st.attached : ~ (p[1] \in S /\ p[2] \in D)}
         /\ t.idle = st.idle /\ t.expired = st.expired
         /\ t.idle_timer = st.idle_timer
BY DEF Good, StateType, audio_thread_disconnect_streams

(* So does taking streams off devices. *)
LEMMA DisconnectKeeps ==
  ASSUME NEW st, Good(st), NEW S, NEW D
  PROVE  /\ Tidy(st) => Tidy(audio_thread_disconnect_streams(st, S, D))
         /\ Timed(st) => Timed(audio_thread_disconnect_streams(st, S, D))
         /\ audio_thread_disconnect_streams(st, S, D).devs = st.devs
<1> DEFINE t == audio_thread_disconnect_streams(st, S, D)
<1>1. Good(t)
  BY DisconnectGood
<1>2. /\ t.devs = st.devs /\ t.enabled = st.enabled /\ t.retries = st.retries
      /\ t.list = st.list /\ t.to_delete = st.to_delete
      /\ t.drain_timer = st.drain_timer /\ t.suspended = st.suspended
      /\ t.open = st.open /\ t.attached \subseteq st.attached
      /\ t.idle = st.idle /\ t.idle_timer = st.idle_timer
  BY DisconnectEffect
<1> HIDE DEF t
<1>3. ASSUME Tidy(st) PROVE Tidy(t)
  <2>2. Placed(t) /\ Unused(t)
    BY <1>2, <1>3 DEF Tidy, Placed, Unused
  <2>3. Silent(t) /\ Known(t)
    BY <1>2, <1>3 DEF Tidy, Silent, Known
  <2>5. Sturdy => Needed(t)
    BY <1>2, <1>3 DEF Tidy, Needed
  <2> QED BY <1>1, <2>2, <2>3, <2>5 DEF Tidy
<1>4. ASSUME Timed(st) PROVE Timed(t)
  BY <1>2, <1>4 DEF Timed, Waited, Awaits, stream_list_has_pinned_stream
<1> QED BY <1>2, <1>3, <1>4 DEF t

(* close_dev after streams were taken off. *)
LEMMA CloseDevKeeps ==
  ASSUME NEW st, Good(st), NEW D
  PROVE  /\ Tidy(st) => Tidy(close_dev(st, D))
         /\ Timed(st) => Timed(close_dev(st, D))
         /\ close_dev(st, D).devs = st.devs /\ close_dev(st, D).enabled = st.enabled
         /\ D \intersect close_dev(st, D).open = {}
<1>1. Good(close_dev(st, D))
  BY CloseDevGood
<1>2. PICK C : Closes(st, close_dev(st, D), C) /\ D \intersect st.open \subseteq C
  BY CloseDevEffect
<1>3. /\ close_dev(st, D).devs = st.devs /\ close_dev(st, D).enabled = st.enabled
      /\ D \intersect close_dev(st, D).open = {}
  BY <1>2 DEF Closes
<1> QED BY <1>1, <1>2, <1>3, ClosesKeeps

(* The parts of disable_device. *)
Disabled(st, D, R) == [st EXCEPT !.enabled = @ \ D, !.retries = R]
DisableOff(st, D, force) ==
  audio_thread_disconnect_streams(
    [st EXCEPT !.enabled = @ \ D,
               !.retries = [d \in Devs |-> IF force /\ d \in D THEN 0 ELSE @[d]]],
    {s \in st.list : force \/ ~ is_pinned(s)}, D)
DisableClosed(st, D, force) == {d \in D : force \/ ~ stream_list_has_pinned_stream(st, d)}

LEMMA OffEffect ==
  ASSUME NEW st, Good(st), NEW D, NEW R \in [Devs -> Nat]
  PROVE  LET off == Disabled(st, D, R) IN
         /\ Good(off)
         /\ off.devs = st.devs /\ off.enabled = st.enabled \ D /\ off.retries = R
         /\ off.list = st.list /\ off.to_delete = st.to_delete
         /\ off.drain_timer = st.drain_timer /\ off.suspended = st.suspended
         /\ off.open = st.open /\ off.thread_open = st.thread_open
         /\ off.attached = st.attached
         /\ off.idle = st.idle /\ off.expired = st.expired
         /\ off.idle_timer = st.idle_timer
BY DEF Good, Safe, StateType, Disabled

LEMMA DisableEffect ==
  ASSUME NEW st, Good(st), NEW D, NEW force \in BOOLEAN
  PROVE  LET t == DisableOff(st, D, force) IN
         /\ Good(t) /\ disable_device(st, D, force) = close_dev(t, DisableClosed(st, D, force))
         /\ t.devs = st.devs /\ t.enabled = st.enabled \ D
         /\ t.retries = [d \in Devs |-> IF force /\ d \in D THEN 0 ELSE st.retries[d]]
         /\ t.list = st.list /\ t.to_delete = st.to_delete
         /\ t.drain_timer = st.drain_timer /\ t.suspended = st.suspended
         /\ t.open = st.open /\ t.thread_open = st.thread_open
         /\ t.attached = {p \in st.attached :
                            ~ (p[1] \in {s \in st.list : force \/ ~ is_pinned(s)} /\ p[2] \in D)}
         /\ t.idle = st.idle /\ t.expired = st.expired
         /\ t.idle_timer = st.idle_timer
<1> DEFINE R == [d \in Devs |-> IF force /\ d \in D THEN 0 ELSE st.retries[d]]
           off == Disabled(st, D, R)
           pulled == {s \in st.list : force \/ ~ is_pinned(s)}
           t == DisableOff(st, D, force)
<1>1. R \in [Devs -> Nat]
  BY DEF Good, StateType
<1>0. R = [d \in Devs |-> IF force /\ d \in D THEN 0 ELSE st.retries[d]]
  OBVIOUS
<1>3. disable_device(st, D, force) = close_dev(t, DisableClosed(st, D, force))
  BY DEF disable_device, DisableOff, DisableClosed
<1>4. t = audio_thread_disconnect_streams(off, pulled, D)
  BY DEF DisableOff, Disabled
<1>5. pulled = {s \in st.list : force \/ ~ is_pinned(s)}
  OBVIOUS
<1> HIDE DEF R
<1>2. /\ Good(off)
      /\ off.devs = st.devs /\ off.enabled = st.enabled \ D /\ off.retries = R
      /\ off.list = st.list /\ off.to_delete = st.to_delete
      /\ off.drain_timer = st.drain_timer /\ off.suspended = st.suspended
      /\ off.open = st.open /\ off.thread_open = st.thread_open
      /\ off.attached = st.attached
      /\ off.idle = st.idle /\ off.expired = st.expired
      /\ off.idle_timer = st.idle_timer
  BY <1>1, OffEffect
<1> HIDE DEF off, pulled, t
<1>6. Good(t)
  BY <1>2, <1>4, DisconnectGood
<1>7. /\ t.devs = off.devs /\ t.enabled = off.enabled /\ t.retries = off.retries
      /\ t.list = off.list /\ t.to_delete = off.to_delete
      /\ t.drain_timer = off.drain_timer /\ t.suspended = off.suspended
      /\ t.open = off.open /\ t.thread_open = off.thread_open
      /\ t.attached = {p \in off.attached : ~ (p[1] \in pulled /\ p[2] \in D)}
      /\ t.idle = off.idle /\ t.expired = off.expired
      /\ t.idle_timer = off.idle_timer
  BY <1>2, <1>4, DisconnectEffect
<1> QED BY <1>0, <1>2, <1>3, <1>5, <1>6, <1>7 DEF t

(* disable_device closes a device with streams that may not stay there: a  *)
(* pinned stream keeps its device, and no stream pins the fallback.        *)
LEMMA DisableKeeps ==
  ASSUME NEW st, Tidy(st), NEW D, NEW force \in BOOLEAN
  PROVE  LET t == disable_device(st, D, force) IN
         /\ Tidy(t) /\ (Timed(st) => Timed(t))
         /\ t.devs = st.devs /\ t.enabled = st.enabled \ D
         /\ force => D \intersect t.open = {}
<1> DEFINE m == DisableOff(st, D, force)
           E == DisableClosed(st, D, force)
           t == disable_device(st, D, force)
<1>0. Good(st)
  BY DEF Tidy
<1>1. /\ Good(m) /\ t = close_dev(m, E)
      /\ m.devs = st.devs /\ m.enabled = st.enabled \ D
      /\ m.retries = [d \in Devs |-> IF force /\ d \in D THEN 0 ELSE st.retries[d]]
      /\ m.list = st.list /\ m.to_delete = st.to_delete
      /\ m.drain_timer = st.drain_timer /\ m.suspended = st.suspended
      /\ m.open = st.open /\ m.thread_open = st.thread_open
      /\ m.attached = {p \in st.attached :
                         ~ (p[1] \in {s \in st.list : force \/ ~ is_pinned(s)} /\ p[2] \in D)}
      /\ m.idle = st.idle /\ m.expired = st.expired
      /\ m.idle_timer = st.idle_timer
  BY <1>0, DisableEffect
<1>2. E = {d \in D : force \/ ~ stream_list_has_pinned_stream(st, d)}
  BY DEF DisableClosed
<1> HIDE DEF m, E, t
<1>3. Good(t)
  BY <1>1, CloseDevGood
<1>4. PICK C : Closes(m, t, C) /\ E \intersect m.open \subseteq C
  BY <1>1, CloseDevEffect
<1>5. /\ t.devs = st.devs /\ t.enabled = st.enabled \ D
      /\ t.list = st.list /\ t.to_delete = st.to_delete
      /\ t.drain_timer = st.drain_timer /\ t.suspended = st.suspended
      /\ t.open = st.open \ C /\ t.idle = st.idle \ C
      /\ t.retries = [d \in Devs |-> IF force /\ d \in D THEN 0 ELSE st.retries[d]]
      /\ E \intersect st.open \subseteq C
  BY <1>1, <1>4 DEF Closes
<1>6. ASSUME NEW p \in t.attached
      PROVE  /\ p \in st.attached /\ p[2] \notin C
             /\ p[1] \in st.list /\ (force \/ ~ is_pinned(p[1])) => p[2] \notin D
  BY <1>1, <1>4, <1>6 DEF Closes
<1>7. \A p \in st.attached : p[2] \in st.open /\ p[1] \in st.list \union st.to_delete
  BY <1>0 DEF Good, Safe
<1>8. Fallback \in D => Fallback \in E
  BY <1>0, <1>2, IodevListAssumption DEF stream_list_has_pinned_stream, Good, StateType
<1>9. Placed(t)
  <2> SUFFICES ASSUME NEW p \in t.attached
               PROVE  IF is_pinned(p[1])
                      THEN p[2] = PinnedTo[p[1]] \/ (p[2] = Fallback /\ Fallback \in t.enabled)
                      ELSE p[2] \in t.enabled \/ p[1] \in t.to_delete
    BY DEF Placed
  <2>1. IF is_pinned(p[1])
        THEN p[2] = PinnedTo[p[1]] \/ (p[2] = Fallback /\ Fallback \in st.enabled)
        ELSE p[2] \in st.enabled \/ p[1] \in st.to_delete
    BY <1>6 DEF Tidy, Placed
  <2>2. CASE is_pinned(p[1])
    BY <2>1, <2>2, <1>5, <1>6, <1>7, <1>8
  <2>3. CASE ~ is_pinned(p[1])
    BY <2>1, <2>3, <1>5, <1>6, <1>7
  <2> QED BY <2>2, <2>3
<1>10. Unused(t) /\ Silent(t)
  BY <1>5, <1>6 DEF Tidy, Unused, Silent
<1>11. Known(t)
  BY <1>5 DEF Tidy, Known
<1>12. ASSUME NEW d \in D, d \in t.open PROVE ~ force /\ \E s \in st.list : PinnedTo[s] = d
  BY <1>2, <1>5, <1>12 DEF stream_list_has_pinned_stream
<1>13. Sturdy => Needed(t)
  <2> SUFFICES ASSUME Sturdy, NEW d \in t.open \ t.enabled
               PROVE  \E s \in t.list \union t.to_delete : PinnedTo[s] = d
    BY DEF Needed
  <2>1. CASE d \in D
    BY <2>1, <1>5, <1>12
  <2>2. CASE d \notin D
    BY <2>2, <1>5 DEF Tidy, Needed
  <2> QED BY <2>1, <2>2
<1>14. ASSUME Timed(st), NEW d \in t.open \intersect t.idle PROVE Waited(t, d) \/ Awaits(t, d)
  <2>1. Waited(st, d) \/ Awaits(st, d)
    BY <1>5, <1>14 DEF Timed
  <2>2. CASE Waited(st, d)
    <3>1. d \notin D /\ d \in t.enabled /\ ~ stream_list_has_pinned_stream(t, d)
      BY <2>2, <1>5, <1>12, <1>14 DEF Waited, stream_list_has_pinned_stream
    <3>2. t.idle_timer
      <4>1. st.idle_timer /\ m.idle_timer = st.idle_timer
        BY <2>2, <1>1 DEF Waited
      <4>2. t.enabled \intersect t.idle \intersect t.open # {}
        BY <3>1, <1>14
      <4>3. t.idle_timer = m.idle_timer
            \/ (t.enabled \intersect t.idle \intersect t.open # {} => t.idle_timer)
        BY <1>4 DEF Closes
      <4> QED BY <4>1, <4>2, <4>3, Zenon
    <3> QED BY <3>1, <3>2 DEF Waited
  <2>3. CASE Awaits(st, d)
    <3>1. CASE d \in D
      BY <2>3, <3>1, <1>5, <1>12, <1>14 DEF Awaits
    <3>2. CASE d \notin D
      BY <2>3, <3>2, <1>5 DEF Awaits
    <3> QED BY <3>1, <3>2
  <2> QED BY <2>1, <2>2, <2>3
<1>15. Tidy(t)
  BY <1>3, <1>9, <1>10, <1>11, <1>13 DEF Tidy
<1>16. Timed(st) => Timed(t)
  BY <1>14 DEF Timed
<1>17. force => D \intersect t.open = {}
  BY <1>12
<1> QED BY <1>5, <1>15, <1>16, <1>17 DEF t

LEMMA DisableFallbackKeeps ==
  ASSUME NEW st, Tidy(st)
  PROVE  LET t == possibly_disable_fallback(st) IN
         Tidy(t) /\ (Timed(st) => Timed(t)) /\ t.devs = st.devs
BY DisableKeeps DEF possibly_disable_fallback
-----------------------------------------------------------------------------
(* Opening. *)
IsInit(st, t, D, opens) ==
  /\ t.devs = st.devs /\ t.enabled = st.enabled
  /\ \A d \in Devs : t.retries[d] = IF d \in D \ st.open THEN 0 ELSE st.retries[d]
  /\ t.list = st.list /\ t.to_delete = st.to_delete
  /\ t.drain_timer = st.drain_timer /\ t.suspended = st.suspended
  /\ t.open = st.open \union ((D \ st.open) \intersect opens)
  /\ t.attached = st.attached /\ t.idle = st.idle \ D
  /\ t.idle_timer = st.idle_timer

LEMMA InitDeviceEffect ==
  ASSUME NEW st, Good(st), NEW D \in SUBSET Devs, NEW opens
  PROVE  IsInit(st, init_device(st, D, opens), D, opens)
BY DEF IsInit, Good, StateType, init_device, exit_idle

IsScheduled(st, t, D) ==
  /\ t.devs = st.devs /\ t.enabled = st.enabled
  /\ \A d \in Devs : t.retries[d] = IF d \in D THEN st.retries[d] + 1 ELSE st.retries[d]
  /\ t.list = st.list /\ t.to_delete = st.to_delete
  /\ t.drain_timer = st.drain_timer /\ t.suspended = st.suspended
  /\ t.open = st.open /\ t.thread_open = st.thread_open
  /\ t.attached = st.attached /\ t.idle = st.idle
  /\ t.idle_timer = st.idle_timer

LEMMA ScheduleEffect ==
  ASSUME NEW st, Good(st), NEW D
  PROVE  IsScheduled(st, schedule_init_device_retry(st, D), D)
BY DEF IsScheduled, Good, StateType, schedule_init_device_retry

IsAdded(st, t, pairs, e) ==
  /\ t.devs = st.devs /\ t.enabled = st.enabled /\ t.retries = st.retries
  /\ t.list = st.list /\ t.to_delete = st.to_delete
  /\ t.drain_timer = st.drain_timer /\ t.suspended = st.suspended
  /\ t.open = st.open /\ t.attached \subseteq st.attached \union pairs
  /\ \A p \in st.attached : p[1] \notin e.bad => p \in t.attached
  /\ t.idle = st.idle /\ t.idle_timer = st.idle_timer

LEMMA AddStreamEffect ==
  ASSUME NEW st, Good(st), NEW pairs, NEW e
  PROVE  IsAdded(st, audio_thread_add_stream(st, pairs, e), pairs, e)
BY DEF IsAdded, Good, StateType, audio_thread_add_stream

(* t is st with devices of W opened and streams put on them as P says.     *)
Opens(st, t, W, P) ==
  /\ t.devs = st.devs /\ t.enabled = st.enabled
  /\ t.list = st.list /\ t.to_delete = st.to_delete
  /\ t.drain_timer = st.drain_timer /\ t.suspended = st.suspended
  /\ t.idle_timer = st.idle_timer /\ t.idle = st.idle \ W
  /\ t.open \subseteq st.open \union W
  /\ t.attached \subseteq st.attached \union P
  /\ \A d \in Devs : t.retries[d] <= 1

(* Opening devices that are enabled or pinned, for streams routed there,   *)
(* leaves a tidy state tidy.                                               *)
LEMMA OpensKeeps ==
  ASSUME NEW st, NEW t, NEW W, NEW P, Tidy(st), Good(t), Opens(st, t, W, P), ~ st.suspended,
         \A d \in W : /\ d \in st.devs \union {Fallback}
                      /\ d \in st.enabled \/ \E s \in st.list : PinnedTo[s] = d,
         \A p \in P : /\ p[2] \in W
                      /\ IF is_pinned(p[1])
                         THEN p[2] = PinnedTo[p[1]] \/ (p[2] = Fallback /\ Fallback \in st.enabled)
                         ELSE p[2] \in st.enabled
  PROVE  /\ Tidy(t)
         /\ (\A d \in st.open \intersect st.idle : Waited(st, d) \/ d \in W) => Timed(t)
<1>1. Placed(t)
  BY DEF Tidy, Placed, Opens
<1>2. Unused(t) /\ Silent(t)
  BY DEF Tidy, Unused, Silent, Opens
<1>3. Known(t)
  BY DEF Tidy, Known, Opens
<1>4. Sturdy => Needed(t)
  BY DEF Tidy, Needed, Opens
<1>5. ASSUME \A d \in st.open \intersect st.idle : Waited(st, d) \/ d \in W,
             NEW d \in t.open \intersect t.idle
      PROVE  Waited(t, d)
  BY <1>5 DEF Opens, Waited, stream_list_has_pinned_stream
<1> QED BY <1>1, <1>2, <1>3, <1>4, <1>5 DEF Tidy, Timed

(* The streams init_and_attach_streams finds for a device. *)
LEMMA CanAttachFacts ==
  ASSUME NEW st, NEW d, NEW s \in CanAttach(st, d)
  PROVE  /\ ~ st.suspended /\ s \in st.list
         /\ IF is_pinned(s) THEN d \in {PinnedTo[s], Fallback} ELSE d \in st.enabled
BY DEF CanAttach

LEMMA InitAttachKeeps ==
  ASSUME NEW st, Tidy(st), NEW d \in st.devs \union {Fallback}, NEW e,
         d = Fallback => d \in st.enabled
  PROVE  LET t == init_and_attach_streams(st, d, e) IN
         /\ Tidy(t) /\ (Timed(st) => Timed(t))
         /\ t.devs = st.devs /\ t.enabled = st.enabled /\ t.suspended = st.suspended
         /\ ~ AttachOk(st, d, e) => t.retries[d] = 0
         /\ \A p \in st.attached : p[1] \notin e.bad => p \in t.attached
<1> DEFINE t == init_and_attach_streams(st, d, e)
           W == {d}
           opens == e.ok \union {Fallback}
           o == init_device(st, W, opens)
           P == CanAttach(st, d) \X {d}
           a == audio_thread_add_stream(o, P, e)
<1>0. Good(st) /\ d \in Devs /\ Good(t) /\ W \in SUBSET Devs
  <2>1. Good(st) /\ d \in Devs
    BY DEF Tidy, Good, StateType, Devs
  <2> QED BY <2>1, InitAttachGood
<1>1. CASE CanAttach(st, d) = {}
  <2>1. t = st /\ AttachOk(st, d, e)
    BY <1>1 DEF init_and_attach_streams, AttachOk
  <2> QED BY <2>1
<1>2. CASE CanAttach(st, d) # {}
  <2>0. W = {d} /\ P = CanAttach(st, d) \X {d}
    OBVIOUS
  <2>1. t = IF AttachOk(st, d, e) THEN a ELSE o
    BY <1>2 DEF init_and_attach_streams
  <2> HIDE DEF W, opens, P, t
  <2>o. Good(o)
    BY <1>0, InitDeviceGood
  <2>2. IsInit(st, o, W, opens)
    BY <1>0, InitDeviceEffect
  <2> HIDE DEF o
  <2>3. IsAdded(o, a, P, e)
    BY <2>o, AddStreamEffect
  <2> HIDE DEF a
  <2>4. ASSUME NEW x \in Devs PROVE o.retries[x] <= 1
    BY <2>2, <2>4 DEF Tidy, Known, IsInit
  <2>5. Opens(st, o, W, P) /\ Opens(st, a, W, P)
    BY <2>2, <2>3, <2>4 DEF Opens, IsInit, IsAdded
  <2>6. Opens(st, t, W, P)
    BY <2>1, <2>5
  <2>7. ~ st.suspended /\ (d \in st.enabled \/ \E s \in st.list : PinnedTo[s] = d)
    BY <1>2, CanAttachFacts
  <2>8. \A x \in W : /\ x \in st.devs \union {Fallback}
                     /\ x \in st.enabled \/ \E s \in st.list : PinnedTo[s] = x
    BY <2>0, <2>7
  <2>9. \A p \in P : /\ p[2] \in W
                     /\ IF is_pinned(p[1])
                        THEN p[2] = PinnedTo[p[1]] \/ (p[2] = Fallback /\ Fallback \in st.enabled)
                        ELSE p[2] \in st.enabled
    BY <2>0, CanAttachFacts
  <2>10. Tidy(t)
    BY <2>6, <2>7, <2>8, <2>9, <1>0, OpensKeeps, Zenon
  <2>11. Timed(st) => Timed(t)
    <3>1. Timed(st) => \A x \in st.open \intersect st.idle : Waited(st, x) \/ x \in W
      BY <2>7 DEF Timed, Awaits
    <3> QED BY <3>1, <2>6, <2>7, <2>8, <2>9, <1>0, OpensKeeps
  <2>12. ASSUME ~ AttachOk(st, d, e) PROVE t.retries[d] = 0
    BY <2>0, <2>1, <2>2, <2>12, <1>0 DEF AttachOk, IsInit
  <2>13. t.devs = st.devs /\ t.enabled = st.enabled /\ t.suspended = st.suspended
    BY <2>6 DEF Opens
  <2>14. \A p \in st.attached : p[1] \notin e.bad => p \in t.attached
    BY <2>1, <2>2, <2>3 DEF IsInit, IsAdded
  <2> QED BY <2>10, <2>11, <2>12, <2>13, <2>14 DEF t
<1> QED BY <1>1, <1>2

(* A retry scheduled after the pending ones were cancelled is the only one. *)
LEMMA ScheduleKeeps ==
  ASSUME NEW st, Tidy(st), NEW d \in Devs, st.retries[d] = 0
  PROVE  LET t == schedule_init_device_retry(st, {d}) IN
         /\ Tidy(t) /\ (Timed(st) => Timed(t))
         /\ t.devs = st.devs /\ t.enabled = st.enabled /\ t.attached = st.attached
         /\ t.suspended = st.suspended
<1> DEFINE D == {d}
           t == schedule_init_device_retry(st, D)
<1>0. D = {d} /\ Good(st)
  BY DEF Tidy
<1> HIDE DEF D
<1>1. Good(t) /\ IsScheduled(st, t, D)
  BY <1>0, ScheduleGood, ScheduleEffect
<1> HIDE DEF t
<1>2. Placed(t) /\ Unused(t) /\ Silent(t)
  BY <1>1 DEF Tidy, Placed, Unused, Silent, IsScheduled
<1>3. \A x \in Devs : t.retries[x] <= 1
  BY <1>0, <1>1 DEF Tidy, Known, IsScheduled
<1>4. Known(t) /\ (Sturdy => Needed(t))
  BY <1>1, <1>3 DEF Tidy, Known, Needed, IsScheduled
<1>5. Timed(st) => Timed(t)
  BY <1>1 DEF Timed, Waited, Awaits, stream_list_has_pinned_stream, IsScheduled
<1> QED BY <1>0, <1>1, <1>2, <1>4, <1>5 DEF Tidy, t, IsScheduled

LEMMA EnableEffect ==
  ASSUME NEW st, Good(st), NEW d \in Devs
  PROVE  LET t == [st EXCEPT !.enabled = @ \union {d}] IN
         /\ Good(t) /\ t.devs = st.devs /\ t.enabled = st.enabled \union {d}
         /\ t.retries = st.retries /\ t.list = st.list /\ t.to_delete = st.to_delete
         /\ t.drain_timer = st.drain_timer /\ t.suspended = st.suspended
         /\ t.open = st.open /\ t.attached = st.attached /\ t.idle = st.idle
         /\ t.idle_timer = st.idle_timer
BY DEF Good, Safe, StateType

LEMMA EnableKeeps ==
  ASSUME NEW st, Tidy(st), NEW d \in st.devs \union {Fallback}, NEW e
  PROVE  LET t == enable_device(st, d, e) IN
         /\ Tidy(t) /\ (Timed(st) => Timed(t))
         /\ t.devs = st.devs /\ t.enabled = st.enabled \union {d} /\ t.suspended = st.suspended
         /\ \A p \in st.attached : p[1] \notin e.bad => p \in t.attached
<1> DEFINE on == [st EXCEPT !.enabled = @ \union {d}]
           up == init_and_attach_streams(on, d, e)
           t == enable_device(st, d, e)
<1>0. Good(st) /\ d \in Devs
  BY DEF Tidy, Good, StateType, Devs
<1>1. /\ Good(on) /\ on.devs = st.devs /\ on.enabled = st.enabled \union {d}
      /\ on.retries = st.retries /\ on.list = st.list /\ on.to_delete = st.to_delete
      /\ on.drain_timer = st.drain_timer /\ on.suspended = st.suspended
      /\ on.open = st.open /\ on.attached = st.attached /\ on.idle = st.idle
      /\ on.idle_timer = st.idle_timer
  BY <1>0, EnableEffect
<1>2. t = CASE d \in st.enabled -> st
            [] d \notin st.enabled /\ AttachOk(on, d, e) -> up
            [] OTHER -> schedule_init_device_retry(up, {d})
  BY DEF enable_device
<1> HIDE DEF on, t
<1>3. Tidy(on)
  <2>1. Placed(on) /\ Unused(on) /\ Silent(on)
    BY <1>1 DEF Tidy, Placed, Unused, Silent
  <2>2. Known(on) /\ (Sturdy => Needed(on))
    BY <1>1 DEF Tidy, Known, Needed
  <2> QED BY <1>1, <2>1, <2>2 DEF Tidy
<1>4. Timed(st) => Timed(on)
  BY <1>1 DEF Timed, Waited, Awaits, stream_list_has_pinned_stream
<1>5. d \in on.devs \union {Fallback} /\ d \in on.enabled
  BY <1>1
<1>6. /\ Tidy(up) /\ (Timed(on) => Timed(up))
      /\ up.devs = on.devs /\ up.enabled = on.enabled /\ up.suspended = on.suspended
      /\ ~ AttachOk(on, d, e) => up.retries[d] = 0
      /\ \A p \in on.attached : p[1] \notin e.bad => p \in up.attached
  BY <1>3, <1>5, InitAttachKeeps
<1> HIDE DEF up
<1>7. CASE d \in st.enabled
  <2>1. t = st
    BY <1>2, <1>7
  <2> QED BY <2>1, <1>7 DEF t
<1>8. CASE d \notin st.enabled /\ AttachOk(on, d, e)
  <2>1. t = up
    BY <1>2, <1>8
  <2> QED BY <2>1, <1>1, <1>4, <1>6 DEF t
<1>9. CASE d \notin st.enabled /\ ~ AttachOk(on, d, e)
  <2>1. t = schedule_init_device_retry(up, {d})
    BY <1>2, <1>9
  <2>2. /\ Tidy(t) /\ (Timed(up) => Timed(t))
        /\ t.devs = up.devs /\ t.enabled = up.enabled /\ t.attached = up.attached
        /\ t.suspended = up.suspended
    BY <2>1, <1>0, <1>6, <1>9, ScheduleKeeps
  <2> QED BY <2>2, <1>1, <1>4, <1>6 DEF t
<1> QED BY <1>7, <1>8, <1>9
-----------------------------------------------------------------------------
(* Adding streams. *)
LEMMA RoutedKeeps ==
  ASSUME NEW st, Tidy(st), ~ st.suspended, NEW X \in SUBSET st.list, NEW late, NEW e
  PROVE  LET t == Routed(st, X, late, e) IN
         /\ Tidy(t) /\ t.devs = st.devs /\ t.suspended = st.suspended
         /\ (\A d \in st.open \intersect st.idle : Waited(st, d) \/ d \in Wanted(st, X)) => Timed(t)
<1> DEFINE W == Wanted(st, X)
           R == Reached(st, X, late)
           P == Routes(st, X, late)
           i == init_device(st, W, R)
           o == schedule_init_device_retry(i, W \ (st.open \union R))
           t == audio_thread_add_stream(o, P, e)
<1>0. Good(st) /\ W \in SUBSET Devs /\ Routed(st, X, late, e) = t /\ Good(t)
  <2>1. Good(st)
    BY DEF Tidy
  <2>2. Routed(st, X, late, e) = t
    BY DEF Routed, Opened
  <2> QED BY <2>1, <2>2, WantedType, RoutedGood
<1>1. \A d \in W : /\ d \in st.devs \union {Fallback}
                   /\ d \in st.enabled \/ \E s \in st.list : PinnedTo[s] = d
  BY DEF Wanted, Targets, Tidy, Known
<1>2. \A p \in P : /\ p[2] \in W
                   /\ IF is_pinned(p[1])
                      THEN p[2] = PinnedTo[p[1]] \/ (p[2] = Fallback /\ Fallback \in st.enabled)
                      ELSE p[2] \in st.enabled
  BY DEF Routes, Targets
<1> HIDE DEF W, R, P, t
<1>3. Good(i) /\ IsInit(st, i, W, R)
  BY <1>0, InitDeviceGood, InitDeviceEffect
<1> HIDE DEF i
<1>4. Good(o) /\ IsScheduled(i, o, W \ (st.open \union R))
  BY <1>3, ScheduleGood, ScheduleEffect
<1> HIDE DEF o
<1>5. IsAdded(o, t, P, e)
  BY <1>4, AddStreamEffect DEF t
<1>6. ASSUME NEW d \in Devs PROVE t.retries[d] <= 1
  <2>1. st.retries[d] <= 1
    BY DEF Tidy, Known
  <2>2. i.retries[d] = IF d \in W \ st.open THEN 0 ELSE st.retries[d]
    BY <1>3 DEF IsInit
  <2>3. t.retries[d] = IF d \in W \ (st.open \union R) THEN i.retries[d] + 1 ELSE i.retries[d]
    BY <1>4, <1>5 DEF IsScheduled, IsAdded
  <2> QED BY <2>1, <2>2, <2>3
<1>7. Opens(st, t, W, P)
  BY <1>3, <1>4, <1>5, <1>6 DEF Opens, IsInit, IsScheduled, IsAdded
<1>8. Tidy(t) /\ ((\A d \in st.open \intersect st.idle : Waited(st, d) \/ d \in W) => Timed(t))
  BY ONLY <1>0, <1>1, <1>2, <1>7, OpensKeeps, Tidy(st), ~ st.suspended
<1>9. t.devs = st.devs /\ t.suspended = st.suspended
  BY <1>7 DEF Opens
<1> QED BY <1>0, <1>8, <1>9, Zenon DEF W

LEMMA StreamsAddedKeeps ==
  ASSUME NEW st, Tidy(st), ~ st.suspended, NEW X \in SUBSET st.list, NEW late, NEW e,
         \A d \in st.open \intersect st.idle : Waited(st, d) \/ d \in Wanted(st, X)
  PROVE  LET t == streams_added(st, X, late, e) IN
         Tidy(t) /\ Timed(t) /\ t.devs = st.devs /\ t.suspended = st.suspended
<1> DEFINE r == Routed(st, X, late, e)
<1>1. Tidy(r) /\ Timed(r) /\ r.devs = st.devs /\ r.suspended = st.suspended
  <2>1. /\ Tidy(r) /\ r.devs = st.devs /\ r.suspended = st.suspended
        /\ (\A d \in st.open \intersect st.idle : Waited(st, d) \/ d \in Wanted(st, X)) => Timed(r)
    BY RoutedKeeps, Zenon
  <2> QED BY <2>1, Zenon
<1> HIDE DEF r
<1>2. LET t == possibly_enable_fallback(r, e) IN
      Tidy(t) /\ Timed(t) /\ t.devs = st.devs /\ t.suspended = st.suspended
  <2>1. Fallback \in r.devs \union {Fallback}
    OBVIOUS
  <2>2. LET t == enable_device(r, Fallback, e) IN
        /\ Tidy(t) /\ (Timed(r) => Timed(t))
        /\ t.devs = r.devs /\ t.suspended = r.suspended
    BY <2>1, <1>1, EnableKeeps, Zenon
  <2> QED BY <2>2, <1>1, Zenon DEF possibly_enable_fallback
<1> QED BY <1>1, <1>2, StreamsAddedParts DEF r
-----------------------------------------------------------------------------
(* The functions the actions are made of. *)
LEMMA DisableDevKeeps ==
  ASSUME NEW st, Tidy(st), Timed(st), NEW d \in RealDevs, NEW force \in BOOLEAN, NEW e
  PROVE  LET t == cras_iodev_list_disable_dev(st, d, force, e) IN
         /\ Tidy(t) /\ Timed(t) /\ t.devs = st.devs
         /\ force => d \notin t.enabled /\ d \notin t.open
<1> DEFINE c == IF st.enabled = {d} THEN enable_device(st, Fallback, e) ELSE st
           pulled == {s \in st.list : PinnedTo[s] = d}
           D == {d}
           a == audio_thread_disconnect_streams(st, pulled, D)
           t == cras_iodev_list_disable_dev(st, d, force, e)
<1>0. Good(st) /\ d # Fallback
  BY IodevListAssumption DEF Tidy
<1>1. Tidy(c) /\ Timed(c) /\ c.devs = st.devs
  BY EnableKeeps
<1>2. D = {d} /\ t = CASE d \in st.enabled -> disable_device(c, D, force)
                       [] d \notin st.enabled /\ force -> close_dev(a, D)
                       [] OTHER -> st
  BY DEF cras_iodev_list_disable_dev
<1> HIDE DEF c, pulled, t, D
<1>3. LET u == disable_device(c, D, force) IN
      /\ Tidy(u) /\ Timed(u) /\ u.devs = st.devs /\ u.enabled = c.enabled \ D
      /\ force => D \intersect u.open = {}
  BY <1>1, DisableKeeps
<1>4. Good(a) /\ Tidy(a) /\ Timed(a) /\ a.devs = st.devs /\ a.enabled = st.enabled
  BY <1>0, DisconnectGood, DisconnectKeeps, DisconnectEffect
<1> HIDE DEF a
<1>5. LET u == close_dev(a, D) IN
      /\ Tidy(u) /\ Timed(u) /\ u.devs = st.devs /\ u.enabled = st.enabled
      /\ D \intersect u.open = {}
  BY <1>4, CloseDevKeeps
<1>6. CASE d \in st.enabled
  BY <1>2, <1>3, <1>6 DEF t
<1>7. CASE d \notin st.enabled /\ force
  BY <1>2, <1>5, <1>7 DEF t
<1>8. CASE d \notin st.enabled /\ ~ force
  BY <1>2, <1>8 DEF t
<1> QED BY <1>6, <1>7, <1>8

LEMMA SuspendDevKeeps ==
  ASSUME NEW st, Tidy(st), Timed(st), NEW d
  PROVE  LET t == cras_iodev_list_suspend_dev(st, d) IN
         Tidy(t) /\ Timed(t) /\ t.devs = st.devs
<1> DEFINE pulled == {s \in st.list : \/ d \in st.enabled /\ ~ is_pinned(s)
                                      \/ is_pinned(s) /\ PinnedTo[s] # d}
           a == audio_thread_disconnect_streams(st, pulled, {d})
<1>0. Good(st) /\ cras_iodev_list_suspend_dev(st, d) = close_dev(a, {d})
  BY DEF Tidy, cras_iodev_list_suspend_dev
<1> HIDE DEF pulled
<1>1. Good(a) /\ Tidy(a) /\ Timed(a) /\ a.devs = st.devs
  BY <1>0, DisconnectGood, DisconnectKeeps
<1> HIDE DEF a
<1>2. LET u == close_dev(a, {d}) IN Tidy(u) /\ Timed(u) /\ u.devs = st.devs
  BY <1>1, CloseDevKeeps
<1> QED BY <1>0, <1>2

LEMMA ResumeDevKeeps ==
  ASSUME NEW st, Tidy(st), Timed(st), NEW d \in st.devs, NEW e
  PROVE  LET t == cras_iodev_list_resume_dev(st, d, e) IN Tidy(t) /\ Timed(t)
<1> DEFINE up == init_and_attach_streams(st, d, e)
<1>0. d \in Devs /\ d # Fallback
  BY IodevListAssumption DEF Tidy, Good, StateType, Devs
<1>1. Tidy(up) /\ Timed(up) /\ (~ AttachOk(st, d, e) => up.retries[d] = 0)
  BY <1>0, InitAttachKeeps
<1> HIDE DEF up
<1>2. LET u == possibly_disable_fallback(up) IN Tidy(u) /\ Timed(u)
  BY <1>1, DisableFallbackKeeps
<1>3. ~ AttachOk(st, d, e) =>
        LET u == schedule_init_device_retry(up, {d}) IN Tidy(u) /\ Timed(u)
  BY <1>0, <1>1, ScheduleKeeps
<1> QED BY <1>1, <1>2, <1>3 DEF cras_iodev_list_resume_dev, up
-----------------------------------------------------------------------------
(* Removing streams.  Until pinned_stream_removed has run, a device may be *)
(* open for a stream of S that is gone; until possibly_close_enabled_devs  *)
(* has run, an enabled device may wait for a resume that has no stream.    *)
HalfTidy(st, S) ==
  /\ Good(st) /\ Placed(st) /\ Unused(st) /\ Silent(st) /\ Known(st)
  /\ Sturdy => \A d \in st.open \ st.enabled :
                 \E s \in st.list \union st.to_delete \union S : PinnedTo[s] = d

HalfTimed(st, S) ==
  \A d \in st.open \intersect st.idle :
    \/ Waited(st, d) \/ Awaits(st, d)
    \/ st.suspended /\ (d \in st.enabled \/ \E s \in S : PinnedTo[s] = d)

(* The devices pinned_stream_removed closes. *)
Unpinned(st, S) ==
  {d \in st.devs \ st.enabled : /\ \E s \in S : PinnedTo[s] = d
                                /\ ~ stream_list_has_pinned_stream(st, d)}

LEMMA PinnedRemovedKeeps ==
  ASSUME NEW st, NEW S \in SUBSET Streams, HalfTidy(st, S), HalfTimed(st, S)
  PROVE  LET t == pinned_stream_removed(st, S) IN Tidy(t) /\ HalfTimed(t, {})
<1> DEFINE D == Unpinned(st, S)
           t == pinned_stream_removed(st, S)
<1>0. Good(st) /\ t = close_dev(st, D)
  BY DEF HalfTidy, pinned_stream_removed, Unpinned
<1>1. ASSUME NEW d \in st.open, d \notin D, d \notin st.enabled, NEW s \in S, PinnedTo[s] = d
      PROVE  \E x \in st.list : PinnedTo[x] = d
  <2>1. d # Fallback
    BY <1>1, IodevListAssumption
  <2>2. d \in st.devs
    BY <1>1, <2>1 DEF HalfTidy, Known
  <2> QED BY <2>2, <1>1 DEF Unpinned, stream_list_has_pinned_stream
<1> HIDE DEF D, t
<1>2. Good(t)
  BY <1>0, CloseDevGood
<1>3. PICK C : Closes(st, t, C) /\ D \intersect st.open \subseteq C
  BY <1>0, CloseDevEffect
<1>4. /\ t.enabled = st.enabled /\ t.to_delete = st.to_delete /\ t.list = st.list
      /\ t.attached \subseteq st.attached /\ t.idle \subseteq st.idle
      /\ t.open \subseteq st.open /\ t.suspended = st.suspended
      /\ t.devs = st.devs /\ t.retries = st.retries /\ t.drain_timer = st.drain_timer
      /\ D \intersect t.open = {}
  BY <1>3 DEF Closes
<1>5. Placed(t) /\ Unused(t)
  BY <1>4 DEF HalfTidy, Placed, Unused
<1>6. Silent(t) /\ Known(t)
  BY <1>4 DEF HalfTidy, Silent, Known
<1>7. Sturdy => Needed(t)
  <2> SUFFICES ASSUME Sturdy, NEW d \in t.open \ t.enabled
               PROVE  \E s \in t.list \union t.to_delete : PinnedTo[s] = d
    BY DEF Needed
  <2>1. PICK s \in st.list \union st.to_delete \union S : PinnedTo[s] = d
    BY <1>4 DEF HalfTidy
  <2>2. CASE s \in S
    BY <2>1, <2>2, <1>1, <1>4
  <2> QED BY <2>1, <2>2, <1>4
<1>8. ASSUME NEW d \in t.open \intersect t.idle
      PROVE  \/ Waited(t, d) \/ Awaits(t, d)
             \/ t.suspended /\ d \in t.enabled
  <2>1. \/ Waited(st, d) \/ Awaits(st, d)
        \/ st.suspended /\ (d \in st.enabled \/ \E s \in S : PinnedTo[s] = d)
    BY <1>4 DEF HalfTimed
  <2>2. CASE Waited(st, d)
    <3>1. d \in t.enabled /\ ~ stream_list_has_pinned_stream(t, d)
      BY <2>2, <1>4 DEF Waited, stream_list_has_pinned_stream
    <3>2. t.idle_timer
      <4>1. st.idle_timer
        BY <2>2 DEF Waited
      <4>2. t.enabled \intersect t.idle \intersect t.open # {}
        BY <3>1
      <4>3. t.idle_timer = st.idle_timer
            \/ (t.enabled \intersect t.idle \intersect t.open # {} => t.idle_timer)
        BY <1>3 DEF Closes
      <4> QED BY <4>1, <4>2, <4>3, Zenon
    <3> QED BY <3>1, <3>2 DEF Waited
  <2>3. CASE Awaits(st, d)
    BY <2>3, <1>4 DEF Awaits
  <2>4. CASE st.suspended /\ d \notin st.enabled /\ \E s \in S : PinnedTo[s] = d
    <3>1. \E x \in st.list : PinnedTo[x] = d
      BY <2>4, <1>1, <1>4
    <3> QED BY <3>1, <2>4, <1>4 DEF Awaits
  <2> QED BY <2>1, <2>2, <2>3, <2>4, <1>4
<1> QED BY <1>2, <1>5, <1>6, <1>7, <1>8 DEF Tidy, HalfTimed, t

(* The devices possibly_close_enabled_devs closes or lets drain. *)
Spare(st) == {d \in st.enabled : ~ stream_list_has_pinned_stream(st, d)}
Passed(st) ==
  (st.enabled \intersect st.expired \intersect st.open) \ {CHOOSE d \in Spare(st) : TRUE}
Drained(st) ==
  [close_dev_without_idle_check(st, Passed(st)) EXCEPT
     !.idle = @ \union Spare(st), !.expired = @ \ Spare(st),
     !.idle_timer = TRUE, !.stray = TRUE]

LEMMA DrainedEffect ==
  ASSUME NEW st, Good(st)
  PROVE  LET t == Drained(st) IN
         /\ t.devs = st.devs /\ t.enabled = st.enabled /\ t.retries = st.retries
         /\ t.list = st.list /\ t.to_delete = st.to_delete
         /\ t.drain_timer = st.drain_timer /\ t.suspended = st.suspended
         /\ t.open \subseteq st.open /\ t.attached \subseteq st.attached
         /\ t.idle \subseteq st.idle \union Spare(st) /\ t.idle_timer
<1> DEFINE P == Passed(st)
           c == close_dev_without_idle_check(st, P)
<1> HIDE DEF P
<1>1. Good(c)
  BY CloseGood
<1>2. /\ c.devs = st.devs /\ c.enabled = st.enabled /\ c.retries = st.retries
      /\ c.list = st.list /\ c.to_delete = st.to_delete
      /\ c.drain_timer = st.drain_timer /\ c.suspended = st.suspended
      /\ c.open \subseteq st.open /\ c.attached \subseteq st.attached
      /\ c.idle \subseteq st.idle
  BY CloseEffect
<1>3. Drained(st) = [c EXCEPT !.idle = @ \union Spare(st), !.expired = @ \ Spare(st),
                              !.idle_timer = TRUE, !.stray = TRUE]
  BY DEF Drained, P
<1> HIDE DEF c
<1> QED BY <1>1, <1>2, <1>3 DEF Good, StateType

LEMMA PossiblyCloseKeeps ==
  ASSUME NEW st, Tidy(st), HalfTimed(st, {})
  PROVE  LET t == possibly_close_enabled_devs(st) IN Tidy(t) /\ Timed(t)
<1> DEFINE D == Spare(st)
           t == possibly_close_enabled_devs(st)
<1>0. Good(st) /\ Good(t)
  BY PossiblyCloseGood DEF Tidy
<1>1. t = CASE D = {} \/ (\E s \in st.list : ~ is_pinned(s)) -> st
            [] D # {} /\ (\A s \in st.list : is_pinned(s)) /\ ~ Output -> close_dev(st, D)
            [] OTHER -> Drained(st)
  BY DEF possibly_close_enabled_devs, Spare, Passed, Drained
<1>2. \A d : d \in D <=> d \in st.enabled /\ ~ stream_list_has_pinned_stream(st, d)
  BY DEF Spare
<1>3. \A d \in st.open \intersect st.idle :
        Waited(st, d) \/ Awaits(st, d) \/ (st.suspended /\ d \in st.enabled)
  BY DEF HalfTimed
<1>d. D = Spare(st)
  OBVIOUS
<1> HIDE DEF D, t
<1>4. CASE D = {} \/ (\E s \in st.list : ~ is_pinned(s))
  <2>1. t = st
    BY <1>1, <1>4
  <2>2. Timed(st)
    <3> SUFFICES ASSUME NEW d \in st.open \intersect st.idle, st.suspended, d \in st.enabled
                 PROVE  Awaits(st, d)
      BY <1>3 DEF Timed
    <3> QED BY <1>2, <1>4 DEF Awaits, stream_list_has_pinned_stream
  <2> QED BY <2>1, <2>2 DEF t
<1>5. CASE D # {} /\ (\A s \in st.list : is_pinned(s)) /\ ~ Output
  <2>1. t = close_dev(st, D)
    BY <1>1, <1>5
  <2>2. Tidy(t)
    BY <2>1, <1>0, CloseDevKeeps
  <2>3. PICK C : Closes(st, t, C) /\ D \intersect st.open \subseteq C
    BY <2>1, <1>0, CloseDevEffect
  <2>4. ASSUME NEW d \in t.open \intersect t.idle PROVE Awaits(t, d)
    <3>1. /\ d \in st.open \intersect st.idle /\ d \notin D
          /\ t.enabled = st.enabled /\ t.list = st.list /\ t.suspended = st.suspended
      BY <2>3, <2>4 DEF Closes
    <3>2. ~ Waited(st, d)
      BY <3>1, <1>2 DEF Waited
    <3> QED BY <3>1, <3>2, <1>2, <1>3 DEF Awaits, stream_list_has_pinned_stream
  <2> QED BY <2>2, <2>4 DEF Timed, t
<1>6. CASE D # {} /\ (\A s \in st.list : is_pinned(s)) /\ Output
  <2>0. t = Drained(st)
    BY <1>1, <1>6
  <2>1. /\ t.devs = st.devs /\ t.enabled = st.enabled /\ t.retries = st.retries
        /\ t.list = st.list /\ t.to_delete = st.to_delete
        /\ t.drain_timer = st.drain_timer /\ t.suspended = st.suspended
        /\ t.open \subseteq st.open /\ t.attached \subseteq st.attached
        /\ t.idle \subseteq st.idle \union D /\ t.idle_timer
    BY <2>0, <1>0, <1>d, DrainedEffect
  <2>2. Placed(t) /\ Silent(t)
    BY <2>1 DEF Tidy, Placed, Silent
  <2>3. Known(t) /\ (Sturdy => Needed(t))
    BY <2>1 DEF Tidy, Known, Needed
  <2>4. Unused(t)
    <3> SUFFICES ASSUME NEW p \in t.attached, p[2] \in t.idle
                 PROVE  p[1] \in t.to_delete \/ (p[2] = Fallback /\ is_pinned(p[1]))
      BY DEF Unused
    <3>1. p \in st.attached /\ p[1] \in st.list \union st.to_delete
      BY <2>1, <1>0 DEF Good, Safe
    <3>2. CASE p[2] \in st.idle
      BY <3>1, <3>2, <2>1 DEF Tidy, Unused
    <3>3. CASE p[2] \in D /\ p[1] \in st.list
      <4>1. is_pinned(p[1])
        BY <1>6, <3>3
      <4>2. p[2] # PinnedTo[p[1]]
        BY <1>2, <3>3 DEF stream_list_has_pinned_stream
      <4> QED BY <4>1, <4>2, <3>1 DEF Tidy, Placed
    <3> QED BY <3>1, <3>2, <3>3, <2>1
  <2>5. ASSUME NEW d \in t.open \intersect t.idle PROVE Waited(t, d) \/ Awaits(t, d)
    <3>1. CASE d \in D
      BY <3>1, <1>2, <2>1 DEF Waited, stream_list_has_pinned_stream
    <3>2. CASE d \notin D
      <4>1. d \in st.open \intersect st.idle /\ ~ Waited(st, d)
        BY <3>2, <2>1, <1>2 DEF Waited
      <4> QED BY <4>1, <3>2, <2>1, <1>2, <1>3 DEF Awaits, stream_list_has_pinned_stream
    <3> QED BY <3>1, <3>2
  <2> QED BY <1>0, <2>2, <2>3, <2>4, <2>5 DEF Tidy, Timed, t
<1> QED BY <1>4, <1>5, <1>6

(* The record delete_streams starts its callbacks from. *)
Gone(st, left) ==
  [audio_thread_disconnect_streams(st, st.to_delete \ left, Devs) EXCEPT
     !.to_delete = left, !.drain_timer = left # {}]

LEMMA GoneEffect ==
  ASSUME NEW st, Good(st), NEW left \in SUBSET st.to_delete
  PROVE  LET t == Gone(st, left) IN
         /\ Good(t)
         /\ t.devs = st.devs /\ t.enabled = st.enabled /\ t.retries = st.retries
         /\ t.list = st.list /\ t.to_delete = left
         /\ t.drain_timer = (left # {}) /\ t.suspended = st.suspended
         /\ t.open = st.open /\ t.idle = st.idle /\ t.idle_timer = st.idle_timer
         /\ \A p \in t.attached : p \in st.attached /\ (p[1] \in st.to_delete => p[1] \in left)
<1> DEFINE done == st.to_delete \ left
           a == audio_thread_disconnect_streams(st, done, Devs)
           t == Gone(st, left)
<1>0. done = st.to_delete \ left /\ left \in SUBSET Streams
  BY DEF Good, StateType
<1>1. t = [a EXCEPT !.to_delete = left, !.drain_timer = left # {}]
  BY DEF Gone
<1> HIDE DEF done, t
<1>2. Good(a)
  BY DisconnectGood
<1>3. /\ a.devs = st.devs /\ a.enabled = st.enabled /\ a.retries = st.retries
      /\ a.list = st.list /\ a.to_delete = st.to_delete
      /\ a.drain_timer = st.drain_timer /\ a.suspended = st.suspended
      /\ a.open = st.open /\ a.thread_open = st.thread_open
      /\ a.attached = {p \in st.attached : ~ (p[1] \in done /\ p[2] \in Devs)}
      /\ a.idle = st.idle /\ a.expired = st.expired
      /\ a.idle_timer = st.idle_timer
  BY DisconnectEffect
<1> HIDE DEF a
<1>4. /\ t.devs = a.devs /\ t.enabled = a.enabled /\ t.retries = a.retries
      /\ t.list = a.list /\ t.to_delete = left
      /\ t.drain_timer = (left # {}) /\ t.suspended = a.suspended
      /\ t.open = a.open /\ t.thread_open = a.thread_open /\ t.attached = a.attached
      /\ t.idle = a.idle /\ t.expired = a.expired /\ t.idle_timer = a.idle_timer
  BY <1>1, <1>2 DEF Good, StateType
<1>5. \A p \in t.attached : p \in st.attached /\ (p[1] \in st.to_delete => p[1] \in left)
  <2>1. st.attached \subseteq Streams \X Devs
    BY DEF Good, StateType
  <2> QED BY <2>1, <1>0, <1>3, <1>4
<1>6. t \in StateType
  <2> DEFINE b == left # {}
  <2>1. b \in BOOLEAN /\ t = [a EXCEPT !.to_delete = left, !.drain_timer = b]
    BY <1>1
  <2> HIDE DEF b
  <2> QED BY <2>1, <1>0, <1>2 DEF Good, StateType
<1>7. Safe(t)
  BY <1>2, <1>3, <1>4, <1>5 DEF Good, Safe
<1> QED BY <1>3, <1>4, <1>5, <1>6, <1>7 DEF Good, t

(* delete_streams after the streams of S were taken off the list: those    *)
(* that are left drain on a device, and nothing does in a suspend.         *)
LEMMA DeleteStreamsKeeps ==
  ASSUME NEW old, Tidy(old), Timed(old), NEW S \in SUBSET old.list,
         NEW st, Good(st), st.list = old.list \ S, st.to_delete = old.to_delete \union S,
         st.devs = old.devs, st.enabled = old.enabled, st.retries = old.retries,
         st.suspended = old.suspended, st.open = old.open, st.attached = old.attached,
         st.idle = old.idle, st.idle_timer = old.idle_timer,
         NEW left \in SUBSET st.to_delete,
         \A s \in left : \E p \in old.attached : p[1] = s
  PROVE  LET t == delete_streams(st, left) IN Tidy(t) /\ Timed(t)
<1> DEFINE done == st.to_delete \ left
           g == Gone(st, left)
           t == delete_streams(st, left)
<1>0. t = IF done = {} THEN g ELSE possibly_close_enabled_devs(pinned_stream_removed(g, done))
  BY DEF delete_streams, Gone
<1>1. done = st.to_delete \ left /\ done \in SUBSET Streams
  BY DEF Good, StateType
<1> HIDE DEF done, t
<1>2. /\ Good(g)
      /\ g.devs = st.devs /\ g.enabled = st.enabled /\ g.retries = st.retries
      /\ g.list = st.list /\ g.to_delete = left
      /\ g.drain_timer = (left # {}) /\ g.suspended = st.suspended
      /\ g.open = st.open /\ g.idle = st.idle /\ g.idle_timer = st.idle_timer
      /\ \A p \in g.attached : p \in st.attached /\ (p[1] \in st.to_delete => p[1] \in left)
  BY GoneEffect
<1> HIDE DEF g
<1>3. Placed(g) /\ Unused(g) /\ Silent(g)
  <2>1. ASSUME NEW p \in g.attached
        PROVE  p \in old.attached /\ (p[1] \in old.to_delete => p[1] \in g.to_delete)
    BY <1>2
  <2>2. g.enabled = old.enabled /\ g.idle = old.idle /\ g.suspended = old.suspended
    BY <1>2
  <2> QED BY <2>1, <2>2 DEF Tidy, Placed, Unused, Silent
<1>4. Known(g)
  <2>1. Known(old)
    BY DEF Tidy
  <2>2. /\ g.open = old.open /\ g.enabled = old.enabled /\ g.devs = old.devs
        /\ g.list = old.list \ S /\ g.to_delete \subseteq old.to_delete \union S
        /\ g.drain_timer = (g.to_delete # {}) /\ g.retries = old.retries
    BY <1>2
  <2> QED BY <2>1, <2>2 DEF Known
<1>5. old.list \union old.to_delete \subseteq g.list \union g.to_delete \union done
  BY <1>1, <1>2
<1>6. HalfTidy(g, done)
  <2>1. ASSUME Sturdy, NEW d \in g.open \ g.enabled
        PROVE  \E s \in g.list \union g.to_delete \union done : PinnedTo[s] = d
    BY <2>1, <1>2, <1>5 DEF Tidy, Needed
  <2> QED BY <2>1, <1>2, <1>3, <1>4 DEF HalfTidy
<1>7. old.suspended => left \intersect S = {}
  <2>1. \A p \in old.attached : old.suspended => p[1] \in old.to_delete
    BY DEF Tidy, Silent
  <2>2. old.list \intersect old.to_delete = {}
    BY DEF Tidy, Known
  <2> QED BY <2>1, <2>2
<1>8. ASSUME NEW d \in g.open \intersect g.idle
      PROVE  \/ Waited(g, d) \/ Awaits(g, d)
             \/ g.suspended /\ \E s \in S : s \in done /\ (PinnedTo[s] = d \/ d \in g.enabled)
  <2>1. Waited(old, d) \/ Awaits(old, d)
    BY <1>2 DEF Timed
  <2>2. CASE Waited(old, d)
    BY <2>2, <1>2 DEF Waited, stream_list_has_pinned_stream
  <2>3. CASE Awaits(old, d)
    <3>1. PICK s \in old.list : PinnedTo[s] = d \/ (~ is_pinned(s) /\ d \in old.enabled)
      BY <2>3 DEF Awaits
    <3>2. g.suspended /\ old.suspended
      BY <2>3, <1>2 DEF Awaits
    <3>3. CASE s \in S
      BY <3>1, <3>2, <3>3, <1>1, <1>2, <1>7
    <3>4. CASE s \notin S
      BY <3>1, <3>2, <3>4, <1>2 DEF Awaits
    <3> QED BY <3>3, <3>4
  <2> QED BY <2>1, <2>2, <2>3
<1>9. HalfTimed(g, done)
  BY <1>8 DEF HalfTimed
<1>10. CASE done = {}
  <2>1. Tidy(g)
    BY <1>6, <1>10 DEF HalfTidy, Tidy, Needed
  <2>2. Timed(g)
    BY <1>8, <1>10 DEF Timed
  <2> QED BY <1>0, <1>10, <2>1, <2>2 DEF t
<1>11. CASE done # {}
  <2> DEFINE r == pinned_stream_removed(g, done)
  <2>1. Tidy(r) /\ HalfTimed(r, {})
    BY <1>1, <1>6, <1>9, PinnedRemovedKeeps
  <2> HIDE DEF r
  <2>2. LET u == possibly_close_enabled_devs(r) IN Tidy(u) /\ Timed(u)
    BY <2>1, PossiblyCloseKeeps
  <2> QED BY <1>0, <1>11, <2>2 DEF t, r
<1> QED BY <1>10, <1>11
-----------------------------------------------------------------------------
(* The inductive invariant. *)
TidyInv == IInv /\ Tidy(State) /\ Timed(State)

LEMMA BecomeTidy ==
  ASSUME NEW st, Tidy(st), Timed(st), Become(st), IInv'
  PROVE  TidyInv'
<1>1. State' = st
  BY DEF Become, State, Tidy, Good, StateType
<1>2. Tidy(State') /\ Timed(State')
  BY <1>1
<1> QED BY <1>2 DEF TidyInv

LEMMA InitTidy == Init => TidyInv
<1> SUFFICES ASSUME Init PROVE TidyInv
  OBVIOUS
<1>1. IInv /\ Good(State)
  BY InitIInv, StateGood
<1>2. /\ State.attached = {} /\ State.open = {} /\ State.enabled = {Fallback}
      /\ State.list = {} /\ State.to_delete = {} /\ State.retries = [d \in Devs |-> 0]
  BY DEF Init, State
<1>3. Placed(State) /\ Unused(State) /\ Silent(State) /\ Needed(State)
  BY <1>2 DEF Placed, Unused, Silent, Needed
<1>4. Known(State) /\ Timed(State)
  BY <1>2 DEF Known, Timed
<1> QED BY <1>1, <1>3, <1>4 DEF TidyInv, Tidy

(* A stream that is refused leaves no device open for itself, if it is not *)
(* one the audio thread failed to take and pinned as well.                 *)
LEMMA StreamAddTidy ==
  ASSUME TidyInv, IInv', NEW s \in Streams, NEW late, NEW e, e.bad \subseteq Fragile,
         stream_list_add(s, late, e)
  PROVE  TidyInv'
<1> DEFINE base == [State EXCEPT !.list = @ \union {s}]
           X == {s}
           st == streams_added(base, X, late, e)
           refused == ~ suspended /\ \/ is_pinned(s) /\ PinnedTo[s] \notin devs
                                     \/ s \in e.bad /\ Targets(State, s) \intersect st.thread_open # {}
           res == IF refused THEN [st EXCEPT !.list = @ \ {s}] ELSE st
<1>0. Tidy(State) /\ Timed(State) /\ Good(State)
  BY DEF TidyInv, Tidy
<1>1. Become(res) /\ s \notin list \union to_delete
  BY DEF stream_list_add
<1>2. refused => \/ is_pinned(s) /\ PinnedTo[s] \notin devs
                 \/ s \in e.bad
  OBVIOUS
<1>3. refused => ~ suspended
  OBVIOUS
<1>4. /\ base.devs = devs /\ base.enabled = enabled /\ base.retries = retries
      /\ base.list = list \union {s} /\ base.to_delete = to_delete
      /\ base.drain_timer = drain_timer /\ base.suspended = suspended
      /\ base.open = open /\ base.thread_open = thread_open /\ base.attached = attached
      /\ base.idle = idle /\ base.expired = expired /\ base.idle_timer = idle_timer
  BY DEF State
<1>5. /\ State.devs = devs /\ State.enabled = enabled /\ State.retries = retries
      /\ State.list = list /\ State.to_delete = to_delete
      /\ State.drain_timer = drain_timer /\ State.suspended = suspended
      /\ State.open = open /\ State.thread_open = thread_open /\ State.attached = attached
      /\ State.idle = idle /\ State.expired = expired /\ State.idle_timer = idle_timer
  BY DEF State
<1>6. Good(base)
  BY <1>0 DEF Good, Safe, StateType
<1>7. Targets(State, s) = Targets(base, s)
  BY <1>4, <1>5 DEF Targets
<1>8. X = {s} /\ X \in SUBSET base.list
  BY <1>4
<1>d. refused => \A p \in st.attached : p[1] # s
  <2>1. \A p \in base.attached : p[1] # s
    BY <1>1, <1>4 DEF TidyInv, IInv, ThreadHoldsLive
  <2> QED BY <1>1, <1>4, <1>6, <1>7, <2>1, RefusedDetached
<1> HIDE DEF base, X
<1>9. Tidy(base)
  <2>1. Placed(base) /\ Unused(base) /\ Silent(base)
    BY <1>0, <1>4, <1>5 DEF Tidy, Placed, Unused, Silent
  <2>2. Known(base)
    BY <1>0, <1>1, <1>4, <1>5 DEF Tidy, Known
  <2>3. Sturdy => Needed(base)
    BY <1>0, <1>4, <1>5 DEF Tidy, Needed
  <2> QED BY <1>6, <2>1, <2>2, <2>3 DEF Tidy
<1>10. CASE suspended
  <2>1. res = base
    BY <1>3, <1>4, <1>10, StreamsAddedParts
  <2>2. Timed(base)
    <3> SUFFICES ASSUME NEW d \in base.open \intersect base.idle
                 PROVE  Waited(base, d) \/ Awaits(base, d)
      BY DEF Timed
    <3>1. Waited(State, d) \/ Awaits(State, d)
      BY <1>0, <1>4, <1>5 DEF Timed
    <3>2. CASE Awaits(State, d)
      BY <3>2, <1>4, <1>5 DEF Awaits
    <3>3. CASE Waited(State, d) /\ PinnedTo[s] = d
      BY <3>3, <1>4, <1>5, <1>10 DEF Awaits
    <3>4. CASE Waited(State, d) /\ PinnedTo[s] # d
      BY <3>4, <1>4, <1>5 DEF Waited, stream_list_has_pinned_stream
    <3> QED BY <3>1, <3>2, <3>3, <3>4
  <2> QED BY <2>1, <2>2, <1>1, <1>9, BecomeTidy
<1>11. CASE ~ suspended
  <2>1. ASSUME NEW d \in base.open \intersect base.idle
        PROVE  Waited(base, d) \/ d \in Wanted(base, X)
    <3>1. Waited(State, d)
      BY <1>0, <1>4, <1>5, <1>11 DEF Timed, Awaits
    <3>2. CASE PinnedTo[s] = d
      <4>0. d \in Devs
        BY <1>6 DEF Good, StateType
      <4>1. d # Fallback /\ is_pinned(s)
        BY <4>0, <3>2, IodevListAssumption DEF is_pinned, Devs
      <4>2. d \in base.devs
        BY <4>1, <1>9 DEF Tidy, Known
      <4> QED BY <4>1, <4>2, <3>2, <1>8 DEF Wanted, Targets
    <3>3. CASE PinnedTo[s] # d
      BY <3>1, <3>3, <1>4, <1>5 DEF Waited, stream_list_has_pinned_stream
    <3> QED BY <3>2, <3>3
  <2>2. Tidy(st) /\ Timed(st) /\ st.devs = devs /\ ~ st.suspended
    <3>0. ~ base.suspended
      BY <1>4, <1>11
    <3>1. Tidy(st) /\ Timed(st) /\ st.devs = base.devs /\ st.suspended = base.suspended
      <4>1. \A d \in base.open \intersect base.idle : Waited(base, d) \/ d \in Wanted(base, X)
        BY <2>1
      <4>2. X \in SUBSET base.list
        BY <1>8
      <4> QED BY <3>0, <4>1, <4>2, <1>9, StreamsAddedKeeps
    <3> QED BY <3>1, <1>4, <1>11
  <2> HIDE DEF st
  <2>3. CASE ~ refused
    <3>1. res = st
      BY <2>3
    <3> QED BY <3>1, <2>2, <1>1, BecomeTidy
  <2>4. CASE refused
    <3>0. res = [st EXCEPT !.list = @ \ {s}]
      BY <2>4
    <3>1. Good(st) /\ \A p \in st.attached : p[1] # s
      BY <1>d, <2>2, <2>4 DEF Tidy
    <3> HIDE DEF res, refused
    <3>2. Good(res)
      BY <3>0, <3>1 DEF Good, Safe, StateType
    <3>3. /\ res.devs = st.devs /\ res.enabled = st.enabled /\ res.retries = st.retries
          /\ res.list = st.list \ {s} /\ res.to_delete = st.to_delete
          /\ res.drain_timer = st.drain_timer /\ res.suspended = st.suspended
          /\ res.open = st.open /\ res.attached = st.attached
          /\ res.idle = st.idle /\ res.idle_timer = st.idle_timer
      BY <3>0, <3>1 DEF Good, StateType
    <3>4. Placed(res) /\ Unused(res) /\ Silent(res)
      BY <3>3, <2>2 DEF Tidy, Placed, Unused, Silent
    <3>5. Known(res)
      BY <3>3, <2>2 DEF Tidy, Known
    <3>6. Sturdy => Needed(res)
      <4> SUFFICES ASSUME Sturdy, NEW d \in res.open \ res.enabled
                   PROVE  \E x \in res.list \union res.to_delete : PinnedTo[x] = d
        BY DEF Needed
      <4>1. PICK x \in st.list \union st.to_delete : PinnedTo[x] = d
        BY <3>3, <2>2 DEF Tidy, Needed
      <4>2. x # s
        <5> SUFFICES ASSUME x = s PROVE FALSE
          OBVIOUS
        <5>0. d \in Devs
          BY <3>2 DEF Good, StateType
        <5>1. d # Fallback /\ is_pinned(s)
          BY <5>0, <4>1, IodevListAssumption DEF is_pinned, Devs
        <5>2. s \notin e.bad
          BY <5>1 DEF Sturdy
        <5>3. d \in devs
          BY <5>1, <3>3, <2>2 DEF Tidy, Known
        <5> QED BY <5>2, <5>3, <4>1, <2>4, <1>2
      <4> QED BY <4>1, <4>2, <3>3
    <3>7. Timed(res)
      BY <3>3, <2>2 DEF Timed, Waited, Awaits, stream_list_has_pinned_stream
    <3> QED BY <3>2, <3>4, <3>5, <3>6, <3>7, <1>1, BecomeTidy DEF Tidy
  <2> QED BY <2>3, <2>4
<1> QED BY <1>10, <1>11

(* Records whose thread plays less are good. *)
Dropped(st, T, A) == [st EXCEPT !.thread_open = T, !.attached = A]
Quiet(st, A, on) == [st EXCEPT !.attached = A, !.suspended = on]

LEMMA DroppedGood ==
  ASSUME NEW st, Good(st), NEW A \in SUBSET st.attached, NEW T \in SUBSET st.thread_open,
         \A p \in A : p[2] \in T
  PROVE  Good(Dropped(st, T, A))
BY DEF Good, Safe, StateType, Dropped

LEMMA QuietGood ==
  ASSUME NEW st, Good(st), NEW A \in SUBSET st.attached, NEW on \in BOOLEAN
  PROVE  Good(Quiet(st, A, on))
BY DEF Good, Safe, StateType, Quiet

(* What a system suspend pulls and closes leaves no listed stream playing, *)
(* and what it leaves idle a stream will use when the system resumes.      *)
LEMMA SuspendTidy ==
  ASSUME TidyInv, IInv', NEW on \in BOOLEAN, NEW late, NEW e, sys_suspend_change(on, late, e)
  PROVE  TidyInv'
<1> DEFINE pins == {PinnedTo[s] : s \in list} \intersect devs
           A == {p \in State.attached : ~ (p[1] \in list /\ PinnedTo[p[1]] \in {p[2], NoDev})}
           off == Quiet(State, A, TRUE)
           back == [State EXCEPT !.suspended = FALSE]
           D == pins \union enabled
<1>0. Tidy(State) /\ Timed(State) /\ Good(State)
  BY DEF TidyInv, Tidy
<1>1. /\ on => Become(close_dev(off, D))
      /\ ~ on => Become(streams_added(back, list, late, e))
  BY DEF sys_suspend_change, Quiet
<1>a. A = {p \in attached : ~ (p[1] \in list /\ PinnedTo[p[1]] \in {p[2], NoDev})} /\ A \subseteq attached
  BY DEF State
<1>2. /\ State.devs = devs /\ State.enabled = enabled /\ State.retries = retries
      /\ State.list = list /\ State.to_delete = to_delete
      /\ State.drain_timer = drain_timer /\ State.suspended = suspended
      /\ State.open = open /\ State.attached = attached /\ State.thread_open = thread_open
      /\ State.idle = idle /\ State.idle_timer = idle_timer
  BY DEF State
<1> HIDE DEF A
<1>3. /\ off.devs = devs /\ off.enabled = enabled /\ off.retries = retries
      /\ off.list = list /\ off.to_delete = to_delete
      /\ off.drain_timer = drain_timer /\ off.suspended
      /\ off.open = open /\ off.idle = idle /\ off.idle_timer = idle_timer
      /\ off.attached = A
  BY DEF State, Quiet
<1>4. /\ back.devs = devs /\ back.enabled = enabled /\ back.retries = retries
      /\ back.list = list /\ back.to_delete = to_delete
      /\ back.drain_timer = drain_timer /\ back.suspended = FALSE
      /\ back.open = open /\ back.idle = idle /\ back.idle_timer = idle_timer
      /\ back.attached = attached
  BY DEF State, Quiet
<1>g. Good(State)
  BY <1>0
<1>5. Good(off) /\ Good(back)
  <2>1. Good(off)
    BY <1>a, <1>g, <1>2, QuietGood
  <2>2. Good(back)
    BY <1>g DEF Good, Safe, StateType
  <2> QED BY <2>1, <2>2
<1>6. enabled \subseteq D
  OBVIOUS
<1> HIDE DEF off, back, D
<1>7. CASE on
  <2> DEFINE t == close_dev(off, D)
  <2>1. PICK C : Closes(off, t, C) /\ D \intersect off.open \subseteq C
    BY <1>5, CloseDevEffect
  <2>2. Good(t)
    BY <1>5, CloseDevGood
  <2>3. Become(t)
    BY <1>1, <1>7
  <2> HIDE DEF t
  <2>4. /\ t.devs = devs /\ t.enabled = enabled /\ t.retries = retries
        /\ t.list = list /\ t.to_delete = to_delete
        /\ t.drain_timer = drain_timer /\ t.suspended
        /\ t.open \subseteq open /\ t.idle \subseteq idle
        /\ enabled \intersect t.open = {}
    BY <2>1, <1>3, <1>6 DEF Closes
  <2>5. ASSUME NEW p \in t.attached
        PROVE  /\ p \in attached /\ ~ (p[1] \in list /\ PinnedTo[p[1]] \in {p[2], NoDev})
               /\ p[2] \notin enabled
    <3>1. p \in off.attached /\ p[2] \in t.open
      BY <2>1, <2>2 DEF Closes, Good, Safe
    <3> QED BY <3>1, <2>4, <1>3, <1>a
  <2>6. Placed(t)
    BY <2>4, <2>5, <1>0, <1>2 DEF Tidy, Placed
  <2>7. Unused(t)
    BY <2>4, <2>5, <1>0, <1>2 DEF Tidy, Unused
  <2>8. Silent(t)
    <3> SUFFICES ASSUME NEW p \in t.attached PROVE p[1] \in t.to_delete
      BY DEF Silent
    <3>1. p[1] \in list \union to_delete
      BY <2>5, <1>0, <1>2 DEF Good, Safe
    <3>2. IF is_pinned(p[1]) THEN p[2] = PinnedTo[p[1]] \/ (p[2] = Fallback /\ Fallback \in enabled)
                             ELSE p[2] \in enabled \/ p[1] \in to_delete
      BY <2>5, <1>0, <1>2 DEF Tidy, Placed
    <3> QED BY <3>1, <3>2, <2>4, <2>5 DEF is_pinned
  <2>9. Known(t)
    BY <2>4, <1>0, <1>2 DEF Tidy, Known
  <2>10. Sturdy => Needed(t)
    BY <2>4, <1>0, <1>2 DEF Tidy, Needed
  <2>11. Timed(t)
    <3> SUFFICES ASSUME NEW d \in t.open \intersect t.idle PROVE Awaits(t, d)
      BY DEF Timed
    <3>1. d \notin enabled /\ (Waited(State, d) \/ Awaits(State, d))
      BY <2>4, <1>0, <1>2 DEF Timed
    <3>2. Awaits(State, d)
      BY <3>1, <1>2 DEF Waited
    <3> QED BY <3>1, <3>2, <2>4, <1>2 DEF Awaits
  <2>12. Tidy(t)
    BY <2>2, <2>6, <2>7, <2>8, <2>9, <2>10 DEF Tidy
  <2> QED BY <2>3, <2>11, <2>12, BecomeTidy
<1>8. CASE ~ on
  <2>1. Placed(back) /\ Unused(back) /\ Silent(back)
    BY <1>0, <1>2, <1>4 DEF Tidy, Placed, Unused, Silent
  <2>2. Known(back) /\ (Sturdy => Needed(back))
    BY <1>0, <1>2, <1>4 DEF Tidy, Known, Needed
  <2>3. Tidy(back)
    BY <1>5, <2>1, <2>2 DEF Tidy
  <2>4. ASSUME NEW d \in back.open \intersect back.idle
        PROVE  Waited(back, d) \/ d \in Wanted(back, list)
    <3>1. Waited(State, d) \/ Awaits(State, d)
      BY <1>0, <1>2, <1>4 DEF Timed
    <3>2. CASE Waited(State, d)
      BY <3>2, <1>2, <1>4 DEF Waited, stream_list_has_pinned_stream
    <3>3. CASE Awaits(State, d)
      <4>1. PICK s \in list : PinnedTo[s] = d \/ (~ is_pinned(s) /\ d \in enabled)
        BY <3>3, <1>2 DEF Awaits
      <4>2. CASE PinnedTo[s] = d
        <5>0. d \in Devs /\ s \in Streams
          BY <1>4, <1>5 DEF Good, StateType
        <5>1. d # Fallback /\ is_pinned(s)
          BY <5>0, <4>2, IodevListAssumption DEF is_pinned, Devs
        <5>2. d \in devs
          BY <5>1, <1>4, <2>3 DEF Tidy, Known
        <5> QED BY <4>2, <5>1, <5>2, <1>4 DEF Wanted, Targets
      <4>3. CASE ~ is_pinned(s) /\ d \in enabled
        BY <4>3, <1>4 DEF Wanted, Targets
      <4> QED BY <4>1, <4>2, <4>3
    <3> QED BY <3>1, <3>2, <3>3
  <2>5. \A d \in back.open \intersect back.idle : Waited(back, d) \/ d \in Wanted(back, list)
    BY <2>4
  <2>6. ~ back.suspended /\ list \in SUBSET back.list
    BY <1>4
  <2> DEFINE t == streams_added(back, list, late, e)
  <2>7. Tidy(t) /\ Timed(t)
    BY <2>3, <2>5, <2>6, StreamsAddedKeeps
  <2> HIDE DEF t
  <2>8. Become(t)
    BY <1>1, <1>8 DEF t
  <2> QED BY <2>7, <2>8, BecomeTidy
<1> QED BY <1>7, <1>8

(* select_node, function by function. *)
LEMMA SelectTidy ==
  ASSUME TidyInv, IInv', NEW d \in RealDevs \union {NoDev}, NEW same_node \in BOOLEAN, NEW e,
         cras_iodev_list_select_node(d, same_node, e)
  PROVE  TidyInv'
<1> DEFINE already == d \in enabled /\ same_node
           st1 == IF already THEN State ELSE possibly_enable_fallback(State, e)
           st2 == disable_device(st1, st1.enabled \ {d, Fallback}, FALSE)
           st3 == IF already THEN st2 ELSE disable_device(st2, st2.enabled \intersect {d}, TRUE)
           st4 == enable_device(st3, d, e)
           st == CASE already \/ d = NoDev -> st3
                   [] ~ already /\ d # NoDev /\ EnableOk(st3, d, e) -> possibly_disable_fallback(st4)
                   [] OTHER -> st4
<1>0. Tidy(State) /\ Timed(State)
  BY DEF TidyInv
<1>1. Become(st) /\ d \in devs \union {NoDev}
  BY DEF cras_iodev_list_select_node
<1>2. Tidy(st1) /\ Timed(st1) /\ st1.devs = devs
  <2>1. State.devs = devs /\ Fallback \in State.devs \union {Fallback}
    BY DEF State
  <2>2. LET u == enable_device(State, Fallback, e) IN
        Tidy(u) /\ (Timed(State) => Timed(u)) /\ u.devs = State.devs
    BY <2>1, <1>0, EnableKeeps, Zenon
  <2> QED BY <2>1, <2>2, <1>0 DEF possibly_enable_fallback
<1> HIDE DEF st1
<1>3. Tidy(st2) /\ Timed(st2) /\ st2.devs = devs
  BY <1>2, DisableKeeps
<1> HIDE DEF st2
<1>4. Tidy(st3) /\ Timed(st3) /\ st3.devs = devs
  BY <1>3, DisableKeeps
<1> HIDE DEF st3
<1>5. d # NoDev => Tidy(st4) /\ Timed(st4)
  <2> SUFFICES ASSUME d # NoDev PROVE Tidy(st4) /\ Timed(st4)
    OBVIOUS
  <2>1. d \in st3.devs \union {Fallback}
    BY <1>1, <1>4
  <2>2. Tidy(st4) /\ (Timed(st3) => Timed(st4))
    BY <2>1, <1>4, EnableKeeps, Zenon
  <2> QED BY <2>2, <1>4
<1> HIDE DEF st4
<1>6. Tidy(st) /\ Timed(st)
  BY <1>4, <1>5, DisableFallbackKeeps
<1> HIDE DEF st
<1> QED BY <1>1, <1>6, BecomeTidy

LEMMA NextTidy == TidyInv /\ [Next]_vars => TidyInv'
<1> SUFFICES ASSUME TidyInv, [Next]_vars PROVE TidyInv'
  OBVIOUS
<1>0. Tidy(State) /\ Timed(State)
  BY DEF TidyInv
<1>g. Good(State)
  BY <1>0 DEF Tidy
<1>i. IInv'
  BY NextIInv DEF TidyInv
<1>s. /\ State.devs = devs /\ State.enabled = enabled /\ State.retries = retries
      /\ State.list = list /\ State.to_delete = to_delete
      /\ State.drain_timer = drain_timer /\ State.suspended = suspended
      /\ State.open = open /\ State.attached = attached /\ State.thread_open = thread_open
      /\ State.idle = idle /\ State.expired = expired /\ State.idle_timer = idle_timer
  BY DEF State
<1>d. RealDevs \subseteq Devs /\ Fallback \notin RealDevs
  BY IodevListAssumption DEF Devs
<1>1. ASSUME NEW d \in RealDevs, cras_iodev_list_add(d) PROVE TidyInv'
  <2> DEFINE t == [State EXCEPT !.devs = @ \union {d}]
  <2>1. Become(t)
    BY <1>1 DEF cras_iodev_list_add
  <2>2. Good(t)
    BY <1>g DEF Good, Safe, StateType
  <2>3. /\ t.devs = devs \union {d} /\ t.enabled = enabled /\ t.retries = retries
        /\ t.list = list /\ t.to_delete = to_delete
        /\ t.drain_timer = drain_timer /\ t.suspended = suspended
        /\ t.open = open /\ t.attached = attached
        /\ t.idle = idle /\ t.idle_timer = idle_timer
    BY DEF State
  <2> HIDE DEF t
  <2>4. Placed(t) /\ Unused(t) /\ Silent(t)
    BY <1>0, <1>s, <2>3 DEF Tidy, Placed, Unused, Silent
  <2>5. Known(t) /\ (Sturdy => Needed(t))
    BY <1>0, <1>s, <2>3 DEF Tidy, Known, Needed
  <2>6. Timed(t)
    BY <1>0, <1>s, <2>3 DEF Timed, Waited, Awaits, stream_list_has_pinned_stream
  <2> QED BY <1>i, <2>1, <2>2, <2>4, <2>5, <2>6, BecomeTidy DEF Tidy
<1>2. ASSUME NEW d \in RealDevs, SuspendDev(d) PROVE TidyInv'
  BY <1>0, <1>i, <1>2, SuspendDevKeeps, BecomeTidy DEF SuspendDev
<1>3. ASSUME NEW d \in RealDevs, NEW severe \in BOOLEAN, handle_dev_err(d, severe) PROVE TidyInv'
  <2> DEFINE A == {p \in State.attached : p[2] # d}
             T == State.thread_open \ {d}
             t == Dropped(State, T, A)
  <2>1. Become(t)
    BY <1>3 DEF handle_dev_err, Dropped
  <2>a. A \in SUBSET State.attached /\ T \in SUBSET State.thread_open /\ \A p \in A : p[2] \in T
    BY <1>g DEF Good, Safe
  <2> HIDE DEF A, T
  <2>2. Good(t)
    BY <1>g, <2>a, DroppedGood
  <2>3. /\ t.devs = devs /\ t.enabled = enabled /\ t.retries = retries
        /\ t.list = list /\ t.to_delete = to_delete
        /\ t.drain_timer = drain_timer /\ t.suspended = suspended
        /\ t.open = open /\ t.attached \subseteq attached
        /\ t.idle = idle /\ t.idle_timer = idle_timer
    BY <1>s, <2>a DEF State, Dropped
  <2> HIDE DEF t
  <2>4. Placed(t) /\ Unused(t) /\ Silent(t)
    BY <1>0, <1>s, <2>3 DEF Tidy, Placed, Unused, Silent
  <2>5. Known(t) /\ (Sturdy => Needed(t))
    BY <1>0, <1>s, <2>3 DEF Tidy, Known, Needed
  <2>6. Timed(t)
    BY <1>0, <1>s, <2>3 DEF Timed, Waited, Awaits, stream_list_has_pinned_stream
  <2> QED BY <1>i, <2>1, <2>2, <2>4, <2>5, <2>6, BecomeTidy DEF Tidy
<1>4. ASSUME NEW d \in RealDevs, NEW e, cras_iodev_list_rm(d, e) PROVE TidyInv'
  <2> DEFINE off == cras_iodev_list_disable_dev(State, d, TRUE, e)
             t == [off EXCEPT !.devs = @ \ {d}]
  <2>1. Tidy(off) /\ Timed(off) /\ d \notin off.enabled /\ d \notin off.open
    BY <1>0, DisableDevKeeps
  <2>2. Become(t)
    BY <1>4, <2>1 DEF cras_iodev_list_rm
  <2> HIDE DEF off
  <2>3. Good(off)
    BY <2>1 DEF Tidy
  <2>4. Good(t)
    BY <2>3 DEF Good, Safe, StateType
  <2>5. /\ t.devs = off.devs \ {d} /\ t.enabled = off.enabled /\ t.retries = off.retries
        /\ t.list = off.list /\ t.to_delete = off.to_delete
        /\ t.drain_timer = off.drain_timer /\ t.suspended = off.suspended
        /\ t.open = off.open /\ t.attached = off.attached
        /\ t.idle = off.idle /\ t.idle_timer = off.idle_timer
    BY <2>3 DEF Good, StateType
  <2> HIDE DEF t
  <2>6. Placed(t) /\ Unused(t) /\ Silent(t)
    BY <2>1, <2>5 DEF Tidy, Placed, Unused, Silent
  <2>7. Known(t) /\ (Sturdy => Needed(t))
    BY <2>1, <2>5 DEF Tidy, Known, Needed
  <2>8. Timed(t)
    BY <2>1, <2>5 DEF Timed, Waited, Awaits, stream_list_has_pinned_stream
  <2> QED BY <1>i, <2>2, <2>4, <2>6, <2>7, <2>8, BecomeTidy DEF Tidy
<1>5. ASSUME NEW d \in RealDevs, NEW force \in BOOLEAN, NEW e, DisableDev(d, force, e) PROVE TidyInv'
  <2> DEFINE t == cras_iodev_list_disable_dev(State, d, force, e)
  <2>1. Tidy(t) /\ Timed(t)
    BY <1>0, DisableDevKeeps
  <2>2. Become(t)
    BY <1>5 DEF DisableDev
  <2> HIDE DEF t
  <2> QED BY <1>i, <2>1, <2>2, BecomeTidy
<1>6. ASSUME NEW d \in RealDevs, NEW e, ResumeDev(d, e) PROVE TidyInv'
  <2>1. d \in State.devs /\ Become(cras_iodev_list_resume_dev(State, d, e))
    BY <1>6, <1>s DEF ResumeDev
  <2> QED BY <1>0, <1>i, <2>1, ResumeDevKeeps, BecomeTidy
<1>7. ASSUME NEW d \in RealDevs, NEW e, handle_device_message(d, e) PROVE TidyInv'
  <2> DEFINE m == cras_iodev_list_suspend_dev(State, d)
             t == cras_iodev_list_resume_dev(m, d, e)
  <2>1. Become(IF d \in devs THEN t ELSE State)
    BY <1>7 DEF handle_device_message
  <2>2. Tidy(m) /\ Timed(m) /\ m.devs = devs
    BY <1>0, <1>s, SuspendDevKeeps
  <2> HIDE DEF m
  <2>3. d \in devs => Tidy(t) /\ Timed(t)
    BY <2>2, ResumeDevKeeps
  <2> HIDE DEF t
  <2> QED BY <1>0, <1>i, <2>1, <2>3, BecomeTidy
<1>8. ASSUME NEW d \in RealDevs, NEW e, init_device_cb(d, e) PROVE TidyInv'
  <2> DEFINE popped == [State EXCEPT !.retries[d] = @ - 1]
             up == init_and_attach_streams(popped, d, e)
             t == CASE d \notin devs \/ d \in open -> popped
                    [] d \in devs \ open /\ AttachOk(popped, d, e) -> possibly_disable_fallback(up)
                    [] OTHER -> up
  <2>1. Become(t) /\ retries[d] > 0
    BY <1>8 DEF init_device_cb
  <2>2. State.retries \in [Devs -> Nat] /\ d \in Devs
    BY <1>g, <1>d DEF Good, StateType
  <2>3. Good(popped)
    BY <1>g, <1>s, <2>1, <2>2 DEF Good, Safe, StateType
  <2>4. \A x \in Devs : popped.retries[x] <= 1
    BY <1>g, <1>0, <1>s, <2>1, <2>2 DEF Tidy, Known, Good, StateType
  <2>5. /\ popped.devs = devs /\ popped.enabled = enabled
        /\ popped.list = list /\ popped.to_delete = to_delete
        /\ popped.drain_timer = drain_timer /\ popped.suspended = suspended
        /\ popped.open = open /\ popped.attached = attached
        /\ popped.idle = idle /\ popped.idle_timer = idle_timer
    BY DEF State
  <2> HIDE DEF popped
  <2>6. Placed(popped) /\ Unused(popped) /\ Silent(popped)
    BY <1>0, <1>s, <2>5 DEF Tidy, Placed, Unused, Silent
  <2>7. Known(popped) /\ (Sturdy => Needed(popped))
    BY <1>0, <1>s, <2>4, <2>5 DEF Tidy, Known, Needed
  <2>8. Timed(popped)
    BY <1>0, <1>s, <2>5 DEF Timed, Waited, Awaits, stream_list_has_pinned_stream
  <2>9. Tidy(popped)
    BY <2>3, <2>6, <2>7 DEF Tidy
  <2>10. d \in devs => Tidy(up) /\ Timed(up)
    <3> SUFFICES ASSUME d \in devs PROVE Tidy(up) /\ Timed(up)
      OBVIOUS
    <3>1. d \in popped.devs \union {Fallback} /\ d # Fallback
      BY <2>5, <1>d
    <3> QED BY <2>8, <2>9, <3>1, InitAttachKeeps
  <2> HIDE DEF up
  <2>11. Tidy(t) /\ Timed(t)
    BY <2>8, <2>9, <2>10, DisableFallbackKeeps
  <2> HIDE DEF t
  <2> QED BY <1>i, <2>1, <2>11, BecomeTidy
<1>9. ASSUME NEW d \in RealDevs \union {NoDev}, NEW same_node \in BOOLEAN, NEW e,
             cras_iodev_list_select_node(d, same_node, e)
      PROVE  TidyInv'
  BY <1>i, <1>9, SelectTidy
<1>10. ASSUME NEW d \in RealDevs, NEW same_node \in BOOLEAN, NEW e,
              cras_iodev_list_add_active_node(d, same_node, e)
       PROVE  TidyInv'
  <2> DEFINE off == IF d \in enabled THEN cras_iodev_list_disable_dev(State, d, TRUE, e) ELSE State
             f == possibly_disable_fallback(off)
             t == enable_device(f, d, e)
  <2>1. Become(t) /\ d \in devs
    BY <1>10 DEF cras_iodev_list_add_active_node
  <2>2. Tidy(off) /\ Timed(off) /\ off.devs = devs
    BY <1>0, <1>s, DisableDevKeeps
  <2> HIDE DEF off
  <2>3. Tidy(f) /\ Timed(f) /\ f.devs = devs
    BY <2>2, DisableFallbackKeeps
  <2> HIDE DEF f
  <2>4. d \in f.devs \union {Fallback}
    BY <2>1, <2>3
  <2>5. Tidy(t) /\ (Timed(f) => Timed(t))
    BY <2>3, <2>4, EnableKeeps, Zenon
  <2> HIDE DEF t
  <2> QED BY <1>i, <2>1, <2>3, <2>5, BecomeTidy
<1>11. ASSUME NEW s \in Streams, NEW late, NEW e \in Outcomes({}), stream_list_add(s, late, e)
       PROVE  TidyInv'
  <2>1. e.bad \subseteq Fragile
    BY DEF Outcomes
  <2> QED BY <1>i, <1>11, <2>1, StreamAddTidy
<1>12. ASSUME NEW on \in BOOLEAN, NEW late, NEW e, sys_suspend_change(on, late, e) PROVE TidyInv'
  BY <1>i, <1>12, SuspendTidy
<1>13. ASSUME NEW S, NEW left, stream_list_rm(S, left) PROVE TidyInv'
  <2> DEFINE base == [State EXCEPT !.list = @ \ S, !.to_delete = @ \union S]
  <2>1. Become(delete_streams(base, left)) /\ S \subseteq list /\ left \subseteq MayDrain(to_delete \union S)
    BY <1>13 DEF stream_list_rm
  <2>2. left \subseteq to_delete \union S /\ \A s \in left : \E p \in attached : p[1] = s
    BY <2>1 DEF MayDrain
  <2>3. Good(base)
    BY <1>g, <1>s, <2>1 DEF Good, Safe, StateType
  <2>4. /\ base.devs = devs /\ base.enabled = enabled /\ base.retries = retries
        /\ base.list = list \ S /\ base.to_delete = to_delete \union S
        /\ base.suspended = suspended
        /\ base.open = open /\ base.attached = attached
        /\ base.idle = idle /\ base.idle_timer = idle_timer
    BY DEF State
  <2> HIDE DEF base
  <2> DEFINE t == delete_streams(base, left)
  <2>5. left \in SUBSET base.to_delete /\ S \in SUBSET State.list
    BY <1>s, <2>1, <2>2, <2>4
  <2>6. Tidy(t) /\ Timed(t)
    BY <1>0, <1>s, <2>2, <2>3, <2>4, <2>5, DeleteStreamsKeeps
  <2> HIDE DEF t
  <2> QED BY <1>i, <2>1, <2>6, BecomeTidy DEF t
<1>14. ASSUME NEW left, DrainTimer(left) PROVE TidyInv'
  <2> DEFINE S == {}
             t == delete_streams(State, left)
  <2>1. Become(t) /\ left \subseteq MayDrain(to_delete)
    BY <1>14 DEF DrainTimer
  <2>2. left \subseteq to_delete /\ \A s \in left : \E p \in attached : p[1] = s
    BY <2>1 DEF MayDrain
  <2>3. /\ S \in SUBSET State.list /\ State.list = State.list \ S
        /\ State.to_delete = State.to_delete \union S /\ left \in SUBSET State.to_delete
    BY <1>s, <2>2
  <2> HIDE DEF S
  <2>4. Tidy(t) /\ Timed(t)
    BY <1>0, <1>g, <1>s, <2>2, <2>3, DeleteStreamsKeeps
  <2> HIDE DEF t
  <2> QED BY <1>i, <2>1, <2>4, BecomeTidy
<1>15. ASSUME NEW d, IdleExpires(d) PROVE TidyInv'
  <2> DEFINE t == [State EXCEPT !.expired = @ \union {d}]
  <2>1. Become(t) /\ d \in idle
    BY <1>15 DEF IdleExpires
  <2>2. Good(t)
    BY <1>g, <1>s, <2>1 DEF Good, Safe, StateType
  <2>3. /\ t.devs = devs /\ t.enabled = enabled /\ t.retries = retries
        /\ t.list = list /\ t.to_delete = to_delete
        /\ t.drain_timer = drain_timer /\ t.suspended = suspended
        /\ t.open = open /\ t.attached = attached
        /\ t.idle = idle /\ t.idle_timer = idle_timer
    BY DEF State
  <2> HIDE DEF t
  <2>4. Placed(t) /\ Unused(t) /\ Silent(t)
    BY <1>0, <1>s, <2>3 DEF Tidy, Placed, Unused, Silent
  <2>5. Known(t) /\ (Sturdy => Needed(t))
    BY <1>0, <1>s, <2>3 DEF Tidy, Known, Needed
  <2>6. Timed(t)
    BY <1>0, <1>s, <2>3 DEF Timed, Waited, Awaits, stream_list_has_pinned_stream
  <2> QED BY <1>i, <2>1, <2>2, <2>4, <2>5, <2>6, BecomeTidy DEF Tidy
<1>c. LET c == idle_dev_check(State) IN Tidy(c) /\ Timed(c)
  BY <1>0, <1>g, IdleCheckGood, IdleCheckEffect, ClosesKeeps
<1>16. ASSUME IdleTimer PROVE TidyInv'
  BY <1>c, <1>i, <1>16, BecomeTidy DEF IdleTimer
<1>17. ASSUME StrayIdleTimer PROVE TidyInv'
  <2> DEFINE c == idle_dev_check(State)
  <2>1. PICK more \in BOOLEAN : Become([c EXCEPT !.stray = more \/ idle_timer])
    BY <1>17 DEF StrayIdleTimer
  <2>2. Tidy(c) /\ Timed(c) /\ Good(c)
    BY <1>c, <1>g, IdleCheckGood
  <2> HIDE DEF c
  <2> DEFINE t == [c EXCEPT !.stray = more \/ idle_timer]
  <2>3. Good(t)
    <3>1. idle_timer \in BOOLEAN
      BY <1>g, <1>s DEF Good, StateType
    <3> QED BY <2>2, <3>1 DEF Good, Safe, StateType
  <2>4. /\ t.devs = c.devs /\ t.enabled = c.enabled /\ t.retries = c.retries
        /\ t.list = c.list /\ t.to_delete = c.to_delete
        /\ t.drain_timer = c.drain_timer /\ t.suspended = c.suspended
        /\ t.open = c.open /\ t.attached = c.attached
        /\ t.idle = c.idle /\ t.idle_timer = c.idle_timer
    BY <2>2 DEF Good, StateType
  <2>5. Become(t)
    BY <2>1
  <2> HIDE DEF t
  <2>6. Placed(t) /\ Unused(t) /\ Silent(t)
    BY <2>2, <2>4 DEF Tidy, Placed, Unused, Silent
  <2>7. Known(t) /\ (Sturdy => Needed(t))
    BY <2>2, <2>4 DEF Tidy, Known, Needed
  <2>8. Timed(t)
    BY <2>2, <2>4 DEF Timed, Waited, Awaits, stream_list_has_pinned_stream
  <2> QED BY <1>i, <2>3, <2>5, <2>6, <2>7, <2>8, BecomeTidy DEF Tidy
<1>18. ASSUME UNCHANGED vars PROVE TidyInv'
  <2>1. State' = State
    BY <1>18 DEF vars, State
  <2> QED BY <1>0, <1>i, <2>1 DEF TidyInv
<1> QED
  BY <1>1, <1>2, <1>3, <1>4, <1>5, <1>6, <1>7, <1>8, <1>9, <1>10, <1>11, <1>12,
     <1>13, <1>14, <1>15, <1>16, <1>17, <1>18 DEF Next

(* What DevicesSettled says of a reachable state; a device may only be     *)
(* open for nobody after a pinned stream failed to attach.                 *)
LEMMA TidySettled ==
  TidyInv => /\ Placement /\ IdleUnused /\ SuspendedSilent
             /\ IdleHasTimer /\ DrainHasTimer /\ OneRetry
             /\ Sturdy => NoLeakedOpen
<1> SUFFICES ASSUME TidyInv
             PROVE  /\ Placement /\ IdleUnused /\ SuspendedSilent
                    /\ IdleHasTimer /\ DrainHasTimer /\ OneRetry
                    /\ Sturdy => NoLeakedOpen
  OBVIOUS
<1>0. Tidy(State) /\ Timed(State)
  BY DEF TidyInv
<1>1. /\ State.devs = devs /\ State.enabled = enabled /\ State.retries = retries
      /\ State.list = list /\ State.to_delete = to_delete
      /\ State.drain_timer = drain_timer /\ State.suspended = suspended
      /\ State.open = open /\ State.attached = attached
      /\ State.idle = idle /\ State.idle_timer = idle_timer
  BY DEF State
<1>2. Placement
  BY <1>0, <1>1 DEF Tidy, Placed, Placement
<1>3. IdleUnused /\ SuspendedSilent
  BY <1>0, <1>1 DEF Tidy, Unused, IdleUnused, Silent, SuspendedSilent
<1>4. IdleHasTimer
  BY <1>0, <1>1 DEF Timed, Waited, Awaits, IdleHasTimer
<1>5. DrainHasTimer /\ OneRetry
  BY <1>0, <1>1 DEF Tidy, Known, DrainHasTimer, OneRetry
<1>6. Sturdy => NoLeakedOpen
  BY <1>0, <1>1 DEF Tidy, Needed, NoLeakedOpen
<1> QED BY <1>2, <1>3, <1>4, <1>5, <1>6

(* For any devices and streams, whatever opens or appends fail: streams    *)
(* are only on devices routing allows, none is on a device that may close  *)
(* as idle, none plays through a suspend, no idle device or draining       *)
(* stream is without its timer, and no open is retried twice.              *)
THEOREM StreamsPlaced ==
  Spec => [](/\ Placement /\ IdleUnused /\ SuspendedSilent
             /\ IdleHasTimer /\ DrainHasTimer /\ OneRetry)
<1>1. Spec => []TidyInv
  BY InitTidy, NextTidy, PTL DEF Spec
<1>2. TidyInv => /\ Placement /\ IdleUnused /\ SuspendedSilent
                 /\ IdleHasTimer /\ DrainHasTimer /\ OneRetry
  BY TidySettled
<1> QED BY <1>1, <1>2, PTL

(* If the audio thread takes every pinned stream, no device stays open for *)
(* nobody either.                                                          *)
THEOREM DevicesSettle ==
  ASSUME Sturdy
  PROVE  Spec => []DevicesSettled
<1>1. Spec => []TidyInv
  BY InitTidy, NextTidy, PTL DEF Spec
<1>2. TidyInv => DevicesSettled
  BY TidySettled DEF DevicesSettled
<1> QED BY <1>1, <1>2, PTL
-----------------------------------------------------------------------------
(* Pinned streams and node selection. *)
LEMMA EnableList ==
  ASSUME NEW st, Good(st), NEW d \in Devs, NEW e
  PROVE  enable_device(st, d, e).list = st.list
<1> DEFINE on == [st EXCEPT !.enabled = @ \union {d}]
           opens == e.ok \union {Fallback}
           D == {d}
           o == init_device(on, D, opens)
           P == CanAttach(on, d) \X {d}
           a == audio_thread_add_stream(o, P, e)
           up == init_and_attach_streams(on, d, e)
<1>0. D \in SUBSET Devs /\ Good(on) /\ on.list = st.list
  BY EnableEffect
<1>1. enable_device(st, d, e) \in {st, up, schedule_init_device_retry(up, {d})}
  BY DEF enable_device
<1>2. up \in {on, a, o}
  BY DEF init_and_attach_streams
<1>3. Good(up)
  BY <1>0, InitAttachGood
<1> HIDE DEF on, opens, D, P, up
<1>4. Good(o) /\ o.list = st.list
  BY <1>0, InitDeviceGood
<1> HIDE DEF o
<1>5. a.list = st.list
  BY <1>4, AddStreamEffect DEF IsAdded
<1>6. up.list = st.list
  BY <1>0, <1>2, <1>4, <1>5
<1>7. schedule_init_device_retry(up, {d}).list = st.list
  BY <1>3, <1>6, ScheduleGood
<1> QED BY <1>1, <1>6, <1>7

(* disable_device leaves a listed pinned stream on its device, unless it   *)
(* is forced on that device.                                               *)
LEMMA DisableHolds ==
  ASSUME NEW st, Tidy(st), NEW D, NEW force \in BOOLEAN,
         NEW p \in st.attached, is_pinned(p[1]), p[1] \in st.list, p[2] # Fallback,
         force => p[2] \notin D
  PROVE  LET t == disable_device(st, D, force) IN p \in t.attached /\ t.list = st.list
<1> DEFINE m == DisableOff(st, D, force)
           E == DisableClosed(st, D, force)
           t == disable_device(st, D, force)
<1>0. Good(st)
  BY DEF Tidy
<1>1. /\ Good(m) /\ t = close_dev(m, E)
      /\ m.devs = st.devs /\ m.enabled = st.enabled \ D
      /\ m.retries = [d \in Devs |-> IF force /\ d \in D THEN 0 ELSE st.retries[d]]
      /\ m.list = st.list /\ m.to_delete = st.to_delete
      /\ m.drain_timer = st.drain_timer /\ m.suspended = st.suspended
      /\ m.open = st.open /\ m.thread_open = st.thread_open
      /\ m.attached = {q \in st.attached :
                         ~ (q[1] \in {s \in st.list : force \/ ~ is_pinned(s)} /\ q[2] \in D)}
      /\ m.idle = st.idle /\ m.expired = st.expired
      /\ m.idle_timer = st.idle_timer
  BY <1>0, DisableEffect
<1>2. E = {d \in D : force \/ ~ stream_list_has_pinned_stream(st, d)}
  BY DEF DisableClosed
<1> HIDE DEF m, E, t
<1>3. PICK C : Closes(m, t, C) /\ C \subseteq E \union (m.enabled \intersect m.expired)
  BY <1>1, CloseDevEffect
<1>4. p[2] = PinnedTo[p[1]]
  BY DEF Tidy, Placed
<1>5. p[2] \notin st.idle
  BY DEF Tidy, Unused, Known
<1>6. p[2] \notin E
  BY <1>2, <1>4 DEF stream_list_has_pinned_stream
<1>7. p[2] \notin m.expired
  BY <1>1, <1>5 DEF Good, Safe
<1>8. p \in m.attached
  BY <1>1
<1> QED BY <1>1, <1>3, <1>6, <1>7, <1>8 DEF Closes, t

LEMMA SelectHolds ==
  ASSUME Sturdy, TidyInv, NEW d \in devs \union {NoDev}, NEW same_node \in BOOLEAN,
         NEW e, e.bad \subseteq Fragile, cras_iodev_list_select_node(d, same_node, e),
         NEW p \in attached, is_pinned(p[1]), p[1] \in list, p[2] \notin {d, Fallback}
  PROVE  p \in attached'
<1> DEFINE Holds(t) == Tidy(t) /\ t.devs = devs /\ p \in t.attached /\ p[1] \in t.list
           already == d \in enabled /\ same_node
           st1 == IF already THEN State ELSE possibly_enable_fallback(State, e)
           st2 == disable_device(st1, st1.enabled \ {d, Fallback}, FALSE)
           st3 == IF already THEN st2 ELSE disable_device(st2, st2.enabled \intersect {d}, TRUE)
           st4 == enable_device(st3, d, e)
           st == CASE already \/ d = NoDev -> st3
                   [] ~ already /\ d # NoDev /\ EnableOk(st3, d, e) -> possibly_disable_fallback(st4)
                   [] OTHER -> st4
<1>1. Become(st)
  BY DEF cras_iodev_list_select_node
<1>2. p[1] \notin e.bad
  BY DEF Sturdy
<1>3. Holds(State)
  BY DEF TidyInv, State
<1>4. ASSUME NEW t, Holds(t), NEW x \in t.devs \union {Fallback} PROVE Holds(enable_device(t, x, e))
  <2>1. Good(t) /\ x \in Devs
    BY <1>4 DEF Tidy, Good, StateType, Devs
  <2>2. LET u == enable_device(t, x, e) IN
        /\ Tidy(u) /\ u.devs = t.devs
        /\ \A q \in t.attached : q[1] \notin e.bad => q \in u.attached
    BY <1>4, EnableKeeps
  <2>3. enable_device(t, x, e).list = t.list
    BY <2>1, EnableList
  <2> QED BY <2>2, <2>3, <1>2, <1>4
<1>5. ASSUME NEW t, Holds(t), NEW D, NEW force \in BOOLEAN, force => p[2] \notin D
      PROVE  Holds(disable_device(t, D, force))
  <2>1. LET u == disable_device(t, D, force) IN Tidy(u) /\ u.devs = t.devs
    BY <1>5, DisableKeeps
  <2>2. LET u == disable_device(t, D, force) IN p \in u.attached /\ u.list = t.list
    BY <1>5, DisableHolds
  <2> QED BY <2>1, <2>2, <1>5
<1> HIDE DEF Holds
<1>6. Holds(st1)
  BY <1>3, <1>4 DEF possibly_enable_fallback
<1> HIDE DEF st1
<1>7. Holds(st2)
  BY <1>5, <1>6
<1> HIDE DEF st2
<1>8. Holds(st3)
  <2>1. p[2] \notin st2.enabled \intersect {d}
    OBVIOUS
  <2> QED BY <2>1, <1>5, <1>7
<1> HIDE DEF st3
<1>9. d # NoDev => Holds(st4)
  <2>1. st3.devs = devs
    BY <1>8 DEF Holds
  <2> QED BY <2>1, <1>4, <1>8
<1> HIDE DEF st4
<1>10. d # NoDev => Holds(possibly_disable_fallback(st4))
  BY <1>5, <1>9 DEF possibly_disable_fallback
<1>11. Holds(st)
  BY <1>8, <1>9, <1>10
<1> HIDE DEF st
<1> QED BY <1>1, <1>11 DEF Become, Holds

(* If the audio thread takes every pinned stream, no node selection takes  *)
(* a listed pinned stream off a device other than the selected one.        *)
THEOREM PinnedKept ==
  ASSUME Sturdy
  PROVE  Spec => PinnedUndisturbed
<1>1. Spec => []TidyInv
  BY InitTidy, NextTidy, PTL DEF Spec
<1>2. TidyInv =>
        [\A d \in devs \union {NoDev}, same_node \in BOOLEAN :
           (\E p \in attached \ attached' : is_pinned(p[1]) /\ p[1] \in list /\ p[2] \notin {d, Fallback})
             => ~ \E e \in Outcomes({d} \intersect RealDevs) : cras_iodev_list_select_node(d, same_node, e)]_vars
  <2> SUFFICES ASSUME TidyInv, NEW d \in devs \union {NoDev}, NEW same_node \in BOOLEAN,
                      NEW p \in attached \ attached', is_pinned(p[1]), p[1] \in list,
                      p[2] \notin {d, Fallback},
                      NEW e \in Outcomes({d} \intersect RealDevs),
                      cras_iodev_list_select_node(d, same_node, e)
               PROVE  FALSE
    OBVIOUS
  <2>1. e.bad \subseteq Fragile
    BY DEF Outcomes
  <2> QED BY <2>1, SelectHolds
<1> QED BY <1>1, <1>2, PTL DEF PinnedUndisturbed
-----------------------------------------------------------------------------
(* Hotword streams, as MCDevices composes them.  The empty device is open  *)
(* only while it holds streams that a hotword suspend put there.           *)
HotwordType ==
  /\ in_list \in BOOLEAN /\ mic_open \in BOOLEAN /\ hotword_suspended \in BOOLEAN
  /\ retry \in BOOLEAN /\ mic_failed \in BOOLEAN

EmptyInv ==
  /\ hotword_thread_open \subseteq hotword_open
  /\ hotword_attached \subseteq listed \X hotword_thread_open
  /\ "empty" \in hotword_open => hotword_suspended /\ listed # {}

(* On a device that does not fail: it is open for streams, outside a       *)
(* suspend and while it is there; the thread has it then; nothing is       *)
(* retried; an open microphone means that they were suspended, and a       *)
(* suspend that it is open, or that its last open failed.                  *)
ArmedInv ==
  /\ "hotword" \in hotword_open
       => in_list /\ ~ hotword_suspended /\ listed # {} /\ "hotword" \in hotword_thread_open
  /\ ~ retry
  /\ mic_open => hotword_suspended \/ ~ in_list
  /\ in_list /\ hotword_suspended => mic_open \/ mic_failed
  /\ in_list /\ ~ hotword_suspended
       => \A s \in listed \ skipped : <<s, "hotword">> \in hotword_attached

HandoverInv == HotwordType /\ EmptyInv /\ (part = "reliable" => ArmedInv)

(* A step of a device that does not fail is one of a device that may. *)
LEMMA ReliableStep == Reliable!Next => Failing!Next
<1>1. ASSUME NEW s, Reliable!stream_list_add(s) PROVE Failing!stream_list_add(s)
  BY <1>1 DEF Reliable!stream_list_add, Failing!stream_list_add, Reliable!Outcomes, Failing!Outcomes,
     Reliable!find_pinned_device, Failing!find_pinned_device, Reliable!OpenAfter, Failing!OpenAfter,
     Reliable!ThreadAfter, Failing!ThreadAfter, Reliable!RetryAfter, Failing!RetryAfter
<1>2. ASSUME NEW s, Reliable!stream_list_add_suspended(s) PROVE Failing!stream_list_add_suspended(s)
  BY <1>2 DEF Reliable!stream_list_add_suspended, Failing!stream_list_add_suspended
<1>3. ASSUME NEW s, Reliable!stream_list_rm(s) PROVE Failing!stream_list_rm(s)
  BY <1>3 DEF Reliable!stream_list_rm, Failing!stream_list_rm, Reliable!Others, Failing!Others,
     Reliable!find_pinned_device, Failing!find_pinned_device
<1>4. \A from, to, up : Reliable!MoveStreams(from, to, up) => Failing!MoveStreams(from, to, up)
  BY DEF Reliable!MoveStreams, Failing!MoveStreams, Reliable!OpenAfter, Failing!OpenAfter,
     Reliable!ThreadAfter, Failing!ThreadAfter, Reliable!RetryAfter, Failing!RetryAfter
<1>5. Reliable!cras_iodev_list_suspend_hotword_streams => Failing!cras_iodev_list_suspend_hotword_streams
  BY <1>4 DEF Reliable!cras_iodev_list_suspend_hotword_streams, Reliable!HotwordUnchanged,
     Failing!cras_iodev_list_suspend_hotword_streams, Failing!HotwordUnchanged
<1>6. Reliable!cras_iodev_list_resume_hotword_stream => Failing!cras_iodev_list_resume_hotword_stream
  BY <1>4 DEF Reliable!cras_iodev_list_resume_hotword_stream, Reliable!HotwordUnchanged, Reliable!Outcomes,
     Failing!cras_iodev_list_resume_hotword_stream, Failing!HotwordUnchanged, Failing!Outcomes
<1>7. Reliable!cras_iodev_open => Failing!cras_iodev_open
  BY <1>5 DEF Reliable!cras_iodev_open, Failing!cras_iodev_open
<1>8. Reliable!cras_iodev_close => Failing!cras_iodev_close
  BY <1>6 DEF Reliable!cras_iodev_close, Failing!cras_iodev_close
<1>9. Reliable!suspend_devs => Failing!suspend_devs
  BY <1>6 DEF Reliable!suspend_devs, Failing!suspend_devs, Reliable!HotwordUnchanged, Failing!HotwordUnchanged
<1>10. Reliable!resume_devs => Failing!resume_devs
  BY DEF Reliable!resume_devs, Failing!resume_devs
<1>11. Reliable!init_device_cb => Failing!init_device_cb
  BY DEF Reliable!init_device_cb, Failing!init_device_cb, Reliable!Outcomes, Failing!Outcomes,
     Reliable!OpenAfter, Failing!OpenAfter, Reliable!ThreadAfter, Failing!ThreadAfter
<1>12. Reliable!handle_dev_err => Failing!handle_dev_err
  BY DEF Reliable!handle_dev_err, Failing!handle_dev_err
<1>13. Reliable!cras_iodev_list_rm_input => Failing!cras_iodev_list_rm_input
  BY DEF Reliable!cras_iodev_list_rm_input, Failing!cras_iodev_list_rm_input
<1> QED
  BY <1>1, <1>2, <1>3, <1>7, <1>8, <1>9, <1>10, <1>11, <1>12, <1>13, Zenon
     DEF Reliable!Next, Failing!Next

LEMMA HotwordTypeNext == HotwordType /\ Failing!Next => HotwordType'
<1> SUFFICES ASSUME HotwordType, Failing!Next PROVE HotwordType'
  OBVIOUS
<1> USE DEF HotwordType
<1>1. ASSUME NEW s \in Hotwords, Failing!stream_list_add(s) PROVE HotwordType'
  BY <1>1 DEF Failing!stream_list_add, Failing!cras_iodev_list_suspend_hotword_streams, Failing!cras_iodev_list_resume_hotword_stream,
     Failing!HotwordUnchanged, Failing!MoveStreams, Failing!RetryAfter
<1>2. ASSUME NEW s \in Hotwords, Failing!stream_list_add_suspended(s) PROVE HotwordType'
  BY <1>2 DEF Failing!stream_list_add_suspended, Failing!cras_iodev_list_suspend_hotword_streams, Failing!cras_iodev_list_resume_hotword_stream,
     Failing!HotwordUnchanged, Failing!MoveStreams, Failing!RetryAfter
<1>3. ASSUME NEW s \in Hotwords, Failing!stream_list_rm(s) PROVE HotwordType'
  BY <1>3 DEF Failing!stream_list_rm, Failing!cras_iodev_list_suspend_hotword_streams, Failing!cras_iodev_list_resume_hotword_stream,
     Failing!HotwordUnchanged, Failing!MoveStreams, Failing!RetryAfter
<1>4. ASSUME Failing!cras_iodev_open PROVE HotwordType'
  BY <1>4 DEF Failing!cras_iodev_open, Failing!cras_iodev_list_suspend_hotword_streams, Failing!cras_iodev_list_resume_hotword_stream,
     Failing!HotwordUnchanged, Failing!MoveStreams, Failing!RetryAfter
<1>5. ASSUME Failing!cras_iodev_close PROVE HotwordType'
  BY <1>5 DEF Failing!cras_iodev_close, Failing!cras_iodev_list_suspend_hotword_streams, Failing!cras_iodev_list_resume_hotword_stream,
     Failing!HotwordUnchanged, Failing!MoveStreams, Failing!RetryAfter
<1>6. ASSUME Failing!suspend_devs PROVE HotwordType'
  BY <1>6 DEF Failing!suspend_devs, Failing!cras_iodev_list_suspend_hotword_streams, Failing!cras_iodev_list_resume_hotword_stream,
     Failing!HotwordUnchanged, Failing!MoveStreams, Failing!RetryAfter
<1>7. ASSUME Failing!resume_devs PROVE HotwordType'
  BY <1>7 DEF Failing!resume_devs, Failing!cras_iodev_list_suspend_hotword_streams, Failing!cras_iodev_list_resume_hotword_stream,
     Failing!HotwordUnchanged, Failing!MoveStreams, Failing!RetryAfter
<1>8. ASSUME Failing!init_device_cb PROVE HotwordType'
  BY <1>8 DEF Failing!init_device_cb, Failing!cras_iodev_list_suspend_hotword_streams, Failing!cras_iodev_list_resume_hotword_stream,
     Failing!HotwordUnchanged, Failing!MoveStreams, Failing!RetryAfter
<1>9. ASSUME Failing!handle_dev_err PROVE HotwordType'
  BY <1>9 DEF Failing!handle_dev_err, Failing!cras_iodev_list_suspend_hotword_streams, Failing!cras_iodev_list_resume_hotword_stream,
     Failing!HotwordUnchanged, Failing!MoveStreams, Failing!RetryAfter
<1>10. ASSUME Failing!cras_iodev_list_rm_input PROVE HotwordType'
  BY <1>10 DEF Failing!cras_iodev_list_rm_input, Failing!cras_iodev_list_suspend_hotword_streams, Failing!cras_iodev_list_resume_hotword_stream,
     Failing!HotwordUnchanged, Failing!MoveStreams, Failing!RetryAfter
<1> QED BY <1>1, <1>2, <1>3, <1>4, <1>5, <1>6, <1>7, <1>8, <1>9, <1>10 DEF Failing!Next

LEMMA EmptyNext == EmptyInv /\ Failing!Next => EmptyInv'
<1> SUFFICES ASSUME EmptyInv, Failing!Next PROVE EmptyInv'
  OBVIOUS
<1> USE DEF EmptyInv
<1>1. ASSUME NEW s, Failing!stream_list_add(s) PROVE EmptyInv'
  BY <1>1 DEF Failing!stream_list_add, Failing!find_pinned_device, Failing!OpenAfter, Failing!ThreadAfter
<1>2. ASSUME NEW s, Failing!stream_list_add_suspended(s) PROVE EmptyInv'
  BY <1>2 DEF Failing!stream_list_add_suspended
<1>3. ASSUME NEW s, Failing!stream_list_rm(s) PROVE EmptyInv'
  BY <1>3 DEF Failing!stream_list_rm, Failing!Others, Failing!find_pinned_device
<1>4. ASSUME Failing!cras_iodev_list_suspend_hotword_streams, UNCHANGED listed PROVE EmptyInv'
  BY <1>4 DEF Failing!cras_iodev_list_suspend_hotword_streams, Failing!HotwordUnchanged,
     Failing!MoveStreams, Failing!OpenAfter, Failing!ThreadAfter
<1>5. ASSUME Failing!cras_iodev_list_resume_hotword_stream, UNCHANGED listed PROVE EmptyInv'
  BY <1>5 DEF Failing!cras_iodev_list_resume_hotword_stream, Failing!HotwordUnchanged,
     Failing!MoveStreams, Failing!OpenAfter, Failing!ThreadAfter
<1>6. ASSUME Failing!cras_iodev_open PROVE EmptyInv'
  BY <1>4, <1>6 DEF Failing!cras_iodev_open
<1>7. ASSUME Failing!cras_iodev_close PROVE EmptyInv'
  BY <1>5, <1>7 DEF Failing!cras_iodev_close
<1>8. ASSUME Failing!suspend_devs PROVE EmptyInv'
  BY <1>5, <1>8 DEF Failing!suspend_devs, Failing!HotwordUnchanged
<1>9. ASSUME Failing!resume_devs PROVE EmptyInv'
  BY <1>9 DEF Failing!resume_devs
<1>10. ASSUME Failing!init_device_cb PROVE EmptyInv'
  BY <1>10 DEF Failing!init_device_cb, Failing!OpenAfter, Failing!ThreadAfter
<1>11. ASSUME Failing!handle_dev_err PROVE EmptyInv'
  BY <1>11 DEF Failing!handle_dev_err
<1>12. ASSUME Failing!cras_iodev_list_rm_input PROVE EmptyInv'
  BY <1>12 DEF Failing!cras_iodev_list_rm_input
<1> QED
  BY <1>1, <1>2, <1>3, <1>6, <1>7, <1>8, <1>9, <1>10, <1>11, <1>12 DEF Failing!Next

LEMMA ArmedNext == HotwordType /\ ArmedInv /\ Reliable!Next => ArmedInv'
<1> SUFFICES ASSUME HotwordType, ArmedInv, Reliable!Next PROVE ArmedInv'
  OBVIOUS
<1> USE DEF ArmedInv, HotwordType
<1>1. ASSUME NEW s, Reliable!stream_list_add(s) PROVE ArmedInv'
  <2>1. PICK d \in Reliable!find_pinned_device, ok \in BOOLEAN :
          /\ ok \in Reliable!Outcomes(d) \/ d \in hotword_open
          /\ hotword_open' = Reliable!OpenAfter(d, ok \/ d \in hotword_open)
          /\ hotword_thread_open' = Reliable!ThreadAfter(d, ok \/ d \in hotword_open)
          /\ hotword_attached' = IF d \in hotword_thread_open' THEN hotword_attached \union {<<s, d>>}
                                                               ELSE hotword_attached
          /\ retry' = (Reliable!RetryAfter(d) \/ ~ (ok \/ d \in hotword_open))
    BY <1>1 DEF Reliable!stream_list_add
  <2>2. ok \/ d \in hotword_open
    BY <2>1 DEF Reliable!Outcomes
  <2>3. /\ listed' = listed \union {s}
        /\ UNCHANGED <<in_list, mic_open, hotword_suspended, skipped, mic_failed>>
    BY <1>1 DEF Reliable!stream_list_add
  <2>4. /\ hotword_open' = hotword_open \union {d} /\ ~ retry'
        /\ hotword_thread_open' = IF d \notin hotword_open THEN hotword_thread_open \union {d}
                                                           ELSE hotword_thread_open
    BY <2>1, <2>2 DEF Reliable!OpenAfter, Reliable!ThreadAfter, Reliable!RetryAfter
  <2>5. CASE hotword_suspended
    <3>1. d = "empty"
      BY <2>1, <2>5 DEF Reliable!find_pinned_device
    <3> QED BY <3>1, <2>3, <2>4, <2>5
  <2>6. CASE ~ hotword_suspended
    <3>1. d = "hotword" /\ in_list
      BY <2>1, <2>6 DEF Reliable!find_pinned_device
    <3>2. "hotword" \in hotword_thread_open'
      BY <3>1, <2>4
    <3>3. hotword_attached' = hotword_attached \union {<<s, "hotword">>}
      BY <3>1, <3>2, <2>1
    <3> QED BY <3>1, <3>2, <3>3, <2>3, <2>4, <2>6
  <2> QED BY <2>5, <2>6
<1>2. ASSUME NEW s, Reliable!stream_list_add_suspended(s) PROVE ArmedInv'
  BY <1>2 DEF Reliable!stream_list_add_suspended
<1>3. ASSUME NEW s, Reliable!stream_list_rm(s) PROVE ArmedInv'
  BY <1>3 DEF Reliable!stream_list_rm, Reliable!Others, Reliable!find_pinned_device
<1>4. ASSUME Reliable!cras_iodev_open PROVE ArmedInv'
  BY <1>4 DEF Reliable!cras_iodev_open, Reliable!cras_iodev_list_suspend_hotword_streams,
     Reliable!HotwordUnchanged, Reliable!MoveStreams, Reliable!OpenAfter, Reliable!ThreadAfter,
     Reliable!RetryAfter
<1>5. ASSUME Reliable!cras_iodev_list_resume_hotword_stream,
             UNCHANGED <<listed, in_list, mic_failed>>, mic_open' = FALSE
      PROVE  ArmedInv'
  BY <1>5 DEF Reliable!cras_iodev_list_resume_hotword_stream, Reliable!HotwordUnchanged,
     Reliable!MoveStreams, Reliable!OpenAfter, Reliable!ThreadAfter, Reliable!RetryAfter, Reliable!Outcomes
<1>6. ASSUME Reliable!cras_iodev_close PROVE ArmedInv'
  BY <1>5, <1>6 DEF Reliable!cras_iodev_close
<1>7. ASSUME Reliable!suspend_devs PROVE ArmedInv'
  <2>1. mic_open' = FALSE /\ UNCHANGED <<listed, in_list, mic_failed>>
    BY <1>7 DEF Reliable!suspend_devs
  <2>2. CASE mic_open
    BY <2>1, <2>2, <1>5, <1>7 DEF Reliable!suspend_devs
  <2>3. CASE ~ mic_open
    BY <2>1, <2>3, <1>7 DEF Reliable!suspend_devs, Reliable!HotwordUnchanged
  <2> QED BY <2>2, <2>3
<1>8. ASSUME Reliable!resume_devs PROVE ArmedInv'
  BY <1>8 DEF Reliable!resume_devs
<1>9. ASSUME Reliable!init_device_cb PROVE ArmedInv'
  BY <1>9 DEF Reliable!init_device_cb
<1>10. ASSUME Reliable!cras_iodev_list_rm_input PROVE ArmedInv'
  BY <1>10 DEF Reliable!cras_iodev_list_rm_input
<1>11. ~ Reliable!handle_dev_err
  BY DEF Reliable!handle_dev_err
<1> QED
  BY <1>1, <1>2, <1>3, <1>4, <1>6, <1>7, <1>8, <1>9, <1>10, <1>11 DEF Reliable!Next

(* For any hotword streams: the empty device is only open in a hotword     *)
(* suspend, whatever fails; and a device that does not fail is never open  *)
(* together with the microphone, and has every stream while that is closed *)
(* and its last open did not fail.                                         *)
THEOREM HotwordHandedOver == MCSpec => []HotwordHandover
<1>1. MCInit => HandoverInv
  BY DEF MCInit, HandoverInv, HotwordType, EmptyInv, ArmedInv, Failing!Init
<1>2. HandoverInv /\ [MCNext]_mcVars => HandoverInv'
  <2> SUFFICES ASSUME HandoverInv, [MCNext]_mcVars PROVE HandoverInv'
    OBVIOUS
  <2>1. CASE part = "flaky" /\ Failing!Next /\ UNCHANGED <<part, vars>>
    BY <2>1, HotwordTypeNext, EmptyNext DEF HandoverInv
  <2>2. CASE part = "reliable" /\ Reliable!Next /\ UNCHANGED <<part, vars>>
    BY <2>2, ReliableStep, HotwordTypeNext, EmptyNext, ArmedNext DEF HandoverInv
  <2>3. CASE UNCHANGED <<part, hotwordVars>>
    BY <2>3 DEF HandoverInv, HotwordType, EmptyInv, ArmedInv, hotwordVars
  <2> QED
    BY <2>1, <2>2, <2>3 DEF MCNext, mcVars
<1>3. HandoverInv => HotwordHandover
  BY DEF HandoverInv, EmptyInv, ArmedInv, HotwordHandover, Failing!EmptyOnlyInSuspend,
     Reliable!MicExcludesHotword, Reliable!ArmedUnlessPreempted
<1> QED
  BY <1>1, <1>2, <1>3, PTL DEF MCSpec
=============================================================================
