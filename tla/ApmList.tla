------------------------------ MODULE ApmList -------------------------------
(***************************************************************************)
(* Audio processing of capture streams (cras_apm_list.c) and what it hangs *)
(* on: the external DSP module of a device (cras_iodev.c) and the DSP      *)
(* contexts (cras_dsp.c).  A stream has one processing object per device;  *)
(* the audio thread keeps a list of the active ones.  One output device at *)
(* a time carries the reverse module that feeds playback to all of them.   *)
(***************************************************************************)
EXTENDS Integers, Sequences, SequencesExt, FiniteSets

CONSTANTS Outputs, Inputs,   \* devices
          EchoRef,           \* the echo reference of every output: another device, or itself
          Streams,           \* capture streams with echo cancellation
          LoadFails,         \* whether loading a pipeline may fail
          MaxChanges         \* device openings and ini reloads in a behaviour

VARIABLES dev,       \* per device: open, format, ext_dsp_module, dsp_context
          enabled,   \* enabled output devices, in order
          stream,    \* per stream: the devices it is attached to and its apms
          active,    \* active_apms: <<stream, apm>>
          rmodule,   \* the reverse module: odev and process_reverse
          ini,       \* global_ini, the ini files in memory and their number so far
          changes

vars == <<dev, enabled, stream, active, rmodule, ini, changes>>

AllDevs == Outputs \cup Inputs \cup {EchoRef[o] : o \in Outputs}
None == "none"
NoPipe == [ini |-> 0, ext |-> None]
Place(o) == CHOOSE i \in DOMAIN enabled : enabled[i] = o
Closed == [open |-> FALSE, fmt |-> 0, ext |-> None, ctx |-> FALSE, pipe |-> NoPipe, lost |-> FALSE]

Init ==
  /\ dev = [d \in AllDevs |-> Closed]
  /\ enabled = <<>>
  /\ stream = [s \in Streams |-> [on |-> {}, apms |-> {}]]
  /\ active = {}
  /\ rmodule = [odev |-> None, process |-> FALSE]
  /\ ini = [global |-> 1, live |-> {1}, next |-> 2]
  /\ changes = 0

-----------------------------------------------------------------------------
(* cras_dsp.c *)

\* An ini other than the global one lives as long as the pipeline that uses it
destroy_pipeline(m, pipe) ==
  [m EXCEPT !.live = IF pipe.ini \in {0, m.global} THEN @ ELSE @ \ {pipe.ini}]

\* The pipelines prepare_pipeline may return, with what became of the ini files
prepare_pipeline(m, target) ==
  {<<[ini |-> target, ext |-> None], m>>, <<NoPipe, m>>}
    \cup (IF LoadFails THEN {<<NoPipe, destroy_pipeline(m, [ini |-> target, ext |-> None])>>} ELSE {})

\* The new pipeline replaces the old one, without the external module that one had
cmd_load_pipeline(d, r) == [d EXCEPT !.pipe = r[1], !.lost = d.open /\ d.ext # None]

\* create_dummy_ini makes an ini of its own
cras_dsp_load_dummy_pipeline(d, m) ==
  <<[d EXCEPT !.ctx = TRUE, !.pipe = [ini |-> m.next, ext |-> None]],
    [m EXCEPT !.live = @ \cup {m.next}, !.next = @ + 1]>>

\* mutant: the pipelines are not loaded again
cmd_reload_ini_only ==
  /\ changes < MaxChanges
  /\ ini' = [ini EXCEPT !.global = ini.next, !.live = (@ \ {ini.global}) \cup {ini.next}, !.next = @ + 1]
  /\ changes' = changes + 1
  /\ UNCHANGED <<dev, enabled, stream, active, rmodule>>

\* Every context loads its pipeline from the new ini, which becomes the global one last
cmd_reload_ini ==
  /\ changes < MaxChanges
  /\ LET new == ini.next
         read == [ini EXCEPT !.live = @ \cup {new}, !.next = @ + 1]
         ctxs == {d \in AllDevs : dev[d].ctx}
     IN \E r \in [ctxs -> prepare_pipeline(read, new)] :
          /\ dev' = [d \in AllDevs |-> IF d \in ctxs THEN cmd_load_pipeline(dev[d], r[d]) ELSE dev[d]]
          /\ LET kept == {i \in read.live : \A d \in ctxs : i \in r[d][2].live}
                 private == {dev[d].pipe.ini : d \in ctxs} \ {ini.global}
             IN ini' = [read EXCEPT !.global = new, !.live = (kept \ private) \ {ini.global}]
  /\ changes' = changes + 1
  /\ UNCHANGED <<enabled, stream, active, rmodule>>

-----------------------------------------------------------------------------
(* cras_iodev.c: the external module *)

add_ext_dsp_module_to_pipeline(d, m) ==
  LET r == IF d.ctx /\ d.pipe # NoPipe THEN <<d, m>> ELSE cras_dsp_load_dummy_pipeline(d, m)
  IN <<[r[1] EXCEPT !.pipe.ext = d.ext, !.lost = FALSE], r[2]>>

\* mutant: the pipeline keeps the module
release_ext_dsp_module_from_pipeline_not(d) == d

release_ext_dsp_module_from_pipeline(d) ==
  IF d.ctx /\ d.pipe # NoPipe THEN [d EXCEPT !.pipe.ext = None, !.lost = FALSE] ELSE [d EXCEPT !.lost = FALSE]

\* m is <<devices, ini files>>
cras_iodev_set_ext_dsp_module(m, d, ext) ==
  LET set == [m[1][d] EXCEPT !.ext = ext]
      r == IF ~set.open THEN <<set, m[2]>>
           ELSE IF ext # None THEN add_ext_dsp_module_to_pipeline(set, m[2])
           ELSE <<release_ext_dsp_module_from_pipeline(set), m[2]>>
  IN <<[m[1] EXCEPT ![d] = r[1]], r[2]>>

\* Opening sets the format, makes the context anew and attaches the external module
cras_iodev_open(d) ==
  /\ changes < MaxChanges
  /\ ~dev[d].open
  /\ \E fmt \in 1..2, r \in prepare_pipeline(ini, ini.global) :
       LET freed == destroy_pipeline(r[2], dev[d].pipe)
           o == [dev[d] EXCEPT !.open = TRUE, !.fmt = fmt, !.ctx = TRUE, !.pipe = r[1],
                               !.ext = IF d \in Outputs \/ @ # None THEN @ ELSE "input_data"]
           a == add_ext_dsp_module_to_pipeline(o, freed)
       IN dev' = [dev EXCEPT ![d] = a[1]] /\ ini' = a[2]
  /\ changes' = changes + 1
  /\ UNCHANGED <<enabled, stream, active, rmodule>>

closed(d) == [dev[d] EXCEPT !.open = FALSE, !.fmt = 0, !.ext = IF @ = "input_data" THEN None ELSE @]

\* mutant: apms of streams that are not attached any more stay
cras_apm_list_remove_apm_attached(d) ==
  [s \in Streams |-> [on |-> stream[s].on \ {d},
                      apms |-> {a \in stream[s].apms : a.dev # d \/ d \notin stream[s].on}]]

\* remove_all_streams_from_dev takes the processing object of every stream for this device away
cras_apm_list_remove_apm(d) ==
  [s \in Streams |-> [on |-> stream[s].on \ {d}, apms |-> {a \in stream[s].apms : a.dev # d}]]

\* The audio thread detaches the streams, which stops their processing, before the device closes
close_dev(d) ==
  /\ dev[d].open
  /\ dev' = [dev EXCEPT ![d] = closed(d)]
  /\ stream' = cras_apm_list_remove_apm(d)
  /\ active' = {a \in active : a[2].dev # d}
  /\ rmodule' = [rmodule EXCEPT !.process = active' # {}]
  /\ UNCHANGED <<enabled, ini, changes>>

\* cras_iodev_update_dsp: the plugin variables changed on an open device
cras_iodev_update_dsp(d) ==
  /\ changes < MaxChanges
  /\ dev[d].ctx
  /\ \E r \in prepare_pipeline(ini, ini.global) :
       /\ dev' = [dev EXCEPT ![d] = cmd_load_pipeline(@, r)]
       /\ ini' = destroy_pipeline(r[2], dev[d].pipe)
  /\ changes' = changes + 1
  /\ UNCHANGED <<enabled, stream, active, rmodule>>

-----------------------------------------------------------------------------
(* cras_apm_list.c *)

\* The main thread makes the processing object; it may fail, or be there already
cras_apm_list_add_apm(s, d) ==
  {stream[s].apms} \cup
    (IF \E a \in stream[s].apms : a.dev = d THEN {}
     ELSE {stream[s].apms \cup {[dev |-> d, fmt |-> dev[d].fmt]}})

\* dev_stream_create starts the processing object on the audio thread
cras_apm_list_start_apm(s, d, apms) ==
  IF \E a \in active : a[1] = s /\ a[2].dev = d THEN active
  ELSE active \cup {<<s, a>> : a \in {b \in apms : b.dev = d}}

add_stream_to_open_devs(s, d) ==
  /\ d \in Inputs /\ dev[d].open /\ d \notin stream[s].on
  /\ \E apms \in cras_apm_list_add_apm(s, d) :
       /\ stream' = [stream EXCEPT ![s] = [on |-> @.on \cup {d}, apms |-> apms]]
       /\ active' = cras_apm_list_start_apm(s, d, apms)
  /\ rmodule' = [rmodule EXCEPT !.process = active' # {}]
  /\ UNCHANGED <<dev, enabled, ini, changes>>

cras_apm_list_stop_apm(s, d) == {a \in active : ~(a[1] = s /\ a[2].dev = d)}

update_process_reverse_flag == [rmodule EXCEPT !.process = active' # {}]

\* dev_stream_destroy stops it; the object stays in the stream's list
dev_stream_destroy(s, d) ==
  /\ d \in stream[s].on
  /\ stream' = [stream EXCEPT ![s].on = @ \ {d}]
  /\ active' = cras_apm_list_stop_apm(s, d)
  /\ rmodule' = update_process_reverse_flag
  /\ UNCHANGED <<dev, enabled, ini, changes>>

cras_apm_list_destroy(s) ==
  /\ stream[s].on = {}
  /\ stream' = [stream EXCEPT ![s].apms = {}]
  /\ UNCHANGED <<dev, enabled, active, rmodule, ini, changes>>

\* The module moves to the echo reference of the first enabled output; m is <<devices, ini files, odev>>
update_first_output_dev_to_process(on, m) ==
  IF on = <<>> \/ m[3] = EchoRef[on[1]] THEN m
  ELSE LET a == IF m[3] = None THEN <<m[1], m[2]>> ELSE cras_iodev_set_ext_dsp_module(<<m[1], m[2]>>, m[3], None)
           b == cras_iodev_set_ext_dsp_module(a, EchoRef[on[1]], "reverse")
       IN <<b[1], b[2], EchoRef[on[1]]>>

handle_device_enabled(d) ==
  /\ d \notin Range(enabled)
  /\ enabled' = Append(enabled, d)
  /\ \E r \in {update_first_output_dev_to_process(enabled', <<dev, ini, rmodule.odev>>)} :
       dev' = r[1] /\ ini' = r[2] /\ rmodule' = [rmodule EXCEPT !.odev = r[3]]
  /\ UNCHANGED <<stream, active, changes>>

\* mutant: the device is compared, not its echo reference
handle_device_disabled_self(d) ==
  /\ d \in Range(enabled)
  /\ enabled' = RemoveAt(enabled, Place(d))
  /\ \E a \in {IF rmodule.odev = d
               THEN LET off == cras_iodev_set_ext_dsp_module(<<dev, ini>>, EchoRef[d], None)
                    IN <<off[1], off[2], None>>
               ELSE <<dev, ini, rmodule.odev>>} :
     \E r \in {update_first_output_dev_to_process(enabled', a)} :
       dev' = r[1] /\ ini' = r[2] /\ rmodule' = [rmodule EXCEPT !.odev = r[3]]
  /\ UNCHANGED <<stream, active, changes>>

handle_device_disabled(d) ==
  /\ d \in Range(enabled)
  /\ enabled' = RemoveAt(enabled, Place(d))
  /\ \E a \in {IF rmodule.odev = EchoRef[d]
               THEN LET off == cras_iodev_set_ext_dsp_module(<<dev, ini>>, EchoRef[d], None)
                    IN <<off[1], off[2], None>>
               ELSE <<dev, ini, rmodule.odev>>} :
     \E r \in {update_first_output_dev_to_process(enabled', a)} :
       dev' = r[1] /\ ini' = r[2] /\ rmodule' = [rmodule EXCEPT !.odev = r[3]]
  /\ UNCHANGED <<stream, active, changes>>

Next ==
  \/ \E d \in AllDevs : cras_iodev_open(d) \/ close_dev(d) \/ cras_iodev_update_dsp(d)
  \/ \E o \in Outputs : handle_device_enabled(o) \/ handle_device_disabled(o)
  \/ \E s \in Streams, d \in AllDevs : add_stream_to_open_devs(s, d) \/ dev_stream_destroy(s, d)
  \/ \E s \in Streams : cras_apm_list_destroy(s)
  \/ cmd_reload_ini

Spec == Init /\ [][Next]_vars

-----------------------------------------------------------------------------
(* Properties *)

\* Every processing object on the audio thread's list exists in its stream's list, for a device the
\* stream is attached to, and was made for the format that device has now: process_reverse and the
\* capture path use it without another look.
ActiveIsCurrent ==
  \A a \in active :
    /\ a[2] \in stream[a[1]].apms
    /\ a[2].dev \in stream[a[1]].on
    /\ a[2].fmt = dev[a[2].dev].fmt

\* The reverse module is on the echo reference of the first enabled output and on no other device.
ReverseFollowsOutput ==
  /\ rmodule.odev = IF enabled = <<>> THEN None ELSE EchoRef[enabled[1]]
  /\ \A d \in AllDevs : dev[d].ext = "reverse" <=> d = rmodule.odev

\* The module of an open device runs in its pipeline, unless the pipeline was loaded again since: the
\* new one has no external module.
ModuleInPipeline ==
  \A d \in AllDevs : dev[d].open /\ ~dev[d].lost => dev[d].pipe.ext = dev[d].ext

\* The global ini, and the one of every pipeline, are in memory.
IniLive ==
  /\ ini.global \in ini.live
  /\ \A d \in AllDevs : dev[d].pipe.ini \in ini.live \cup {0}

\* "Loads the pipeline to the context.  This should be called again when new values of configuration
\* variables may change the plugin graph" (cras_dsp.h): the external module stays in the pipeline.
ModuleKept == \A d \in AllDevs : dev[d].open => dev[d].pipe.ext = dev[d].ext
=============================================================================
