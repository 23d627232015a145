# A TLA+ model of CRAS

CRAS, the ChromeOS audio server, is a C program of two threads. The main thread
owns devices, streams and clients and reacts to sockets, timers, udev, D-Bus and
messages; the audio thread moves samples between open devices and the shared
memory of streams. Clients link `libcras`, whose threads share memory with the
server. This directory models the parts of that system in which the order of events,
or the exact arithmetic, decides whether it is right, checks them with TLC and proves
the central facts with TLAPS. Paths below are relative to `src/cras/src/`.

## Inventory

| part | state it keeps | operations | interacts with |
|---|---|---|---|
| `server/buffer_share.c` | slots {used, id, offset} | add, remove, advance a user; commit the minimum | every stream on several devices, every input with several streams |
| `server/cras_iodev_list.c`, `stream_list.c` | devices, enabled devices, retries, idle deadlines, suspend flags; streams, draining streams | add, remove, select, suspend, resume, reset; stream callbacks | audio thread (synchronous messages), timers |
| `server/audio_thread.c`, `dev_io.c`, `dev_stream.c` | open devices, attached streams, callbacks, poll array, wake times | commands and answers; fetch, mix, capture, sleep | shared memory, devices, main thread |
| `server/cras_iodev.c`, `cras_ramp.c`, `input_data.c` | run state, ramp, input and DSP offsets | start, drain, mute, no-stream playback, read and release input | audio thread, processing |
| `common/cras_shm.*`, `server/cras_rstream.c` | two sample buffers with offsets and indexes, descriptors, files, mappings | create, destroy; request, reply, read, write | server audio thread and client thread, with no lock |
| `libcras/cras_client.c`, `common/cras_file_wait.c` | connection state, streams, their threads, the mapped server state | connect, retry, add and remove streams, callbacks, getters | server sockets, shared memory, the file system |
| `server/cras_server.c`, `cras_tm.c`, `cras_main_message.c` | clients, descriptor callbacks, timers, tasks, the message pipe | poll, dispatch, add and remove from callbacks | everything on the main thread |
| `server/cras_alert.c`, `cras_observer.c`, `cras_system_state.c`, `cras_control_rclient.c` | pending alerts and data, registrations, exported state | set, notify, register | clients, D-Bus |
| `server/server_stream.c` | the echo reference stream | deferred create and destroy | iodev list, main loop |
| Bluetooth (`cras_bt_*`, `cras_hfp_*`, `cras_a2dp_*`, `cras_telephony.c`) | devices, profiles, transports, watches, AT buffer, indicators, packets | connect, switch profile, suspend, negotiate, send and receive | BlueZ, timers, sockets, audio thread |
| ALSA (`cras_alsa_*`, `cras_udev.c`) | cards, devices, nodes, jacks, UCM devices, mixer settings, the hardware ring | plug, select, open, drain, free run, set volume and mute | ALSA, udev, iodev list |
| `cras_apm_list.c`, `cras_dsp*.c`, `cras_expr.c`, `dsp/drc*.c` | processing objects, graphs, buffers, delay rings | load, reload, sort, run | audio thread, devices |
| `cras_fmt_conv*.c`, `cras_mix*.c`, `linear_resampler.c`, `cras_audio_format.c` | converter chains, ratios | convert, mix, scale, remix | dev_stream |
| `cras_loopback_iodev.c` | hooks, a sample ring | hook, record, pad with zeros | iodev list, outputs |

What is hard here: handlers that compose a dozen list operations, any of whose opens
may fail; timers that fire between any two of them; the audio thread, which drops a
device on its own and tells the main thread later, by a message that may be stale when
it is read; loops over lists that their callbacks change; a client and a server that
write the same words without a lock, and a server that dies and comes back under its
clients; BlueZ, headsets, jacks and displays that report in an order of their own; a
ring that the hardware plays whether or not it is filled; and sample loops written once
per format. `PROJECT.json` lists these as hazards, each at its line, and every
component, modelled or not.

## Modules

| module | models |
|---|---|
| `SharedPosition` | abstract specification of buffer_share: a commit point and one position per user |
| `BufferShare` | `buffer_share.c`, with its proofs |
| `IodevList`, `IodevListProofs` | `cras_iodev_list.c`, `stream_list.c` and the audio thread's open devices, for one direction |
| `HotwordStreams` | hotword streams with the open and close hooks of the preempting input device |
| `PlaybackShm` | `cras_shm.h` for output streams, the client's request handler, `fetch_streams`, `dev_stream_mix` |
| `CaptureShm` | `cras_shm.h` for input streams, the capture cycle and the client's handler |
| `StreamResources` | descriptors, shared memory files and mappings of streams, through every failure of their creation |
| `ClientConnection` | the client's connection states and streams against a server that dies and restarts |
| `StreamThread` | the audio thread of a client stream and the client thread that starts and stops it |
| `FileWait` | `cras_file_wait.c`, with the file system changing between its system calls |
| `ServerStateShm` | the exported server state: writers, lock-free readers, and the unmapping client thread |
| `MainLoop` | `cras_server_run`: clients, descriptor callbacks, timers, tasks, the message pipe |
| `ServerStream` | the deferred tasks of `server_stream.c` |
| `Notifications` | control messages, system state, alerts and observers |
| `BtDevices` | devices, endpoints, transports, gateways, connection watch and delayed suspend |
| `BtProfileSwitch` | `cras_bt_io.c` and the switch between A2DP and HFP |
| `HfpSlc` | the AT command protocol, indicators, call events and codec negotiation |
| `HfpInfo` | mSBC packets over SCO with loss and concealment, and the HFP devices |
| `A2dpFlush` | the A2DP device: packets, pacing, stalls |
| `A2dpTransport` | the transport under the A2DP device: its descriptor, its volume, BlueZ on the other side of the bus |
| `BtManager` | the adapters of a daemon that exits and starts again, and what CRAS registers there: endpoint, player, profiles |
| `AudioThread` | commands, answers, callbacks and the poll array |
| `OutputDev` | an output device in time: run states, wake and fetch schedule, drain, mute ramps |
| `InputDev` | the capture path: `capture_to_streams`, input buffers, float buffer |
| `ApmList` | processing objects, the reverse module, DSP contexts and their reload |
| `AlsaNodes` | a card with its device, nodes, jacks and UCM devices |
| `AlsaFreeRun` | the ring of a playback device in normal run, draining and free run |
| `AlsaMixer` | volume and mute through mixer controls; devices made from UCM sections; UCM modifiers |
| `Dsp` | graph, order, buffer allocation and run of a pipeline; the expressions of ini files; the compressor's delay rings and divisions |
| `FormatConv` | sample arithmetic in four formats; the chain of conversion stages, its buffers and frame counts; channel layouts, matrices and converters |
| `Loopback` | the loopback device |
| `MemoryProofs`, `ClientProofs`, `ServerProofs`, `BluetoothProofs`, `AudioProofs`, `AlsaProofs` | the proofs about a group of components, as the `MC*` module of the group composes them |

`MC*` modules compose a group of components for TLC. The components of a group either
share no state in the code or their shared state is in one of the modules, so a
behaviour exercises the one that the variable `part` names while the others rest; the
reachable states are the sum of the parts and not their product. Operators named
`..._something` under a comment that begins with "Mutant" are deliberately wrong
versions of the definition below them. `PROJECT.json` pairs one with each property of a
passing run: replacing the definition with it must make TLC report the property. The
remaining ones break the other conjuncts of the same property.

How state and actions correspond to the code:

* **Handlers.** One handler of the main thread, or one cycle step of the audio thread,
  is one action; a thread that shares memory with another one takes a step per access.
  Where functions call each other on shared lists, each is an operator from a state
  record to a state record under its own name, and an action installs the composition
  (`IodevList`, `BtDevices`, `AlsaNodes`, `AlsaMixer`). An operation that may fail takes
  its outcome as a parameter bound by `\E`.
* **BufferShare.** `wr_idx` is one function per field over `0 .. id_sz - 1`; slot reuse,
  growth with arbitrary contents, and unsigned wrap-around at `Word` are as in the code.
  `written` is a history variable. The refinement mapping takes `point` to `written` and
  the position of a live id to `written` plus its offset.
* **IodevList.** Timers that lose their handle (`stray`) remain able to fire. Echo
  reference streams are in `ServerStream`, mute and ramps in `OutputDev`.
* **PlaybackShm, CaptureShm.** Frames are numbered and a buffer is the number of its
  first frame. The client's two offset stores are separate steps that the compiler may
  swap; the model takes stores of samples to be visible before stores of offsets (x86).
* **ClientConnection.** The server's start is unlink, bind and listen as separate steps;
  messages of a connection are queues in both directions; a dead server leaves a hang-up.
* **MainLoop.** List elements are heap blocks named by their address, and an address is
  free again once freed, so that a saved pointer to a freed or reused block shows.
* **OutputDev, A2dpFlush, AlsaFreeRun.** Time is counted in frames; a tick plays one.
  Time stamps are kept relative to now, so that there is no clock to bound.
* **AlsaFreeRun.** The ring holds which cells are fresh, stale or zero; the hardware
  pointer moves whether or not anything was written.
* **HfpSlc.** Commands are abstract; their bytes arrive in pieces and the buffer has room
  for a few, so that compaction and overflow happen. A malformed `AT+CMER` ends
  `process_at_commands` with an error, as in the code. A write to the headset does not fail.
* **BtDevices.** Where the code follows a pointer to a device or gateway it has freed,
  `stray` is set and the behaviour ends, since what the program does then is undefined;
  `dangling` has the pointers that are left behind. Of BlueZ nothing is assumed about the
  order in which devices, transports and connections go.
* **AudioThread.** The main thread appends to the list of callbacks in two steps, reading
  its tail and linking the new entry, with the steps of the audio thread in between. The
  descriptors of streams come behind those of the callbacks in the poll array.
* **AlsaNodes.** One pinned stream stands for all; `pinned` says whether it is attached, waits
  for an open that failed, was taken off by a forced close or left the device open when its
  creation failed. Resets are messages of the audio thread that may be handled late.
  `astray` and `by_client` are history: the last change left the UCM device as it was; a client
  set the node. A suspend of the whole system is left out (`IodevList` has it).
* **FormatConv.** A byte has `B` bits so that widths keep their ratios; every
  loop is an operator with the code's clipping, shifts and truncation, next to the signal
  computed exactly.
* **Dsp.** Gains of the compressor are abstracted to how much input the detector had seen.

## Runs

| run | parts | shows |
|---|---|---|
| `signal` | `BufferShare`, `Dsp`, `FormatConv`, `Loopback` | `NoShadowedUser`, `ImplementsSharedPosition`, `BuffersKept`, `ExpressionsAsWritten`, `CompressedInPlace`, `SamplesExact`, `ConversionSound`, `RecordedAsPlayed` |
| `devices_output` | `IodevList`: one output and the fallback, two default streams, one pinned | `ThreadHoldsLive`, `DevicesSettled` |
| `devices_two` | `IodevList` with two inputs and three streams, and with two outputs and one stream; `HotwordStreams` with a device that may fail and one that does not | `DevicesSettled`, `PinnedUndisturbed`, `HotwordHandover` |
| `memory` | `PlaybackShm`, `CaptureShm`, `StreamResources` | `FramesAccounted`, `NotReadWhileFilled`, `ResourcesOwned` |
| `client` | `ClientConnection`, `StreamThread`, `FileWait`, `ServerStateShm` | `ConnectionAgrees`, `CreationTold`, `MemorySafe`, `Progress` |
| `server` | `MainLoop`, `ServerStream`, `Notifications` | `ListsSound`, `NoCallAfterRemoval`, `NoOrphanServerStream`, `ObserversUpToDate`, `Progress` |
| `bluetooth` | `BtDevices`, `BtProfileSwitch`, `HfpSlc`, `HfpInfo`, `A2dpFlush`, `A2dpTransport`, `BtManager` | `HeadsetsSound`, `StreamsServed`, `HeadsetAgrees`, `FramesInPlace`, `FlushPaced`, `Progress` |
| `audio` | `AudioThread`, `OutputDev`, `InputDev`, `ApmList` | `ThreadsInStep`, `OutputFed`, `CapturedOnce`, `ProcessingCurrent`, `Progress` |
| `alsa` | `AlsaNodes`, `AlsaFreeRun`, `AlsaMixer` | `NodesAgree`, `PlayedOnce`, `MixerFollows`, `Progress` |
| `devices_fallback`, `conversion_frames`, `shm_errno` | small | the findings below |

A property of a run is a conjunction of the properties of its components, which are
stated and explained in their modules; `Progress` collects what a run's components must
eventually do.

### Bounds

* Devices and streams: two devices besides the fallback are enough for every interaction
  of selection, second active devices and pinned streams, since handlers treat all other
  devices alike; two hotword streams are the fewest of which one can be removed under
  the other. Pinned and default streams on two outputs are left to the theorems.
* Shared memory: a threshold of two frames allows partial reads; `BufferFrames = 3` is
  less than two full buffers, so the limit on the level applies; six to eight frames fill
  both buffers twice. `MaxFd` leaves room for two streams, for what two failures lose
  and for a third stream being made; `ResourcesAssumption` says how much that is.
* Client: two connection slots (the server may still hold the old one), one crash, one
  stream, a path of three components with five changes, two writers and two readers.
* Main loop: two heap blocks, so that a freed address is reused at once; a pipe of one
  message, so that it fills. `MaxRequests`, `MaxQueue` and `SocketSize` allow several
  changes between two alerts and a socket that overflows. Five requests are the fewest
  with which a client registers, has a message under way, unregisters, registers again
  and takes the old message for news: messages carry no registration, and `missed`
  records the client. The proof of `ObserversKeepUp` showed that case; with two clients the
  run allows four requests and leaves it to the proof. `CRAS_MAX_ATTACHED_CLIENTS` is one,
  so that the second client does not fit in the exported list.
* Bluetooth: two headsets with four reports of BlueZ; a connection watch of two retries; an AT buffer of three
  pieces for two commands; five mSBC frames, more than the two-bit sequence number
  counts; a socket of depth two and a lag of five frames; three messages of BlueZ about a
  transport and two changes of its volume, so that a transport is withdrawn and made
  again, and the changes of both sides cross; one adapter and three events of the daemon, so
  that it exits, starts and exports an adapter again while a call of the user is under way
  (two adapters and four events, 13 million states, take too long beside the liveness
  properties; they were run apart).
* Audio: a poll array of three entries that has to grow for two devices; an output
  buffer of eight frames with thresholds two and three, and four changes of an output, the
  fewest for a ramp that replaces another and for two streams of which one drains (five,
  with two streams that drain, were run apart and pass); an input buffer of six frames
  with a drop level of five; outputs of which one is its own echo reference.
* ALSA: two retries for a display, four changes; a ring of six frames; controls of
  different range and step; two sections of every kind.
* Signal: three ids with a word of five; all graphs over two middle plugins with two
  channels; expressions of up to five tokens; calls of one to five frames over a ring of
  eight; bytes of three bits with the largest, a middle and zero magnitudes; rate pairs
  up and down, with and without a linear resampler; all layouts the counts allow.

`Max...` constants stop counters that would grow for ever. Where deadlock is not checked,
these bounds let the system stop; `devices_*` and `memory` check it.

### Fairness

Weak fairness of a thread's next step, because the operating system schedules threads;
of the main loop's timers and of descriptors that stay ready, because the loop fires
every expired timer and visits every ready descriptor in each pass. Strong fairness where
a step is enabled again and again but not continuously and the code still gets to it: a
`ppoll` that signals may interrupt (`MainLoop`), a timer or a socket callback competing
with a nested poll (`HfpSlc`), the suspend timer that recoveries cancel (`A2dpFlush`), the
mute callback between ramps (`OutputDev`). Nothing is assumed of headsets, BlueZ, clients,
users, the file system or the radio.

## Findings

Three runs are expected to fail. Each states what a comment in the repository says and
shows a behaviour of the code that contradicts it.

1. `devices_fallback`: a retry, a resume or a reset of a device that is not enabled ends
   in `possibly_disable_fallback`, and no device is enabled although default streams exist
   ("always something to play to or capture from").
2. `conversion_frames`: with the linear resampler in front and no other rate conversion,
   `cras_fmt_conv_convert_frames` returns the number of frames from before the resampler
   ("Return number of frames put in out_buf").
3. `shm_errno`: `posix_fallocate` does not set `errno`, so `cras_shm_open_rw` may return 0
   for an error, which the caller takes for descriptor 0 ("or negative errno value on
   error"). The `mmap` of descriptor 0 fails and the failed creation closes it; the next
   stream is given number 0 for its audio socket, and loses it to the next such failure.

Further properties are stated in the modules that the code does not satisfy. They are not
checked by a run, and the checked properties leave the case out where it matters:

* `IodevList!NoLeakedOpen` for a pinned stream that the audio thread refuses (a `Fragile`
  pinned stream): `pinned_stream_added` opens the device, the append fails,
  `stream_list_add` destroys the stream (`stream_list.c:90`), and the device stays open for
  nobody (`cras_iodev_list.c:799`). The proof of `DevicesSettle` showed it and TLC confirms
  it; the runs have no such stream, and the theorem assumes there is none (`Sturdy`).
* `HotwordStreams!HeldDuringSuspend`: removing one of two suspended hotword streams closes
  the empty device under the other.
* `PlaybackShm!NoFrameReplayed`: the server reads between the client's stores of
  `write_offset` and `read_offset`, and frames are played again; `NoFrameSkipped` fails for
  callbacks that return zero frames (`MinReply = 0`).
* An open output device may be without its echo reference stream: a create before a pending
  removal ran is refused, and `server_stream_add_cb` ignores a failed `stream_list_add`
  (`server_stream.c:45`). `NoOrphanServerStream` is about streams that are there.
* `StreamThread!MessageNeedsShm`: the audio thread of a client stream may handle a message
  before the shared memory is mapped. `ClientConnection!AsyncAnswered`: a connection asked
  for with `cras_client_connect_async` may neither be made nor reported as failed.
* `BtDevices!DroppedIsDisconnected`, `TransportsReleased`; `BtProfileSwitch!SwitchingEnds`,
  `OpenOnActiveNode`, `NothingLeftOpen`: a device that stays connected without profiles, a
  transport that is kept, switch requests that cause each other.
* `A2dpTransport!OpenKeepsVolume`: a volume set on the headset is overwritten by an older
  one when the device is opened again. The two conversions of the volume both round
  down, so each return from HFP to A2DP may lower it by one step; `VolumesAgree` only
  says that the two sides agree.
* `RegisterPlayer` carries no metadata (`cras_bt_player.c:66`): an adapter that comes after the
  metadata was set shows none until it changes. `BtManager!MediaRegistered` allows for it.
* `HfpSlc!CodecAgrees`: another command during the negotiation leaves a codec the headset
  did not confirm.
* `InputDev!AllProcessed` (frames that bypass the DSP), `ApmList!ModuleKept` (a pipeline that
  is loaded again loses its external module), and `IniLive` when a pipeline does not load.
* `AlsaMixer!DependentOnOther`: a dependent section is not always a node of the device it
  depends on.
* `FormatConv!AskedFits`, `FormatConv!CaptureExactAll` (s24 with a gain, s32 without),
  `FormatConv!SignAlwaysKept` (division of a signed sample by a `size_t`).
* `Loopback!StartedWhileRunning`, `WholeCopy`, `HookedOnce`.

The models also have the following failures and races. Nothing is claimed of the code in
these states: the checked property names the exception, and the theorem of the same name
proves the property with it.

* A microphone open that fails after `pre_open_iodev_hook` (`cras_iodev.c:906-917`) leaves hotword
  streams suspended although the microphone is closed; `HotwordStreams!ArmedUnlessPreempted`
  holds while `mic_failed` is false.
* `stream_connected` fails in the client (`cras_client.c:1394-1427`) when the server already has
  the stream: its audio thread is stopped and the server keeps it until it is removed
  (`cl.failed`). `reregister_notifications` (`:3561-3629`) takes no lock against
  the functions that set a callback: the server may then have another registration than the
  client believes, until the next reconnect (`cl.crossed`).
* `inotify_rm_watch` fails with `EINVAL` when the directory is gone and its watch with it
  (`cras_file_wait.c:73-77`); the wait is left without a watch and `cras_client.c:817-822` only
  logs it (`status = "failed"`).
* `cras_server.c:199-212` exports at most `CRAS_MAX_ATTACHED_CLIENTS` clients, and does not
  write the list again when a client leaves.
* `cras_system_state.c:207, 225, 231-237` change `mute`, `user_mute` and `mute_locked` without an
  alert when the output stays muted or not muted, although the message carries the three
  (`cras_observer.c:461-471`); the repository's tests expect that. `ObserversUpToDate` compares
  whether the output is muted.
* A Bluetooth device removed before its transport leaves `transport->device`;
  `cras_bt_reset` leaves `connected_a2dp.device`; gateways are freed and their device
  read afterwards (`cras_hfp_ag_profile.c:198-200, 292-295, 388-390`); a second watch timer
  is started over a first one that is then never cancelled (`cras_bt_device.c:503-507`).
* A command that returns an error (`cras_hfp_slc.c:997-998`) leaves `buf_read_idx` on it with the
  carriage return overwritten, and later commands are never found.
* Callbacks are added by the main thread (`audio_thread_add_events_callback`, called from
  `configure_dev` of a device) while the audio thread walks and deletes in the same list.
* Audio processing that fails (`cras_apm_list.c:657-660`) makes `input_data_get_for_stream`
  return before it moves the stream's offset, and the same frames are given again.
* A draining stream that ends in a pass leaves the limit of that pass at zero
  (`dev_io.c:598-609`); the frames of the others wait for the next pass.
* The UCM device of a node stays enabled when the pinned open fails
  (`cras_iodev_list.c:746-751`), and is enabled on a closed device by a reset that was asked for
  before the device was disabled (`:1203`); a pending retry opens a device of which a forced
  close has disabled the UCM device (`:695-716`). A client may plug and unplug nodes
  against their jack (`:1591-1600`). `AlsaNodes!UcmFollowsActiveNode`, `PluggedAgrees` and
  `SpeakerUnlessOther` name these cases.
* UCM's answer to disabling a hotword model is ignored (`cras_alsa_ucm.c:983`), so that two may
  be enabled.

## Proofs

TLAPS proves the following for every value of the constants, from the named assumptions
of the modules. Each theorem is `Spec => []P` (or an action property) with the same `P` the
run checks on its instance, unless the table says otherwise.

| theorem | states | assumes besides |
|---|---|---|
| `BufferShare!SlotsSafe` | `NoShadowedUser`, type, offsets in the buffer | |
| `BufferShare!Refinement` | `ImplementsSharedPosition` | |
| `IodevListProofs!ThreadSafe` | `ThreadHoldsLive` and the type | |
| `IodevListProofs!StreamsPlaced` | `DevicesSettled` without `NoLeakedOpen`: where streams may be, not that they are there | |
| `IodevListProofs!DevicesSettle` | `DevicesSettled` | `Sturdy` |
| `IodevListProofs!PinnedKept` | `PinnedUndisturbed` | `Sturdy` |
| `IodevListProofs!HotwordHandedOver` | `HotwordHandover` | |
| `MemoryProofs!HandoverSafe` | `NotReadWhileFilled`, one callback at a time | |
| `MemoryProofs!NoFrameLost` | `FramesAccounted` | `MinReply = 1` |
| `MemoryProofs!ResourcesKept` | `ResourcesOwned` | `Errnos \subseteq Nat \ {0}` |
| `ClientProofs!GettersSafe` | what each kind of getter may rely on | |
| `ClientProofs!MemorySafety` | `MemorySafe` | `Getters \subseteq {"snapshot"}` |
| `ClientProofs!NoCreationMissed` | `CreationTold` | |
| `ServerProofs!NoStreamOrphaned` | `NoOrphanServerStream` | |
| `ServerProofs!LoopNeverDangles` | `ListsSound` | |
| `ServerProofs!RemovedNeverCalled` | `NoCallAfterRemoval` | |
| `ServerProofs!ObserversKeepUp` | `ObserversUpToDate` | |
| `BluetoothProofs!FlushKeepsPace` | `FlushPaced` | |
| `BluetoothProofs!HeadsetsStaySound` | `HeadsetsSound` | |
| `BluetoothProofs!StreamsStayServed` | `StreamsServed` | |
| `AudioProofs!ThreadsStayInStep` | `ThreadsInStep` | |
| `AudioProofs!CapturedInOrder` | `CapturedOnce` | |
| `AudioProofs!ProcessingStaysCurrent` | `ProcessingCurrent` | `LoadFails = FALSE` |
| `AudioProofs!ModulesFollowDevices` | `ProcessingCurrent` without `IniLive` | |
| `AlsaProofs!FramesPlayedOnce` | `PlayedOnce` | |

The hypotheses in the last column are not bounds; each one leaves out a case in which the
code does not have the property, described under Findings: a pinned stream that the
audio thread refuses (`Sturdy == \A s \in Fragile : ~ is_pinned(s)`), an output callback that
returns no frame, an `errno` of 0 after `posix_fallocate`, a pipeline that
does not load (it loses its ini file), and the getters that return pointers or fields
without the lock or the counter. `ModulesFollowDevices` and `GettersSafe` say what
remains true.

The named assumptions are about constants only. `BufferShareAssumption`,
`PlaybackShmAssumption`, `CaptureAssumption`, `ClientAssumption`, `BluetoothAssumption`
and `ServerAssumption` say that sizes are natural numbers, that thresholds are not zero (`cras_rstream_create`
refuses them) and that "nobody" is not a device; `AudioThreadAssumption`, `AecAssumption`
and `InAssumption` the same of the audio run, and that devices and streams are finitely
many; `IodevListAssumption` that pins are devices. `BufferAssumption` says that the levels a
playback device keeps ahead of the hardware fit in its ring: `cras_iodev_open` limits
`min_cb_level` to half of it (`cras_iodev.c:940`), and `min_buffer_level` is a small number
from the card's configuration (`cras_alsa_io.c:1992`, `:2022`), taken to be at most a quarter. `ResourcesAssumption` gives the descriptor table room for the streams: the code's
failure for want of a descriptor is one of the failures of `shm_open` and `dup`, which the
model has anyway.

The arguments, by module:

* **BufferShare.** `NoShadowedUser` speaks of unused slots too: no slot before a live
  one has its id, which is what the update's search by id relies on, and it survives
  because a new user takes the *first* unused slot. `OffsetsInBuffer` makes the subtraction
  exact for live slots. In the refinement `LiveSlotUnique` gives the one slot of a live id;
  the commit case uses that the minimum is attained at a live slot or no slot is live.
* **IodevListProofs.** Invariants are stated of a state record. `Good` is enough for
  `ThreadSafe`. `TidyInv` adds `Tidy` (where streams are, which devices are known, one retry per device) and
  `Timed`: an open device that is idle is enabled with the timer set, or waits for a resume.
  The second part is needed because a suspend stops the timer while devices keep their
  idle mark. Each function of the code has a lemma that it keeps `Tidy` from the weaker
  state its callers call it in; the lemma of a handler composes them, and `NextTidy` has a
  case per action. For hotword streams `HandoverInv` has one part that holds whatever fails
  (`EmptyInv`) and one for a device that does not fail (`ArmedInv`); `ReliableStep` reuses
  the first for the second.
* **MemoryProofs.** `HandedOver`: from the request until the client stores the new offset,
  the write buffer's offset is zero. It covers callbacks of zero frames, which the
  `memory` run leaves out. `FrameInv` adds that the two buffers hold consecutive frames,
  oldest first, also between the client's two stores, and that no device is ahead of
  what was published. `CaptureInv` says which of the two capture buffers are held and what
  they hold, as long as no overrun was counted. `OwnedInv` (`Sound`): descriptors and files of
  live streams are disjoint, distinct from those that failures lost, and together they
  are all that is open; `RoomForStream` counts them against the table, and `SetupShm`
  and `Connected` reduce every failure path to one of three effects: nothing, a lost file, a
  new stream.
* **ClientProofs.** `ClientInv` is the conjunction of an invariant per component: a freed
  stream is not started again (`ThreadInv`); the parity of `update_count` tells a writer at
  work, and what a reader has copied is current if the count is what it read (`ShmInv`);
  every change after the watch was set is in the queue of events, or the watch is on
  the deepest directory that exists (`WaitInv`).
* **ServerProofs.** `EchoInv` orders the deferred tasks: at most one creation or removal is
  pending and the last one agrees with the device. `LoopInv` ties the saved `next` pointers to the
  lists; it needs that a list never has a block twice, and `IsList` says so. `NotesInv`: the last
  message under way about an item, or the alert still pending, tells a client the
  server's state (`WillKnow`).
* **BluetoothProofs.** `FlushInv`; `DevicesInv`, whose `Live` says who may point to whom;
  `TransportInv`, whose `Sound` gives every descriptor one owner (a message, the
  transport, or the device) and whose `Announced` relates what BlueZ said to what it holds;
  `SwitchInv`: a stream without an open device has a message, a timer or a retry.
* **AudioProofs.** Three invariants, one per component. `ThreadInv`: while the main thread
  waits, its command is in the pipe (`Pending`) or the answer is (`Replied`), never both, and
  the pipes are empty otherwise; with the answer the audio thread has let go of what the
  command names (`Released`), so that the main thread may free it; everything else the audio
  thread holds still exists (`HeldInv`). `AecInv`: a processing object is for an open device and in
  its format, also in streams that are detached; an open device's module runs in its
  pipeline until that is loaded again (`DevSound`); every ini in use is in memory, and two
  pipelines share at most the global one, since destroying a pipeline frees its ini
  (`InisSound`). `InInv`: queued frames are in order and those beyond `input_dsp_offset` are
  not processed, and the float buffer has one frame per place below it, older than the others
  (`QueueSound`); what a stream was given, and what its audio processing holds, is older than
  what it has not read (`StreamSound`).
* **AlsaProofs.** `RingSound` is about the cells in the order the hardware will play them.
  Frames that were written and not played are within the level, less the zeros that were
  filled in behind them; nothing within the level was played before; in free run the whole ring
  is zero. After a late wake the hardware may be past the last written frame, and what
  the ring holds is bounded by its size alone until the next cycle writes zeros; this second
  bound is what makes the invariant inductive. Proofs about cells reduce `%` to one
  wrap (`WrapsOnce`).

Only model-checked:

* liveness (`Progress` of every run), which with `ENABLED` is outside the prover;
* `BuffersKept`, `ExpressionsAsWritten`, `CompressedInPlace`, `SamplesExact`,
  `ConversionSound` and `RecordedAsPlayed` of the `signal` run: they compare what recursive
  definitions compute with a reference, by induction over data, and `Dsp` has RECURSIVE
  operators;
* `ConnectionAgrees`, `HeadsetAgrees` and `FramesInPlace`: queues in two directions filtered with
  `SelectSeq`, or sequences rewritten as a whole;
* `OutputFed`: the wake time is computed from the levels of all streams, so that whether the
  next wake is early enough depends on the sizes together and not on one step at a time;
* `NodesAgree` and `MixerFollows`: handlers that fold over lists of jacks, nodes and controls.

## Not modelled

Filters on samples (biquad, crossover, equalizer in `dsp/`), codecs and
packet loss concealment themselves (floating-point arithmetic); D-Bus marshalling and
property tables; metrics and logging; configuration files, volume curves and name
matching (tables and strings); EDID parsing; the empty and test devices; the ALSA plugins
and command line tools, which are users of the client library. `PROJECT.json` gives a
reason for each part.

## What is left

Of the invariants, `OutputFed`, `NodesAgree`, `MixerFollows` and the parts of
`ConnectionAgrees` that do not filter the queues are candidates for a proof; the first needs
an invariant that relates the deadlines of all streams to the level of the device. The models
leave out what the table of components calls `partly` for: node attributes and priorities,
format negotiation, and the capture side of ALSA devices.
