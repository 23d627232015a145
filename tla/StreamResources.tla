-------------------------- MODULE StreamResources --------------------------
(***************************************************************************)
(* What a stream of the server owns, from the message that asks for it to  *)
(* its destruction: the descriptors the client sent (cras_rclient_util.c,  *)
(* cras_rstream_config.c), the shared memory of its header and samples     *)
(* (setup_shm_area of cras_rstream.c, cras_shm.c) and their mappings.      *)
(*                                                                         *)
(* A handler runs to its end on the main thread, so it is one step; where  *)
(* it fails is its parameter.  Descriptors are numbers and the lowest free *)
(* one is used, as the kernel does.                                        *)
(***************************************************************************)
EXTENDS Integers, FiniteSets, FiniteSetsExt

CONSTANTS Ids,          \* the ids a client gives its streams
          MaxFd,        \* the largest descriptor
          Errnos,       \* what errno may hold after posix_fallocate failed
          MaxLeaks      \* bound on failures of posix_fallocate

VARIABLES r,            \* [open, files, lost]: descriptors, files, and what
                        \* failed posix_fallocate calls left behind
          streams,      \* stream_list.streams
          deleting      \* stream_list.streams_to_delete

vars == <<r, streams, deleting>>

Fds == 0 .. MaxFd

Closed == [k |-> "closed", id |-> "none"]

Nameless == [k |-> "nameless", id |-> "none"]

\* A file: the audio socket, the client's or the server's memory of a stream.
File(k, id) == [k |-> k, id |-> id]

Memory == {"client_shm", "header", "samples"}

Unmapped == File("unmapped", "none")

Lowest(s) == Min({fd \in Fds : s.open[fd] = Closed})

Opened(s, f) == [s EXCEPT !.open[Lowest(s)] = f]

Close(s, fd) == IF fd \in Fds THEN [s EXCEPT !.open[fd] = Closed] ELSE s

----------------------------------------------------------------------------
(* cras_shm.c.  `at` is the call that fails, if any; err is errno then.    *)

\* A new file that has its name and cannot have its size stays behind, and
\* the result is the negative errno, which posix_fallocate does not set.
cras_shm_open_rw(s, f, at, err) ==
  IF f \in s.files \/ at = <<"shm_open", f.k>> THEN [s |-> s, fd |-> -1]
  ELSE LET fd == Lowest(s)
           t  == [Opened(s, f) EXCEPT !.files = @ \union {f}]
       IN  IF at # <<"posix_fallocate", f.k>> THEN [s |-> t, fd |-> fd]
           ELSE [s |-> [t EXCEPT !.lost.fds = @ \union {fd},
                                 !.lost.files = @ \union {f}], fd |-> -err]

cras_shm_info_init(s, f, at, err) ==
  LET o == cras_shm_open_rw(s, f, at, err) IN [s |-> o.s, fd |-> o.fd, name |-> f]

cras_shm_info_init_with_fd(s, fd, at) ==
  IF at = <<"dup", "samples">> THEN [s |-> s, fd |-> -1, name |-> Nameless]
  ELSE [s |-> Opened(s, s.open[fd]), fd |-> Lowest(s), name |-> Nameless]

cras_shm_info_cleanup(s, info) ==
  [Close(s, info.fd) EXCEPT !.files = @ \ {info.name}]

cras_audio_shm_destroy(s, header, samples) ==
  cras_shm_info_cleanup(cras_shm_info_cleanup(s, samples), header)

\* Only memory can be mapped: stdin is /dev/null.
mmap(s, fd, k, at) ==
  IF at = <<"mmap", k>> \/ s.open[fd].k \notin Memory THEN Unmapped ELSE s.open[fd]

cras_audio_shm_create(s, header, samples, at) ==
  LET h == mmap(s, header.fd, "header", at)
      m == IF h = Unmapped THEN Unmapped ELSE mmap(s, samples.fd, "samples", at)
  IN  IF m = Unmapped
      THEN [s |-> cras_audio_shm_destroy(s, header, samples), rc |-> -1]
      ELSE [s |-> s, rc |-> 0, header |-> header, samples |-> samples, maps |-> <<h, m>>]

----------------------------------------------------------------------------
(* cras_rstream.c and cras_rstream_config.c.                               *)

setup_shm_area_uncleaned(s, config, at, err) ==
  LET header == cras_shm_info_init(s, File("header", config.id), at, err) IN
  IF header.fd < 0 THEN [s |-> header.s, rc |-> -1]
  ELSE LET samples ==
             IF config.client_shm_fd >= 0
             THEN cras_shm_info_init_with_fd(header.s, config.client_shm_fd, at)
             ELSE cras_shm_info_init(header.s, File("samples", config.id), at, err)
       IN  IF samples.fd < 0 THEN [s |-> samples.s, rc |-> -1]
           ELSE cras_audio_shm_create(samples.s, header, samples, at)

setup_shm_area(s, config, at, err) ==
  LET header == cras_shm_info_init(s, File("header", config.id), at, err) IN
  IF header.fd < 0 THEN [s |-> header.s, rc |-> -1]
  ELSE LET samples ==
             IF config.client_shm_fd >= 0
             THEN cras_shm_info_init_with_fd(header.s, config.client_shm_fd, at)
             ELSE cras_shm_info_init(header.s, File("samples", config.id), at, err)
       IN  IF samples.fd < 0
           THEN [s |-> cras_shm_info_cleanup(samples.s, header), rc |-> -1]
           ELSE cras_audio_shm_create(samples.s, header, samples, at)

\* The stream takes the audio socket over from the config.
cras_rstream_create_shared(s, config, at, err) ==
  LET shm == setup_shm_area(s, config, at, err) IN
  IF at = <<"verify", "config">> THEN [s |-> s, rc |-> -1, config |-> config]
  ELSE IF shm.rc < 0 THEN [s |-> shm.s, rc |-> -1, config |-> config]
  ELSE [s |-> shm.s, rc |-> 0, config |-> config,
        stream |-> [id |-> config.id, fd |-> config.audio_fd, header |-> shm.header,
                    samples |-> shm.samples, maps |-> shm.maps]]

cras_rstream_create(s, config, at, err) ==
  LET shm == setup_shm_area(s, config, at, err) IN
  IF at = <<"verify", "config">> THEN [s |-> s, rc |-> -1, config |-> config]
  ELSE IF shm.rc < 0 THEN [s |-> shm.s, rc |-> -1, config |-> config]
  ELSE [s |-> shm.s, rc |-> 0, config |-> [config EXCEPT !.audio_fd = -1],
        stream |-> [id |-> config.id, fd |-> config.audio_fd, header |-> shm.header,
                    samples |-> shm.samples, maps |-> shm.maps]]

cras_rstream_destroy(s, stream) ==
  cras_audio_shm_destroy(Close(s, stream.fd), stream.header, stream.samples)

cras_rstream_config_cleanup(s, config) ==
  Close(Close(s, config.audio_fd), config.client_shm_fd)

----------------------------------------------------------------------------
(* The messages of a client.                                               *)

Init ==
  /\ r = [open  |-> [fd \in Fds |-> IF fd = 0 THEN File("stdin", "none") ELSE Closed],
          files |-> {},
          lost  |-> [fds |-> {}, files |-> {}]]
  /\ streams = {}
  /\ deleting = {}

Failures ==
  {<<"none", "none">>, <<"validate", "params">>, <<"verify", "config">>,
   <<"dup", "samples">>, <<"added", "stream">>, <<"send", "reply">>}
  \union ({"shm_open", "posix_fallocate", "mmap"} \X {"header", "samples"})

\* The descriptors that came with the message, then the handler.
rclient_handle_client_stream_connect(id, shm, at, err) ==
  LET received == IF shm THEN Opened(Opened(r, File("audio", id)), File("client_shm", id))
                  ELSE Opened(r, File("audio", id))
      aud_fd   == Lowest(r)
      config   == [id |-> id, audio_fd |-> aud_fd,
                   client_shm_fd |-> IF shm THEN Lowest(Opened(r, Nameless)) ELSE -1]
      c        == cras_rstream_create(received, config, at, err)
  IN
  /\ at[1] = "posix_fallocate" => Cardinality(r.lost.fds) < MaxLeaks
  /\ IF at = <<"validate", "params">> \/ c.rc < 0
     THEN /\ r' = cras_rstream_config_cleanup(IF at[1] = "validate" THEN received ELSE c.s,
                                              config)
          /\ UNCHANGED streams
     ELSE \* stream_list_add undoes it when no device takes the stream, and
          \* the handler when the reply cannot be sent.
          IF at[1] \in {"added", "send"}
          THEN /\ r' = cras_rstream_config_cleanup(cras_rstream_destroy(c.s, c.stream), c.config)
               /\ UNCHANGED streams
          ELSE /\ r' = cras_rstream_config_cleanup(c.s, c.config)
               /\ streams' = streams \union {c.stream}
  /\ UNCHANGED deleting

\* stream_list_rm: the stream goes at once or drains first.
rclient_handle_client_stream_disconnect(stream, drains) ==
  /\ streams' = streams \ {stream}
  /\ IF drains THEN deleting' = deleting \union {stream} /\ UNCHANGED r
     ELSE r' = cras_rstream_destroy(r, stream) /\ UNCHANGED deleting

\* delete_streams, when the stream has drained.
delete_streams(stream) ==
  /\ deleting' = deleting \ {stream}
  /\ r' = cras_rstream_destroy(r, stream)
  /\ UNCHANGED streams

\* A message with descriptors it may not have: the handler closes them and so
\* does its caller, and the client is removed with all its streams.
handle_message_read_error ==
  /\ streams # {}
  /\ r' = Close(Close(Opened(r, File("audio", "none")), Lowest(r)), Lowest(r))
  /\ deleting' = deleting \union streams
  /\ streams' = {}

Next ==
  \/ \E id \in Ids, shm \in BOOLEAN, at \in Failures, err \in Errnos :
       rclient_handle_client_stream_connect(id, shm, at, err)
  \/ \E stream \in streams, drains \in BOOLEAN :
       rclient_handle_client_stream_disconnect(stream, drains)
  \/ \E stream \in deleting : delete_streams(stream)
  \/ handle_message_read_error

Spec == Init /\ [][Next]_vars

----------------------------------------------------------------------------
(* Properties.                                                             *)

Live == streams \union deleting

Owned(stream) == {stream.fd, stream.header.fd, stream.samples.fd}

Names(stream) == {stream.header.name, stream.samples.name}

\* Whatever call fails while a stream is made, and in whatever order streams
\* come and go, nothing is left behind: every open descriptor and every file
\* in /dev/shm is of a live stream, but for what a failed posix_fallocate
\* leaves in cras_shm_open_rw.
NothingLeftBehind ==
  /\ \A fd \in Fds \ {0} :
       r.open[fd] # Closed => fd \in r.lost.fds \/ \E s \in Live : fd \in Owned(s)
  /\ \A f \in r.files : f \in r.lost.files \/ \E s \in Live : f \in Names(s)

\* A live stream has its own socket and its own memory: no close of another
\* stream, of a message or of a failed creation took them away, and no stream
\* was mapped to the memory of another (cras_rstream_create, config_cleanup).
StreamsIntact ==
  /\ \A s \in Live :
       /\ r.open[s.fd] = File("audio", s.id)
       /\ s.maps[1] = File("header", s.id) /\ r.open[s.header.fd] = s.maps[1]
       /\ s.maps[2] \in {File("samples", s.id), File("client_shm", s.id)}
       /\ r.open[s.samples.fd] = s.maps[2]
       /\ Names(s) \ {Nameless} \subseteq r.files
  /\ \A s, t \in Live : s # t => Owned(s) \intersect Owned(t) = {} /\ s.id # t.id

=============================================================================
