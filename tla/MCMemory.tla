------------------------------ MODULE MCMemory ------------------------------
(***************************************************************************)
(* The memory a stream shares with its client: the samples of an output    *)
(* stream, those of an input stream, and the descriptors, files and        *)
(* mappings the server makes and gives up for its streams.  A behaviour    *)
(* exercises the one that `part` names; the others rest.                   *)
(***************************************************************************)
EXTENDS PlaybackShm

CONSTANTS CaptureThreshold, MaxCaptured, Ids, MaxFd, Errnos, MaxLeaks

\* cb_threshold of the input stream; cras_rstream_create refuses less than a millisecond.
ASSUME CaptureAssumption == CaptureThreshold \in Nat \ {0}

\* The table of descriptors has room for stdin, for the three of every stream, for those a
\* failed posix_fallocate loses and for the four a new stream is made with: running out of
\* descriptors is one of the failures of shm_open and dup.
ASSUME ResourcesAssumption ==
    /\ IsFiniteSet(Ids) /\ MaxLeaks \in Nat /\ MaxFd \in Nat
    /\ MaxFd >= 3 * Cardinality(Ids) + MaxLeaks + 4

VARIABLES
    part,
    cap_read_offset, cap_write_offset, cap_read_buf_idx, cap_write_buf_idx, write_in_progress,
    num_overruns, cap_callback_pending, samples, captured, copied, server, ready, cap_replies,
    cap_client, delivered,
    r, streams, deleting

Capture == INSTANCE CaptureShm WITH
    CbThreshold <- CaptureThreshold, MaxFrames <- MaxCaptured,
    read_offset <- cap_read_offset, write_offset <- cap_write_offset,
    read_buf_idx <- cap_read_buf_idx, write_buf_idx <- cap_write_buf_idx,
    callback_pending <- cap_callback_pending, replies <- cap_replies, client <- cap_client

Resources == INSTANCE StreamResources

captureVars == <<cap_read_offset, cap_write_offset, cap_read_buf_idx, cap_write_buf_idx,
                 write_in_progress, num_overruns, cap_callback_pending, samples, captured,
                 copied, server, ready, cap_replies, cap_client, delivered>>

resourceVars == <<r, streams, deleting>>

mcVars == <<part, vars, captureVars, resourceVars>>

MCInit ==
    /\ part \in {"playback", "capture", "resources"}
    /\ Init
    /\ Capture!Init
    /\ Resources!Init

MCNext ==
    \/ part = "playback" /\ Next /\ UNCHANGED <<part, captureVars, resourceVars>>
    \/ part = "capture" /\ Capture!Next /\ UNCHANGED <<part, vars, resourceVars>>
    \/ part = "resources" /\ Resources!Next /\ UNCHANGED <<part, vars, captureVars>>

MCSpec == MCInit /\ [][MCNext]_mcVars

\* No frame is lost unnoticed: no device skips a frame of an output stream, and as long
\* as no overrun was counted a capture client was given every frame, once and in order,
\* whatever a capture callback uses and however short an output callback falls (cras_shm.h).
FramesAccounted == NoFrameSkipped /\ Capture!LossIsCounted

\* A live stream has its own socket and is mapped to its own memory.
StreamsIntact == Resources!StreamsIntact

\* Whatever call fails while a stream is made, and in whatever order streams come and
\* go, a live stream keeps what it owns and no descriptor or file stays behind that is
\* not of a live stream (setup_shm_area, cras_rstream_create).
ResourcesOwned == StreamsIntact /\ Resources!NothingLeftBehind
=============================================================================
