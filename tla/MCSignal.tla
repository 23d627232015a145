------------------------------ MODULE MCSignal ------------------------------
(***************************************************************************)
(* What is done to the samples on their way: the positions of the users of *)
(* a shared buffer, format and channel conversion, mixing and scaling, the *)
(* DSP pipeline with its expressions and its compressor, and the loopback. *)
(* A behaviour exercises the one that `part` names; the others rest.       *)
(***************************************************************************)
EXTENDS BufferShare

CONSTANTS Middle, Channels, BufferSize, MaxApplied,
          MaxTokens,
          Ring, Division, Default, Delays, MaxCall, MaxFrames,
          B, Q, Frames, Magnitudes, Volumes, Gains, MaxMixed,
          BufferFrames, RatePairs, LinearRates, MaxCalls,
          W, SizeBits, Counts, Magnitude,
          Outputs, Size, Burst, MaxPlayed, MaxTime, MaxChanges

VARIABLES
    part,
    ini, pipeline, run,
    text, whole, env, disabled,
    kernel, fed, compressed,
    kind, buf, ideal, ops, phase,
    conv, loop, call, calls,
    fmt, remix, frame, out,
    enabled, open, hooks, kept, failed, recorder, sent, changes

Plugins == INSTANCE Dsp WITH out <- compressed

Conv == INSTANCE FormatConv

Loop == INSTANCE Loopback WITH loop <- recorder, MaxFrames <- MaxPlayed

pipelineVars == <<ini, pipeline, run>>

exprVars == <<text, whole, env, disabled>>

drcVars == <<kernel, fed, compressed>>

mixVars == <<kind, buf, ideal, ops, phase>>

convVars == <<conv, loop, call, calls>>

remixVars == <<fmt, remix, frame, out>>

loopVars == <<enabled, open, hooks, kept, failed, recorder, sent, changes>>

mcVars == <<part, vars, pipelineVars, exprVars, drcVars, mixVars, convVars, remixVars, loopVars>>

ThreeIds == 0 .. 2

MCRatePairs == {<<1, 1>>, <<1, 3>>, <<3, 1>>, <<2, 3>>}

MCLinearRates == {<<6, 6>>, <<6, 7>>, <<6, 5>>}

MCCounts == {<<1, 2>>, <<2, 1>>, <<1, 6>>, <<2, 4>>, <<4, 2>>, <<2, 6>>, <<6, 2>>, <<4, 1>>,
             <<2, 2>>, <<4, 4>>, <<6, 6>>}

Rest(v) == v = "resting"

\* A part that rests has one value, which nothing looks at.
MCInit ==
    /\ part \in {"share", "pipeline", "expr", "drc", "mix", "conv", "remix", "loop"}
    /\ Init
    /\ IF part = "pipeline" THEN Plugins!PipelineInit ELSE Rest(ini) /\ Rest(pipeline) /\ Rest(run)
    /\ IF part = "expr" THEN Plugins!ExprInit
       ELSE Rest(text) /\ Rest(whole) /\ Rest(env) /\ Rest(disabled)
    /\ IF part = "drc" THEN Plugins!DrcInit ELSE Rest(kernel) /\ Rest(fed) /\ Rest(compressed)
    /\ IF part = "mix" THEN Conv!MixInit
       ELSE Rest(kind) /\ Rest(buf) /\ Rest(ideal) /\ Rest(ops) /\ Rest(phase)
    /\ IF part = "conv" THEN Conv!StagesInit ELSE Rest(conv) /\ Rest(loop) /\ Rest(call) /\ Rest(calls)
    /\ IF part = "remix" THEN Conv!ChannelInit ELSE Rest(fmt) /\ Rest(remix) /\ Rest(frame) /\ Rest(out)
    /\ IF part = "loop" THEN Loop!Init
       ELSE /\ Rest(enabled) /\ Rest(open) /\ Rest(hooks) /\ Rest(kept)
            /\ Rest(failed) /\ Rest(recorder) /\ Rest(sent) /\ Rest(changes)

MCNext ==
    \/ /\ part = "share" /\ Next
       /\ UNCHANGED <<part, pipelineVars, exprVars, drcVars, mixVars, convVars, remixVars, loopVars>>
    \/ /\ part = "pipeline" /\ Plugins!PipelineNext
       /\ UNCHANGED <<part, vars, exprVars, drcVars, mixVars, convVars, remixVars, loopVars>>
    \/ /\ part = "expr" /\ Plugins!ExprNext
       /\ UNCHANGED <<part, vars, pipelineVars, drcVars, mixVars, convVars, remixVars, loopVars>>
    \/ /\ part = "drc" /\ Plugins!DrcNext
       /\ UNCHANGED <<part, vars, pipelineVars, exprVars, mixVars, convVars, remixVars, loopVars>>
    \/ /\ part = "mix" /\ Conv!MixNext
       /\ UNCHANGED <<part, vars, pipelineVars, exprVars, drcVars, convVars, remixVars, loopVars>>
    \/ /\ part = "conv" /\ Conv!StagesNext
       /\ UNCHANGED <<part, vars, pipelineVars, exprVars, drcVars, mixVars, remixVars, loopVars>>
    \/ /\ part = "remix" /\ Conv!ChannelNext
       /\ UNCHANGED <<part, vars, pipelineVars, exprVars, drcVars, mixVars, convVars, loopVars>>
    \/ /\ part = "loop" /\ Loop!Next
       /\ UNCHANGED <<part, vars, pipelineVars, exprVars, drcVars, mixVars, convVars, remixVars>>

MCSpec == MCInit /\ [][MCNext]_mcVars

\* An instance of a DSP pipeline reads what the instances before it wrote: no buffer
\* is given to another port too early, and allocate_buffers stays within its peak.
BuffersKept == part = "pipeline" => Plugins!InputsIntact /\ Plugins!WithinPeak

\* The expression that disables a plugin is parsed as it was written and evaluated as
\* it was meant, for every setting of the variables (cras_expr.c).
ExpressionsAsWritten == part = "expr" => Plugins!ParsedAsWritten /\ Plugins!EvaluatedAsMeant

\* However the input is cut into calls of drc_process, the bands that are summed have
\* the same delay, and each frame is compressed once, by an envelope that has seen
\* what follows it.
CompressedInPlace == part = "drc" => Plugins!BandsAligned /\ Plugins!EnvelopeAhead

\* What is played in any sample format is the exact mix, saturated, up to the rounding
\* of each operation, and so is what is recorded in S16 and in packed S24
\* (cras_mix_ops.c, cras_audio_area_copy).  Recording S24 with a gain and S32 without
\* one is not part of it, and is not exact: the first adds a scaled sample without its
\* sign, the second overflows before it clips (cras_mix_add_scale_stride_s24_le and
\* _s32_le; FormatConv!CaptureExactAll).
SamplesExact == part = "mix" => Conv!PlaybackExact /\ Conv!CaptureExact

\* Conversion (cras_fmt_conv.c): the chain of stages ends in the caller's buffer, every
\* stage fits in the buffer it writes, and the loops that call it make progress; and
\* converting channels does not turn a signal around, treats left and right alike, and
\* leaves no channel with sound unheard.
ConversionSound ==
    /\ part = "conv" => Conv!ChainEndsInOutput /\ Conv!StagesFit /\ Conv!LoopsProgress
    /\ part = "remix" => Conv!SignKept /\ Conv!SidesMirrored /\ Conv!ChannelHeard

\* The loopback hears the first enabled output device and records what that played, in
\* order (cras_loopback_iodev.c).
RecordedAsPlayed == part = "loop" => Loop!FollowsFirstOutput /\ Loop!RecordedInOrder

\* "Return number of frames put in out_buf" (cras_fmt_conv.h): the result of a conversion
\* is what the caller finds in its buffer.
ReturnsFramesPut == part = "conv" => Conv!ReturnsFramesPut
=============================================================================
