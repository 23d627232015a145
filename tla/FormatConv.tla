----------------------------- MODULE FormatConv -----------------------------
(***************************************************************************)
(* What is done to samples: their arithmetic, that is mixing, scaling and  *)
(* the sample formats (cras_mix_ops.c, cras_fmt_conv_ops.c), the chain of  *)
(* the stages of a format converter (cras_fmt_conv.c), and the stage that  *)
(* converts the channels.                                                  *)
(***************************************************************************)
EXTENDS Integers, Sequences, FiniteSets, FiniteSetsExt, SequencesExt

-----------------------------------------------------------------------------
(***************************************************************************)
(* Sample arithmetic: the converters between sample formats                *)
(* (cras_fmt_conv_ops.c), the mixer (cras_mix_ops.c, four copies of every  *)
(* loop, one per sample format) and its callers: dev_stream_mix, the       *)
(* scaling in cras_iodev_put_output_buffer and cras_audio_area_copy.       *)
(*                                                                         *)
(* A byte has B bits, so that the widths keep the ratios of the code: s16  *)
(* has 2 bytes, s24 keeps 3 bytes in an integer of 4, s243 packs the 3     *)
(* bytes, s32 has 4.  A volume is a multiple of 1/Q; Q is the volume 1.0,  *)
(* 0 is under MIN_VOLUME_TO_SCALE.  A multiplication by a float and the    *)
(* assignment to an integer truncate towards zero.                         *)
(*                                                                         *)
(* The four formats are four devices that are given the same streams, and  *)
(* `ideal` is the signal computed without rounding, in units of 1/Q^2 of   *)
(* an s16 step.  One buffer of Frames frames of one channel is followed.   *)
(***************************************************************************)

CONSTANTS B, Q, Frames,
          Magnitudes,  \* of the s16 samples of the streams and microphones
          Volumes,     \* stream and software volumes, in 0 .. Q
          Gains,       \* capture gains, may exceed Q
          MaxMixed     \* streams mixed, or microphones recorded, in a buffer

VARIABLES kind,        \* "play" or "rec"
          buf,         \* per format, the samples of the buffer
          ideal,       \* the exact signal
          ops,         \* rounding operations since the buffer was cleared
          phase        \* "mix", then "done" when the buffer is handed on

mixVars == <<kind, buf, ideal, ops, phase>>

Formats == {"s16", "s24", "s32", "s243"}

ClientFormats == Formats \union {"u8"}

Levels == Magnitudes \union {-m : m \in Magnitudes} \union {-(2^(2 * B - 1))}

\* The low `bits` bits of v read as a two's complement number.
Signed(v, bits) ==
  LET u == v % 2^bits IN IF u < 2^(bits - 1) THEN u ELSE u - 2^bits

Clip(v, bits) ==
  IF v > 2^(bits - 1) - 1 THEN 2^(bits - 1) - 1
  ELSE IF v < -(2^(bits - 1)) THEN -(2^(bits - 1)) ELSE v

\* A float product assigned to an integer.
Trunc(v, d) == IF v >= 0 THEN v \div d ELSE -((-v) \div d)

----------------------------------------------------------------------------
(* Sample format converters.                                               *)

\* convert_u8_to_s16le and its three siblings.
to_s16le(f, m) ==
  CASE f = "u8"   -> Signed((m - 2^(B - 1)) * 2^B, 2 * B)
    [] f = "s243" -> m \div 2^B
    [] f = "s24"  -> Signed((m % 2^(3 * B)) \div 2^B, 2 * B)
    [] f = "s32"  -> m \div 2^(2 * B)
    [] OTHER      -> m

\* convert_s16le_to_u8 and its three siblings.
from_s16le(f, x) ==
  CASE f = "u8"  -> (x \div 2^B + 2^(B - 1)) % 2^B
    [] f = "s32" -> x * 2^(2 * B)
    [] f = "s16" -> x
    [] OTHER     -> x * 2^B

----------------------------------------------------------------------------
(* The loops of cras_mix_ops.c, for one sample: d is the sample in the       *)
(* buffer, s the one that is mixed in, k the volume.  "add" is               *)
(* scale_add_clip_*, "copy" copy_scaled_*, "scale" the loops of              *)
(* cras_scale_buffer_* and "stride" those of cras_mix_add_scale_stride_*.    *)

s16_le_unclipped(op, d, s, k) ==
  CASE op = "add" /\ k >= Q -> Clip(d + s, 2 * B)
    [] op = "add" /\ k < Q  -> Clip(d + Trunc(s * k, Q), 2 * B)
    [] op = "copy"          -> IF k >= Q THEN s ELSE Trunc(s * k, Q)
    [] op = "scale"         -> Trunc(d * k, Q)
    [] op = "stride"        -> Signed(Trunc(d * Q + s * k, Q), 2 * B)

s16_le(op, d, s, k) ==
  CASE op = "add" /\ k >= Q -> Clip(d + s, 2 * B)
    [] op = "add" /\ k < Q  -> Clip(d + Trunc(s * k, Q), 2 * B)
    [] op = "copy"          -> IF k >= Q THEN s ELSE Trunc(s * k, Q)
    [] op = "scale"         -> Trunc(d * k, Q)
    [] op = "stride"        -> Clip(Trunc(d * Q + s * k, Q), 2 * B)

\* The three bytes are moved to the top of a 32 bit integer and scaled
\* there; the result has the sign bit of 24 bits and a zero top byte.
scale_s24_le(v, k) ==
  (Trunc(Signed((v % 2^(3 * B)) * 2^B, 4 * B) * k, Q) \div 2^B) % 2^(3 * B)

s24_le(op, d, s, k) ==
  CASE op = "add" /\ k >= Q -> Clip(d + s, 3 * B)
    [] op = "add" /\ k < Q  -> Clip(d + Trunc(s * k, Q), 3 * B)
    [] op = "copy"          -> IF k >= Q THEN s ELSE scale_s24_le(s, k)
    [] op = "scale"         -> scale_s24_le(d, k)
    [] op = "stride"        -> Clip(d + IF k # Q THEN scale_s24_le(s, k) ELSE s, 3 * B)

\* The unscaled stride loop adds two int32_t before the sum is widened: an
\* overflow is undefined, and a build either wraps or adds in 64 bits.
s32_le(op, d, s, k, wraps) ==
  CASE op = "add" /\ k >= Q -> Clip(d + s, 4 * B)
    [] op = "add" /\ k < Q  -> Clip(d + Trunc(s * k, Q), 4 * B)
    [] op = "copy"          -> IF k >= Q THEN s ELSE Trunc(s * k, Q)
    [] op = "scale"         -> Trunc(d * k, Q)
    [] op = "stride" /\ (k # Q \/ ~wraps) -> Clip(Trunc(d * Q + s * k, Q), 4 * B)
    [] op = "stride" /\ k = Q /\ wraps    -> Signed(d + s, 4 * B)

\* Worked on as s32, of which the three upper bytes are kept.
s24_3le(op, d, s, k) ==
  LET dw == d * 2^B
      sw == s * 2^B
  IN  CASE op = "add" /\ k >= Q -> Clip(dw + sw, 4 * B) \div 2^B
        [] op = "add" /\ k < Q  -> Clip(dw + Trunc(sw * k, Q), 4 * B) \div 2^B
        [] op = "copy"          -> IF k >= Q THEN s ELSE Trunc(sw * k, Q) \div 2^B
        [] op = "scale"         -> Trunc(dw * k, Q) \div 2^B
        [] op = "stride"        -> Clip(Trunc(dw * Q + sw * k, Q), 4 * B) \div 2^B

\* The switches on the format at the end of cras_mix_ops.c.
MixOp(f, op, d, s, k, wraps) ==
  CASE f = "s16"  -> s16_le(op, d, s, k)
    [] f = "s24"  -> s24_le(op, d, s, k)
    [] f = "s32"  -> s32_le(op, d, s, k, wraps)
    [] f = "s243" -> s24_3le(op, d, s, k)

cras_mix_add(f, d, s, index, mute, k) ==
  CASE (mute \/ k = 0) /\ index = 0 -> 0
    [] (mute \/ k = 0) /\ index # 0 -> d
    [] ~mute /\ k # 0 /\ index = 0  -> MixOp(f, "copy", d, s, k, FALSE)
    [] OTHER                        -> MixOp(f, "add", d, s, k, FALSE)

\* Full volume leaves the sample alone.
cras_scale_buffer(f, m, k) ==
  IF k >= Q THEN m ELSE IF k = 0 THEN 0 ELSE MixOp(f, "scale", m, 0, k, FALSE)

Applied_late(k, inc, target, i) == k + (i - 1) * inc

\* The scaler of frame i of a ramp: it is stopped at the target.
Applied(k, inc, target, i) ==
  LET s == k + (i - 1) * inc IN
  IF (s > target /\ inc > 0) \/ (s < target /\ inc < 0) THEN target ELSE s

\* Frame i of cras_scale_buffer_inc_*.
cras_scale_buffer_increment(f, m, k, inc, target, i) ==
  IF k = 0 /\ inc < 0 THEN 0
  ELSE LET a == Applied(k, inc, target, i) IN
       IF a >= Q THEN m ELSE IF a <= 0 THEN 0 ELSE MixOp(f, "scale", m, 0, a, FALSE)

----------------------------------------------------------------------------

Silence == [i \in 1 .. Frames |-> 0]

MixInit ==
  /\ kind \in {"play", "rec"}
  /\ buf = [f \in Formats |-> Silence]
  /\ ideal = Silence
  /\ ops = 0
  /\ phase = "mix"

\* The exact sum saturates at the limits of the format.
IdealAdd(d, s, k) ==
  LET top == 2^(2 * B - 1) * Q * Q
      sum == d + s * k * Q
  IN  IF sum > top THEN top ELSE IF sum < -top THEN -top ELSE sum

Abs(v) == IF v < 0 THEN -v ELSE v

\* The volume of frame i of a ramp: of those between the start and the
\* target, the nearest to a line of slope inc.
Ramped(k, inc, target, i) ==
  LET between == {v \in 0 .. Q : (k <= v /\ v <= target) \/ (target <= v /\ v <= k)}
      off(v)  == Abs(k + (i - 1) * inc - v)
  IN  CHOOSE v \in between : \A w \in between : off(v) <= off(w)

\* dev_stream_mix: a client's samples in format g, of level x, are converted
\* to the format of the device and added with the stream's volume.
mix_stream ==
  /\ kind = "play" /\ phase = "mix" /\ ops < MaxMixed
  /\ \E x \in [1 .. Frames -> Levels], g \in ClientFormats, k \in Volumes,
        mute \in BOOLEAN :
       LET y == [i \in 1 .. Frames |-> to_s16le(g, from_s16le(g, x[i]))] IN
       /\ buf' = [f \in Formats |->
                   [i \in 1 .. Frames |->
                     cras_mix_add(f, buf[f][i], from_s16le(f, y[i]), 1, mute,
                                  k)]]
       /\ ideal' = IF mute THEN ideal
                   ELSE [i \in 1 .. Frames |-> IdealAdd(ideal[i], y[i], k)]
  /\ ops' = ops + 1
  /\ UNCHANGED <<kind, phase>>

\* The end of cras_iodev_put_output_buffer: the buffer is muted, ramped or
\* scaled by the software volume, or goes out as it is.
put_output_buffer ==
  /\ kind = "play" /\ phase = "mix"
  /\ \/ /\ buf' = [f \in Formats |-> Silence]         \* cras_mix_mute_buffer
        /\ ideal' = Silence
     \/ \E k \in Volumes, inc \in {-2, -1, 1, 2}, target \in Volumes :
          /\ (inc > 0 /\ target >= k) \/ (inc < 0 /\ target <= k)
          /\ buf' = [f \in Formats |->
                      [i \in 1 .. Frames |->
                        cras_scale_buffer_increment(f, buf[f][i], k, inc,
                                                    target, i)]]
          /\ ideal' = [i \in 1 .. Frames |->
                        Trunc(ideal[i] * Ramped(k, inc, target, i), Q)]
     \/ \E k \in Volumes :
          /\ buf' = [f \in Formats |->
                      [i \in 1 .. Frames |-> cras_scale_buffer(f, buf[f][i], k)]]
          /\ ideal' = [i \in 1 .. Frames |-> Trunc(ideal[i] * k, Q)]
  /\ ops' = ops + 1
  /\ phase' = "done"
  /\ UNCHANGED kind

\* cras_audio_area_copy into the stream's buffer from one more microphone;
\* the software gain is the same for all of them.
cras_audio_area_copy ==
  /\ kind = "rec" /\ phase = "mix" /\ ops < MaxMixed
  /\ \E x \in [1 .. Frames -> Levels], k \in Gains, wraps \in BOOLEAN :
       /\ buf' = [f \in Formats |->
                   [i \in 1 .. Frames |->
                     MixOp(f, "stride", buf[f][i], from_s16le(f, x[i]), k,
                           wraps)]]
       /\ ideal' = [i \in 1 .. Frames |-> IdealAdd(ideal[i], x[i], k)]
  /\ ops' = ops + 1
  /\ UNCHANGED <<kind, phase>>

MixNext == mix_stream \/ put_output_buffer \/ cras_audio_area_copy

MixSpec == MixInit /\ [][MixNext]_mixVars

----------------------------------------------------------------------------
(* Properties.                                                             *)

Distance(f) ==
  {Abs(to_s16le(f, buf[f][i]) * Q * Q - ideal[i]) : i \in 1 .. Frames}

\* Whatever the format of the device, the streams that are mixed into a
\* buffer and the mute, the ramp or the volume applied to it give the exact
\* signal, saturated, up to one s16 step per operation (the loops of
\* cras_mix_ops.c under dev_stream_mix and cras_iodev_put_output_buffer).
PlaybackExact ==
  kind = "play" => \A f \in Formats :
                     \A d \in Distance(f) : d <= (ops + 1) * Q * Q

\* The same of a stream that records one or more microphones with a gain
\* (cras_audio_area_copy), in the two formats whose loops clip: s24 with a
\* gain adds the unsigned pattern scale_s24_le returns, and s32 without one
\* overflows before it clips.
CaptureExact ==
  kind = "rec" => \A f \in {"s16", "s243"} :
                    \A d \in Distance(f) : d <= (ops + 1) * Q * Q

\* In every format (cras_mix_ops.c, "Just hard limits to the min and max"):
\* violated by s24 with a gain and by s32 without one.
CaptureExactAll ==
  kind = "rec" => \A f \in Formats :
                    \A d \in Distance(f) : d <= (ops + 1) * Q * Q

-----------------------------------------------------------------------------
(***************************************************************************)
(* The format converter of a stream on a device (cras_fmt_conv.c), its     *)
(* linear resampler (linear_resampler.c) and the two loops of dev_stream.c *)
(* that feed it: dev_stream_mix for playback and capture_with_fmt_conv for *)
(* capture.                                                                *)
(*                                                                         *)
(* What the stages do to the samples is the subject of the first and third *)
(* part; here a conversion is the chain of its stages, the buffers  *)
(* they read and write and the frames they take and give.  Rates are small *)
(* numbers; the quotients the code computes in floats are exact.           *)
(***************************************************************************)

CONSTANTS BufferFrames,  \* stream->buffer_frames
          RatePairs,     \* pairs of the sample rates of the stream and device
          LinearRates,   \* pairs of rates given to the linear resampler
          MaxCalls       \* calls of dev_stream_mix and capture_with_fmt_conv

VARIABLES conv,          \* the converter
          loop,          \* the loop of the caller, with the turns it is stalled for
          call,          \* what the last call did
          calls

stagesVars == <<conv, loop, call, calls>>

Lesser(a, b) == IF a < b THEN a ELSE b

Greater(a, b) == IF a > b THEN a ELSE b

cras_frames_at_rate(orig, frames, act) == (frames * act + orig - 1) \div orig

max_frames_for_conversion(stream_rate, device_rate) ==
  Greater(BufferFrames,
          cras_frames_at_rate(stream_rate, BufferFrames, device_rate)) + 1

----------------------------------------------------------------------------
(* linear_resampler.c                                                      *)

linear_resampler_set_rates(from, to) ==
  [from |-> from, to |-> to, src |-> 0, dst |-> 0]

linear_resampler_needed(lr) == lr.from # lr.to

linear_resampler_out_frames_to_in(lr, frames) ==
  LET ahead == (lr.dst + frames) * lr.from - lr.src * lr.to IN
  IF frames = 0 THEN 0 ELSE IF ahead > 0 THEN 1 + ahead \div lr.to ELSE 1

linear_resampler_in_frames_to_out(lr, frames) ==
  LET ahead == (lr.src + frames - 1) * lr.to - lr.dst * lr.from IN
  IF frames = 0 THEN 0 ELSE IF ahead > 0 THEN 1 + ahead \div lr.from ELSE 1

\* Where output frame k lies in the input, in units of 1 / lr.to.
SrcPos(lr, k) == Greater((lr.dst + k) * lr.from - lr.src * lr.to, 0)

\* The offsets grow and are wrapped together, by whole periods.
Wrapped(lr) ==
  LET n == Greater(0, Lesser((lr.src - 1) \div lr.from, (lr.dst - 1) \div lr.to))
  IN  [lr EXCEPT !.src = @ - n * lr.from, !.dst = @ - n * lr.to]

\* The loop stops at the first output frame that does not fit or that lies
\* behind the last input frame.
linear_resampler_resample(lr, n, limit) ==
  IF n = 0 \/ limit = 0 THEN [lr |-> lr, used |-> 0, made |-> 0]
  ELSE LET stop(k) == k >= limit \/ SrcPos(lr, k) > (n - 1) * lr.to
           made    == CHOOSE k \in 0 .. limit :
                        stop(k) /\ \A j \in 0 .. k - 1 : ~stop(j)
           used    == Lesser(SrcPos(lr, made) \div lr.to, n - 1) + 1
       IN  [lr   |-> Wrapped([lr EXCEPT !.src = @ + used, !.dst = @ + made]),
            used |-> used, made |-> made]

----------------------------------------------------------------------------
(* The speex resampler, as the converter uses it: an output frame is made  *)
(* while its position lies in the input, which is kept as a whole and a    *)
(* fraction of a frame between the calls.                                  *)

speex_resampler_process(c, n, limit) ==
  LET at(j) == c.last + (c.frac + j * c.irate) \div c.orate
      made  == Cardinality({j \in 0 .. limit - 1 : at(j) < n})
      used  == Lesser(at(made), n)
  IN  [last |-> at(made) - used, frac |-> (c.frac + made * c.irate) % c.orate,
       used |-> used, made |-> made]

----------------------------------------------------------------------------
(* cras_fmt_conv.c                                                         *)

TmpBufs_short(c) == c.num - 2

\* One temporary buffer less than there are converters.
TmpBufs(c) == c.num - 1

cras_fmt_conv_create(infmt, outfmt, chan, irate, orate, frames, pre) ==
  LET n(b) == IF b THEN 1 ELSE 0 IN
  [infmt |-> infmt, outfmt |-> outfmt, chan |-> chan, irate |-> irate,
   orate |-> orate, frames |-> frames, pre |-> pre,
   speex |-> irate # orate, last |-> 0, frac |-> 0,
   lr  |-> linear_resampler_set_rates(orate, orate),
   num |-> 1 + n(infmt # "s16") + n(outfmt # "s16") + n(chan) + n(irate # orate)]

cras_fmt_conv_in_frames_to_out(c, frames) ==
  LET a == IF c.pre THEN linear_resampler_in_frames_to_out(c.lr, frames) ELSE frames
      b == cras_frames_at_rate(c.irate, a, c.orate)
  IN  IF c.pre THEN b ELSE linear_resampler_in_frames_to_out(c.lr, b)

cras_fmt_conv_out_frames_to_in(c, frames) ==
  LET a == IF c.pre THEN frames ELSE linear_resampler_out_frames_to_in(c.lr, frames)
      b == cras_frames_at_rate(c.orate, a, c.irate)
  IN  IF c.pre THEN linear_resampler_out_frames_to_in(c.lr, b) ELSE b

cras_fmt_conversion_needed(c) == linear_resampler_needed(c.lr) \/ c.num > 1

\* The limit of the linear resampler that runs before speex is never zero.
PreLimit_zero(c, out) ==
  Lesser(IF c.speex THEN (out * c.irate) \div c.orate ELSE out, c.frames)

PreLimit(c, out) ==
  Lesser(IF c.speex THEN Greater((out * c.irate) \div c.orate, 1) ELSE out,
         c.frames)

SpeexLimit_own(c, fr_in, out) == cras_frames_at_rate(c.irate, fr_in, c.orate)

\* What speex may put out: the frames the linear resampler after it can use.
SpeexLimit(c, fr_in, out) ==
  Lesser(cras_frames_at_rate(c.irate, fr_in, c.orate),
         IF linear_resampler_needed(c.lr) /\ ~c.pre
         THEN linear_resampler_out_frames_to_in(c.lr, out) ELSE out)

\* The steps of cras_fmt_conv_convert_frames that count frames: what goes in
\* when there is no speex to limit it, the linear resampler in front, speex,
\* and the linear resampler behind, which gets what speex made or, with no
\* speex, the frames that went in.
FramesIn(c, in_frames, out_frames) ==
  IF c.speex THEN in_frames ELSE Lesser(in_frames, out_frames)

NoResample(c, fr) == [lr |-> c.lr, used |-> fr, made |-> fr]

PreLinear(c, fr, out_frames) ==
  IF linear_resampler_needed(c.lr) /\ c.pre
  THEN linear_resampler_resample(c.lr, fr, PreLimit(c, out_frames))
  ELSE NoResample(c, fr)

SpeexStage(c, fr, fr_in, out_frames) ==
  IF c.speex
  THEN speex_resampler_process(c, fr_in, SpeexLimit(c, fr_in, out_frames))
  ELSE [last |-> c.last, frac |-> c.frac, used |-> fr_in, made |-> fr]

PostLinear(c, fr_out, out_frames) ==
  IF linear_resampler_needed(c.lr) /\ ~c.pre
  THEN linear_resampler_resample(c.lr, fr_out, Lesser(c.frames, out_frames))
  ELSE NoResample(c, fr_out)

\* The frames the call says it took and gave, the frames that are really in
\* out_buf, and the stages that ran with the bytes per channel each wrote.
\* The stages work on s16 samples of 2 bytes; the linear resampler was created
\* with the size of the output's frames and steps by it.
Converted(c, in_frames, out_frames, fr, p, s, q) ==
  LET linear == linear_resampler_needed(c.lr)
      pre    == linear /\ c.pre
      width  == IF c.outfmt = "s16" THEN 2 ELSE 4
      stage(on, made, bytes) == IF on THEN <<made * bytes>> ELSE <<>>
  IN  [in     |-> in_frames,
       out    |-> out_frames,
       took   |-> IF pre THEN (IF c.speex /\ s.used = 0 THEN 0 ELSE p.used)
                  ELSE s.used,
       gave   |-> q.made,
       put    |-> IF ~pre \/ c.speex THEN q.made ELSE p.made,
       stages |-> stage(pre, p.made, width) \o stage(c.infmt # "s16", p.made, 2)
                  \o stage(c.chan, p.made, 2) \o stage(c.speex, s.made, 2)
                  \o stage(linear /\ ~c.pre, q.made, width)
                  \o stage(c.outfmt # "s16", q.made, width),
       used   |-> c.num - (IF linear THEN 0 ELSE 1)]

----------------------------------------------------------------------------
(* dev_stream.c                                                            *)

NoCall == [in |-> 0, out |-> 0, took |-> 0, gave |-> 0, put |-> 0,
           stages |-> <<>>, used |-> 0]

Idle == [on |-> FALSE, left |-> 0, room |-> 0, stalled |-> 0]

\* dev_stream_create and config_format_converter: a playback stream is
\* converted to the device's rate, a captured one to the stream's.
StagesInit ==
  /\ \E rates \in RatePairs, infmt, outfmt \in {"s16", "s24"}, chan, pre \in BOOLEAN :
       conv = cras_fmt_conv_create(infmt, outfmt, chan, rates[1], rates[2],
                IF pre THEN max_frames_for_conversion(rates[2], rates[1])
                ELSE max_frames_for_conversion(rates[1], rates[2]), pre)
  /\ loop = Idle
  /\ call = NoCall
  /\ calls = 0

\* dev_stream_set_dev_rate: the resampler of a stream that also plays on
\* another device follows that device's rate.
dev_stream_set_dev_rate ==
  /\ ~loop.on /\ calls < MaxCalls
  /\ \E r \in LinearRates : conv' = [conv EXCEPT !.lr = linear_resampler_set_rates(r[1], r[2])]
  /\ call' = NoCall
  /\ UNCHANGED <<loop, calls>>

\* dev_stream_mix: as many frames as the device wants and the stream has.
dev_stream_mix ==
  /\ ~loop.on /\ ~conv.pre /\ cras_fmt_conversion_needed(conv) /\ calls < MaxCalls
  /\ \E readable \in 1 .. BufferFrames, want \in 1 .. conv.frames :
       loop' = [on   |-> TRUE, left |-> readable,
                room |-> Lesser(want, cras_fmt_conv_in_frames_to_out(conv, readable)),
                stalled |-> 0]
  /\ call' = NoCall
  /\ calls' = calls + 1
  /\ UNCHANGED conv

\* dev_stream_capture: the frames that fill the room in the stream, taken
\* from the device; the converted frames go into conv_buffer.
capture_with_fmt_conv ==
  /\ ~loop.on /\ conv.pre /\ cras_fmt_conversion_needed(conv) /\ calls < MaxCalls
  /\ \E avail \in 1 .. BufferFrames, area \in 1 .. 2 * conv.frames,
        room \in 1 .. 2 * BufferFrames :
       /\ avail <= room
       /\ loop' = [on   |-> TRUE,
                   left |-> Lesser(cras_fmt_conv_out_frames_to_in(conv, avail), area),
                   room |-> room, stalled |-> 0]
  /\ call' = NoCall
  /\ calls' = calls + 1
  /\ UNCHANGED conv

\* One turn of either loop, a call of cras_fmt_conv_convert_frames.  They end when the input or the room is used up.
cras_fmt_conv_convert_frames ==
  /\ loop.on /\ loop.left > 0 /\ loop.room > 0
  /\ loop.left <= conv.frames                             \* an assertion
  /\ \E fr \in {FramesIn(conv, loop.left, loop.room)} :
     \E p \in {PreLinear(conv, fr, loop.room)} :
     \E s \in {SpeexStage(conv, fr, p.made, loop.room)} :
     \E q \in {PostLinear(conv, s.made, loop.room)} :
       /\ conv' = [conv EXCEPT !.lr = IF conv.pre THEN p.lr ELSE q.lr,
                               !.last = s.last, !.frac = s.frac]
       /\ call' = Converted(conv, loop.left, loop.room, fr, p, s, q)
       /\ loop' = [loop EXCEPT !.left = @ - call'.took, !.room = @ - call'.gave,
                     !.stalled = IF call'.took + call'.gave = 0 THEN @ + 1 ELSE 0]
  /\ UNCHANGED calls

Done ==
  /\ loop.on /\ (loop.left = 0 \/ loop.room = 0)
  /\ loop' = Idle
  /\ call' = NoCall
  /\ UNCHANGED <<conv, calls>>

StagesNext ==
  \/ dev_stream_set_dev_rate \/ dev_stream_mix \/ capture_with_fmt_conv
  \/ cras_fmt_conv_convert_frames \/ Done

StagesSpec == StagesInit /\ [][StagesNext]_stagesVars

----------------------------------------------------------------------------
(* Properties.                                                             *)

\* The stages that run fill the buffer chain exactly: the last of them
\* writes the caller's buffer (index used_converters) and the others
\* temporary buffers that cras_fmt_conv_create allocated, whichever formats,
\* rates and resamplers are combined and however the linear resampler comes
\* and goes with the rates.
ChainEndsInOutput ==
  call.in > 0 => /\ Len(call.stages) = call.used
                 /\ Len(call.stages) - 1 <= TmpBufs(conv)

\* No stage writes past its buffer: max_frames samples of 4 bytes for a
\* temporary one, the room the caller gave for the last.  What speex puts out
\* may be more frames than max_frames_for_conversion foresees.
StagesFit ==
  \A i \in DOMAIN call.stages :
    IF i = Len(call.stages)
    THEN call.gave <= call.out /\ call.put <= call.out
    ELSE call.stages[i] <= conv.frames * 4

\* assert(*in_frames <= conv->tmp_buf_frames) of cras_fmt_conv_convert_frames.
\* The linear resampler of a device that is slower than the first one asks
\* for more input than max_frames_for_conversion allows for.
AskedFits == loop.on => loop.left <= conv.frames

\* The loops of dev_stream_mix and capture_with_fmt_conv do not spin in a
\* converter that neither takes nor gives frames: such a turn occurs, when
\* the linear resampler makes no frame and the call reports that nothing was
\* taken, but never twice in a row.
LoopsProgress == loop.stalled <= 1

\* cras_fmt_conv_convert_frames: "Return number of frames put in out_buf".
ReturnsFramesPut == call.gave = call.put

-----------------------------------------------------------------------------
(***************************************************************************)
(* Channel conversion: the choice of a channel converter in                *)
(* cras_fmt_conv_create, the conversion matrices (cras_fmt_conv.c and      *)
(* cras_audio_format.c), the converters themselves (cras_fmt_conv_ops.c)   *)
(* and the remix of the output channels.                                   *)
(*                                                                         *)
(* One frame of s16 samples is converted.  A sample has W bits and a       *)
(* size_t SizeBits.  A layout maps each channel position to the index of   *)
(* its sample in the frame, or to -1.  Coefficients are in thousandths.    *)
(***************************************************************************)

CONSTANTS W, SizeBits,
          Counts,      \* pairs of numbers of channels, in and out
          Magnitude    \* of the samples

VARIABLES fmt,         \* [nin, nout, lin, lout]: the two formats
          remix,       \* [by, mtx]: the converter chosen
          frame,       \* the frame that goes in
          out          \* and the one that comes out

channelVars == <<fmt, remix, frame, out>>

Positions == {"FL", "FR", "RL", "RR", "FC", "LFE", "SL", "SR"}

\* The order of the positions in enum CRAS_CHANNEL.
Order == <<"FL", "FR", "RL", "RR", "FC", "LFE", "SL", "SR">>

Unset == [p \in Positions |-> -1]

\* cras_audio_format_create: the first n positions are set.
cras_audio_format_create(n) ==
  [p \in Positions |->
     LET i == CHOOSE k \in 1 .. Len(Order) : Order[k] = p
     IN  IF i <= n THEN i - 1 ELSE -1]

\* A client may set another layout (cras_audio_format_set_channel_layout):
\* the front pair exchanged, or the side channels in place of the rear.
Exchanged(l) == [l EXCEPT !["FL"] = l["FR"], !["FR"] = l["FL"]]

Sides(l) == [l EXCEPT !["SL"] = l["RL"], !["SR"] = l["RR"], !["RL"] = -1, !["RR"] = -1]

Layouts(n) ==
  LET l == cras_audio_format_create(n) IN
  {Unset, l} \union (IF n > 1 THEN {Exchanged(l)} ELSE {})
             \union (IF n > 3 THEN {Sides(l)} ELSE {})

s16_add_and_clip_wrapped(a, b) == Signed(a + b, W)

s16_add_and_clip(a, b) == Clip(a + b, W)

----------------------------------------------------------------------------
(* Matrices: a function from output index to a function from input index.  *)

\* Row L or R of surround51_to_stereo_downmix_mtx, before normalize_buf:
\* a pair counts only when both of its positions are set.
Weight_crossed(side, p) ==
  CASE p \in {"FC", "LFE"} -> 707
    [] p \in {"FL", "SL"}  -> IF side = "L" THEN 1000 ELSE 0
    [] p \in {"FR", "SR"}  -> IF side = "R" THEN 1000 ELSE 0
    [] p = "RL"            -> IF side = "L" THEN 866 ELSE 500
    [] p = "RR"            -> IF side = "L" THEN 866 ELSE 500

Weight(side, p) ==
  CASE p \in {"FC", "LFE"} -> 707
    [] p \in {"FL", "SL"}  -> IF side = "L" THEN 1000 ELSE 0
    [] p \in {"FR", "SR"}  -> IF side = "R" THEN 1000 ELSE 0
    [] p = "RL"            -> IF side = "L" THEN 866 ELSE 500
    [] p = "RR"            -> IF side = "R" THEN 866 ELSE 500

Other == [p \in Positions |->
            CASE p = "FL" -> "FR" [] p = "FR" -> "FL" [] p = "RL" -> "RR"
              [] p = "RR" -> "RL" [] p = "SL" -> "SR" [] p = "SR" -> "SL"
              [] OTHER -> p]

Rows == <<"L", "R">>

surround51_to_stereo_downmix_mtx(layout) ==
  [o \in 1 .. 2 |->
    [i \in 1 .. 6 |->
      LET ps == {p \in Positions : layout[p] = i - 1 /\ layout[Other[p]] # -1}
      IN  IF ps = {} THEN 0 ELSE Weight(Rows[o], CHOOSE p \in ps : TRUE)]]

\* normalize_buf divides a row by the sum of its squares.
SquareSum(row) == FoldLeft(LAMBDA acc, c : acc + c * c, 0, row)

\* channel_alt: the rear channels stand in for the side ones and back.
channel_alt(p, alt) ==
  <<p, alt>> \in {<<"RL", "SL">>, <<"RR", "SR">>, <<"SL", "RL">>, <<"SR", "RR">>}

\* The output index of input position p, or -1 when the matrix cannot be made.
Target(lin, lout, p) ==
  LET alts == {a \in Positions : channel_alt(p, a) /\ lin[a] = -1 /\ lout[a] # -1}
  IN  IF lout[p] # -1 THEN lout[p]
      ELSE IF alts = {} THEN -1 ELSE lout[CHOOSE a \in alts : TRUE]

Used(lin) == {p \in Positions : lin[p] # -1}

cras_channel_conv_matrix_create_direct(n, lin, lout) ==
  [o \in 1 .. n |-> [i \in 1 .. n |->
     IF \E p \in Used(lin) : lin[p] = i - 1 /\ lout[p] = o - 1
     THEN 1000 ELSE 0]]

cras_channel_conv_matrix_create(n, lin, lout) ==
  [o \in 1 .. n |-> [i \in 1 .. n |->
     IF \E p \in Used(lin) : lin[p] = i - 1 /\ Target(lin, lout, p) = o - 1
     THEN 1000 ELSE 0]]

\* cras_channel_remix_conv_create: a matrix from the board's configuration.
RemixMatrices == { << <<500, 500>>, <<500, 500>> >>, << <<0, 1000>>, <<1000, 0>> >> }

----------------------------------------------------------------------------
(* The converters.                                                         *)

\* s16_multiply_buf_with_coef: the sum is an integer after every product.
s16_multiply_buf_with_coef(row, x, norm) ==
  LET sum == FoldLeft(LAMBDA acc, i : Trunc(acc * norm + row[i] * 1000 * x[i], norm),
                      0, [i \in 1 .. Len(x) |-> i])
  IN  Clip(sum, W)

s16_convert_channels(mtx, x, normalized) ==
  [o \in DOMAIN mtx |->
     s16_multiply_buf_with_coef(mtx[o], x,
       IF normalized /\ SquareSum(mtx[o]) # 0 THEN SquareSum(mtx[o]) ELSE 1000000)]

s16_mono_to_51(left, right, center, x) ==
  [o \in 1 .. 6 |->
     CASE center # -1 -> IF o = center + 1 THEN x ELSE 0
       [] center = -1 /\ left # -1 /\ right # -1 ->
            IF o \in {left + 1, right + 1} THEN Trunc(x, 2) ELSE 0
       [] OTHER -> IF o = 1 THEN x ELSE 0]

s16_stereo_to_51(left, right, center, l, r) ==
  [o \in 1 .. 6 |->
     CASE left # -1 /\ right # -1 ->
            IF o = right + 1 THEN r ELSE IF o = left + 1 THEN l ELSE 0
       [] ~(left # -1 /\ right # -1) /\ center # -1 ->
            IF o = center + 1 THEN s16_add_and_clip(l, r) ELSE 0
       [] OTHER -> IF o = 1 THEN l ELSE IF o = 2 THEN r ELSE 0]

s16_51_to_stereo(x) ==
  LET half == Trunc(x[5], 2)
  IN  <<s16_add_and_clip(x[1], half), s16_add_and_clip(x[2], half)>>

AllSet(l, ps) == \A p \in ps : l[p] # -1

Quad == {"FL", "FR", "RL", "RR"}

s16_stereo_to_quad(l, x) ==
  IF AllSet(l, Quad)
  THEN [o \in 1 .. 4 |-> IF o - 1 \in {l["FL"], l["RL"]} THEN x[1] ELSE x[2]]
  ELSE <<x[1], x[2], x[1], x[2]>>

s16_quad_to_stereo(l, x) ==
  LET at(p, i) == IF AllSet(l, Quad) THEN x[l[p] + 1] ELSE x[i]
  IN  <<s16_add_and_clip(at("FL", 1), Trunc(at("RL", 3), 4)),
        s16_add_and_clip(at("FR", 2), Trunc(at("RR", 4), 4))>>

\* The quotient of a sample by the number of channels, a size_t.
s16_default_all_to_all(x, nout) ==
  LET n       == Len(x)
      part(i) == Signed((x[i] % 2^SizeBits) \div n, W)
      sum     == FoldLeft(LAMBDA acc, i : Signed(acc + part(i), W), 0, [i \in 1 .. n |-> i])
  IN  [o \in 1 .. nout |-> sum]

----------------------------------------------------------------------------

NoConv == [by |-> "none", mtx |-> <<>>]

ChannelInit ==
  /\ \E c \in Counts : \E li \in Layouts(c[1]), lo \in Layouts(c[2]) :
       fmt = [nin |-> c[1], nout |-> c[2], lin |-> li, lout |-> lo]
  /\ remix = NoConv
  /\ frame = <<>>
  /\ out = <<>>

\* The channel part of cras_fmt_conv_create; "failed" is a NULL converter.
Converter ==
  LET pair == <<fmt.nin, fmt.nout>> IN
  CASE pair = <<1, 2>> -> "mono_to_stereo"
    [] pair = <<1, 6>> -> "mono_to_51"
    [] pair = <<2, 1>> -> "stereo_to_mono"
    [] pair = <<2, 4>> -> "stereo_to_quad"
    [] pair = <<4, 2>> -> "quad_to_stereo"
    [] pair = <<2, 6>> -> "stereo_to_51"
    [] pair = <<6, 2>> -> IF Used(fmt.lin) # {} THEN "downmix" ELSE "51_to_stereo"
    [] fmt.nin # fmt.nout /\ pair \notin {<<1, 2>>, <<1, 6>>, <<2, 1>>, <<2, 4>>,
                                          <<4, 2>>, <<2, 6>>, <<6, 2>>} -> "all_to_all"
    [] fmt.nin = fmt.nout /\ (fmt.nin <= 2 \/ fmt.lin = fmt.lout) -> "remix"
    [] OTHER -> IF \A p \in Used(fmt.lin) : Target(fmt.lin, fmt.lout, p) # -1
                THEN "permute" ELSE "failed"

channel_conv_create ==
  /\ remix.by = "none"
  /\ \E m \in CASE Converter = "downmix" -> {surround51_to_stereo_downmix_mtx(fmt.lin)}
                [] Converter = "permute" ->
                     {cras_channel_conv_matrix_create(fmt.nin, fmt.lin, fmt.lout)}
                [] Converter = "remix" /\ fmt.nin = 2 -> RemixMatrices
                [] OTHER -> {<<>>} :
       remix' = [by |-> Converter, mtx |-> m]
  /\ UNCHANGED <<fmt, frame, out>>

Convert(x) ==
  CASE remix.by = "mono_to_stereo" -> <<x[1], x[1]>>
    [] remix.by = "stereo_to_mono" -> <<s16_add_and_clip(x[1], x[2])>>
    [] remix.by = "mono_to_51" ->
         s16_mono_to_51(fmt.lout["FL"], fmt.lout["FR"], fmt.lout["FC"], x[1])
    [] remix.by = "stereo_to_51" ->
         s16_stereo_to_51(fmt.lout["FL"], fmt.lout["FR"], fmt.lout["FC"], x[1], x[2])
    [] remix.by = "51_to_stereo"   -> s16_51_to_stereo(x)
    [] remix.by = "stereo_to_quad" -> s16_stereo_to_quad(fmt.lout, x)
    [] remix.by = "quad_to_stereo" -> s16_quad_to_stereo(fmt.lin, x)
    [] remix.by = "all_to_all"     -> s16_default_all_to_all(x, fmt.nout)
    [] remix.by = "downmix"        -> s16_convert_channels(remix.mtx, x, TRUE)
    [] OTHER                      -> s16_convert_channels(remix.mtx, x, FALSE)

\* A frame of n samples; the code reads only whole frames.
convert_channels ==
  /\ remix.by \notin {"none", "failed"} /\ (remix.by = "remix" => remix.mtx # <<>>)
  /\ out = <<>>
  /\ \E x \in [1 .. fmt.nin -> {-Magnitude, 0, Magnitude}] :
       /\ frame' = x
       /\ out' = Convert(x)
  /\ UNCHANGED <<fmt, remix>>

ChannelNext == channel_conv_create \/ convert_channels

ChannelSpec == ChannelInit /\ [][ChannelNext]_channelVars

----------------------------------------------------------------------------
(* Properties.                                                             *)

\* No conversion turns a sample around: a frame in which every channel has
\* the same sign comes out with that sign or silent (sums clip, quotients
\* keep the sign).  s16_default_all_to_all divides by a size_t, which holds
\* for a power of two only.
SignKept ==
  LET powers == {1, 2, 4, 8} IN
  (out # <<>> /\ (remix.by = "all_to_all" => fmt.nin \in powers)) =>
    \A s \in {-1, 1} :
      (\A i \in DOMAIN frame : frame[i] * s >= 0) =>
        \A o \in DOMAIN out : out[o] * s >= 0

\* The same for every number of channels ("Channel converter: N channels to
\* M channels", cras_fmt_conv_ops.c); violated by three and six channels.
SignAlwaysKept ==
  out # <<>> => \A s \in {-1, 1} :
                  (\A i \in DOMAIN frame : frame[i] * s >= 0) =>
                    \A o \in DOMAIN out : out[o] * s >= 0

\* The frame with left and right exchanged in every pair of the layout.
Mirror(l, x) ==
  [i \in DOMAIN x |->
     LET ps == {p \in Positions : l[p] = i - 1 /\ l[Other[p]] # -1}
     IN  IF ps = {} THEN x[i] ELSE x[l[Other[CHOOSE p \in ps : TRUE]] + 1]]

\* Left stays left: exchanging left and right of the input of a downmix by
\* layout, of a permutation or of a quad conversion exchanges them in the
\* output, up to the rounding of each product
\* (surround51_to_stereo_downmix_mtx, cras_channel_conv_matrix_create).
SidesMirrored ==
  (out # <<>> /\ remix.by \in {"downmix", "permute", "quad_to_stereo"}) =>
    LET lo == IF fmt.nout = 2 THEN cras_audio_format_create(2) ELSE fmt.lout
    IN  (remix.by = "quad_to_stereo" => AllSet(fmt.lin, Quad)) =>
          \A o \in DOMAIN out :
            Convert(Mirror(fmt.lin, frame))[o] - Mirror(lo, out)[o]
              \in -fmt.nin .. fmt.nin

\* A channel that is set in the input layout is heard: a frame that is
\* silent elsewhere does not come out silent, and a layout whose channels
\* have no place in the output is refused (cras_channel_conv_matrix_create).
ChannelHeard ==
  (/\ out # <<>> /\ remix.by \in {"downmix", "permute"}
   /\ \E p \in Used(fmt.lin) :
        /\ frame[fmt.lin[p] + 1] # 0
        /\ \A i \in DOMAIN frame : i # fmt.lin[p] + 1 => frame[i] = 0)
  => \E o \in DOMAIN out : out[o] # 0
=============================================================================
