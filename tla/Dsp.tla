-------------------------------- MODULE Dsp ---------------------------------
(***************************************************************************)
(* Digital signal processing: the pipelines of plugins, the expressions    *)
(* that disable a plugin, and the compressor, the plugin with a state.     *)
(***************************************************************************)
EXTENDS Integers, Sequences, SequencesExt, FiniteSets, FiniteSetsExt, TLC

-----------------------------------------------------------------------------
(***************************************************************************)
(* cras_dsp_pipeline.c and the graph cras_dsp_ini.c builds: the plugins    *)
(* are sorted, disabled ones are bypassed, audio ports share as few        *)
(* buffers as possible, and the pipeline runs its instances in order over  *)
(* those buffers.  A plugin is a number; a port is <<plugin, index>>.      *)
(***************************************************************************)

CONSTANTS Middle,      \* number of plugins between source and sink
          Channels,    \* channels of the source
          BufferSize,  \* DSP_BUFFER_SIZE, in frames
          MaxApplied   \* frames given to one application of the pipeline

VARIABLES ini,        \* the plugin graph: ports, flows, what is disabled or cannot work in place
          pipeline,   \* the instances in order, their buffers and delays
          run         \* an application of the pipeline: pc, contents of the buffers, frames left

pipelineVars == <<ini, pipeline, run>>

Source == 1
Sink == Middle + 2
Plugins == 1..(Middle + 3)   \* the last one is swap_lr, when it is inserted
SwapLr == Middle + 3
Ports(p, n) == {<<p, k>> : k \in 1..n}
Inputs(g) == UNION {Ports(p, g.in[p]) : p \in Plugins}
InjectionsFrom(S, T) == {f \in [S -> T] : \A a, b \in S : a # b => f[a] # f[b]}

\* An ini: every input has one flow, from an output of an earlier section
Inis ==
  {g \in [in : [Plugins -> 0..Channels], out : [Plugins -> 0..Channels]] :
     /\ g.in[Source] = 0 /\ g.out[Source] = Channels
     /\ g.in[Sink] > 0 /\ g.out[Sink] = 0
     /\ g.in[SwapLr] = 0 /\ g.out[SwapLr] = 0
     /\ \A p \in Plugins \ {Source, Sink, SwapLr} : g.in[p] > 0 /\ g.out[p] > 0}

FlowsOf(g) ==
  {f \in InjectionsFrom(Inputs(g), UNION {Ports(p, g.out[p]) : p \in Plugins}) :
     \A i \in Inputs(g) : f[i][1] < i[1]}

\* A playback sink with two ports is fed through swap_lr
insert_swap_lr_plugin(g, f) ==
  IF g.in[Sink] # 2 THEN [in |-> g.in, out |-> g.out, flow |-> f]
  ELSE [in |-> [g.in EXCEPT ![SwapLr] = 2], out |-> [g.out EXCEPT ![SwapLr] = 2],
        flow |-> [i \in Inputs(g) \cup Ports(SwapLr, 2) |->
                    IF i[1] = SwapLr THEN f[<<Sink, i[2]>>]
                    ELSE IF i[1] = Sink THEN <<SwapLr, i[2]>> ELSE f[i]]]

NoPipeline == [order |-> <<>>, peer |-> <<>>, buf |-> <<>>, busy |-> {}, peak |-> 0, delay |-> <<>>, ok |-> FALSE]

PipelineInit ==
  /\ \E g \in Inis : \E f \in FlowsOf(g), off \in SUBSET (Plugins \ {Source, Sink}), bad \in SUBSET (2..Middle + 1) :
       ini = [graph |-> insert_swap_lr_plugin(g, f), disabled |-> off, broken |-> bad]
  /\ pipeline = NoPipeline
  /\ run = [pc |-> "create", next |-> 1, data |-> <<>>, frames |-> 0, done |-> 0]

-----------------------------------------------------------------------------
(* Creation *)

Outs(p) == Ports(p, ini.graph.out[p])
Ins(p) == Ports(p, ini.graph.in[p])

\* The output an input is fed from once disabled plugins are bypassed: their k-th output is their k-th
\* input.  <<>> when there is no such input
RECURSIVE find_origin_port(_)
find_origin_port(i) ==
  LET from == ini.graph.flow[i]
  IN IF from[1] \notin ini.disabled THEN from
     ELSE IF from[2] > ini.graph.in[from[1]] THEN <<>>
     ELSE find_origin_port(from)

\* Depth first from the sink; an enabled plugin comes after the ones that feed it
RECURSIVE topological_sort(_, _)
topological_sort(p, r) ==
  IF p \in r.visited THEN r
  ELSE LET fed == FoldLeftDomain(LAMBDA acc, k : topological_sort(ini.graph.flow[<<p, k>>][1], acc),
                                 [r EXCEPT !.visited = @ \cup {p}],
                                 [k \in 1..ini.graph.in[p] |-> k])
       IN IF p \in ini.disabled THEN fed ELSE [fed EXCEPT !.order = Append(@, p)]

\* It fails when an input has no origin, the source is not reached, or channels would be made up
cras_dsp_pipeline_create ==
  /\ run.pc = "create"
  /\ LET order == topological_sort(Sink, [visited |-> {}, order |-> <<>>]).order
         used == UNION {Ins(p) : p \in Range(order)}
         peer == [i \in used |-> find_origin_port(i)]
         ok == /\ \A i \in used : peer[i] # <<>>
               /\ Source \in Range(order)
               /\ ini.graph.in[Sink] <= ini.graph.out[Source]
     IN /\ pipeline' = [NoPipeline EXCEPT !.order = order, !.peer = peer, !.ok = ok]
        /\ run' = [run EXCEPT !.pc = IF ok THEN "size" ELSE "failed"]
  /\ UNCHANGED ini

-----------------------------------------------------------------------------
(* Buffers *)

\* mutant: a plugin that cannot work in place is counted like the others
PeakStep_inplace(acc, p) ==
  LET need == acc.need + ini.graph.out[p] - ini.graph.in[p]
  IN [need |-> need, peak |-> Max({acc.peak, need})]

\* A plugin that cannot work in place needs its outputs besides its inputs
PeakStep(acc, p) ==
  LET out == ini.graph.out[p]
      in == ini.graph.in[p]
      most == acc.need + (IF p \in ini.broken THEN out ELSE out - in)
  IN [need |-> acc.need + out - in, peak |-> Max({acc.peak, most})]

\* The first pass of allocate_buffers
count_buffers ==
  /\ run.pc = "size"
  /\ pipeline' = [pipeline EXCEPT !.peak = FoldLeft(PeakStep, [need |-> 0, peak |-> 0], pipeline.order).peak]
  /\ run' = [run EXCEPT !.pc = "allocate"]
  /\ UNCHANGED ini

\* mutant: the buffers taken are not marked busy
use_buffers_unmarked(busy, p) ==
  LET Take(acc, o) == LET k == Min((0..Cardinality(Plugins) * Channels) \ acc.busy)
                      IN [busy |-> acc.busy \cup {k}, at |-> (o :> k) @@ acc.at]
  IN [busy |-> busy, at |-> FoldLeft(Take, [busy |-> busy, at |-> <<>>], [k \in 1..ini.graph.out[p] |-> <<p, k>>]).at]

\* The lowest free buffers, in the order of the ports
use_buffers(busy, p) ==
  LET Take(acc, o) == LET k == Min((0..Cardinality(Plugins) * Channels) \ acc.busy)
                      IN [busy |-> acc.busy \cup {k}, at |-> (o :> k) @@ acc.at]
  IN FoldLeft(Take, [busy |-> busy, at |-> <<>>], [k \in 1..ini.graph.out[p] |-> <<p, k>>])

\* The buffers of one instance; its inputs are given back before or after its outputs are taken.
\* calculate_audio_delay goes over the instances in the same order
allocate_buffers(p) ==
  LET ins == {pipeline.buf[pipeline.peer[i]] : i \in Ins(p)}
      taken == IF p \in ini.broken THEN use_buffers(pipeline.busy, p) ELSE use_buffers(pipeline.busy \ ins, p)
  IN [pipeline EXCEPT !.buf = taken.at @@ @,
                      !.busy = IF p \in ini.broken THEN taken.busy \ ins ELSE taken.busy,
                      !.delay = (p :> 1 + Max({0} \cup {pipeline.delay[pipeline.peer[i][1]] : i \in Ins(p)})) @@ @]

cras_dsp_pipeline_load ==
  /\ run.pc = "allocate"
  /\ IF run.next > Len(pipeline.order)
     THEN /\ run' = [run EXCEPT !.pc = "ready", !.next = 1]
          /\ UNCHANGED pipeline
     ELSE /\ pipeline' = allocate_buffers(pipeline.order[run.next])
          /\ run' = [run EXCEPT !.next = @ + 1]
  /\ UNCHANGED ini

-----------------------------------------------------------------------------
(* Running *)

Chunk(left) == Min({left, BufferSize})

cras_dsp_pipeline_apply ==
  /\ run.pc = "ready" /\ run.done = 0
  /\ \E n \in 1..MaxApplied :
       run' = [run EXCEPT !.pc = "block", !.frames = n, !.next = 1, !.data = <<>>]
  /\ UNCHANGED <<ini, pipeline>>

\* One module runs: it reads its inputs' buffers and writes its outputs'.  Every buffer holds
\* the port that wrote it
cras_dsp_pipeline_run ==
  /\ run.pc = "block" /\ run.next <= Len(pipeline.order)
  /\ LET p == pipeline.order[run.next]
     IN run' = [run EXCEPT !.next = @ + 1,
                           !.data = [k \in {pipeline.buf[o] : o \in Outs(p)} |->
                                       CHOOSE o \in Outs(p) : pipeline.buf[o] = k] @@ @]
  /\ UNCHANGED <<ini, pipeline>>

\* dsp_util_interleave, and the next block
block_done ==
  /\ run.pc = "block" /\ run.next > Len(pipeline.order)
  /\ LET left == run.frames - Chunk(run.frames)
     IN run' = [run EXCEPT !.frames = left, !.done = @ + Chunk(run.frames), !.next = 1,
                           !.pc = IF left = 0 THEN "ready" ELSE "block"]
  /\ UNCHANGED <<ini, pipeline>>

PipelineNext ==
  \/ cras_dsp_pipeline_create \/ count_buffers \/ cras_dsp_pipeline_load
  \/ cras_dsp_pipeline_apply \/ cras_dsp_pipeline_run \/ block_done

PipelineSpec == PipelineInit /\ [][PipelineNext]_pipelineVars

-----------------------------------------------------------------------------
(* Properties *)

\* When a module is about to run, the buffer of each of its inputs holds what the output that feeds it
\* wrote, and is not one the module writes while it still reads, unless it can work in place: the order
\* is right and no buffer was given to another port too early.
InputsIntact ==
  run.pc = "block" /\ run.next <= Len(pipeline.order) =>
    LET p == pipeline.order[run.next]
    IN \A i \in Ins(p) :
         LET k == pipeline.buf[pipeline.peer[i]]
         IN /\ k \in DOMAIN run.data /\ run.data[k] = pipeline.peer[i]
            /\ p \in ini.broken => \A o \in Outs(p) : pipeline.buf[o] # k

\* allocate_buffers never takes a buffer past the peak_buf it allocated.
WithinPeak == \A o \in DOMAIN pipeline.buf : pipeline.buf[o] < pipeline.peak

-----------------------------------------------------------------------------
(***************************************************************************)
(* The expressions with which a DSP ini file disables plugins              *)
(* (cras_expr.c): the parser, the environment of a DSP context and the     *)
(* evaluation, as cras_dsp.c and cras_dsp_pipeline.c use them.             *)
(*                                                                         *)
(* A text is a sequence of tokens: parentheses, literals, names, and a "#" *)
(* that is not followed by t or f.  A value is named by the way it is      *)
(* written; a builtin function by its name; "none" is a value with no type.*)
(***************************************************************************)

CONSTANTS MaxTokens     \* length of the texts that are written freely

VARIABLES text,         \* the expression in the ini file
          whole,        \* it is the writing of an expression
          env,          \* the variables of the context
          disabled      \* [rc, b]: the last answer of is_disabled

exprVars == <<text, whole, env, disabled>>

Functions == {"not", "and", "or", "equal?"}

Booleans == {"#t", "#f"}

Literals == Booleans \union {"1", "\"s\""}

Variables == {"disable_eq", "dsp_name"}

Tokens == {"(", ")", "#", "#t", "and", "disable_eq", "unknown"}

----------------------------------------------------------------------------
(* Parsing.  An expression is [k, v, sub]: a literal or variable v, or a    *)
(* compound of the expressions sub.                                        *)

Leaf(v) == [k |-> "leaf", v |-> v, sub |-> <<>>]

Compound(es) == [k |-> "compound", v |-> "", sub |-> es]

Null == [k |-> "null", v |-> "", sub |-> <<>>]

RECURSIVE parse_one_expr(_, _), parse_list(_, _, _)

Closed_any(ts, i) == TRUE

\* After the last element of a compound the text must go on with ")".
Closed(ts, i) == i <= Len(ts) /\ ts[i] = ")"

\* The expression at position i of the tokens, and the position behind it.
parse_one_expr(ts, i) ==
  IF i > Len(ts) THEN [e |-> Null, i |-> i]
  ELSE CASE ts[i] = "(" ->
              LET l == parse_list(ts, i + 1, <<>>) IN
              IF Closed(ts, l.i) THEN [e |-> Compound(l.es), i |-> l.i + 1]
              ELSE [e |-> Null, i |-> l.i]
         [] ts[i] = ")" -> [e |-> Null, i |-> i]
         [] ts[i] = "#" -> [e |-> Null, i |-> i + 1]
         [] OTHER       -> [e |-> Leaf(ts[i]), i |-> i + 1]

parse_list(ts, i, es) ==
  LET next == parse_one_expr(ts, i) IN
  IF next.e = Null THEN [es |-> es, i |-> next.i]
  ELSE parse_list(ts, next.i, Append(es, next.e))

cras_expr_expression_parse(ts) == parse_one_expr(ts, 1)

----------------------------------------------------------------------------
(* Evaluation.                                                             *)

function_not(vs) ==
  IF Len(vs) # 2 THEN "none" ELSE IF vs[2] = "#f" THEN "#t" ELSE "#f"

function_and(vs) ==
  IF Len(vs) <= 1 THEN "#t"
  ELSE IF \E i \in 2 .. Len(vs) : vs[i] = "#f" THEN "#f" ELSE vs[Len(vs)]

function_or_last(vs) ==
  IF Len(vs) <= 1 THEN "#f" ELSE vs[Len(vs)]

function_or(vs) ==
  LET true == {i \in 2 .. Len(vs) : vs[i] # "#f"} IN
  IF true = {} THEN "#f" ELSE vs[CHOOSE i \in true : \A j \in true : i <= j]

function_equal(vs) ==
  IF \A i \in 3 .. Len(vs) : vs[i - 1] = vs[i] THEN "#t" ELSE "#f"

find_value(name) ==
  IF name \in DOMAIN env THEN env[name] ELSE "none"

RECURSIVE cras_expr_expression_eval(_)

cras_expr_expression_eval(e) ==
  IF e.k = "leaf" THEN IF e.v \in Literals THEN e.v ELSE find_value(e.v)
  ELSE LET vs == [i \in DOMAIN e.sub |-> cras_expr_expression_eval(e.sub[i])]
           f  == IF vs = <<>> THEN "none" ELSE vs[1]
       IN  CASE f = "not"    -> function_not(vs)
             [] f = "and"    -> function_and(vs)
             [] f = "or"     -> function_or(vs)
             [] f = "equal?" -> function_equal(vs)
             [] OTHER        -> "none"

cras_expr_expression_eval_boolean(e) ==
  LET v == cras_expr_expression_eval(e)
  IN  [rc |-> IF v \in Booleans THEN 0 ELSE -1, b |-> v = "#t"]

----------------------------------------------------------------------------

RECURSIVE Written(_)

Written(e) ==
  IF e.k = "leaf" THEN <<e.v>>
  ELSE <<"(">> \o FlattenSeq([i \in DOMAIN e.sub |-> Written(e.sub[i])]) \o <<")">>

\* Calls of the builtin functions on up to two operands.
Calls(operands) ==
  {Compound(<<Leaf(f)>> \o s) :
     f \in Functions, s \in {<<>>} \union {<<a>> : a \in operands}
                            \union {<<a, b>> : a, b \in operands}}

Leaves == {Leaf(v) : v \in Literals \union Variables}

Simple == Calls({Leaf("#t"), Leaf("disable_eq")}) \union {Leaf("dsp_name"), Leaf("1")}

Exprs == Leaves \union Calls(Leaves) \union Calls(Simple)

\* initialize_environment of cras_dsp.c, after the builtins.
ExprInit ==
  /\ \/ text = <<>> /\ whole = FALSE
     \/ whole = TRUE /\ text \in {Written(e) : e \in Exprs}
  /\ env = [n \in Functions \union Variables |->
              IF n \in Functions THEN n
              ELSE IF n = "disable_eq" THEN "#f" ELSE "\"\""]
  /\ disabled = [rc |-> -1, b |-> FALSE]

\* The ini file is written by hand.
Write ==
  /\ ~whole /\ Len(text) < MaxTokens
  /\ \E t \in Tokens : text' = Append(text, t)
  /\ UNCHANGED <<whole, env, disabled>>

\* cras_dsp_set_variable_boolean and cras_dsp_set_variable_string.
cras_dsp_set_variable ==
  /\ whole
  /\ \/ \E b \in Booleans : env' = [env EXCEPT !["disable_eq"] = b]
     \/ env' = [env EXCEPT !["dsp_name"] = "\"s\""]
  /\ UNCHANGED <<text, whole, disabled>>

\* is_disabled: evaluated when a pipeline is made of the ini file.
is_disabled ==
  LET p == cras_expr_expression_parse(text) IN
  /\ p.e # Null
  /\ disabled' = cras_expr_expression_eval_boolean(p.e)
  /\ UNCHANGED <<text, whole, env>>

ExprNext == Write \/ cras_dsp_set_variable \/ is_disabled

ExprSpec == ExprInit /\ [][ExprNext]_exprVars

----------------------------------------------------------------------------
(* Properties.                                                             *)

\* An expression that the parser returns is the one that was written: its
\* tokens are those that were consumed, nothing is dropped and nothing taken
\* over an unbalanced parenthesis; and a written expression is parsed.  A "#"
\* without t or f is swallowed by an enclosing compound (parse_one_expr).
ParsedAsWritten ==
  LET p == cras_expr_expression_parse(text) IN
  /\ whole => p.e # Null /\ p.i = Len(text) + 1
  /\ (p.e # Null /\ "#" \notin Range(text)) =>
       /\ p.i <= Len(text) + 1
       /\ Written(p.e) = SubSeq(text, 1, p.i - 1)

\* What an expression says, in the logic of two values: everything but #f
\* holds, a call with the wrong number of operands has no value.
RECURSIVE Holds(_)

Holds(e) ==
  IF e.k = "leaf" THEN (IF e.v \in Variables THEN env[e.v] ELSE e.v) # "#f"
  ELSE LET operands == Tail(e.sub) IN
       CASE e.sub[1].v = "not" -> Len(operands) # 1 \/ ~Holds(operands[1])
         [] e.sub[1].v = "and" -> \A i \in DOMAIN operands : Holds(operands[i])
         [] e.sub[1].v = "or"  -> \E i \in DOMAIN operands : Holds(operands[i])
         [] OTHER -> \A i, j \in DOMAIN operands :
                       cras_expr_expression_eval(operands[i]) =
                         cras_expr_expression_eval(operands[j])

\* The evaluation of nested calls agrees with the logic of the expression
\* for every setting of the variables (cras_expr_expression_eval).
EvaluatedAsMeant ==
  whole => LET e == cras_expr_expression_parse(text).e
           IN  (cras_expr_expression_eval(e) # "#f") <=> Holds(e)

-----------------------------------------------------------------------------
(***************************************************************************)
(* The three-band compressor of the DSP pipelines (dsp/drc.c and           *)
(* dsp/drc_kernel.c): every band is delayed in a ring of Ring frames and,  *)
(* where it is enabled, compressed one division of Division frames at a    *)
(* time with an envelope that looks at the input that is not yet output.   *)
(*                                                                         *)
(* A frame is its position in the input, -1 the silence of an empty ring.  *)
(* Gains are abstracted to where they come from: `seen` is the number of   *)
(* input frames that were in the detector when the frame was compressed.   *)
(***************************************************************************)

CONSTANTS Ring,         \* MAX_PRE_DELAY_FRAMES, a multiple of Division
          Division,     \* DIVISION_FRAMES
          Default,      \* DEFAULT_PRE_DELAY_FRAMES
          Delays,       \* the pre-delays asked for, in frames
          MaxCall,      \* frames of one call of drc_process
          MaxFrames     \* bound on the frames that are processed

VARIABLES kernel,       \* the kernels of the three bands
          fed,          \* frames processed so far
          out           \* what the last call gave, per band

drcVars == <<kernel, fed, out>>

Bands == 0 .. 2

Slots == 0 .. Ring - 1

Frame(n) == [n |-> n, seen |-> -1, times |-> 0]

Silence == Frame(-1)

Lesser(a, b) == IF a < b THEN a ELSE b

Greater(a, b) == IF a > b THEN a ELSE b

----------------------------------------------------------------------------
(* drc_kernel.c.                                                           *)

dk_init ==
  [enabled |-> FALSE, processed |-> FALSE, last |-> Default, read |-> 0, write |-> Default,
   buf |-> [i \in Slots |-> Silence], detected |-> 0, envelope |-> -1]

PreDelay(frames) ==
  Greater((Lesser(frames, Ring - 1) \div Division) * Division, Division)

set_pre_delay_time(dk, frames) ==
  LET p == PreDelay(frames) IN
  IF dk.last = p THEN dk
  ELSE [dk EXCEPT !.last = p, !.read = 0, !.write = p, !.buf = [i \in Slots |-> Silence]]

\* The last input division, which ends at the write index, is detected.
dk_update_detector_average(dk) ==
  LET start == IF dk.write = 0 THEN Ring - Division ELSE dk.write - Division
  IN  [dk EXCEPT !.detected = dk.buf[start + Division - 1].n + 1]

dk_update_envelope(dk) == [dk EXCEPT !.envelope = dk.detected]

\* The division at the read index is multiplied with the envelope.
dk_compress_output(dk) ==
  [dk EXCEPT !.buf = [i \in Slots |->
     IF i \in dk.read .. dk.read + Division - 1
     THEN [@[i] EXCEPT !.seen = dk.envelope, !.times = @ + 1] ELSE @[i]]]

dk_process_one_division(dk) ==
  dk_compress_output(dk_update_envelope(dk_update_detector_average(dk)))

\* The next c frames of the data go into the ring, then c frames come out.
dk_copy_fragment(dk, data, i, c) ==
  LET buf == [p \in Slots |-> IF p \in dk.write .. dk.write + c - 1
                              THEN data[i + p - dk.write + 1] ELSE dk.buf[p]]
  IN  [dk   |-> [dk EXCEPT !.buf = buf, !.write = (@ + c) % Ring, !.read = (@ + c) % Ring],
       data |-> [j \in DOMAIN data |-> IF j \in i + 1 .. i + c
                                       THEN buf[dk.read + j - i - 1] ELSE data[j]]]

Fragment_whole(dk, left) == Lesser(Ring - Greater(dk.read, dk.write), left)

\* What is contiguous in the ring for the reader and for the writer.
Fragment(dk, left) ==
  LET small == Lesser(dk.read, dk.write)
      large == Greater(dk.read, dk.write)
  IN  Lesser(Lesser(large - small, Ring - large), left)

RECURSIVE dk_process_delay_only(_, _, _)

dk_process_delay_only(dk, data, i) ==
  IF i >= Len(data) THEN [dk |-> dk, data |-> data]
  ELSE LET c == Fragment(dk, Len(data) - i)
           f == dk_copy_fragment(dk, data, i, c)
       IN  dk_process_delay_only(f.dk, f.data, i + c)

RECURSIVE Divisions(_, _, _, _)

\* The loop of dk_process.
Divisions(dk, data, i, offset) ==
  IF i >= Len(data) THEN [dk |-> dk, data |-> data]
  ELSE LET c    == Lesser(Division - offset, Len(data) - i)
           f    == dk_copy_fragment(dk, data, i, c)
           next == (offset + c) % Division
       IN  Divisions(IF next = 0 THEN dk_process_one_division(f.dk) ELSE f.dk,
                     f.data, i + c, next)

FirstOffset_zero(dk) == 0

FirstOffset(dk) == dk.write % Division

dk_process(dk, data) ==
  IF ~dk.enabled THEN dk_process_delay_only(dk, data, 0)
  ELSE LET ready == IF dk.processed THEN dk
                    ELSE [dk_compress_output(dk_update_envelope(dk)) EXCEPT !.processed = TRUE]
       IN  Divisions(ready, data, 0, FirstOffset(dk))

----------------------------------------------------------------------------
(* drc.c.  The parameters of a band are set before the first frames.       *)

\* init_kernel: every band has the same pre-delay and is enabled by itself.
DrcInit ==
  /\ \E delay \in Delays, enabled \in SUBSET Bands :
       kernel = [b \in Bands |->
                   [set_pre_delay_time(dk_init, delay) EXCEPT !.enabled = (b \in enabled)]]
  /\ fed = 0
  /\ out = [b \in Bands |-> <<>>]

\* The crossover gives every band its part of each frame; the bands are then
\* processed in place and summed frame by frame.
drc_process(frames) ==
  LET data == [i \in 1 .. frames |-> Frame(fed + i - 1)] IN
  /\ fed + frames <= MaxFrames
  /\ \E done \in {[b \in Bands |-> dk_process(kernel[b], data)]} :
       /\ kernel' = [b \in Bands |-> done[b].dk]
       /\ out' = [b \in Bands |-> done[b].data]
  /\ fed' = fed + frames

DrcNext == \E frames \in 1 .. MaxCall : drc_process(frames)

DrcSpec == DrcInit /\ [][DrcNext]_drcVars

----------------------------------------------------------------------------
(* Properties.                                                             *)

Position(i) == fed - Len(out[0]) + i - 1

\* What is summed belongs together: at every position every band gives the
\* input of exactly one pre-delay earlier, compressed or delayed only,
\* however the input was cut into calls and wherever the ring wraps.
BandsAligned ==
  \A b \in Bands : \A i \in DOMAIN out[b] :
    LET n == Position(i) - kernel[b].last
    IN  out[b][i].n = IF n < 0 THEN -1 ELSE n

\* An enabled band compresses each frame once, with an envelope that has seen
\* all the input up to the division in which the frame is output; so the
\* sound does not depend on the sizes of the calls.
EnvelopeAhead ==
  \A b \in Bands : \A i \in DOMAIN out[b] :
    LET o == out[b][i] IN
    IF kernel[b].enabled
    THEN o.times = 1 /\ o.seen = (Position(i) \div Division) * Division
    ELSE o.times = 0
=============================================================================
