---------------------------- MODULE AudioProofs -----------------------------
(***************************************************************************)
(* Proofs about the audio thread as MCAudio composes it, for any devices   *)
(* and streams and however many commands and changes: audio processing     *)
(* follows the devices, the threads stay in step, and captured frames      *)
(* reach each stream once.                                                 *)
(***************************************************************************)
EXTENDS MCAudio, SequenceTheorems, FiniteSetTheorems, WellFoundedInduction, TLAPS

-----------------------------------------------------------------------------
(* Lists.                                                                  *)

LEMMA RemovedAt ==
    ASSUME NEW S, NEW q \in Seq(S), NEW i \in 1..Len(q)
    PROVE  /\ RemoveAt(q, i) \in Seq(S) /\ Len(RemoveAt(q, i)) = Len(q) - 1
           /\ \A j \in 1..Len(q) - 1 : RemoveAt(q, i)[j] = IF j < i THEN q[j] ELSE q[j + 1]
<1> DEFINE a == SubSeq(q, 1, i - 1)
           b == SubSeq(q, i + 1, Len(q))
           w == a \o b
<1>0. Len(q) \in Nat /\ i \in Nat
  OBVIOUS
<1>1. a \in Seq(S) /\ Len(a) = i - 1 /\ \A j \in 1..i - 1 : a[j] = q[j]
  BY <1>0
<1>2. b \in Seq(S) /\ Len(b) = Len(q) - i /\ \A j \in 1..Len(q) - i : b[j] = q[i + j]
  BY <1>0
<1> HIDE DEF a, b
<1>3. w \in Seq(S) /\ Len(w) = Len(q) - 1
  <2>1. w \in Seq(S) /\ Len(w) = Len(a) + Len(b)
    BY <1>1, <1>2, ConcatProperties
  <2> QED BY <2>1, <1>0, <1>1, <1>2
<1>4. ASSUME NEW j \in 1..Len(q) - 1 PROVE w[j] = IF j < i THEN q[j] ELSE q[j + 1]
  <2>1. CASE j < i
    BY <2>1, <1>0, <1>1, <1>2
  <2>2. CASE ~(j < i)
    <3>1. j \in 1..Len(a) + Len(b) /\ ~(j <= Len(a))
      BY <2>2, <1>0, <1>1, <1>2
    <3>2. w[j] = b[j - Len(a)]
      BY <3>1, <1>1, <1>2, ConcatProperties
    <3>3. j - Len(a) \in 1..Len(q) - i /\ i + (j - Len(a)) = j + 1
      BY <2>2, <1>0, <1>1
    <3> QED BY <2>2, <3>2, <3>3, <1>2
  <2> QED BY <2>1, <2>2
<1> QED BY <1>3, <1>4 DEF RemoveAt, a, b

\* Removing an element of a list without duplicates leaves the others, in their order.
LEMMA RemovedDistinct ==
    ASSUME NEW S, NEW q \in Seq(S), NEW i \in 1..Len(q),
           \A j, k \in 1..Len(q) : q[j] = q[k] => j = k
    PROVE  LET w == RemoveAt(q, i)
           IN /\ \A j, k \in 1..Len(w) : w[j] = w[k] => j = k
              /\ i > 1 => w # <<>> /\ w[1] = q[1]
              /\ w = <<>> => Len(q) = 1
<1> DEFINE w == RemoveAt(q, i)
<1>1. /\ w \in Seq(S) /\ Len(w) = Len(q) - 1 /\ Len(q) \in Nat /\ i \in Nat
      /\ \A j \in 1..Len(q) - 1 : w[j] = IF j < i THEN q[j] ELSE q[j + 1]
  <2>1. Len(q) \in Nat /\ i \in Nat
    OBVIOUS
  <2>2. /\ w \in Seq(S) /\ Len(w) = Len(q) - 1
        /\ \A j \in 1..Len(q) - 1 : w[j] = IF j < i THEN q[j] ELSE q[j + 1]
    BY RemovedAt, Zenon
  <2> QED BY <2>1, <2>2
<1> HIDE DEF w
<1>2. ASSUME NEW j \in 1..Len(w), NEW k \in 1..Len(w), w[j] = w[k] PROVE j = k
  <2>1. /\ w[j] = q[IF j < i THEN j ELSE j + 1] /\ w[k] = q[IF k < i THEN k ELSE k + 1]
        /\ (IF j < i THEN j ELSE j + 1) \in 1..Len(q) /\ (IF k < i THEN k ELSE k + 1) \in 1..Len(q)
    BY <1>1
  <2>2. (IF j < i THEN j ELSE j + 1) = (IF k < i THEN k ELSE k + 1)
    BY <1>2, <2>1
  <2> QED BY <2>2, <1>1
<1>3. ASSUME i > 1 PROVE w # <<>> /\ w[1] = q[1]
  <2>1. 1 \in 1..Len(q) - 1 /\ Len(w) # 0
    BY <1>1, <1>3
  <2> QED BY <2>1, <1>1, <1>3
<1>4. w = <<>> => Len(q) = 1
  BY <1>1
<1> QED BY <1>2, <1>3, <1>4 DEF w

-----------------------------------------------------------------------------
(* Audio processing: cras_apm_list.c, cras_iodev.c and cras_dsp.c.         *)

EchoOf == [o \in AecOutputs |-> IF o = o1 THEN i1 ELSE o]
AecDevs == AecOutputs \cup AecInputs \cup {EchoOf[o] : o \in AecOutputs}
Exts == {"none", "input_data", "reverse"}
Pipes == [ini : Nat, ext : Exts]
DevStates == [open : BOOLEAN, fmt : 0..2, ext : Exts, ctx : BOOLEAN, pipe : Pipes, lost : BOOLEAN]
Apms == [dev : AecDevs, fmt : 0..2]
Inis == [global : Nat, live : SUBSET Nat, next : Nat]

\* A device without a context has no pipeline, and the module of an open one runs in its
\* pipeline until that is loaded again.
DevSound(x) ==
    /\ ~x.ctx => x.pipe = Aec!NoPipe
    /\ x.open /\ ~x.lost => x.pipe.ext = x.ext

\* Every ini in use is in memory, and no two devices share one that is not the global one:
\* destroying a pipeline frees its ini.
InisSound(v, m) ==
    /\ m.global \in m.live /\ m.global # 0
    /\ \A i \in m.live : i < m.next
    /\ \A d \in AecDevs : v[d].pipe.ini \in m.live \cup {0}
    /\ \A d, e \in AecDevs :
         d # e /\ v[d].pipe.ini = v[e].pipe.ini => v[d].pipe.ini \in {0, m.global}

\* A processing object of a stream was made for an open device, with the format it has:
\* close_dev takes it away, also from streams that are not attached any more.
ApmsCurrent ==
    \A s \in AecStreams : \A a \in aecStream[s].apms :
        dev[a.dev].open /\ a.fmt = dev[a.dev].fmt

AecType ==
    /\ dev \in [AecDevs -> DevStates]
    /\ enabled \in Seq(AecOutputs)
    /\ aecStream \in [AecStreams -> [on : SUBSET AecDevs, apms : SUBSET Apms]]
    /\ active \subseteq AecStreams \X Apms
    /\ rmodule \in [odev : AecDevs \cup {"none"}, process : BOOLEAN]
    /\ ini \in Inis

AecInv ==
    /\ AecType
    /\ \A j, k \in 1..Len(enabled) : enabled[j] = enabled[k] => j = k
    /\ ApmsCurrent
    /\ Aec!ActiveIsCurrent
    /\ Aec!ReverseFollowsOutput
    /\ \A d \in AecDevs : DevSound(dev[d])
    /\ ~LoadFails => InisSound(dev, ini)

LEMMA AecDevsAre == Aec!AllDevs = AecDevs /\ "none" \notin AecDevs
<1>1. Aec!AllDevs = AecDevs
  BY DEF Aec!AllDevs, AecDevs, EchoOf
<1>2. AecDevs \subseteq AecOutputs \cup AecInputs
  BY AecAssumption DEF AecDevs, EchoOf
<1> QED BY <1>1, <1>2, AecAssumption

LEMMA AecInit == Aec!Init => AecInv
<1> SUFFICES ASSUME Aec!Init PROVE AecInv
  OBVIOUS
<1> USE AecDevsAre
<1>1. /\ dev = [d \in AecDevs |-> Aec!Closed]
      /\ enabled = <<>> /\ active = {}
      /\ aecStream = [s \in AecStreams |-> [on |-> {}, apms |-> {}]]
      /\ rmodule = [odev |-> "none", process |-> FALSE]
      /\ ini = [global |-> 1, live |-> {1}, next |-> 2]
  BY DEF Aec!Init, Aec!None
<1>2. Aec!Closed \in DevStates /\ Aec!Closed.ext = "none" /\ DevSound(Aec!Closed)
      /\ Aec!Closed.pipe.ini = 0
  BY DEF Aec!Closed, Aec!NoPipe, DevStates, Pipes, Exts, Aec!None, DevSound
<1>3. AecType
  <2>1. enabled \in Seq(AecOutputs)
    BY <1>1
  <2> QED BY <1>1, <1>2, <2>1 DEF AecType, Inis
<1>4. ApmsCurrent /\ Aec!ActiveIsCurrent
  BY <1>1 DEF ApmsCurrent, Aec!ActiveIsCurrent
<1>5. Aec!ReverseFollowsOutput
  BY <1>1, <1>2 DEF Aec!ReverseFollowsOutput, Aec!None
<1>6. InisSound(dev, ini)
  BY <1>1, <1>2 DEF InisSound
<1>7. \A j, k \in 1..Len(enabled) : enabled[j] = enabled[k] => j = k
  BY <1>1
<1> QED BY <1>1, <1>2, <1>3, <1>4, <1>5, <1>6, <1>7 DEF AecInv

\* What attaching or releasing a module does to a device: its pipeline keeps its ini, or is
\* a new one with an ini of its own.
Attached1(x, m, y, n) ==
    /\ y \in DevStates /\ n \in Inis
    /\ y.open = x.open /\ y.fmt = x.fmt /\ y.ext = x.ext
    /\ \/ n = m /\ y.pipe.ini = x.pipe.ini
       \/ /\ x.pipe.ini = 0 /\ y.pipe.ini = m.next
          /\ n = [m EXCEPT !.live = @ \cup {m.next}, !.next = @ + 1]

WithExt(x, e) == [x EXCEPT !.pipe.ext = e, !.lost = FALSE]

LEMMA PipeExt ==
    ASSUME NEW x \in DevStates, NEW e \in Exts
    PROVE  LET y == WithExt(x, e)
           IN /\ y \in DevStates /\ y.open = x.open /\ y.fmt = x.fmt /\ y.ext = x.ext
              /\ y.ctx = x.ctx /\ y.pipe.ini = x.pipe.ini /\ y.pipe.ext = e /\ y.lost = FALSE
<1> DEFINE p == [x.pipe EXCEPT !.ext = e]
           y == WithExt(x, e)
<1>1. x.pipe \in Pipes
  BY DEF DevStates
<1>2. p \in Pipes /\ p.ini = x.pipe.ini /\ p.ext = e
  BY <1>1 DEF Pipes
<1>3. y = [x EXCEPT !.pipe = p, !.lost = FALSE]
  BY DEF WithExt
<1> HIDE DEF p, y
<1>4. /\ y.open = x.open /\ y.fmt = x.fmt /\ y.ext = x.ext
      /\ y.ctx = x.ctx /\ y.pipe = p /\ y.lost = FALSE
  BY <1>3 DEF DevStates
<1>5. y \in DevStates
  BY <1>2, <1>3 DEF DevStates
<1> QED BY <1>2, <1>4, <1>5 DEF y

LEMMA IniMade ==
    ASSUME NEW m \in Inis
    PROVE  LET g == [m EXCEPT !.live = @ \cup {m.next}, !.next = @ + 1]
           IN g \in Inis /\ g.live = m.live \cup {m.next} /\ g.next = m.next + 1 /\ g.global = m.global
<1>1. m.live \in SUBSET Nat /\ m.next \in Nat /\ m.global \in Nat
  BY DEF Inis
<1>2. m.live \cup {m.next} \in SUBSET Nat /\ m.next + 1 \in Nat
  BY <1>1
<1> QED BY <1>2 DEF Inis

LEMMA AddExt ==
    ASSUME NEW x \in DevStates, NEW m \in Inis, ~x.ctx => x.pipe = Aec!NoPipe
    PROVE  LET r == Aec!add_ext_dsp_module_to_pipeline(x, m)
           IN Attached1(x, m, r[1], r[2]) /\ DevSound(r[1])
<1> DEFINE r == Aec!add_ext_dsp_module_to_pipeline(x, m)
<1>0. x.ext \in Exts
  BY DEF DevStates
<1>1. CASE x.ctx /\ x.pipe # Aec!NoPipe
  <2> DEFINE y == WithExt(x, x.ext)
  <2>1. r = <<y, m>>
    BY <1>1 DEF WithExt, Aec!add_ext_dsp_module_to_pipeline
  <2> HIDE DEF y
  <2>2. /\ y \in DevStates /\ y.open = x.open /\ y.fmt = x.fmt /\ y.ext = x.ext
        /\ y.ctx = x.ctx /\ y.pipe.ini = x.pipe.ini /\ y.pipe.ext = x.ext
    BY <1>0, PipeExt DEF y
  <2>3. Attached1(x, m, y, m) /\ DevSound(y)
    BY <1>1, <2>2 DEF Attached1, DevSound
  <2> QED BY <2>1, <2>3
<1>2. CASE ~(x.ctx /\ x.pipe # Aec!NoPipe)
  <2> DEFINE g == [m EXCEPT !.live = @ \cup {m.next}, !.next = @ + 1]
             b == [x EXCEPT !.ctx = TRUE, !.pipe = [ini |-> m.next, ext |-> "none"]]
             y == WithExt(b, x.ext)
  <2>1. r = <<y, g>>
    BY <1>2 DEF WithExt, Aec!add_ext_dsp_module_to_pipeline, Aec!cras_dsp_load_dummy_pipeline,
       Aec!None
  <2>2. b \in DevStates /\ b.open = x.open /\ b.fmt = x.fmt /\ b.ext = x.ext /\ b.ctx
        /\ b.pipe = [ini |-> m.next, ext |-> "none"]
    BY DEF DevStates, Pipes, Inis, Exts
  <2>3. g \in Inis
    BY IniMade
  <2>4. x.pipe.ini = 0
    BY <1>2 DEF Aec!NoPipe
  <2> HIDE DEF b, y, r
  <2>5. /\ y \in DevStates /\ y.open = b.open /\ y.fmt = b.fmt /\ y.ext = b.ext
        /\ y.ctx = b.ctx /\ y.pipe.ini = b.pipe.ini /\ y.pipe.ext = x.ext
    BY <1>0, <2>2, PipeExt, ZenonT(60) DEF y
  <2>6. b.pipe.ini = m.next
    BY <2>2
  <2>7. Attached1(x, m, y, g)
    BY <2>2, <2>3, <2>4, <2>5, <2>6 DEF Attached1
  <2>8. DevSound(y)
    BY <2>2, <2>5 DEF DevSound
  <2> HIDE DEF g
  <2> QED BY <2>1, <2>7, <2>8 DEF r
<1> QED BY <1>1, <1>2

LEMMA ReleaseExt ==
    ASSUME NEW x \in DevStates, NEW m \in Inis, ~x.ctx => x.pipe = Aec!NoPipe, x.ext = "none"
    PROVE  LET y == Aec!release_ext_dsp_module_from_pipeline(x)
           IN Attached1(x, m, y, m) /\ DevSound(y)
<1> DEFINE y == Aec!release_ext_dsp_module_from_pipeline(x)
<1>1. CASE x.ctx /\ x.pipe # Aec!NoPipe
  <2>1. y = WithExt(x, "none")
    BY <1>1 DEF WithExt, Aec!release_ext_dsp_module_from_pipeline, Aec!None
  <2> HIDE DEF y
  <2>2. /\ y \in DevStates /\ y.open = x.open /\ y.fmt = x.fmt /\ y.ext = x.ext
        /\ y.ctx = x.ctx /\ y.pipe.ini = x.pipe.ini /\ y.pipe.ext = x.ext
    BY <2>1, PipeExt DEF Exts
  <2> QED BY <1>1, <2>2 DEF Attached1, DevSound, y
<1>2. CASE ~(x.ctx /\ x.pipe # Aec!NoPipe)
  <2>1. y = [x EXCEPT !.lost = FALSE]
    BY <1>2 DEF Aec!release_ext_dsp_module_from_pipeline
  <2>2. x.pipe = Aec!NoPipe /\ x.pipe.ext = "none"
    BY <1>2 DEF Aec!NoPipe, Aec!None
  <2> HIDE DEF y
  <2>3. /\ y \in DevStates /\ y.open = x.open /\ y.fmt = x.fmt /\ y.ext = x.ext
        /\ y.ctx = x.ctx /\ y.pipe = x.pipe
    BY <2>1 DEF DevStates
  <2> QED BY <2>2, <2>3 DEF Attached1, DevSound, y
<1> QED BY <1>1, <1>2

LEMMA InisKept ==
    ASSUME NEW v \in [AecDevs -> DevStates], NEW m \in Inis, NEW d \in AecDevs,
           NEW x, NEW y, NEW n, Attached1(x, m, y, n), x.pipe = v[d].pipe,
           InisSound(v, m)
    PROVE  InisSound([v EXCEPT ![d] = y], n)
<1> DEFINE w == [v EXCEPT ![d] = y]
<1>1. /\ \A e \in AecDevs : e # d => w[e] = v[e]
      /\ w[d] = y
  OBVIOUS
<1>2. CASE n = m /\ y.pipe.ini = x.pipe.ini
  <2>1. \A e \in AecDevs : w[e].pipe.ini = v[e].pipe.ini
    BY <1>1, <1>2
  <2> HIDE DEF w
  <2> QED BY <1>2, <2>1 DEF InisSound
<1>3. CASE /\ x.pipe.ini = 0 /\ y.pipe.ini = m.next
           /\ n = [m EXCEPT !.live = @ \cup {m.next}, !.next = @ + 1]
  <2>1. /\ n.live = m.live \cup {m.next} /\ n.next = m.next + 1 /\ n.global = m.global
        /\ m.next \in Nat /\ m.live \subseteq Nat
    <3>1. m.next \in Nat /\ m.live \subseteq Nat
      BY DEF Inis
    <3> QED BY <1>3, <3>1, IniMade
  <2>2. w[d].pipe.ini = m.next /\ \A e \in AecDevs : e # d => w[e].pipe.ini = v[e].pipe.ini
    BY <1>1, <1>3
  <2>3. \A e \in AecDevs : e # d => w[e].pipe.ini # m.next
    BY <2>1, <2>2 DEF InisSound
  <2> HIDE DEF w
  <2>4. n.global \in n.live /\ n.global # 0 /\ \A i \in n.live : i < n.next
    BY <2>1 DEF InisSound
  <2>5. \A e \in AecDevs : w[e].pipe.ini \in n.live \cup {0}
    BY <2>1, <2>2 DEF InisSound
  <2>6. ASSUME NEW e \in AecDevs, NEW f \in AecDevs, e # f, w[e].pipe.ini = w[f].pipe.ini
        PROVE  w[e].pipe.ini \in {0, n.global}
    <3>1. e # d /\ f # d
      BY <2>2, <2>3, <2>6
    <3>2. v[e].pipe.ini = v[f].pipe.ini
      BY <3>1, <2>2, <2>6
    <3> QED BY <3>1, <3>2, <2>1, <2>2, <2>6 DEF InisSound
  <2> QED BY <2>4, <2>5, <2>6 DEF InisSound, w
<1> QED BY <1>2, <1>3 DEF Attached1

\* What cras_iodev_set_ext_dsp_module does to one device and to the ini files.
LEMMA SetExt ==
    ASSUME NEW v \in [AecDevs -> DevStates], NEW m \in Inis, NEW d \in AecDevs,
           NEW ext \in {"none", "reverse"},
           \A e \in AecDevs : DevSound(v[e])
    PROVE  LET r == Aec!cras_iodev_set_ext_dsp_module(<<v, m>>, d, ext)
           IN /\ r[1] \in [AecDevs -> DevStates] /\ r[2] \in Inis
              /\ r[1][d].ext = ext
              /\ \A e \in AecDevs : e # d => r[1][e] = v[e]
              /\ r[1][d].open = v[d].open /\ r[1][d].fmt = v[d].fmt
              /\ \A e \in AecDevs : DevSound(r[1][e])
              /\ InisSound(v, m) => InisSound(r[1], r[2])
<1> DEFINE r == Aec!cras_iodev_set_ext_dsp_module(<<v, m>>, d, ext)
           set == [v[d] EXCEPT !.ext = ext]
<1>0. v[d] \in DevStates /\ DevSound(v[d])
  OBVIOUS
<1>1. /\ set \in DevStates /\ set.open = v[d].open /\ set.ctx = v[d].ctx /\ set.pipe = v[d].pipe
      /\ set.fmt = v[d].fmt /\ set.lost = v[d].lost /\ set.ext = ext
  <2> DEFINE x == v[d]
  <2> HIDE DEF x
  <2>1. x \in DevStates
    BY <1>0 DEF x
  <2>2. LET y == [x EXCEPT !.ext = ext]
        IN /\ y \in DevStates /\ y.open = x.open /\ y.ctx = x.ctx /\ y.pipe = x.pipe
           /\ y.fmt = x.fmt /\ y.lost = x.lost /\ y.ext = ext
    BY <2>1 DEF DevStates, Exts
  <2> QED BY <2>2 DEF x
<1>2. ~set.ctx => set.pipe = Aec!NoPipe
  BY <1>0, <1>1 DEF DevSound
<1>3. PICK y, n : /\ r = <<[v EXCEPT ![d] = y], n>>
                  /\ Attached1(set, m, y, n) /\ DevSound(y)
  <2>1. CASE ~v[d].open
    <3>1. r = <<[v EXCEPT ![d] = set], m>>
      BY <2>1, <1>1 DEF Aec!cras_iodev_set_ext_dsp_module
    <3>2. Attached1(set, m, set, m) /\ DevSound(set)
      BY <2>1, <1>1, <1>2 DEF Attached1, DevSound
    <3> QED BY <3>1, <3>2
  <2>2. CASE v[d].open /\ ext # "none"
    <3> DEFINE a == Aec!add_ext_dsp_module_to_pipeline(set, m)
    <3>1. r = <<[v EXCEPT ![d] = a[1]], a[2]>>
      BY <2>2, <1>1 DEF Aec!cras_iodev_set_ext_dsp_module, Aec!None
    <3>2. Attached1(set, m, a[1], a[2]) /\ DevSound(a[1])
      BY <1>1, <1>2, AddExt
    <3> QED BY <3>1, <3>2
  <2>3. CASE v[d].open /\ ext = "none"
    <3> DEFINE a == Aec!release_ext_dsp_module_from_pipeline(set)
    <3>1. r = <<[v EXCEPT ![d] = a], m>>
      BY <2>3, <1>1 DEF Aec!cras_iodev_set_ext_dsp_module, Aec!None
    <3>2. Attached1(set, m, a, m) /\ DevSound(a)
      BY <2>3, <1>1, <1>2, ReleaseExt
    <3> QED BY <3>1, <3>2
  <2> QED BY <2>1, <2>2, <2>3
<1> HIDE DEF r, set
<1>4. r[1] = [v EXCEPT ![d] = y] /\ r[2] = n
  BY <1>3
<1>5. /\ y \in DevStates /\ n \in Inis /\ y.ext = ext /\ y.open = v[d].open /\ y.fmt = v[d].fmt
  BY <1>1, <1>3 DEF Attached1
<1>6. InisSound(v, m) => InisSound(r[1], r[2])
  BY <1>1, <1>3, <1>4, InisKept
<1>7. /\ r[1] \in [AecDevs -> DevStates] /\ r[1][d] = y
      /\ \A e \in AecDevs : e # d => r[1][e] = v[e]
  BY <1>4, <1>5
<1>8. \A e \in AecDevs : DevSound(r[1][e])
  BY <1>3, <1>7
<1> QED BY <1>4, <1>5, <1>6, <1>7, <1>8 DEF r

\* update_first_output_dev_to_process leaves the module on the echo reference of the first
\* enabled output alone.
LEMMA UpdateFirst ==
    ASSUME NEW v \in [AecDevs -> DevStates], NEW m \in Inis, NEW o \in AecDevs \cup {"none"},
           NEW on \in Seq(AecOutputs),
           \A e \in AecDevs : DevSound(v[e]),
           \A e \in AecDevs : v[e].ext = "reverse" <=> e = o
    PROVE  LET r == Aec!update_first_output_dev_to_process(on, <<v, m, o>>)
           IN /\ r[1] \in [AecDevs -> DevStates] /\ r[2] \in Inis /\ r[3] \in AecDevs \cup {"none"}
              /\ r[3] = IF on = <<>> THEN o ELSE EchoOf[on[1]]
              /\ \A e \in AecDevs : r[1][e].ext = "reverse" <=> e = r[3]
              /\ \A e \in AecDevs : DevSound(r[1][e])
              /\ \A e \in AecDevs : r[1][e].open = v[e].open /\ r[1][e].fmt = v[e].fmt
              /\ InisSound(v, m) => InisSound(r[1], r[2])
<1> DEFINE r == Aec!update_first_output_dev_to_process(on, <<v, m, o>>)
           first == EchoOf[on[1]]
<1>1. CASE on = <<>>
  <2>1. r = <<v, m, o>>
    BY <1>1 DEF Aec!update_first_output_dev_to_process
  <2> QED BY <1>1, <2>1
<1>2. CASE on # <<>>
  <2>0. on[1] \in AecOutputs
    BY <1>2
  <2>1. first \in AecDevs
    BY <2>0 DEF AecDevs
  <2>2. CASE o = first
    <3>1. r = <<v, m, o>>
      BY <1>2, <2>2 DEF Aec!update_first_output_dev_to_process, EchoOf
    <3>2. r[1] = v /\ r[2] = m /\ r[3] = first
      BY <2>2, <3>1
    <3> HIDE DEF r, first
    <3>3. \A e \in AecDevs : v[e].ext = "reverse" <=> e = first
      BY <2>2
    <3> QED BY <1>2, <2>1, <3>2, <3>3 DEF r, first
  <2>3. CASE o # first
    <3> DEFINE a == IF o = "none" THEN <<v, m>>
                    ELSE Aec!cras_iodev_set_ext_dsp_module(<<v, m>>, o, "none")
               b == Aec!cras_iodev_set_ext_dsp_module(<<a[1], a[2]>>, first, "reverse")
    <3>1. r = <<b[1], b[2], first>>
      <4>1. a = <<a[1], a[2]>>
        BY DEF Aec!cras_iodev_set_ext_dsp_module
      <4> DEFINE c == Aec!cras_iodev_set_ext_dsp_module(a, first, "reverse")
      <4>2. r = <<c[1], c[2], first>>
        BY <1>2, <2>3 DEF Aec!update_first_output_dev_to_process, EchoOf, Aec!None
      <4>3. c = b
        BY <4>1
      <4> QED BY <4>2, <4>3
    <3>2. /\ a[1] \in [AecDevs -> DevStates] /\ a[2] \in Inis
          /\ \A e \in AecDevs : a[1][e].ext # "reverse"
          /\ \A e \in AecDevs : DevSound(a[1][e])
          /\ \A e \in AecDevs : a[1][e].open = v[e].open /\ a[1][e].fmt = v[e].fmt
          /\ InisSound(v, m) => InisSound(a[1], a[2])
      <4>1. CASE o = "none"
        BY <4>1, AecDevsAre
      <4>2. CASE o # "none"
        <5> DEFINE c == Aec!cras_iodev_set_ext_dsp_module(<<v, m>>, o, "none")
        <5>1. a = c /\ o \in AecDevs
          BY <4>2
        <5>2. /\ c[1] \in [AecDevs -> DevStates] /\ c[2] \in Inis
              /\ c[1][o].ext = "none"
              /\ \A e \in AecDevs : e # o => c[1][e] = v[e]
              /\ c[1][o].open = v[o].open /\ c[1][o].fmt = v[o].fmt
              /\ \A e \in AecDevs : DevSound(c[1][e])
              /\ InisSound(v, m) => InisSound(c[1], c[2])
          BY <5>1, SetExt
        <5> HIDE DEF a, c
        <5>3. \A e \in AecDevs : c[1][e].ext # "reverse"
          BY <5>2
        <5>4. \A e \in AecDevs : c[1][e].open = v[e].open /\ c[1][e].fmt = v[e].fmt
          BY <5>2
        <5> QED BY <5>1, <5>2, <5>3, <5>4
      <4> QED BY <4>1, <4>2
    <3> HIDE DEF a, first
    <3>3. /\ b[1] \in [AecDevs -> DevStates] /\ b[2] \in Inis
          /\ b[1][first].ext = "reverse"
          /\ \A e \in AecDevs : e # first => b[1][e] = a[1][e]
          /\ b[1][first].open = a[1][first].open /\ b[1][first].fmt = a[1][first].fmt
          /\ \A e \in AecDevs : DevSound(b[1][e])
          /\ InisSound(a[1], a[2]) => InisSound(b[1], b[2])
      BY <3>2, <2>1, SetExt
    <3> HIDE DEF b, r
    <3>4. \A e \in AecDevs : b[1][e].ext = "reverse" <=> e = first
      BY <3>2, <3>3
    <3>5. \A e \in AecDevs : b[1][e].open = v[e].open /\ b[1][e].fmt = v[e].fmt
      BY <3>2, <3>3
    <3>6. r[1] = b[1] /\ r[2] = b[2] /\ r[3] = first
      BY <3>1
    <3>7. InisSound(v, m) => InisSound(r[1], r[2])
      BY <3>2, <3>3, <3>6
    <3> QED BY <3>3, <3>4, <3>5, <3>6, <3>7, <2>1, <1>2 DEF r, first
  <2> QED BY <2>2, <2>3
<1> QED BY <1>1, <1>2

\* The pipelines and ini files prepare_pipeline may leave.
LEMMA Prepared ==
    ASSUME NEW m \in Inis, NEW t \in Nat, NEW r \in Aec!prepare_pipeline(m, t)
    PROVE  /\ r[1] \in Pipes /\ r[1].ext = "none" /\ r[1].ini \in {0, t}
           /\ r[2] \in Inis
           /\ ~LoadFails \/ t = m.global => r[2] = m
<1> DEFINE p == [ini |-> t, ext |-> "none"]
           n == Aec!destroy_pipeline(m, p)
<1>1. p \in Pipes /\ Aec!NoPipe \in Pipes /\ Aec!NoPipe.ini = 0 /\ Aec!NoPipe.ext = "none"
  BY DEF Pipes, Exts, Aec!NoPipe, Aec!None
<1>2. n \in Inis /\ (t = m.global => n = m)
  <2>1. m.live \ {t} \in SUBSET Nat /\ m.live \in SUBSET Nat
    BY DEF Inis
  <2>2. n = [m EXCEPT !.live = IF t \in {0, m.global} THEN m.live ELSE m.live \ {t}]
    BY DEF Aec!destroy_pipeline
  <2> HIDE DEF n
  <2> QED BY <2>1, <2>2 DEF Inis
<1>3. r = <<p, m>> \/ r = <<Aec!NoPipe, m>> \/ (LoadFails /\ r = <<Aec!NoPipe, n>>)
  BY AecAssumption DEF Aec!prepare_pipeline, Aec!None
<1> HIDE DEF n
<1>4. CASE r = <<p, m>>
  BY <1>4, <1>1
<1>5. CASE r = <<Aec!NoPipe, m>>
  BY <1>5, <1>1
<1>6. CASE LoadFails /\ r = <<Aec!NoPipe, n>>
  BY <1>6, <1>1, <1>2
<1> QED BY <1>3, <1>4, <1>5, <1>6

\* A pipeline that is loaded again has no external module, and the device is marked.
LEMMA Loaded ==
    ASSUME NEW x \in DevStates, NEW r, r[1] \in Pipes, r[1].ext = "none"
    PROVE  LET y == Aec!cmd_load_pipeline(x, r)
           IN /\ y \in DevStates /\ y.open = x.open /\ y.fmt = x.fmt /\ y.ext = x.ext
              /\ y.ctx = x.ctx /\ y.pipe = r[1]
              /\ x.ctx => DevSound(y)
<1> DEFINE y == Aec!cmd_load_pipeline(x, r)
           gone == x.open /\ x.ext # "none"
<1>1. y = [x EXCEPT !.pipe = r[1], !.lost = gone]
  BY DEF Aec!cmd_load_pipeline, Aec!None
<1>2. gone \in BOOLEAN
  OBVIOUS
<1> HIDE DEF y, gone
<1>3. /\ y \in DevStates /\ y.open = x.open /\ y.fmt = x.fmt /\ y.ext = x.ext
      /\ y.ctx = x.ctx /\ y.pipe = r[1] /\ y.lost = gone
  BY <1>1, <1>2 DEF DevStates
<1>4. x.ctx => DevSound(y)
  BY <1>3 DEF DevSound, gone
<1> QED BY <1>3, <1>4 DEF y

\* Destroying the pipeline of a device frees no ini another device uses.
LEMMA PipeFreed ==
    ASSUME NEW v \in [AecDevs -> DevStates], NEW m \in Inis, NEW d \in AecDevs,
           NEW y \in DevStates, y.pipe.ini \in {0, m.global}
    PROVE  LET n == Aec!destroy_pipeline(m, v[d].pipe)
           IN n \in Inis /\ (InisSound(v, m) => InisSound([v EXCEPT ![d] = y], n))
<1> DEFINE n == Aec!destroy_pipeline(m, v[d].pipe)
           w == [v EXCEPT ![d] = y]
           i == v[d].pipe.ini
           live == IF i \in {0, m.global} THEN m.live ELSE m.live \ {i}
<1>1. n = [m EXCEPT !.live = live]
  BY DEF Aec!destroy_pipeline
<1>2. m.live \in SUBSET Nat /\ live \in SUBSET Nat
  BY DEF Inis
<1> HIDE DEF n, live
<1>3. n \in Inis /\ n.live = live /\ n.global = m.global /\ n.next = m.next
  BY <1>1, <1>2 DEF Inis
<1>4. w[d] = y /\ \A e \in AecDevs : e # d => w[e] = v[e]
  OBVIOUS
<1> HIDE DEF w
<1>5. ASSUME InisSound(v, m) PROVE InisSound(w, n)
  <2>1. n.global \in n.live /\ n.global # 0 /\ \A k \in n.live : k < n.next
    BY <1>3, <1>5 DEF InisSound, live
  <2>2. ASSUME NEW e \in AecDevs PROVE w[e].pipe.ini \in n.live \cup {0}
    <3>1. CASE e = d
      BY <3>1, <1>3, <1>4, <2>1
    <3>2. CASE e # d
      <4>1. w[e].pipe.ini = v[e].pipe.ini /\ v[e].pipe.ini \in m.live \cup {0}
        BY <3>2, <1>4, <1>5 DEF InisSound
      <4>2. v[e].pipe.ini = i => i \in {0, m.global}
        BY <3>2, <1>5 DEF InisSound
      <4> QED BY <4>1, <4>2, <1>3 DEF live
    <3> QED BY <3>1, <3>2
  <2>3. ASSUME NEW e \in AecDevs, NEW f \in AecDevs, e # f, w[e].pipe.ini = w[f].pipe.ini
        PROVE  w[e].pipe.ini \in {0, n.global}
    <3>1. CASE e = d
      BY <3>1, <1>3, <1>4
    <3>2. CASE f = d
      BY <3>2, <1>3, <1>4, <2>3
    <3>3. CASE e # d /\ f # d
      <4>1. w[e] = v[e] /\ w[f] = v[f]
        BY <3>3, <1>4
      <4> QED BY <4>1, <2>3, <1>3, <1>5 DEF InisSound
    <3> QED BY <3>1, <3>2, <3>3
  <2> QED BY <2>1, <2>2, <2>3 DEF InisSound
<1> QED BY <1>3, <1>5 DEF n, w

\* The processing objects follow devices that stay open or closed in the format they have.
LEMMA ApmsKept ==
    ASSUME AecInv, UNCHANGED <<aecStream, active>>,
           \A e \in AecDevs : dev[e].open => dev'[e].open /\ dev'[e].fmt = dev[e].fmt
    PROVE  ApmsCurrent' /\ Aec!ActiveIsCurrent'
<1>1. ASSUME NEW q \in AecStreams, NEW a \in aecStream[q].apms
      PROVE  dev'[a.dev].open /\ a.fmt = dev'[a.dev].fmt
  <2>1. a \in Apms
    BY DEF AecInv, AecType
  <2>2. a.dev \in AecDevs
    BY <2>1 DEF Apms
  <2>3. dev[a.dev].open /\ a.fmt = dev[a.dev].fmt
    BY DEF AecInv, ApmsCurrent
  <2> QED BY <2>2, <2>3
<1>2. ApmsCurrent'
  BY <1>1 DEF ApmsCurrent
<1>3. ASSUME NEW a \in active
      PROVE  a[2] \in aecStream[a[1]].apms /\ a[2].dev \in aecStream[a[1]].on /\ a[2].fmt = dev'[a[2].dev].fmt
  <2>1. a[1] \in AecStreams
    BY DEF AecInv, AecType
  <2>2. a[2] \in aecStream[a[1]].apms /\ a[2].dev \in aecStream[a[1]].on
    BY DEF AecInv, Aec!ActiveIsCurrent
  <2> QED BY <1>1, <2>1, <2>2
<1> QED BY <1>2, <1>3 DEF Aec!ActiveIsCurrent

LEMMA ReverseKept ==
    ASSUME AecInv, UNCHANGED enabled, rmodule'.odev = rmodule.odev,
           \A e \in AecDevs : dev'[e].ext = "reverse" <=> dev[e].ext = "reverse"
    PROVE  Aec!ReverseFollowsOutput'
<1>1. \A e \in AecDevs : dev'[e].ext = "reverse" <=> e = rmodule'.odev
  BY AecDevsAre DEF AecInv, Aec!ReverseFollowsOutput
<1>2. rmodule'.odev = IF enabled' = <<>> THEN Aec!None ELSE EchoOf[enabled'[1]]
  BY DEF AecInv, Aec!ReverseFollowsOutput, EchoOf
<1> QED BY <1>1, <1>2, AecDevsAre DEF Aec!ReverseFollowsOutput, EchoOf

LEMMA AecOpen ==
    ASSUME AecInv, NEW d \in AecDevs, Aec!cras_iodev_open(d)
    PROVE  AecInv'
<1>1. PICK fmt \in 1..2, r \in Aec!prepare_pipeline(ini, ini.global) :
        LET freed == Aec!destroy_pipeline(r[2], dev[d].pipe)
            o == [dev[d] EXCEPT !.open = TRUE, !.fmt = fmt, !.ctx = TRUE, !.pipe = r[1],
                                !.ext = IF d \in AecOutputs \/ @ # "none" THEN @ ELSE "input_data"]
            a == Aec!add_ext_dsp_module_to_pipeline(o, freed)
        IN dev' = [dev EXCEPT ![d] = a[1]] /\ ini' = a[2]
  BY DEF Aec!cras_iodev_open, Aec!None
<1>2. /\ dev \in [AecDevs -> DevStates] /\ dev[d] \in DevStates /\ ~dev[d].open
      /\ ini \in Inis /\ ini.global \in Nat
      /\ UNCHANGED <<enabled, aecStream, active, rmodule>>
  BY DEF Aec!cras_iodev_open, AecInv, AecType, Inis
<1>3. /\ r[1] \in Pipes /\ r[1].ini \in {0, ini.global} /\ r[2] = ini
  BY <1>2, Prepared
<1> DEFINE x == dev[d]
           ext == IF d \in AecOutputs \/ x.ext # "none" THEN x.ext ELSE "input_data"
           o == [x EXCEPT !.open = TRUE, !.fmt = fmt, !.ctx = TRUE, !.pipe = r[1], !.ext = ext]
           freed == Aec!destroy_pipeline(ini, x.pipe)
           a == Aec!add_ext_dsp_module_to_pipeline(o, freed)
<1>4. dev' = [dev EXCEPT ![d] = a[1]] /\ ini' = a[2]
  BY <1>1, <1>3
<1>5. x \in DevStates
  BY <1>2
<1> HIDE DEF x
<1>6. ext \in Exts /\ (ext = "reverse" <=> x.ext = "reverse")
  BY <1>5 DEF DevStates, Exts
<1> HIDE DEF ext
<1>7. o \in DevStates /\ o.open = TRUE /\ o.ctx = TRUE /\ o.pipe = r[1] /\ o.ext = ext
  <2>1. fmt \in 0..2
    OBVIOUS
  <2> DEFINE p == r[1]
  <2>2. p \in Pipes
    BY <1>3
  <2>3. o = [x EXCEPT !.open = TRUE, !.fmt = fmt, !.ctx = TRUE, !.pipe = p, !.ext = ext]
    OBVIOUS
  <2> HIDE DEF p, o
  <2>4. o.open = TRUE /\ o.ctx = TRUE /\ o.pipe = p /\ o.ext = ext
    BY <1>5, <2>3 DEF DevStates
  <2>5. o \in DevStates
    BY <1>5, <1>6, <2>1, <2>2, <2>3 DEF DevStates
  <2> QED BY <2>4, <2>5 DEF p
<1> HIDE DEF o
<1>8. freed \in Inis /\ (InisSound(dev, ini) => InisSound([dev EXCEPT ![d] = o], freed))
  BY <1>2, <1>3, <1>7, PipeFreed DEF x
<1> HIDE DEF freed
<1>9. Attached1(o, freed, a[1], a[2]) /\ DevSound(a[1])
  BY <1>7, <1>8, AddExt
<1> HIDE DEF a
<1>10. a[1] \in DevStates /\ a[2] \in Inis /\ a[1].open = TRUE /\ a[1].ext = ext
  BY <1>7, <1>9 DEF Attached1
<1>11. /\ dev' \in [AecDevs -> DevStates] /\ dev'[d] = a[1]
       /\ \A e \in AecDevs : e # d => dev'[e] = dev[e]
  BY <1>2, <1>4, <1>10
<1>12. AecType'
  BY <1>2, <1>4, <1>10, <1>11 DEF AecInv, AecType
<1>13. ApmsCurrent' /\ Aec!ActiveIsCurrent'
  <2>1. \A e \in AecDevs : dev[e].open => dev'[e].open /\ dev'[e].fmt = dev[e].fmt
    BY <1>2, <1>11
  <2> QED BY <1>2, <2>1, ApmsKept
<1>14. Aec!ReverseFollowsOutput'
  <2>1. \A e \in AecDevs : dev'[e].ext = "reverse" <=> dev[e].ext = "reverse"
    BY <1>6, <1>10, <1>11 DEF x
  <2> QED BY <1>2, <2>1, ReverseKept
<1>15. \A e \in AecDevs : DevSound(dev'[e])
  BY <1>9, <1>11 DEF AecInv
<1>16. ASSUME ~LoadFails PROVE InisSound(dev', ini')
  <2>1. InisSound(dev, ini)
    BY <1>16 DEF AecInv
  <2> DEFINE w == [dev EXCEPT ![d] = o]
  <2>2. w \in [AecDevs -> DevStates] /\ w[d] = o /\ [w EXCEPT ![d] = a[1]] = [dev EXCEPT ![d] = a[1]]
    BY <1>2, <1>7
  <2>3. InisSound(w, freed)
    BY <2>1, <1>8
  <2> HIDE DEF w
  <2>4. InisSound([w EXCEPT ![d] = a[1]], a[2])
    BY <2>2, <2>3, <1>8, <1>9, InisKept
  <2> QED BY <2>2, <2>4, <1>4
<1> QED BY <1>2, <1>12, <1>13, <1>14, <1>15, <1>16 DEF AecInv

LEMMA AecUpdateDsp ==
    ASSUME AecInv, NEW d \in AecDevs, Aec!cras_iodev_update_dsp(d)
    PROVE  AecInv'
<1>1. PICK r \in Aec!prepare_pipeline(ini, ini.global) :
        /\ dev' = [dev EXCEPT ![d] = Aec!cmd_load_pipeline(@, r)]
        /\ ini' = Aec!destroy_pipeline(r[2], dev[d].pipe)
  BY DEF Aec!cras_iodev_update_dsp
<1>2. /\ dev \in [AecDevs -> DevStates] /\ dev[d] \in DevStates /\ dev[d].ctx
      /\ ini \in Inis /\ ini.global \in Nat
      /\ UNCHANGED <<enabled, aecStream, active, rmodule>>
  BY DEF Aec!cras_iodev_update_dsp, AecInv, AecType, Inis
<1>3. /\ r[1] \in Pipes /\ r[1].ini \in {0, ini.global} /\ r[2] = ini /\ r[1].ext = "none"
  BY <1>2, Prepared
<1> DEFINE y == Aec!cmd_load_pipeline(dev[d], r)
<1>4. /\ y \in DevStates /\ y.open = dev[d].open /\ y.fmt = dev[d].fmt /\ y.ext = dev[d].ext
      /\ y.pipe = r[1] /\ DevSound(y)
  BY <1>2, <1>3, Loaded
<1>5. dev' = [dev EXCEPT ![d] = y]
  BY <1>1
<1> HIDE DEF y
<1>6. /\ ini' \in Inis
      /\ InisSound(dev, ini) => InisSound(dev', ini')
  <2> DEFINE n == Aec!destroy_pipeline(ini, dev[d].pipe)
  <2>1. ini' = n /\ y.pipe.ini \in {0, ini.global}
    BY <1>1, <1>3, <1>4
  <2>2. n \in Inis /\ (InisSound(dev, ini) => InisSound([dev EXCEPT ![d] = y], n))
    BY <1>2, <1>4, <2>1, PipeFreed
  <2> HIDE DEF n
  <2> QED BY <2>1, <2>2, <1>5
<1>7. /\ dev' \in [AecDevs -> DevStates] /\ dev'[d] = y
      /\ \A e \in AecDevs : e # d => dev'[e] = dev[e]
  BY <1>2, <1>4, <1>5
<1>8. AecType'
  BY <1>2, <1>6, <1>7 DEF AecInv, AecType
<1>9. ApmsCurrent' /\ Aec!ActiveIsCurrent'
  <2>1. \A e \in AecDevs : dev[e].open => dev'[e].open /\ dev'[e].fmt = dev[e].fmt
    BY <1>4, <1>7
  <2> QED BY <1>2, <2>1, ApmsKept
<1>10. Aec!ReverseFollowsOutput'
  <2>1. \A e \in AecDevs : dev'[e].ext = "reverse" <=> dev[e].ext = "reverse"
    BY <1>4, <1>7
  <2> QED BY <1>2, <2>1, ReverseKept
<1>11. \A e \in AecDevs : DevSound(dev'[e])
  BY <1>4, <1>7 DEF AecInv
<1> QED BY <1>2, <1>6, <1>8, <1>9, <1>10, <1>11 DEF AecInv

LEMMA AecReload ==
    ASSUME AecInv, Aec!cmd_reload_ini
    PROVE  AecInv'
<1> DEFINE new == ini.next
           read == [ini EXCEPT !.live = @ \cup {new}, !.next = @ + 1]
           ctxs == {d \in Aec!AllDevs : dev[d].ctx}
           private == {dev[d].pipe.ini : d \in ctxs} \ {ini.global}
<1>1. PICK r \in [ctxs -> Aec!prepare_pipeline(read, new)] :
        /\ dev' = [d \in Aec!AllDevs |-> IF d \in ctxs THEN Aec!cmd_load_pipeline(dev[d], r[d]) ELSE dev[d]]
        /\ ini' = [read EXCEPT !.global = new,
              !.live = ({i \in read.live : \A d \in ctxs : i \in r[d][2].live} \ private) \ {ini.global}]
  BY DEF Aec!cmd_reload_ini
<1>0. /\ dev' = [d \in AecDevs |-> IF d \in ctxs THEN Aec!cmd_load_pipeline(dev[d], r[d]) ELSE dev[d]]
      /\ ctxs = {d \in AecDevs : dev[d].ctx}
  BY <1>1, AecDevsAre
<1>2. /\ dev \in [AecDevs -> DevStates] /\ ini \in Inis /\ new \in Nat
      /\ UNCHANGED <<enabled, aecStream, active, rmodule>>
  BY DEF Aec!cmd_reload_ini, AecInv, AecType, Inis
<1>3. read \in Inis /\ read.live = ini.live \cup {new} /\ read.next = new + 1
  BY <1>2, IniMade
<1> DEFINE live == ({i \in read.live : \A d \in ctxs : i \in r[d][2].live} \ private) \ {ini.global}
<1>4. ini' = [read EXCEPT !.global = new, !.live = live]
  BY <1>1
<1>5. live \in SUBSET Nat /\ live \subseteq read.live
  BY <1>3 DEF Inis
<1> HIDE DEF live, read, new, private, ctxs
<1>6. ini' \in Inis /\ ini'.global = new /\ ini'.live = live /\ ini'.next = read.next
  BY <1>2, <1>3, <1>4, <1>5 DEF Inis
<1>7. ASSUME NEW d \in ctxs
      PROVE  /\ r[d][1] \in Pipes /\ r[d][1].ext = "none" /\ r[d][1].ini \in {0, new}
             /\ ~LoadFails => r[d][2] = read
  BY <1>2, <1>3, Prepared
<1>8. ASSUME NEW e \in AecDevs
      PROVE  /\ dev'[e] \in DevStates /\ dev'[e].open = dev[e].open /\ dev'[e].fmt = dev[e].fmt
             /\ dev'[e].ext = dev[e].ext /\ DevSound(dev'[e])
             /\ dev'[e].pipe.ini \in {0, new}
  <2>1. CASE e \in ctxs
    <3> DEFINE y == Aec!cmd_load_pipeline(dev[e], r[e])
    <3>1. dev'[e] = y
      BY <1>0, <2>1
    <3>2. dev[e] \in DevStates /\ dev[e].ctx
      BY <1>0, <1>2, <2>1
    <3>3. /\ y \in DevStates /\ y.open = dev[e].open /\ y.fmt = dev[e].fmt /\ y.ext = dev[e].ext
          /\ y.pipe = r[e][1] /\ DevSound(y)
      BY <1>7, <2>1, <3>2, Loaded
    <3> HIDE DEF y
    <3> QED BY <3>1, <3>3, <1>7, <2>1
  <2>2. CASE e \notin ctxs
    <3>1. dev'[e] = dev[e] /\ dev[e] \in DevStates /\ ~dev[e].ctx
      BY <1>0, <1>2, <2>2
    <3>2. DevSound(dev[e])
      BY DEF AecInv
    <3>3. dev[e].pipe.ini = 0
      BY <3>1, <3>2 DEF DevSound, Aec!NoPipe
    <3> QED BY <3>1, <3>2, <3>3
  <2> QED BY <2>1, <2>2
<1>9. dev' \in [AecDevs -> DevStates]
  <2>1. DOMAIN dev' = AecDevs /\ dev' = [d \in AecDevs |-> dev'[d]]
    BY <1>0
  <2> QED BY <2>1, <1>8
<1>10. AecType'
  BY <1>2, <1>6, <1>9 DEF AecInv, AecType
<1>11. ApmsCurrent' /\ Aec!ActiveIsCurrent'
  BY <1>2, <1>8, ApmsKept
<1>12. Aec!ReverseFollowsOutput'
  BY <1>2, <1>8, ReverseKept
<1>13. ASSUME ~LoadFails PROVE InisSound(dev', ini')
  <2>1. InisSound(dev, ini)
    BY <1>13 DEF AecInv
  <2>2. \A i \in ini.live : i < new
    BY <2>1 DEF InisSound, new
  <2>3. new \notin ini.live /\ new # ini.global /\ new # 0
    <3>1. ini.live \subseteq Nat /\ ini.global \in ini.live /\ ini.global # 0
      BY <1>2, <2>1 DEF Inis, InisSound
    <3> QED BY <3>1, <2>2, <1>2
  <2>4. new \notin private
    <3>1. \A d \in ctxs : dev[d].pipe.ini \in ini.live \cup {0}
      BY <1>0, <2>1 DEF InisSound
    <3> QED BY <3>1, <2>3 DEF private
  <2>5. new \in live
    BY <1>3, <1>7, <1>13, <2>3, <2>4 DEF live
  <2>6. \A i \in live : i < ini'.next
    <3>1. \A i \in live : i \in ini.live \cup {new} /\ i \in Nat
      BY <1>3, <1>5
    <3> QED BY <3>1, <2>2, <1>2, <1>3, <1>6
  <2> QED BY <1>6, <1>8, <2>3, <2>5, <2>6 DEF InisSound
<1> QED BY <1>2, <1>8, <1>10, <1>11, <1>12, <1>13 DEF AecInv

LEMMA AecClose ==
    ASSUME AecInv, NEW d \in AecDevs, Aec!close_dev(d)
    PROVE  AecInv'
<1> DEFINE x == dev[d]
           ext == IF x.ext = "input_data" THEN "none" ELSE x.ext
           y == [x EXCEPT !.open = FALSE, !.fmt = 0, !.ext = ext]
<1>1. /\ dev' = [dev EXCEPT ![d] = y]
      /\ aecStream' = [q \in AecStreams |-> [on |-> aecStream[q].on \ {d},
                                           apms |-> {a \in aecStream[q].apms : a.dev # d}]]
      /\ active' = {a \in active : a[2].dev # d}
      /\ rmodule' = [rmodule EXCEPT !.process = active' # {}]
      /\ UNCHANGED <<enabled, ini>>
  BY DEF Aec!close_dev, Aec!closed, Aec!cras_apm_list_remove_apm, Aec!None
<1>2. /\ dev \in [AecDevs -> DevStates] /\ x \in DevStates
      /\ aecStream \in [AecStreams -> [on : SUBSET AecDevs, apms : SUBSET Apms]]
      /\ active \subseteq AecStreams \X Apms
      /\ rmodule \in [odev : AecDevs \cup {"none"}, process : BOOLEAN]
  BY DEF AecInv, AecType
<1>a. DevSound(x)
  BY DEF AecInv
<1> HIDE DEF x
<1>3. ext \in Exts /\ (ext = "reverse" <=> x.ext = "reverse")
  BY <1>2 DEF DevStates, Exts
<1> HIDE DEF ext
<1>4. y \in DevStates /\ y.open = FALSE /\ y.ext = ext /\ y.ctx = x.ctx /\ y.pipe = x.pipe
  <2>1. x \in DevStates /\ 0 \in 0..2
    BY <1>2
  <2>2. y \in DevStates
    BY <1>3, <2>1 DEF DevStates
  <2> QED BY <2>1, <2>2 DEF DevStates
<1> HIDE DEF y
<1>5. /\ dev' \in [AecDevs -> DevStates] /\ dev'[d] = y
      /\ \A e \in AecDevs : e # d => dev'[e] = dev[e]
  BY <1>1, <1>2, <1>4
<1>6. ASSUME NEW q \in AecStreams
      PROVE  /\ aecStream'[q] \in [on : SUBSET AecDevs, apms : SUBSET Apms]
             /\ aecStream'[q].on = aecStream[q].on \ {d}
             /\ aecStream'[q].apms = {a \in aecStream[q].apms : a.dev # d}
  BY <1>1, <1>2
<1>7. rmodule'.odev = rmodule.odev /\ rmodule' \in [odev : AecDevs \cup {"none"}, process : BOOLEAN]
  BY <1>1, <1>2
<1>8. AecType'
  <2>1. aecStream' \in [AecStreams -> [on : SUBSET AecDevs, apms : SUBSET Apms]]
    BY <1>1, <1>6
  <2>2. active' \subseteq AecStreams \X Apms
    BY <1>1, <1>2
  <2> QED BY <1>1, <1>5, <1>7, <2>1, <2>2 DEF AecInv, AecType
<1>9. ASSUME NEW q \in AecStreams, NEW a \in aecStream'[q].apms
      PROVE  dev'[a.dev].open /\ a.fmt = dev'[a.dev].fmt
  <2>1. a \in aecStream[q].apms /\ a.dev # d /\ a \in Apms
    BY <1>2, <1>6, <1>9
  <2>2. a.dev \in AecDevs
    BY <2>1 DEF Apms
  <2>3. dev[a.dev].open /\ a.fmt = dev[a.dev].fmt
    BY <2>1 DEF AecInv, ApmsCurrent
  <2> QED BY <1>5, <2>1, <2>2, <2>3
<1>10. ApmsCurrent'
  BY <1>9 DEF ApmsCurrent
<1>11. Aec!ActiveIsCurrent'
  <2> SUFFICES ASSUME NEW a \in active'
               PROVE  /\ a[2] \in aecStream'[a[1]].apms /\ a[2].dev \in aecStream'[a[1]].on
                      /\ a[2].fmt = dev'[a[2].dev].fmt
    BY DEF Aec!ActiveIsCurrent
  <2>1. a \in active /\ a[2].dev # d /\ a[1] \in AecStreams
    BY <1>1, <1>2
  <2>2. a[2] \in aecStream[a[1]].apms /\ a[2].dev \in aecStream[a[1]].on
    BY <2>1 DEF AecInv, Aec!ActiveIsCurrent
  <2>3. a[2] \in aecStream'[a[1]].apms /\ a[2].dev \in aecStream'[a[1]].on
    BY <1>6, <2>1, <2>2
  <2> QED BY <2>1, <2>3, <1>9
<1>12. Aec!ReverseFollowsOutput'
  <2>1. \A e \in AecDevs : dev'[e].ext = "reverse" <=> dev[e].ext = "reverse"
    BY <1>3, <1>4, <1>5 DEF x
  <2> QED BY <1>1, <1>7, <2>1, ReverseKept
<1>13. \A e \in AecDevs : DevSound(dev'[e])
  <2>1. DevSound(y)
    BY <1>a, <1>4 DEF DevSound
  <2> QED BY <1>5, <2>1 DEF AecInv
<1>14. ~LoadFails => InisSound(dev', ini')
  <2>1. \A e \in AecDevs : dev'[e].pipe.ini = dev[e].pipe.ini
    BY <1>4, <1>5 DEF x
  <2> QED BY <1>1, <2>1 DEF AecInv, InisSound
<1> QED BY <1>1, <1>8, <1>10, <1>11, <1>12, <1>13, <1>14 DEF AecInv

\* What the two handlers have in common: the module moved, nothing else of a device did.
LEMMA ModuleMoved ==
    ASSUME AecInv, NEW r,
           /\ r[1] \in [AecDevs -> DevStates] /\ r[2] \in Inis /\ r[3] \in AecDevs \cup {"none"}
           /\ \A e \in AecDevs : r[1][e].ext = "reverse" <=> e = r[3]
           /\ \A e \in AecDevs : DevSound(r[1][e])
           /\ \A e \in AecDevs : r[1][e].open = dev[e].open /\ r[1][e].fmt = dev[e].fmt
           /\ InisSound(dev, ini) => InisSound(r[1], r[2]),
           dev' = r[1] /\ ini' = r[2] /\ rmodule' = [rmodule EXCEPT !.odev = r[3]],
           UNCHANGED <<aecStream, active>>,
           enabled' \in Seq(AecOutputs),
           \A j, k \in 1..Len(enabled') : enabled'[j] = enabled'[k] => j = k,
           r[3] = IF enabled' = <<>> THEN "none" ELSE EchoOf[enabled'[1]]
    PROVE  AecInv'
<1> DEFINE o == r[3]
<1>1. rmodule \in [odev : AecDevs \cup {"none"}, process : BOOLEAN] /\ o \in AecDevs \cup {"none"}
  BY DEF AecInv, AecType
<1>2. rmodule' = [rmodule EXCEPT !.odev = o]
  OBVIOUS
<1> HIDE DEF o
<1>3. rmodule' \in [odev : AecDevs \cup {"none"}, process : BOOLEAN] /\ rmodule'.odev = o
  BY <1>1, <1>2
<1>4. AecType'
  BY <1>3 DEF AecInv, AecType
<1>5. ApmsCurrent' /\ Aec!ActiveIsCurrent'
  BY ApmsKept
<1>6. Aec!ReverseFollowsOutput'
  <2>1. \A e \in AecDevs : dev'[e].ext = "reverse" <=> e = rmodule'.odev
    BY <1>3 DEF o
  <2>2. rmodule'.odev = IF enabled' = <<>> THEN "none" ELSE EchoOf[enabled'[1]]
    BY <1>3 DEF o
  <2> QED BY <2>1, <2>2, AecDevsAre DEF Aec!ReverseFollowsOutput, EchoOf, Aec!None
<1> QED BY <1>4, <1>5, <1>6 DEF AecInv

LEMMA AecEnabled ==
    ASSUME AecInv, NEW d \in AecOutputs, Aec!handle_device_enabled(d)
    PROVE  AecInv'
<1> DEFINE r == Aec!update_first_output_dev_to_process(enabled', <<dev, ini, rmodule.odev>>)
<1>1. /\ d \notin Range(enabled) /\ enabled' = Append(enabled, d)
      /\ dev' = r[1] /\ ini' = r[2] /\ rmodule' = [rmodule EXCEPT !.odev = r[3]]
      /\ UNCHANGED <<aecStream, active>>
  BY DEF Aec!handle_device_enabled, Range, Aec!Range
<1>2. /\ dev \in [AecDevs -> DevStates] /\ ini \in Inis /\ enabled \in Seq(AecOutputs)
      /\ rmodule.odev \in AecDevs \cup {"none"}
      /\ \A e \in AecDevs : DevSound(dev[e])
      /\ \A e \in AecDevs : dev[e].ext = "reverse" <=> e = rmodule.odev
  BY AecDevsAre DEF AecInv, AecType, Aec!ReverseFollowsOutput
<1>3. /\ enabled' \in Seq(AecOutputs) /\ enabled' # <<>> /\ Len(enabled') = Len(enabled) + 1
      /\ Len(enabled) \in Nat
      /\ \A j \in 1..Len(enabled) : enabled'[j] = enabled[j]
      /\ enabled'[Len(enabled) + 1] = d
  BY <1>1, <1>2
<1>4. \A j, k \in 1..Len(enabled') : enabled'[j] = enabled'[k] => j = k
  <2>1. \A j \in 1..Len(enabled) : enabled[j] # d
    BY <1>1, <1>2 DEF Range
  <2>2. \A j, k \in 1..Len(enabled) : enabled[j] = enabled[k] => j = k
    BY DEF AecInv
  <2>3. ASSUME NEW j \in 1..Len(enabled'), NEW k \in 1..Len(enabled'), enabled'[j] = enabled'[k]
        PROVE  j = k
    <3>1. CASE j \in 1..Len(enabled) /\ k \in 1..Len(enabled)
      BY <3>1, <1>3, <2>2, <2>3
    <3>2. CASE j = Len(enabled) + 1 \/ k = Len(enabled) + 1
      BY <3>2, <1>3, <2>1, <2>3
    <3> QED BY <3>1, <3>2, <1>3
  <2> QED BY <2>3
<1>5. /\ r[1] \in [AecDevs -> DevStates] /\ r[2] \in Inis /\ r[3] \in AecDevs \cup {"none"}
      /\ r[3] = EchoOf[enabled'[1]]
      /\ \A e \in AecDevs : r[1][e].ext = "reverse" <=> e = r[3]
      /\ \A e \in AecDevs : DevSound(r[1][e])
      /\ \A e \in AecDevs : r[1][e].open = dev[e].open /\ r[1][e].fmt = dev[e].fmt
      /\ InisSound(dev, ini) => InisSound(r[1], r[2])
  <2> DEFINE on == enabled'
             o == rmodule.odev
             c == Aec!update_first_output_dev_to_process(on, <<dev, ini, o>>)
  <2>1. on \in Seq(AecOutputs) /\ on # <<>> /\ o \in AecDevs \cup {"none"}
        /\ \A e \in AecDevs : dev[e].ext = "reverse" <=> e = o
    BY <1>2, <1>3
  <2>2. r = c
    OBVIOUS
  <2> HIDE DEF on, o
  <2>3. /\ c[1] \in [AecDevs -> DevStates] /\ c[2] \in Inis /\ c[3] \in AecDevs \cup {"none"}
        /\ c[3] = IF on = <<>> THEN o ELSE EchoOf[on[1]]
        /\ \A e \in AecDevs : c[1][e].ext = "reverse" <=> e = c[3]
        /\ \A e \in AecDevs : DevSound(c[1][e])
        /\ \A e \in AecDevs : c[1][e].open = dev[e].open /\ c[1][e].fmt = dev[e].fmt
        /\ InisSound(dev, ini) => InisSound(c[1], c[2])
    BY <1>2, <2>1, UpdateFirst
  <2> HIDE DEF c, r
  <2> QED BY <2>1, <2>2, <2>3 DEF on
<1> HIDE DEF r
<1>6. r[3] = IF enabled' = <<>> THEN "none" ELSE EchoOf[enabled'[1]]
  BY <1>3, <1>5
<1>7. enabled' \in Seq(AecOutputs)
  BY <1>3
<1>8. /\ dev' = r[1] /\ ini' = r[2] /\ rmodule' = [rmodule EXCEPT !.odev = r[3]]
      /\ UNCHANGED <<aecStream, active>>
  BY <1>1
<1> QED BY <1>4, <1>5, <1>6, <1>7, <1>8, ModuleMoved

LEMMA AecDisabled ==
    ASSUME AecInv, NEW d \in AecOutputs, Aec!handle_device_disabled(d)
    PROVE  AecInv'
<1> DEFINE off == Aec!cras_iodev_set_ext_dsp_module(<<dev, ini>>, EchoOf[d], "none")
           a == IF rmodule.odev = EchoOf[d] THEN <<off[1], off[2], "none">>
                ELSE <<dev, ini, rmodule.odev>>
           r == Aec!update_first_output_dev_to_process(enabled', a)
           i == CHOOSE k \in DOMAIN enabled : enabled[k] = d
<1>1. /\ d \in Range(enabled) /\ enabled' = RemoveAt(enabled, i)
      /\ dev' = r[1] /\ ini' = r[2] /\ rmodule' = [rmodule EXCEPT !.odev = r[3]]
      /\ UNCHANGED <<aecStream, active>>
  BY DEF Aec!handle_device_disabled, Aec!Place, EchoOf, Aec!None, Range, Aec!Range,
     RemoveAt, Aec!RemoveAt
<1>2. /\ dev \in [AecDevs -> DevStates] /\ ini \in Inis /\ enabled \in Seq(AecOutputs)
      /\ rmodule.odev \in AecDevs \cup {"none"}
      /\ \A e \in AecDevs : DevSound(dev[e])
      /\ \A e \in AecDevs : dev[e].ext = "reverse" <=> e = rmodule.odev
  BY AecDevsAre DEF AecInv, AecType, Aec!ReverseFollowsOutput
<1>3. i \in 1..Len(enabled) /\ enabled[i] = d /\ EchoOf[d] \in AecDevs
  BY <1>1, <1>2 DEF Range, AecDevs
<1>a. \A j, k \in 1..Len(enabled) : enabled[j] = enabled[k] => j = k
  BY DEF AecInv
<1> HIDE DEF i
<1>4. /\ enabled' \in Seq(AecOutputs)
      /\ \A j, k \in 1..Len(enabled') : enabled'[j] = enabled'[k] => j = k
      /\ i > 1 => enabled' # <<>> /\ enabled'[1] = enabled[1]
      /\ enabled' = <<>> => Len(enabled) = 1
  <2> DEFINE w == RemoveAt(enabled, i)
  <2>1. w \in Seq(AecOutputs)
    BY <1>2, <1>3, RemovedAt
  <2>2. /\ \A j, k \in 1..Len(w) : w[j] = w[k] => j = k
        /\ i > 1 => w # <<>> /\ w[1] = enabled[1]
        /\ w = <<>> => Len(enabled) = 1
    BY <1>2, <1>3, <1>a, RemovedDistinct
  <2> HIDE DEF w
  <2>3. enabled' = w
    BY <1>1 DEF w
  <2> QED BY <2>1, <2>2, <2>3
<1>5. rmodule.odev = EchoOf[enabled[1]] /\ enabled # <<>>
  BY <1>2, <1>3 DEF AecInv, Aec!ReverseFollowsOutput, EchoOf
<1>6. /\ a = <<a[1], a[2], a[3]>>
      /\ a[1] \in [AecDevs -> DevStates] /\ a[2] \in Inis /\ a[3] \in AecDevs \cup {"none"}
      /\ \A e \in AecDevs : DevSound(a[1][e])
      /\ \A e \in AecDevs : a[1][e].ext = "reverse" <=> e = a[3]
      /\ \A e \in AecDevs : a[1][e].open = dev[e].open /\ a[1][e].fmt = dev[e].fmt
      /\ InisSound(dev, ini) => InisSound(a[1], a[2])
      /\ a[3] = IF rmodule.odev = EchoOf[d] THEN "none" ELSE rmodule.odev
  <2>1. CASE rmodule.odev = EchoOf[d]
    <3>1. /\ off[1] \in [AecDevs -> DevStates] /\ off[2] \in Inis
          /\ off[1][EchoOf[d]].ext = "none"
          /\ \A e \in AecDevs : e # EchoOf[d] => off[1][e] = dev[e]
          /\ off[1][EchoOf[d]].open = dev[EchoOf[d]].open /\ off[1][EchoOf[d]].fmt = dev[EchoOf[d]].fmt
          /\ \A e \in AecDevs : DevSound(off[1][e])
          /\ InisSound(dev, ini) => InisSound(off[1], off[2])
      BY <1>2, <1>3, SetExt
    <3> HIDE DEF off
    <3>2. a = <<off[1], off[2], "none">>
      BY <2>1
    <3> HIDE DEF a
    <3>3. a[1] = off[1] /\ a[2] = off[2] /\ a[3] = "none" /\ a = <<a[1], a[2], a[3]>>
      BY <3>2
    <3>4. \A e \in AecDevs : off[1][e].ext # "reverse"
      BY <1>2, <2>1, <3>1
    <3>5. \A e \in AecDevs : off[1][e].open = dev[e].open /\ off[1][e].fmt = dev[e].fmt
      BY <3>1
    <3> QED BY <2>1, <3>1, <3>3, <3>4, <3>5, AecDevsAre
  <2>2. CASE rmodule.odev # EchoOf[d]
    <3>1. a = <<dev, ini, rmodule.odev>>
      BY <2>2
    <3> HIDE DEF a
    <3>2. a[1] = dev /\ a[2] = ini /\ a[3] = rmodule.odev /\ a = <<a[1], a[2], a[3]>>
      BY <3>1
    <3> QED BY <1>2, <2>2, <3>2
  <2> QED BY <2>1, <2>2
<1> HIDE DEF a
<1>7. /\ r[1] \in [AecDevs -> DevStates] /\ r[2] \in Inis /\ r[3] \in AecDevs \cup {"none"}
      /\ r[3] = IF enabled' = <<>> THEN a[3] ELSE EchoOf[enabled'[1]]
      /\ \A e \in AecDevs : r[1][e].ext = "reverse" <=> e = r[3]
      /\ \A e \in AecDevs : DevSound(r[1][e])
      /\ \A e \in AecDevs : r[1][e].open = a[1][e].open /\ r[1][e].fmt = a[1][e].fmt
      /\ InisSound(a[1], a[2]) => InisSound(r[1], r[2])
  <2> DEFINE v == a[1]  m == a[2]  o == a[3]
             c == Aec!update_first_output_dev_to_process(enabled', <<v, m, o>>)
  <2>1. /\ v \in [AecDevs -> DevStates] /\ m \in Inis /\ o \in AecDevs \cup {"none"}
        /\ \A e \in AecDevs : DevSound(v[e])
        /\ \A e \in AecDevs : v[e].ext = "reverse" <=> e = o
    BY <1>6
  <2>2. r = c
    BY <1>6
  <2> HIDE DEF v, m, o
  <2>3. /\ c[1] \in [AecDevs -> DevStates] /\ c[2] \in Inis /\ c[3] \in AecDevs \cup {"none"}
        /\ c[3] = IF enabled' = <<>> THEN o ELSE EchoOf[enabled'[1]]
        /\ \A e \in AecDevs : c[1][e].ext = "reverse" <=> e = c[3]
        /\ \A e \in AecDevs : DevSound(c[1][e])
        /\ \A e \in AecDevs : c[1][e].open = v[e].open /\ c[1][e].fmt = v[e].fmt
        /\ InisSound(v, m) => InisSound(c[1], c[2])
    BY <2>1, <1>4, UpdateFirst
  <2> HIDE DEF c, r
  <2> QED BY <2>2, <2>3 DEF v, m, o
<1> HIDE DEF r
<1>8. r[3] = IF enabled' = <<>> THEN "none" ELSE EchoOf[enabled'[1]]
  <2>1. CASE enabled' = <<>>
    <3>1. i = 1
      BY <2>1, <1>3, <1>4
    <3>2. enabled[1] = d
      BY <3>1, <1>3
    <3> QED BY <2>1, <3>2, <1>5, <1>6, <1>7
  <2> QED BY <2>1, <1>7
<1>9. \A e \in AecDevs : r[1][e].open = dev[e].open /\ r[1][e].fmt = dev[e].fmt
  BY <1>6, <1>7
<1>10. InisSound(dev, ini) => InisSound(r[1], r[2])
  BY <1>6, <1>7
<1>11. /\ dev' = r[1] /\ ini' = r[2] /\ rmodule' = [rmodule EXCEPT !.odev = r[3]]
       /\ UNCHANGED <<aecStream, active>>
  BY <1>1
<1> QED BY <1>4, <1>7, <1>8, <1>9, <1>10, <1>11, ModuleMoved

LEMMA AecStreamAdded ==
    ASSUME AecInv, NEW q \in AecStreams, NEW d \in AecDevs, Aec!add_stream_to_open_devs(q, d)
    PROVE  AecInv'
<1> DEFINE new == [dev |-> d, fmt |-> dev[d].fmt]
<1>1. PICK apms \in Aec!cras_apm_list_add_apm(q, d) :
        /\ aecStream' = [aecStream EXCEPT ![q] = [on |-> @.on \cup {d}, apms |-> apms]]
        /\ active' = Aec!cras_apm_list_start_apm(q, d, apms)
  BY DEF Aec!add_stream_to_open_devs
<1>2. /\ dev[d].open /\ d \notin aecStream[q].on
      /\ rmodule' = [rmodule EXCEPT !.process = active' # {}]
      /\ UNCHANGED <<dev, enabled, ini>>
  BY DEF Aec!add_stream_to_open_devs
<1>3. /\ dev \in [AecDevs -> DevStates]
      /\ aecStream \in [AecStreams -> [on : SUBSET AecDevs, apms : SUBSET Apms]]
      /\ active \subseteq AecStreams \X Apms
      /\ rmodule \in [odev : AecDevs \cup {"none"}, process : BOOLEAN]
  BY DEF AecInv, AecType
<1>4. new \in Apms
  <2>1. dev[d] \in DevStates
    BY <1>3
  <2> QED BY <2>1 DEF DevStates, Apms
<1>5. apms = aecStream[q].apms \/ apms = aecStream[q].apms \cup {new}
  BY <1>1 DEF Aec!cras_apm_list_add_apm
<1>6. /\ active' \subseteq active \cup {<<q, a>> : a \in {b \in apms : b.dev = d}}
  BY <1>1 DEF Aec!cras_apm_list_start_apm
<1> HIDE DEF new
<1>7. apms \subseteq Apms /\ aecStream[q].apms \subseteq apms
  BY <1>3, <1>4, <1>5
<1>8. /\ aecStream'[q] = [on |-> aecStream[q].on \cup {d}, apms |-> apms]
      /\ \A p \in AecStreams : p # q => aecStream'[p] = aecStream[p]
      /\ aecStream' \in [AecStreams -> [on : SUBSET AecDevs, apms : SUBSET Apms]]
  BY <1>1, <1>3, <1>7
<1>9. ASSUME NEW a \in apms
      PROVE  dev[a.dev].open /\ a.fmt = dev[a.dev].fmt
  <2>1. CASE a \in aecStream[q].apms
    BY <2>1 DEF AecInv, ApmsCurrent
  <2>2. CASE a = new
    BY <2>2, <1>2 DEF new
  <2> QED BY <1>5, <2>1, <2>2
<1>10. ASSUME NEW p \in AecStreams, NEW a \in aecStream'[p].apms
       PROVE  dev'[a.dev].open /\ a.fmt = dev'[a.dev].fmt
  <2>1. CASE p = q
    <3>1. a \in apms
      BY <2>1, <1>8, <1>10
    <3> QED BY <3>1, <1>2, <1>9
  <2>2. CASE p # q
    <3>1. a \in aecStream[p].apms
      BY <2>2, <1>8, <1>10
    <3> QED BY <3>1, <1>2 DEF AecInv, ApmsCurrent
  <2> QED BY <2>1, <2>2
<1>11. ApmsCurrent'
  BY <1>10 DEF ApmsCurrent
<1>12. Aec!ActiveIsCurrent'
  <2> SUFFICES ASSUME NEW a \in active'
               PROVE  /\ a[2] \in aecStream'[a[1]].apms /\ a[2].dev \in aecStream'[a[1]].on
                      /\ a[2].fmt = dev'[a[2].dev].fmt
    BY DEF Aec!ActiveIsCurrent
  <2>1. /\ a[1] \in AecStreams
        /\ a[2] \in aecStream'[a[1]].apms /\ a[2].dev \in aecStream'[a[1]].on
    <3>1. CASE a \in active
      <4>1. /\ a[1] \in AecStreams
            /\ a[2] \in aecStream[a[1]].apms /\ a[2].dev \in aecStream[a[1]].on
        BY <3>1, <1>3 DEF AecInv, Aec!ActiveIsCurrent
      <4> QED BY <4>1, <1>7, <1>8
    <3>2. CASE a \in {<<q, b>> : b \in {c \in apms : c.dev = d}}
      <4>1. a[1] = q /\ a[2] \in apms /\ a[2].dev = d
        BY <3>2
      <4> QED BY <4>1, <1>8
    <3> QED BY <3>1, <3>2, <1>6
  <2> QED BY <2>1, <1>10
<1>13. rmodule'.odev = rmodule.odev /\ rmodule' \in [odev : AecDevs \cup {"none"}, process : BOOLEAN]
  BY <1>2, <1>3
<1>14. active' \subseteq AecStreams \X Apms
  BY <1>3, <1>6, <1>7
<1>15. AecType'
  BY <1>2, <1>8, <1>13, <1>14 DEF AecInv, AecType
<1>16. Aec!ReverseFollowsOutput'
  BY <1>2, <1>13, ReverseKept
<1> QED BY <1>2, <1>11, <1>12, <1>15, <1>16 DEF AecInv

LEMMA AecStreamDestroyed ==
    ASSUME AecInv, NEW q \in AecStreams, NEW d \in AecDevs, Aec!dev_stream_destroy(q, d)
    PROVE  AecInv'
<1>1. /\ aecStream' = [aecStream EXCEPT ![q].on = @ \ {d}]
      /\ active' = {a \in active : ~(a[1] = q /\ a[2].dev = d)}
      /\ rmodule' = [rmodule EXCEPT !.process = active' # {}]
      /\ UNCHANGED <<dev, enabled, ini>>
  BY DEF Aec!dev_stream_destroy, Aec!cras_apm_list_stop_apm, Aec!update_process_reverse_flag
<1>2. /\ aecStream \in [AecStreams -> [on : SUBSET AecDevs, apms : SUBSET Apms]]
      /\ active \subseteq AecStreams \X Apms
      /\ rmodule \in [odev : AecDevs \cup {"none"}, process : BOOLEAN]
  BY DEF AecInv, AecType
<1>3. /\ aecStream' \in [AecStreams -> [on : SUBSET AecDevs, apms : SUBSET Apms]]
      /\ \A p \in AecStreams : aecStream'[p].apms = aecStream[p].apms
      /\ \A p \in AecStreams : \A e \in aecStream[p].on :
            ~(p = q /\ e = d) => e \in aecStream'[p].on
  BY <1>1, <1>2
<1>4. rmodule'.odev = rmodule.odev /\ rmodule' \in [odev : AecDevs \cup {"none"}, process : BOOLEAN]
  BY <1>1, <1>2
<1>5. AecType'
  BY <1>1, <1>2, <1>3, <1>4 DEF AecInv, AecType
<1>6. ApmsCurrent'
  BY <1>1, <1>3 DEF AecInv, ApmsCurrent
<1>7. Aec!ActiveIsCurrent'
  <2> SUFFICES ASSUME NEW a \in active'
               PROVE  /\ a[2] \in aecStream'[a[1]].apms /\ a[2].dev \in aecStream'[a[1]].on
                      /\ a[2].fmt = dev'[a[2].dev].fmt
    BY DEF Aec!ActiveIsCurrent
  <2>1. a \in active /\ ~(a[1] = q /\ a[2].dev = d) /\ a[1] \in AecStreams
    BY <1>1, <1>2
  <2>2. /\ a[2] \in aecStream[a[1]].apms /\ a[2].dev \in aecStream[a[1]].on
        /\ a[2].fmt = dev[a[2].dev].fmt
    BY <2>1 DEF AecInv, Aec!ActiveIsCurrent
  <2> QED BY <2>1, <2>2, <1>1, <1>3
<1>8. Aec!ReverseFollowsOutput'
  BY <1>1, <1>4, ReverseKept
<1> QED BY <1>1, <1>5, <1>6, <1>7, <1>8 DEF AecInv

LEMMA AecListDestroyed ==
    ASSUME AecInv, NEW q \in AecStreams, Aec!cras_apm_list_destroy(q)
    PROVE  AecInv'
<1>1. /\ aecStream[q].on = {} /\ aecStream' = [aecStream EXCEPT ![q].apms = {}]
      /\ UNCHANGED <<dev, enabled, active, rmodule, ini>>
  BY DEF Aec!cras_apm_list_destroy
<1>2. /\ aecStream \in [AecStreams -> [on : SUBSET AecDevs, apms : SUBSET Apms]]
      /\ active \subseteq AecStreams \X Apms
  BY DEF AecInv, AecType
<1>3. /\ aecStream' \in [AecStreams -> [on : SUBSET AecDevs, apms : SUBSET Apms]]
      /\ \A p \in AecStreams : p # q => aecStream'[p] = aecStream[p]
      /\ aecStream'[q].apms = {}
  BY <1>1, <1>2
<1>4. AecType'
  BY <1>1, <1>3 DEF AecInv, AecType
<1>5. ApmsCurrent'
  BY <1>1, <1>3 DEF AecInv, ApmsCurrent
<1>6. Aec!ActiveIsCurrent'
  <2> SUFFICES ASSUME NEW a \in active
               PROVE  /\ a[2] \in aecStream'[a[1]].apms /\ a[2].dev \in aecStream'[a[1]].on
                      /\ a[2].fmt = dev'[a[2].dev].fmt
    BY <1>1 DEF Aec!ActiveIsCurrent
  <2>1. a[1] \in AecStreams
    BY <1>2
  <2>2. /\ a[2] \in aecStream[a[1]].apms /\ a[2].dev \in aecStream[a[1]].on
        /\ a[2].fmt = dev[a[2].dev].fmt
    BY DEF AecInv, Aec!ActiveIsCurrent
  <2>3. a[1] # q
    BY <1>1, <2>2
  <2> QED BY <2>1, <2>2, <2>3, <1>1, <1>3
<1>7. Aec!ReverseFollowsOutput'
  BY <1>1, ReverseKept
<1> QED BY <1>1, <1>4, <1>5, <1>6, <1>7 DEF AecInv

LEMMA AecStep == AecInv /\ Aec!Next => AecInv'
<1> SUFFICES ASSUME AecInv, Aec!Next PROVE AecInv'
  OBVIOUS
<1>1. ASSUME NEW d \in AecDevs, Aec!cras_iodev_open(d) \/ Aec!close_dev(d) \/ Aec!cras_iodev_update_dsp(d)
      PROVE  AecInv'
  BY <1>1, AecOpen, AecClose, AecUpdateDsp
<1>2. ASSUME NEW o \in AecOutputs, Aec!handle_device_enabled(o) \/ Aec!handle_device_disabled(o)
      PROVE  AecInv'
  BY <1>2, AecEnabled, AecDisabled
<1>3. ASSUME NEW q \in AecStreams, NEW d \in AecDevs,
             Aec!add_stream_to_open_devs(q, d) \/ Aec!dev_stream_destroy(q, d)
      PROVE  AecInv'
  BY <1>3, AecStreamAdded, AecStreamDestroyed
<1>4. ASSUME NEW q \in AecStreams, Aec!cras_apm_list_destroy(q)
      PROVE  AecInv'
  BY <1>4, AecListDestroyed
<1> QED BY <1>1, <1>2, <1>3, <1>4, AecReload, AecDevsAre DEF Aec!Next

LEMMA AecStutter == AecInv /\ UNCHANGED aecVars => AecInv'
<1> SUFFICES ASSUME AecInv, UNCHANGED aecVars PROVE AecInv'
  OBVIOUS
<1>1. UNCHANGED <<dev, enabled, aecStream, active, rmodule, ini>>
  BY DEF aecVars
<1>2. ApmsCurrent' /\ Aec!ActiveIsCurrent'
  BY <1>1, ApmsKept DEF AecInv, AecType
<1>3. Aec!ReverseFollowsOutput'
  BY <1>1, ReverseKept
<1> QED BY <1>1, <1>2, <1>3 DEF AecInv, AecType

LEMMA AecAlways == MCSpec => []AecInv
<1>1. MCInit => AecInv
  BY AecInit DEF MCInit
<1>2. AecInv /\ [MCNext]_mcVars => AecInv'
  BY AecStep, AecStutter DEF MCNext, mcVars, aecVars
<1> QED BY <1>1, <1>2, PTL DEF MCSpec

\* Audio processing follows the devices, however often devices are opened and closed,
\* outputs enabled and disabled, streams attached and detached and ini files read again:
\* an active processing object exists and has the format of its device, the reverse
\* module is on the first enabled output's echo reference alone and runs in its pipeline
\* unless that was loaded again, and no ini file in use is freed, provided every pipeline
\* that is made also loads (cras_apm_list.c, cras_iodev.c, cras_dsp.c).
THEOREM ProcessingStaysCurrent == LoadFails = FALSE => (MCSpec => []ProcessingCurrent)
<1> SUFFICES ASSUME LoadFails = FALSE PROVE MCSpec => []ProcessingCurrent
  OBVIOUS
<1>1. AecInv => ProcessingCurrent
  <2> SUFFICES ASSUME AecInv PROVE ProcessingCurrent
    OBVIOUS
  <2>1. Aec!ModuleInPipeline
    BY AecDevsAre DEF AecInv, DevSound, Aec!ModuleInPipeline
  <2>2. Aec!IniLive
    BY AecDevsAre DEF AecInv, InisSound, Aec!IniLive
  <2> QED BY <2>1, <2>2 DEF AecInv, ProcessingCurrent
<1> QED BY <1>1, AecAlways, PTL

\* Whether or not pipelines load, the processing objects, the place of the reverse module
\* and the module of a pipeline are right: a failed load only costs the ini file.
THEOREM ModulesFollowDevices ==
    MCSpec => [](Aec!ActiveIsCurrent /\ Aec!ReverseFollowsOutput /\ Aec!ModuleInPipeline)
<1>1. AecInv => Aec!ActiveIsCurrent /\ Aec!ReverseFollowsOutput /\ Aec!ModuleInPipeline
  BY AecDevsAre DEF AecInv, DevSound, Aec!ModuleInPipeline
<1> QED BY <1>1, AecAlways, PTL

-----------------------------------------------------------------------------
(* The two threads: audio_thread.c.                                        *)

Ids == {"none", "ADD_OPEN_DEV", "RM_OPEN_DEV", "REMOVE_CALLBACK", "ADD_STREAM", "DISCONNECT_STREAM",
        "DRAIN_STREAM", "IS_DEV_OPEN", "DEV_START_RAMP", "AEC_DUMP", "DUMP_THREAD_INFO",
        "CONFIG_GLOBAL_REMIX", "STOP"}
Commands == [id : Ids, dev : Devs \cup {"none"}, stream : Streams \cup {"none"}, conv : Nat]
Answers == [kind : {"int", "ptr"}, rc : Nat]
Callbacks == [dev : Devs, enabled : BOOLEAN, pollfd : [gen : Nat, idx : Nat]]
Mains == [pc : {"idle", "appending", "opening", "closing", "waiting", "joining", "destroyed"}, cmd : Commands,
          rsp : Seq(Answers), devs : SUBSET Devs, streams : SUBSET Streams, draining : SUBSET Streams,
          remix : SUBSET Nat, tail : Devs \cup {"none"}, commands : Nat]

\* The array of descriptors, which of them are ready and the callback that is next are not typed.
Threads(t) ==
    [pc : {"created", "run", "poll", "wait", "message", "dispatch", "exited"}, open : Seq(Devs),
     pollfds : {t.pollfds}, fds : {t.fds}, size : Nat, gen : Nat, remix : Nat, ready : {t.ready},
     cur : {t.cur}, msgs : Seq(Commands), info : [devs : Nat, streams : Nat]]

TypeInv ==
    /\ thread \in Threads(thread)
    /\ callbacks \in Seq(Callbacks)
    /\ attached \in [Devs -> SUBSET Streams]
    /\ main \in Mains

\* No device is twice in the open list, and no descriptor has two callbacks.
ListsInv ==
    /\ \A j, k \in 1..Len(thread.open) : thread.open[j] = thread.open[k] => j = k
    /\ \A j, k \in 1..Len(callbacks) : callbacks[j].dev = callbacks[k].dev => j = k

\* A command is on its way: it is the one the main thread waits for, and the converter it
\* carries is not the one in use.
Pending ==
    /\ main.rsp = <<>>
    /\ \E m \in Commands :
         /\ thread.msgs = <<m>>
         /\ m.id = main.cmd.id /\ m.dev = main.cmd.dev /\ m.stream = main.cmd.stream
         /\ m.id = "CONFIG_GLOBAL_REMIX" =>
              m.conv \in main.remix \cup {0} /\ (m.conv = 0 \/ m.conv # thread.remix)

\* What the audio thread has let go of when it answers.
Released(r) ==
    /\ main.cmd.id = "RM_OPEN_DEV" => main.cmd.dev \notin Range(thread.open)
    /\ main.cmd.id = "REMOVE_CALLBACK" => main.cmd.dev \notin Registered
    /\ main.cmd.id = "DISCONNECT_STREAM" \/ (main.cmd.id = "DRAIN_STREAM" /\ r.rc = 0)
         => \A d \in Devs : main.cmd.stream \notin attached[d]
    /\ main.cmd.id = "CONFIG_GLOBAL_REMIX" => thread.remix = 0 \/ thread.remix # r.rc

Replied ==
    /\ thread.msgs = <<>>
    /\ \E r \in Answers : main.rsp = <<r>> /\ Released(r)

StepInv ==
    /\ main.pc = "waiting" => Pending \/ Replied
    /\ main.pc # "waiting" => thread.msgs = <<>> /\ main.rsp = <<>>
    /\ thread.pc = "message" => thread.msgs # <<>>

\* What a command names is there: a device to open, a stream to attach; and a device whose
\* callback is taken away is closed.
CommandInv ==
    /\ main.pc \in {"appending", "opening"} \/ (main.pc = "waiting" /\ main.cmd.id = "ADD_OPEN_DEV")
         => main.cmd.dev \in main.devs
    /\ main.pc = "waiting" /\ main.cmd.id = "ADD_STREAM" => main.cmd.stream \in main.streams
    /\ main.pc = "closing" \/ (main.pc = "waiting" /\ main.cmd.id = "REMOVE_CALLBACK")
         => main.cmd.dev \notin Range(thread.open)

HeldInv ==
    /\ Range(thread.open) \subseteq main.devs
    /\ \A d \in Devs : attached[d] \subseteq main.streams
    /\ \A d \in Devs : d \notin Range(thread.open) => attached[d] = {}
    /\ Registered \subseteq main.devs
    /\ thread.remix \in main.remix \cup {0}

ThreadInv ==
    /\ TypeInv /\ ListsInv /\ StepInv /\ CommandInv /\ HeldInv
    /\ PollfdsCurrent /\ DumpFits

LEMMA ThreadInit == Init => ThreadInv
<1> SUFFICES ASSUME Init PROVE ThreadInv
  OBVIOUS
<1> USE AudioThreadAssumption
<1>1. /\ thread.pc = "created" /\ thread.open = <<>> /\ thread.msgs = <<>> /\ thread.remix = 0
      /\ thread.info = [devs |-> 0, streams |-> 0] /\ callbacks = <<>> /\ attached = [d \in Devs |-> {}]
      /\ main.pc = "idle" /\ main.rsp = <<>> /\ main.devs = {} /\ main.streams = {} /\ main.remix = {}
  BY DEF Init
<1>2. TypeInv
  <2>1. thread \in Threads(thread)
    BY DEF Init, Threads, None
  <2>2. NoCommand \in Commands
    BY DEF NoCommand, Asked, Commands, None, Ids
  <2>3. main \in Mains
    BY <2>2 DEF Init, Mains, None
  <2> QED BY <1>1, <2>1, <2>3 DEF TypeInv
<1>3. Range(thread.open) = {} /\ Registered = {}
  BY <1>1 DEF Range, Registered
<1>4. ListsInv /\ StepInv /\ CommandInv
  BY <1>1 DEF ListsInv, StepInv, CommandInv
<1>5. HeldInv
  BY <1>1, <1>3 DEF HeldInv
<1>6. PollfdsCurrent
  BY <1>1 DEF PollfdsCurrent
<1>7. DumpFits
  BY <1>1 DEF DumpFits
<1> QED BY <1>2, <1>4, <1>5, <1>6, <1>7 DEF ThreadInv

\* A command that may be sent: the main thread goes on to wait for it.
LEMMA Posted ==
    ASSUME ThreadInv, main.pc # "waiting", NEW m \in Commands,
           thread' = [thread EXCEPT !.msgs = Append(@, m)],
           main' \in Mains, main'.pc = "waiting", main'.rsp = main.rsp,
           main'.cmd.id = m.id, main'.cmd.dev = m.dev, main'.cmd.stream = m.stream,
           main'.devs = main.devs, main.streams \subseteq main'.streams,
           main.remix \subseteq main'.remix,
           UNCHANGED <<callbacks, attached>>,
           m.id = "ADD_OPEN_DEV" => m.dev \in main.devs,
           m.id = "ADD_STREAM" => m.stream \in main'.streams,
           m.id = "REMOVE_CALLBACK" => m.dev \notin Range(thread.open),
           m.id = "CONFIG_GLOBAL_REMIX" =>
              m.conv \in main'.remix \cup {0} /\ (m.conv = 0 \/ m.conv # thread.remix)
    PROVE  ThreadInv'
<1>1. thread \in Threads(thread) /\ thread.msgs = <<>> /\ main.rsp = <<>>
  BY DEF ThreadInv, TypeInv, StepInv
<1>2. /\ thread'.pc = thread.pc /\ thread'.open = thread.open /\ thread'.pollfds = thread.pollfds
      /\ thread'.gen = thread.gen /\ thread'.remix = thread.remix /\ thread'.ready = thread.ready
      /\ thread'.info = thread.info /\ thread'.msgs = Append(thread.msgs, m)
  BY <1>1 DEF Threads
<1>3. thread'.msgs = <<m>> /\ thread'.msgs \in Seq(Commands)
  BY <1>1, <1>2
<1>4. thread' \in Threads(thread')
  BY <1>1, <1>2, <1>3 DEF Threads
<1>5. TypeInv'
  BY <1>4 DEF ThreadInv, TypeInv
<1>6. ListsInv'
  BY <1>2 DEF ThreadInv, ListsInv
<1>7. StepInv'
  <2>1. Pending'
    BY <1>1, <1>2, <1>3 DEF Pending
  <2> QED BY <2>1, <1>3 DEF StepInv
<1>8. CommandInv'
  BY <1>2 DEF CommandInv
<1>9. Registered' = Registered
  BY DEF Registered
<1>10. HeldInv'
  BY <1>2, <1>9 DEF ThreadInv, HeldInv
<1>11. PollfdsCurrent' /\ DumpFits'
  BY <1>2 DEF ThreadInv, PollfdsCurrent, DumpFits
<1> QED BY <1>5, <1>6, <1>7, <1>8, <1>10, <1>11 DEF ThreadInv

\* audio_thread_post_message, for the commands that carry a device or a stream.
LEMMA PostMessage ==
    ASSUME ThreadInv, main.pc # "waiting", NEW id \in Ids, id # "CONFIG_GLOBAL_REMIX",
           NEW d \in Devs \cup {"none"}, NEW q \in Streams \cup {"none"}, NEW m \in Mains,
           m.rsp = main.rsp, m.devs = main.devs, m.remix = main.remix,
           main.streams \subseteq m.streams,
           audio_thread_post_message(m, id, d, q),
           UNCHANGED <<callbacks, attached>>,
           id = "ADD_OPEN_DEV" => d \in main.devs,
           id = "ADD_STREAM" => q \in m.streams,
           id = "REMOVE_CALLBACK" => d \notin Range(thread.open)
    PROVE  ThreadInv'
<1> DEFINE c == Asked(id, d, q)
<1>1. c \in Commands /\ c.id = id /\ c.dev = d /\ c.stream = q
  BY DEF Asked, Commands
<1>2. /\ thread' = [thread EXCEPT !.msgs = Append(@, c)]
      /\ main' = [m EXCEPT !.pc = "waiting", !.cmd = c, !.commands = @ + 1]
  BY DEF audio_thread_post_message
<1> HIDE DEF c
<1>3. m.commands + 1 \in Nat
  BY DEF Mains
<1>4. main' \in Mains
  BY <1>1, <1>2, <1>3 DEF Mains
<1>5. /\ main'.pc = "waiting" /\ main'.cmd = c /\ main'.rsp = m.rsp /\ main'.devs = m.devs
      /\ main'.streams = m.streams /\ main'.remix = m.remix
  BY <1>2 DEF Mains
<1> QED BY <1>1, <1>2, <1>4, <1>5, Posted

\* Every command of the main thread but the remix one.
LEMMA PostSteps ==
    ASSUME ThreadInv,
           \/ audio_thread_add_open_dev \/ audio_thread_rm_callback_sync
           \/ audio_thread_dump_thread_info \/ audio_thread_destroy
           \/ \E d \in Devs : audio_thread_rm_open_dev(d)
           \/ \E d \in Devs, id \in {"IS_DEV_OPEN", "DEV_START_RAMP", "AEC_DUMP"} : audio_thread_ask(id, d)
           \/ \E q \in Streams, d \in Devs : audio_thread_add_stream(q, d)
           \/ \E q \in Streams : audio_thread_disconnect_stream(q) \/ audio_thread_drain_stream(q)
    PROVE  ThreadInv'
<1>0. main \in Mains /\ main.cmd.dev \in Devs \cup {"none"}
  <2>1. main \in Mains
    BY DEF ThreadInv, TypeInv
  <2> QED BY <2>1 DEF Mains, Commands
<1> USE DEF None
<1>1. CASE audio_thread_add_open_dev
  BY <1>0, <1>1, PostMessage DEF audio_thread_add_open_dev, Ids, ThreadInv, CommandInv
<1>2. CASE audio_thread_rm_callback_sync
  BY <1>0, <1>2, PostMessage DEF audio_thread_rm_callback_sync, Ids, ThreadInv, CommandInv
<1>3. CASE audio_thread_dump_thread_info
  BY <1>0, <1>3, PostMessage DEF audio_thread_dump_thread_info, CanPost, Ids
<1>4. CASE audio_thread_destroy
  BY <1>0, <1>4, PostMessage DEF audio_thread_destroy, CanPost, Ids
<1>5. ASSUME NEW d \in Devs, audio_thread_rm_open_dev(d) PROVE ThreadInv'
  BY <1>0, <1>5, PostMessage DEF audio_thread_rm_open_dev, CanPost, Ids
<1>6. ASSUME NEW d \in Devs, NEW id \in {"IS_DEV_OPEN", "DEV_START_RAMP", "AEC_DUMP"},
             audio_thread_ask(id, d)
      PROVE  ThreadInv'
  BY <1>0, <1>6, PostMessage DEF audio_thread_ask, CanPost, Ids
<1>7. ASSUME NEW q \in Streams, NEW d \in Devs, audio_thread_add_stream(q, d) PROVE ThreadInv'
  <2> DEFINE m == [main EXCEPT !.streams = @ \cup {q}]
  <2>1. main.streams \cup {q} \in SUBSET Streams
    BY <1>0 DEF Mains
  <2>2. m \in Mains /\ m.rsp = main.rsp /\ m.devs = main.devs /\ m.remix = main.remix
        /\ m.streams = main.streams \cup {q}
    BY <1>0, <2>1 DEF Mains
  <2>3. /\ main.pc # "waiting" /\ audio_thread_post_message(m, "ADD_STREAM", d, q)
        /\ UNCHANGED <<callbacks, attached>>
    BY <1>7 DEF audio_thread_add_stream, CanPost
  <2> HIDE DEF m
  <2> QED BY <2>2, <2>3, PostMessage DEF Ids
<1>8. ASSUME NEW q \in Streams, audio_thread_disconnect_stream(q) PROVE ThreadInv'
  BY <1>0, <1>8, PostMessage DEF audio_thread_disconnect_stream, CanPost, Ids
<1>9. ASSUME NEW q \in Streams, audio_thread_drain_stream(q) PROVE ThreadInv'
  <2> DEFINE m == [main EXCEPT !.draining = @ \cup {q}]
  <2>1. main.draining \cup {q} \in SUBSET Streams
    BY <1>0 DEF Mains
  <2>2. m \in Mains /\ m.rsp = main.rsp /\ m.devs = main.devs /\ m.remix = main.remix
        /\ m.streams = main.streams
    BY <1>0, <2>1 DEF Mains
  <2>3. /\ main.pc # "waiting" /\ audio_thread_post_message(m, "DRAIN_STREAM", "none", q)
        /\ UNCHANGED <<callbacks, attached>>
    BY <1>9 DEF audio_thread_drain_stream, CanPost
  <2> HIDE DEF m
  <2> QED BY <2>2, <2>3, PostMessage DEF Ids
<1> QED BY <1>1, <1>2, <1>3, <1>4, <1>5, <1>6, <1>7, <1>8, <1>9

LEMMA RemixStep ==
    ASSUME ThreadInv, NEW conv \in 0..2, audio_thread_config_global_remix(conv)
    PROVE  ThreadInv'
<1> DEFINE c == Asked("CONFIG_GLOBAL_REMIX", "none", "none")
           m == [c EXCEPT !.conv = conv]
           kept == main.remix \cup ({conv} \ {0})
<1>1. /\ main.pc = "idle" /\ conv \notin main.remix
      /\ thread' = [thread EXCEPT !.msgs = Append(@, m)]
      /\ main' = [main EXCEPT !.pc = "waiting", !.cmd = c, !.commands = @ + 1, !.remix = kept]
      /\ UNCHANGED <<callbacks, attached>>
  BY DEF audio_thread_config_global_remix, CanPost, None
<1>2. c \in Commands /\ c.id = "CONFIG_GLOBAL_REMIX" /\ c.dev = "none" /\ c.stream = "none"
  BY DEF Asked, Commands, Ids
<1>3. /\ m \in Commands /\ m.id = "CONFIG_GLOBAL_REMIX" /\ m.dev = "none" /\ m.stream = "none"
      /\ m.conv = conv
  BY DEF Asked, Commands, Ids
<1>4. main \in Mains /\ thread.remix \in main.remix \cup {0}
  BY DEF ThreadInv, TypeInv, HeldInv
<1>5. main.commands + 1 \in Nat /\ kept \in SUBSET Nat /\ main.remix \subseteq kept
      /\ conv \in kept \cup {0}
  BY <1>4 DEF Mains
<1>6. conv = 0 \/ conv # thread.remix
  BY <1>1, <1>4
<1> HIDE DEF c, m, kept
<1>7. main' \in Mains
  BY <1>1, <1>2, <1>4, <1>5 DEF Mains
<1>8. /\ main'.pc = "waiting" /\ main'.cmd = c /\ main'.rsp = main.rsp /\ main'.devs = main.devs
      /\ main'.streams = main.streams /\ main'.remix = kept
  BY <1>1, <1>4 DEF Mains
<1> QED BY <1>1, <1>2, <1>3, <1>5, <1>6, <1>7, <1>8, Posted

\* A step of the main thread alone, which is not waiting afterwards.
LEMMA MainMoves ==
    ASSUME ThreadInv, main' \in Mains, main'.pc # "waiting", main'.rsp = <<>>, thread.msgs = <<>>,
           UNCHANGED <<thread, callbacks, attached>>,
           main'.pc \in {"appending", "opening"} => main'.cmd.dev \in main'.devs,
           main'.pc = "closing" => main'.cmd.dev \notin Range(thread.open),
           Range(thread.open) \subseteq main'.devs,
           Registered \subseteq main'.devs,
           \A d \in Devs : attached[d] \subseteq main'.streams,
           thread.remix \in main'.remix \cup {0}
    PROVE  ThreadInv'
<1>1. TypeInv' /\ ListsInv'
  BY DEF ThreadInv, TypeInv, ListsInv
<1>2. StepInv' /\ CommandInv'
  BY DEF ThreadInv, StepInv, CommandInv
<1>3. HeldInv'
  BY DEF ThreadInv, HeldInv, Registered
<1>4. PollfdsCurrent' /\ DumpFits'
  BY DEF ThreadInv, PollfdsCurrent, DumpFits
<1> QED BY <1>1, <1>2, <1>3, <1>4 DEF ThreadInv

LEMMA AnswerStep == ThreadInv /\ read_until_finished => ThreadInv'
<1> SUFFICES ASSUME ThreadInv, read_until_finished PROVE ThreadInv'
  OBVIOUS
<1>0. NoCommand \in Commands
  BY DEF NoCommand, Asked, Commands, None, Ids
<1>1. /\ main.pc = "waiting" /\ main.rsp # <<>> /\ UNCHANGED <<thread, callbacks, attached>>
      /\ main' = GotAnswer([main EXCEPT !.rsp = Tail(@)], Head(main.rsp))
  BY DEF read_until_finished
<1>2. PICK r \in Answers : main.rsp = <<r>> /\ Released(r) /\ thread.msgs = <<>>
  BY <1>1 DEF ThreadInv, StepInv, Pending, Replied
<1>3. main \in Mains /\ HeldInv /\ CommandInv
  BY DEF ThreadInv, TypeInv
<1> DEFINE m == [main EXCEPT !.rsp = Tail(@)]
<1>4. Head(main.rsp) = r /\ Tail(main.rsp) = <<>> /\ Tail(main.rsp) \in Seq(Answers)
  BY <1>2
<1>5. m \in Mains /\ m.cmd = main.cmd /\ m.devs = main.devs /\ m.streams = main.streams
      /\ m.remix = main.remix /\ m.rsp = <<>> /\ m.draining = main.draining
  BY <1>3, <1>4 DEF Mains
<1> HIDE DEF m
<1>6. main' = GotAnswer(m, r)
  BY <1>1, <1>4 DEF m
<1>7. CASE main.cmd.id = "RM_OPEN_DEV"
  <2>1. main' = [m EXCEPT !.pc = "closing"]
    BY <1>5, <1>6, <1>7 DEF GotAnswer
  <2>2. main' \in Mains /\ main'.pc = "closing" /\ main'.cmd = m.cmd /\ main'.devs = m.devs
        /\ main'.streams = m.streams /\ main'.remix = m.remix /\ main'.rsp = m.rsp
    BY <1>0, <1>5, <2>1 DEF Mains
  <2>3. main'.cmd.dev \notin Range(thread.open)
    BY <1>2, <1>5, <1>7, <2>2 DEF Released
  <2> QED BY <1>1, <1>2, <1>3, <1>5, <2>2, <2>3, MainMoves DEF HeldInv
<1>8. CASE main.cmd.id = "REMOVE_CALLBACK"
  <2> DEFINE devs == m.devs \ {m.cmd.dev}
  <2>1. main' = [m EXCEPT !.pc = "idle", !.cmd = NoCommand, !.devs = devs]
    BY <1>5, <1>6, <1>8 DEF GotAnswer
  <2>2. devs \in SUBSET Devs
    BY <1>5 DEF Mains
  <2>3. Range(thread.open) \subseteq devs /\ Registered \subseteq devs
    BY <1>1, <1>2, <1>3, <1>5, <1>8 DEF Released, HeldInv, CommandInv
  <2> HIDE DEF devs
  <2>4. main' \in Mains /\ main'.pc = "idle" /\ main'.devs = devs
        /\ main'.streams = m.streams /\ main'.remix = m.remix /\ main'.rsp = m.rsp
    BY <1>0, <1>5, <2>1, <2>2 DEF Mains
  <2> QED BY <1>1, <1>2, <1>3, <1>5, <2>3, <2>4, MainMoves DEF HeldInv
<1>9. CASE main.cmd.id = "DISCONNECT_STREAM" \/ (main.cmd.id = "DRAIN_STREAM" /\ r.rc = 0)
  <2> DEFINE streams == m.streams \ {m.cmd.stream}
             draining == m.draining \ {m.cmd.stream}
  <2>1. main' = [m EXCEPT !.pc = "idle", !.cmd = NoCommand, !.streams = streams, !.draining = draining]
    BY <1>5, <1>6, <1>9 DEF GotAnswer
  <2>2. streams \in SUBSET Streams /\ draining \in SUBSET Streams
    BY <1>5 DEF Mains
  <2>3. \A d \in Devs : attached[d] \subseteq streams
    BY <1>2, <1>3, <1>5, <1>9 DEF Released, HeldInv
  <2> HIDE DEF streams, draining
  <2>4. main' \in Mains /\ main'.pc = "idle" /\ main'.devs = m.devs
        /\ main'.streams = streams /\ main'.remix = m.remix /\ main'.rsp = m.rsp
    BY <1>0, <1>5, <2>1, <2>2 DEF Mains
  <2> QED BY <1>1, <1>2, <1>3, <1>5, <2>3, <2>4, MainMoves DEF HeldInv
<1>10. CASE main.cmd.id = "CONFIG_GLOBAL_REMIX"
  <2> DEFINE remix == m.remix \ {r.rc}
  <2>1. main' = [m EXCEPT !.pc = "idle", !.cmd = NoCommand, !.remix = remix]
    BY <1>5, <1>6, <1>10 DEF GotAnswer
  <2>2. remix \in SUBSET Nat
    BY <1>5 DEF Mains
  <2>3. thread.remix \in remix \cup {0}
    BY <1>2, <1>3, <1>5, <1>10 DEF Released, HeldInv
  <2> HIDE DEF remix
  <2>4. main' \in Mains /\ main'.pc = "idle" /\ main'.devs = m.devs
        /\ main'.streams = m.streams /\ main'.remix = remix /\ main'.rsp = m.rsp
    BY <1>0, <1>5, <2>1, <2>2 DEF Mains
  <2> QED BY <1>1, <1>2, <1>3, <1>5, <2>3, <2>4, MainMoves DEF HeldInv
<1>11. CASE /\ main.cmd.id \notin {"RM_OPEN_DEV", "REMOVE_CALLBACK", "CONFIG_GLOBAL_REMIX", "DISCONNECT_STREAM"}
            /\ ~(main.cmd.id = "DRAIN_STREAM" /\ r.rc = 0)
  <2>1. main' = [m EXCEPT !.pc = "idle", !.cmd = NoCommand] \/ main' = [m EXCEPT !.pc = "joining"]
    BY <1>5, <1>6, <1>11 DEF GotAnswer
  <2>2. main' \in Mains /\ main'.pc \in {"idle", "joining"} /\ main'.devs = m.devs
        /\ main'.streams = m.streams /\ main'.remix = m.remix /\ main'.rsp = m.rsp
    BY <1>0, <1>5, <2>1 DEF Mains
  <2> QED BY <1>1, <1>2, <1>3, <1>5, <2>2, MainMoves DEF HeldInv
<1> QED BY <1>7, <1>8, <1>9, <1>10, <1>11

LEMMA JoinStep == ThreadInv /\ pthread_join => ThreadInv'
<1> SUFFICES ASSUME ThreadInv, pthread_join PROVE ThreadInv'
  OBVIOUS
<1>1. /\ main.pc = "joining" /\ UNCHANGED <<thread, callbacks, attached>>
      /\ main' = [main EXCEPT !.pc = "destroyed"]
  BY DEF pthread_join
<1>2. main \in Mains /\ HeldInv /\ thread.msgs = <<>> /\ main.rsp = <<>>
  BY <1>1 DEF ThreadInv, TypeInv, StepInv
<1>3. main' \in Mains /\ main'.pc = "destroyed" /\ main'.devs = main.devs
      /\ main'.streams = main.streams /\ main'.remix = main.remix /\ main'.rsp = main.rsp
  BY <1>1, <1>2 DEF Mains
<1> QED BY <1>1, <1>2, <1>3, MainMoves DEF HeldInv

StartedPcs == {"wait", "message", "dispatch"}

\* The pollfd of a callback, when there is one, is the entry of its own descriptor.
Current(cb, gen, fds) == cb.pollfd # Null => cb.pollfd.gen = gen /\ fds[cb.pollfd.idx] = cb.dev

LEMMA CurrentCallbacks ==
    ASSUME callbacks \in Seq(Callbacks)
    PROVE  PollfdsCurrent <=>
             (thread.pc \in StartedPcs =>
                \A i \in 1..Len(callbacks) : Current(callbacks[i], thread.gen, thread.pollfds))
BY DEF PollfdsCurrent, Current, StartedPcs

LEMMA CurrentCallbacksPrime ==
    ASSUME callbacks' \in Seq(Callbacks)
    PROVE  PollfdsCurrent' <=>
             (thread'.pc \in StartedPcs =>
                \A i \in 1..Len(callbacks') : Current(callbacks'[i], thread'.gen, thread'.pollfds))
BY DEF PollfdsCurrent, Current, StartedPcs

LEMMA OfRegistered ==
    ASSUME callbacks \in Seq(Callbacks), NEW d \in Registered
    PROVE  Of(d) \in 1..Len(callbacks) /\ callbacks[Of(d)].dev = d
BY DEF Of, Registered

\* audio_thread_rm_callback takes the callback of one device away and leaves the others.
LEMMA CallbackRemoved ==
    ASSUME callbacks \in Seq(Callbacks),
           \A j, k \in 1..Len(callbacks) : callbacks[j].dev = callbacks[k].dev => j = k,
           NEW d, callbacks' = audio_thread_rm_callback(d)
    PROVE  /\ callbacks' \in Seq(Callbacks)
           /\ \A j, k \in 1..Len(callbacks') : callbacks'[j].dev = callbacks'[k].dev => j = k
           /\ Registered' \subseteq Registered /\ d \notin Registered'
           /\ \A j \in 1..Len(callbacks') : \E k \in 1..Len(callbacks) : callbacks'[j] = callbacks[k]
<1>1. CASE d \notin Registered
  <2>1. callbacks' = callbacks
    BY <1>1 DEF audio_thread_rm_callback
  <2>2. Registered' = Registered
    BY <2>1 DEF Registered
  <2> QED BY <1>1, <2>1, <2>2
<1>2. CASE d \in Registered
  <2> DEFINE i == Of(d)
             w == RemoveAt(callbacks, i)
             n == Len(callbacks)
  <2>1. i \in 1..n /\ callbacks[i].dev = d /\ n \in Nat
    BY <1>2, OfRegistered
  <2>2. callbacks' = w
    BY <1>2 DEF audio_thread_rm_callback
  <2> HIDE DEF i
  <2>3. /\ w \in Seq(Callbacks) /\ Len(w) = n - 1
        /\ \A j \in 1..n - 1 : w[j] = IF j < i THEN callbacks[j] ELSE callbacks[j + 1]
    BY <2>1, RemovedAt
  <2> HIDE DEF w
  <2>4. \A j \in 1..n - 1 : \E k \in 1..n : w[j] = callbacks[k] /\ k # i /\ k = IF j < i THEN j ELSE j + 1
    BY <2>1, <2>3
  <2>5. ASSUME NEW j \in 1..n - 1, NEW k \in 1..n - 1, w[j].dev = w[k].dev PROVE j = k
    <3>1. PICK a \in 1..n : w[j] = callbacks[a] /\ a # i /\ a = IF j < i THEN j ELSE j + 1
      BY <2>4
    <3>2. PICK b \in 1..n : w[k] = callbacks[b] /\ b # i /\ b = IF k < i THEN k ELSE k + 1
      BY <2>4
    <3>3. a = b
      BY <2>5, <3>1, <3>2
    <3> QED BY <3>1, <3>2, <3>3, <2>1
  <2>6. DOMAIN callbacks' = 1..n - 1 /\ DOMAIN callbacks = 1..n
    BY <2>2, <2>3
  <2>7. Registered' \subseteq Registered
    <3>1. \A j \in 1..n - 1 : w[j].dev \in {callbacks[k].dev : k \in 1..n}
      BY <2>4
    <3>2. Registered' = {w[j].dev : j \in 1..n - 1} /\ Registered = {callbacks[k].dev : k \in 1..n}
      BY <2>2, <2>6 DEF Registered
    <3> QED BY <3>1, <3>2
  <2>8. d \notin Registered'
    <3>1. \A j \in 1..n - 1 : w[j].dev # d
      <4> SUFFICES ASSUME NEW j \in 1..n - 1 PROVE w[j].dev # d
        OBVIOUS
      <4>1. PICK a \in 1..n : w[j] = callbacks[a] /\ a # i
        BY <2>4
      <4> QED BY <4>1, <2>1
    <3> QED BY <3>1, <2>2, <2>6 DEF Registered
  <2>9. \A j \in 1..Len(callbacks') : \E k \in 1..n : callbacks'[j] = callbacks[k]
    BY <2>2, <2>3, <2>4
  <2> QED BY <2>2, <2>3, <2>5, <2>7, <2>8, <2>9
<1> QED BY <1>1, <1>2

\* audio_thread_enable_callback changes nothing but whether the callback is on.
LEMMA CallbackSwitched ==
    ASSUME callbacks \in Seq(Callbacks),
           \A j, k \in 1..Len(callbacks) : callbacks[j].dev = callbacks[k].dev => j = k,
           NEW d, NEW on \in BOOLEAN, callbacks' = audio_thread_enable_callback(d, on)
    PROVE  /\ callbacks' \in Seq(Callbacks) /\ Len(callbacks') = Len(callbacks)
           /\ \A j \in 1..Len(callbacks) : callbacks'[j].dev = callbacks[j].dev
                                         /\ callbacks'[j].pollfd = callbacks[j].pollfd
           /\ Registered' = Registered
<1>1. CASE d \notin Registered
  <2>1. callbacks' = callbacks
    BY <1>1 DEF audio_thread_enable_callback
  <2> QED BY <2>1 DEF Registered
<1>2. CASE d \in Registered
  <2> DEFINE i == Of(d)
             c == callbacks[i]
             e == [c EXCEPT !.enabled = on]
  <2>1. i \in 1..Len(callbacks) /\ c \in Callbacks
    BY <1>2, OfRegistered
  <2>2. callbacks' = [callbacks EXCEPT ![i] = e]
    BY <1>2 DEF audio_thread_enable_callback
  <2> HIDE DEF i, c
  <2>3. e \in Callbacks /\ e.dev = c.dev /\ e.pollfd = c.pollfd
    BY <2>1 DEF Callbacks
  <2> HIDE DEF e
  <2>4. /\ callbacks' \in Seq(Callbacks) /\ Len(callbacks') = Len(callbacks)
        /\ callbacks'[i] = e /\ \A j \in 1..Len(callbacks) : j # i => callbacks'[j] = callbacks[j]
    BY <2>1, <2>2, <2>3
  <2>5. \A j \in 1..Len(callbacks) : callbacks'[j].dev = callbacks[j].dev
                                   /\ callbacks'[j].pollfd = callbacks[j].pollfd
    BY <2>1, <2>3, <2>4 DEF c
  <2>6. DOMAIN callbacks' = 1..Len(callbacks) /\ DOMAIN callbacks = 1..Len(callbacks)
    BY <2>4
  <2>7. Registered' = Registered
    <3>1. Registered' = {callbacks'[j].dev : j \in 1..Len(callbacks)}
      BY <2>6 DEF Registered
    <3>2. Registered = {callbacks[j].dev : j \in 1..Len(callbacks)}
      BY <2>6 DEF Registered
    <3> QED BY <3>1, <3>2, <2>5
  <2> QED BY <2>4, <2>5, <2>7
<1> QED BY <1>1, <1>2

LEMMA ConfigureStep ==
    ASSUME ThreadInv, NEW d \in Devs, configure_dev(d)
    PROVE  ThreadInv'
<1> DEFINE c == Asked("none", d, "none")
           devs == main.devs \cup {d}
           tail == IF callbacks = <<>> THEN "none" ELSE Last(callbacks).dev
<1>1. /\ main.pc = "idle" /\ UNCHANGED <<thread, callbacks, attached>>
      /\ main' = [main EXCEPT !.pc = "appending", !.cmd = c, !.devs = devs, !.tail = tail]
  BY DEF configure_dev, CanPost, None
<1>2. main \in Mains /\ HeldInv /\ thread.msgs = <<>> /\ main.rsp = <<>> /\ callbacks \in Seq(Callbacks)
  BY <1>1 DEF ThreadInv, TypeInv, StepInv
<1>3. c \in Commands /\ c.dev = d
  BY DEF Asked, Commands, Ids
<1>4. devs \in SUBSET Devs /\ d \in devs /\ main.devs \subseteq devs
  BY <1>2 DEF Mains
<1>5. tail \in Devs \cup {"none"}
  <2>1. CASE callbacks = <<>>
    BY <2>1
  <2>2. CASE callbacks # <<>>
    <3>1. Len(callbacks) \in 1..Len(callbacks)
      BY <1>2, <2>2
    <3>2. callbacks[Len(callbacks)] \in Callbacks
      BY <1>2, <3>1
    <3> QED BY <2>2, <3>2 DEF Last, Callbacks
  <2> QED BY <2>1, <2>2
<1> HIDE DEF c, devs, tail
<1>6. /\ main' \in Mains /\ main'.pc = "appending" /\ main'.cmd = c /\ main'.devs = devs
      /\ main'.rsp = <<>> /\ main'.streams = main.streams /\ main'.remix = main.remix
  BY <1>1, <1>2, <1>3, <1>4, <1>5 DEF Mains
<1>7. /\ Range(thread.open) \subseteq main'.devs /\ Registered \subseteq main'.devs
      /\ \A e \in Devs : attached[e] \subseteq main'.streams
      /\ thread.remix \in main'.remix \cup {0}
  BY <1>2, <1>4, <1>6 DEF HeldInv
<1>8. main'.pc \in {"appending", "opening"} => main'.cmd.dev \in main'.devs
  BY <1>3, <1>4, <1>6
<1>9. main'.pc # "waiting" /\ main'.pc # "closing"
  BY <1>6
<1> HIDE DEF ThreadInv
<1> QED BY <1>1, <1>2, <1>6, <1>7, <1>8, <1>9, MainMoves

\* The new callback is the last one of the list, or it is lost.
LEMMA AppendStep == ThreadInv /\ DL_APPEND => ThreadInv'
<1> SUFFICES ASSUME ThreadInv, DL_APPEND PROVE ThreadInv'
  OBVIOUS
<1> DEFINE d == main.cmd.dev
           new == [dev |-> d, enabled |-> TRUE, pollfd |-> Null]
           n == Len(callbacks)
<1>1. /\ main.pc = "appending" /\ UNCHANGED <<thread, attached>>
      /\ callbacks' = audio_thread_add_events_callback(d) \/ callbacks' = callbacks
      /\ main' = [main EXCEPT !.pc = "opening", !.tail = "none"]
  BY DEF DL_APPEND, None
<1>2. /\ main \in Mains /\ HeldInv /\ thread.msgs = <<>> /\ main.rsp = <<>> /\ callbacks \in Seq(Callbacks)
      /\ n \in Nat /\ d \in main.devs /\ d \in Devs
  BY <1>1 DEF ThreadInv, TypeInv, StepInv, CommandInv, Mains
<1>3. /\ main' \in Mains /\ main'.pc = "opening" /\ main'.cmd = main.cmd /\ main'.devs = main.devs
      /\ main'.rsp = <<>> /\ main'.streams = main.streams /\ main'.remix = main.remix
  BY <1>1, <1>2 DEF Mains
<1> HIDE DEF d
<1>4. CASE callbacks' = callbacks
  <2>1. /\ Range(thread.open) \subseteq main'.devs /\ Registered \subseteq main'.devs
        /\ \A e \in Devs : attached[e] \subseteq main'.streams
        /\ thread.remix \in main'.remix \cup {0}
    BY <1>2, <1>3 DEF HeldInv
  <2>2. main'.pc \in {"appending", "opening"} => main'.cmd.dev \in main'.devs
    BY <1>2, <1>3 DEF d
  <2>3. main'.pc # "waiting" /\ main'.pc # "closing"
    BY <1>3
  <2>4. UNCHANGED <<thread, callbacks, attached>>
    BY <1>1, <1>4
  <2> HIDE DEF ThreadInv
  <2> QED BY <1>2, <1>3, <2>1, <2>2, <2>3, <2>4, MainMoves
<1>5. CASE d \notin Registered /\ callbacks' = Append(callbacks, new)
  <2>1. new \in Callbacks /\ new.dev = d /\ new.pollfd = Null
    BY <1>2 DEF Callbacks, Null
  <2> HIDE DEF new
  <2>2. /\ callbacks' \in Seq(Callbacks) /\ Len(callbacks') = n + 1 /\ callbacks'[n + 1] = new
        /\ \A j \in 1..n : callbacks'[j] = callbacks[j]
    BY <1>2, <1>5, <2>1
  <2>3. TypeInv'
    BY <1>1, <1>3, <2>2 DEF ThreadInv, TypeInv
  <2>4. ListsInv'
    <3>1. \A j \in 1..n : callbacks[j].dev # d
      BY <1>2, <1>5 DEF Registered
    <3>2. \A j, k \in 1..n : callbacks[j].dev = callbacks[k].dev => j = k
      BY DEF ThreadInv, ListsInv
    <3>3. ASSUME NEW j \in 1..n + 1, NEW k \in 1..n + 1, callbacks'[j].dev = callbacks'[k].dev PROVE j = k
      <4>1. CASE j \in 1..n /\ k \in 1..n
        BY <4>1, <2>2, <3>2, <3>3
      <4>2. CASE j = n + 1 \/ k = n + 1
        BY <4>2, <1>2, <2>1, <2>2, <3>1, <3>3
      <4> QED BY <4>1, <4>2, <1>2
    <3> QED BY <1>1, <2>2, <3>3 DEF ThreadInv, ListsInv
  <2>5. StepInv' /\ CommandInv'
    BY <1>1, <1>2, <1>3 DEF ThreadInv, StepInv, CommandInv, d
  <2>6. HeldInv'
    <3>1. Registered' \subseteq Registered \cup {d}
      <4>1. DOMAIN callbacks' = 1..n + 1 /\ DOMAIN callbacks = 1..n
        BY <1>2, <2>2
      <4>2. \A j \in 1..n + 1 : callbacks'[j].dev \in Registered \cup {d}
        BY <1>2, <2>1, <2>2, <4>1 DEF Registered
      <4> QED BY <4>1, <4>2 DEF Registered
    <3> QED BY <1>1, <1>2, <1>3, <3>1 DEF HeldInv
  <2>7. PollfdsCurrent'
    <3>1. Current(new, thread.gen, thread.pollfds)
      BY <2>1 DEF Current
    <3>2. thread.pc \in StartedPcs =>
            \A i \in 1..n : Current(callbacks[i], thread.gen, thread.pollfds)
      BY <1>2, CurrentCallbacks DEF ThreadInv
    <3>3. thread.pc \in StartedPcs =>
            \A i \in 1..n + 1 : Current(callbacks'[i], thread.gen, thread.pollfds)
      BY <1>2, <2>2, <3>1, <3>2
    <3> QED BY <1>1, <2>2, <3>3, CurrentCallbacksPrime
  <2>8. DumpFits'
    BY <1>1 DEF ThreadInv, DumpFits
  <2> QED BY <2>3, <2>4, <2>5, <2>6, <2>7, <2>8 DEF ThreadInv
<1>6. callbacks' = callbacks \/ (d \notin Registered /\ callbacks' = Append(callbacks, new))
  BY <1>1 DEF audio_thread_add_events_callback
<1> QED BY <1>4, <1>5, <1>6

\* A step of the audio thread alone that takes no command: it only lets go of things.
LEMMA ThreadMoves ==
    ASSUME ThreadInv, UNCHANGED main,
           thread' \in Threads(thread'),
           thread'.msgs = thread.msgs, thread'.remix = thread.remix, thread'.info = thread.info,
           thread'.pc = "message" => thread.msgs # <<>>,
           Range(thread'.open) \subseteq Range(thread.open),
           \A j, k \in 1..Len(thread'.open) : thread'.open[j] = thread'.open[k] => j = k,
           callbacks' \in Seq(Callbacks), Registered' \subseteq Registered,
           \A j, k \in 1..Len(callbacks') : callbacks'[j].dev = callbacks'[k].dev => j = k,
           attached' \in [Devs -> SUBSET Streams],
           \A d \in Devs : attached'[d] \subseteq attached[d],
           \A d \in Devs : d \notin Range(thread'.open) => attached'[d] = {},
           PollfdsCurrent'
    PROVE  ThreadInv'
<1>1. TypeInv' /\ ListsInv' /\ DumpFits'
  BY DEF ThreadInv, TypeInv, ListsInv, DumpFits
<1>2. CommandInv'
  BY DEF ThreadInv, CommandInv
<1>3. HeldInv'
  BY DEF ThreadInv, HeldInv
<1>4. Pending => Pending'
  BY DEF Pending
<1>5. ASSUME NEW r, Released(r) PROVE Released(r)'
  <2>1. main.cmd.id = "RM_OPEN_DEV" => main.cmd.dev \notin Range(thread'.open)
    BY <1>5 DEF Released
  <2>2. main.cmd.id = "REMOVE_CALLBACK" => main.cmd.dev \notin Registered'
    BY <1>5 DEF Released
  <2>3. main.cmd.id = "DISCONNECT_STREAM" \/ (main.cmd.id = "DRAIN_STREAM" /\ r.rc = 0)
          => \A d \in Devs : main.cmd.stream \notin attached'[d]
    BY <1>5 DEF Released
  <2>4. main.cmd.id = "CONFIG_GLOBAL_REMIX" => thread'.remix = 0 \/ thread'.remix # r.rc
    BY <1>5 DEF Released
  <2> QED BY <2>1, <2>2, <2>3, <2>4 DEF Released
<1>6. Replied => Replied'
  <2> SUFFICES ASSUME Replied PROVE Replied'
    OBVIOUS
  <2>1. PICK r \in Answers : main.rsp = <<r>> /\ Released(r)
    BY DEF Replied
  <2>2. Released(r)'
    BY <2>1, <1>5
  <2> QED BY <2>1, <2>2 DEF Replied
<1>7. StepInv'
  BY <1>4, <1>6 DEF ThreadInv, StepInv
<1> QED BY <1>1, <1>2, <1>3, <1>7 DEF ThreadInv

\* What the steps that leave the callbacks and the devices alone need not say again.
LEMMA ThreadUnmoved ==
    ASSUME ThreadInv, UNCHANGED <<main, callbacks, attached>>,
           thread' \in Threads(thread'),
           thread'.msgs = thread.msgs, thread'.remix = thread.remix, thread'.info = thread.info,
           thread'.open = thread.open,
           thread'.pc = "message" => thread.msgs # <<>>,
           PollfdsCurrent'
    PROVE  ThreadInv'
<1>1. Registered' = Registered
  BY DEF Registered
<1>2. /\ callbacks' \in Seq(Callbacks) /\ attached' \in [Devs -> SUBSET Streams]
      /\ \A d \in Devs : attached'[d] \subseteq attached[d]
  BY DEF ThreadInv, TypeInv
<1>3. /\ \A j, k \in 1..Len(thread'.open) : thread'.open[j] = thread'.open[k] => j = k
      /\ \A j, k \in 1..Len(callbacks') : callbacks'[j].dev = callbacks'[k].dev => j = k
  BY DEF ThreadInv, ListsInv
<1>4. \A d \in Devs : d \notin Range(thread'.open) => attached'[d] = {}
  BY DEF ThreadInv, HeldInv
<1>5. Range(thread'.open) \subseteq Range(thread.open) /\ Registered' \subseteq Registered
  BY <1>1
<1>6. /\ UNCHANGED main /\ thread' \in Threads(thread')
      /\ thread'.msgs = thread.msgs /\ thread'.remix = thread.remix /\ thread'.info = thread.info
      /\ (thread'.pc = "message" => thread.msgs # <<>>) /\ PollfdsCurrent'
  OBVIOUS
<1> HIDE DEF ThreadInv
<1> QED BY <1>2, <1>3, <1>4, <1>5, <1>6, ThreadMoves

LEMMA StartStep == ThreadInv /\ audio_thread_start => ThreadInv'
<1> SUFFICES ASSUME ThreadInv, audio_thread_start PROVE ThreadInv'
  OBVIOUS
<1>1. thread' = [thread EXCEPT !.pc = "run"] /\ UNCHANGED <<callbacks, attached, main>>
  BY DEF audio_thread_start
<1>2. thread \in Threads(thread)
  BY DEF ThreadInv, TypeInv
<1>3. /\ thread'.pc = "run" /\ thread'.open = thread.open /\ thread'.pollfds = thread.pollfds
      /\ thread'.remix = thread.remix /\ thread'.ready = thread.ready
      /\ thread'.info = thread.info /\ thread'.msgs = thread.msgs
      /\ thread' \in Threads(thread')
  BY <1>1, <1>2 DEF Threads
<1>4. PollfdsCurrent'
  BY <1>3 DEF PollfdsCurrent
<1> QED BY <1>1, <1>3, <1>4, ThreadUnmoved

LEMMA DispatchDoneStep == ThreadInv /\ dispatch_done => ThreadInv'
<1> SUFFICES ASSUME ThreadInv, dispatch_done PROVE ThreadInv'
  OBVIOUS
<1>1. thread' = [thread EXCEPT !.pc = "run", !.ready = {}] /\ UNCHANGED <<callbacks, attached, main>>
  BY DEF dispatch_done
<1>2. thread \in Threads(thread)
  BY DEF ThreadInv, TypeInv
<1>3. /\ thread'.pc = "run" /\ thread'.open = thread.open /\ thread'.pollfds = thread.pollfds
      /\ thread'.remix = thread.remix /\ thread'.ready = {}
      /\ thread'.info = thread.info /\ thread'.msgs = thread.msgs
      /\ thread' \in Threads(thread')
  BY <1>1, <1>2 DEF Threads
<1>4. PollfdsCurrent'
  BY <1>3 DEF PollfdsCurrent
<1> QED BY <1>1, <1>3, <1>4, ThreadUnmoved

LEMMA PpollStep == ThreadInv /\ ppoll => ThreadInv'
<1> SUFFICES ASSUME ThreadInv, ppoll PROVE ThreadInv'
  OBVIOUS
<1> DEFINE cur == IF callbacks = <<>> THEN "none" ELSE callbacks[1].dev
<1>1. PICK ready, pc :
        /\ thread' = [thread EXCEPT !.ready = ready, !.fds = 0, !.pc = pc, !.cur = cur]
        /\ pc \in {"message", "dispatch", "run"} /\ (pc = "message" => thread.msgs # <<>>)
  <2>1. PICK ready, answered : thread' = [thread EXCEPT !.ready = ready, !.fds = 0,
          !.pc = IF thread.msgs # <<>> THEN "message" ELSE IF ready # {} \/ answered THEN "dispatch" ELSE "run",
          !.cur = cur]
    BY DEF ppoll, None
  <2> DEFINE pc == IF thread.msgs # <<>> THEN "message" ELSE IF ready # {} \/ answered THEN "dispatch" ELSE "run"
  <2>2. pc \in {"message", "dispatch", "run"} /\ (pc = "message" => thread.msgs # <<>>)
    OBVIOUS
  <2>3. thread' = [thread EXCEPT !.ready = ready, !.fds = 0, !.pc = pc, !.cur = cur]
    BY <2>1
  <2> HIDE DEF pc
  <2> QED BY <2>2, <2>3
<1>2. /\ thread.pc = "wait" /\ UNCHANGED <<callbacks, attached, main>>
      /\ thread \in Threads(thread) /\ callbacks \in Seq(Callbacks)
  BY DEF ppoll, ThreadInv, TypeInv
<1>4. pc \in {"message", "dispatch", "run"}
  BY <1>1
<1> HIDE DEF cur
<1>5. /\ thread'.pc = pc /\ thread'.open = thread.open /\ thread'.pollfds = thread.pollfds
      /\ thread'.remix = thread.remix /\ thread'.ready = ready /\ thread'.gen = thread.gen
      /\ thread'.info = thread.info /\ thread'.msgs = thread.msgs
      /\ thread' \in Threads(thread')
  BY <1>1, <1>2, <1>4 DEF Threads
<1>6. PollfdsCurrent'
  BY <1>2, <1>5 DEF ThreadInv, PollfdsCurrent
<1>7. thread'.pc = "message" => thread.msgs # <<>>
  BY <1>1, <1>5
<1> QED BY <1>2, <1>5, <1>6, <1>7, ThreadUnmoved

LEMMA DispatchStep == ThreadInv /\ dispatch_callback => ThreadInv'
<1> SUFFICES ASSUME ThreadInv, dispatch_callback PROVE ThreadInv'
  OBVIOUS
<1> DEFINE d == thread.cur
           i == Of(d)
           cur == IF i < Len(callbacks) THEN callbacks[i + 1].dev ELSE "none"
           ready == thread.ready \ {d}
<1>1. /\ thread.pc = "dispatch" /\ UNCHANGED <<attached, main>>
      /\ thread' = [thread EXCEPT !.cur = cur, !.ready = ready]
      /\ \/ UNCHANGED callbacks
         \/ callbacks' = audio_thread_rm_callback(d)
         \/ \E on \in BOOLEAN : callbacks' = audio_thread_enable_callback(d, on)
  BY DEF dispatch_callback, None
<1>2. /\ thread \in Threads(thread) /\ callbacks \in Seq(Callbacks)
      /\ attached \in [Devs -> SUBSET Streams]
      /\ \A j, k \in 1..Len(callbacks) : callbacks[j].dev = callbacks[k].dev => j = k
  BY DEF ThreadInv, TypeInv, ListsInv
<1> HIDE DEF i, cur, ready
<1>3. /\ thread'.pc = "dispatch" /\ thread'.open = thread.open /\ thread'.pollfds = thread.pollfds
      /\ thread'.remix = thread.remix /\ thread'.gen = thread.gen
      /\ thread'.info = thread.info /\ thread'.msgs = thread.msgs
      /\ thread' \in Threads(thread')
  BY <1>1, <1>2 DEF Threads
<1>4. /\ callbacks' \in Seq(Callbacks) /\ Registered' \subseteq Registered
      /\ \A j, k \in 1..Len(callbacks') : callbacks'[j].dev = callbacks'[k].dev => j = k
      /\ \A j \in 1..Len(callbacks') : \E k \in 1..Len(callbacks) :
            callbacks'[j].dev = callbacks[k].dev /\ callbacks'[j].pollfd = callbacks[k].pollfd
  <2> HIDE DEF d
  <2>1. CASE UNCHANGED callbacks
    BY <1>2, <2>1 DEF Registered
  <2>2. CASE callbacks' = audio_thread_rm_callback(d)
    <3>1. /\ callbacks' \in Seq(Callbacks) /\ Registered' \subseteq Registered
          /\ \A j, k \in 1..Len(callbacks') : callbacks'[j].dev = callbacks'[k].dev => j = k
          /\ \A j \in 1..Len(callbacks') : \E k \in 1..Len(callbacks) : callbacks'[j] = callbacks[k]
      BY <1>2, <2>2, CallbackRemoved
    <3> QED BY <3>1
  <2>3. ASSUME NEW on \in BOOLEAN, callbacks' = audio_thread_enable_callback(d, on)
        PROVE  /\ callbacks' \in Seq(Callbacks) /\ Registered' \subseteq Registered
               /\ \A j, k \in 1..Len(callbacks') : callbacks'[j].dev = callbacks'[k].dev => j = k
               /\ \A j \in 1..Len(callbacks') : \E k \in 1..Len(callbacks) :
                     callbacks'[j].dev = callbacks[k].dev /\ callbacks'[j].pollfd = callbacks[k].pollfd
    <3>1. /\ callbacks' \in Seq(Callbacks) /\ Len(callbacks') = Len(callbacks)
          /\ \A j \in 1..Len(callbacks) : callbacks'[j].dev = callbacks[j].dev
                                        /\ callbacks'[j].pollfd = callbacks[j].pollfd
          /\ Registered' = Registered
      BY <1>2, <2>3, CallbackSwitched
    <3> QED BY <1>2, <3>1
  <2> QED BY <1>1, <2>1, <2>2, <2>3
<1>5. PollfdsCurrent'
  <2>1. \A k \in 1..Len(callbacks) : Current(callbacks[k], thread.gen, thread.pollfds)
    BY <1>1, <1>2, CurrentCallbacks DEF ThreadInv, StartedPcs
  <2>2. \A j \in 1..Len(callbacks') : Current(callbacks'[j], thread'.gen, thread'.pollfds)
    BY <1>3, <1>4, <2>1 DEF Current
  <2> QED BY <1>4, <2>2, CurrentCallbacksPrime
<1>6. /\ \A j, k \in 1..Len(thread'.open) : thread'.open[j] = thread'.open[k] => j = k
      /\ Range(thread'.open) \subseteq Range(thread.open)
      /\ \A e \in Devs : e \notin Range(thread'.open) => attached'[e] = {}
      /\ \A e \in Devs : attached'[e] \subseteq attached[e]
  BY <1>1, <1>3 DEF ThreadInv, ListsInv, HeldInv
<1>7. attached' \in [Devs -> SUBSET Streams] /\ UNCHANGED main
      /\ (thread'.pc = "message" => thread.msgs # <<>>)
  BY <1>1, <1>2, <1>3
<1> QED BY <1>3, <1>4, <1>5, <1>6, <1>7, ThreadMoves

\* DL_DELETE takes one element of a list away, and leaves the others.
LEMMA DeletedFrom ==
    ASSUME NEW S, NEW q \in Seq(S), NEW e,
           \A j, k \in 1..Len(q) : q[j] = q[k] => j = k
    PROVE  /\ Without(q, e) \in Seq(S)
           /\ \A j, k \in 1..Len(Without(q, e)) : Without(q, e)[j] = Without(q, e)[k] => j = k
           /\ Range(Without(q, e)) = Range(q) \ {e}
<1>1. DOMAIN q = 1..Len(q) /\ Range(q) = {q[j] : j \in 1..Len(q)} /\ Len(q) \in Nat
  BY DEF Range
<1>2. Contains(q, e) <=> \E j \in 1..Len(q) : q[j] = e
  BY <1>1 DEF Contains
<1>3. CASE ~Contains(q, e)
  <2>1. Without(q, e) = q
    BY <1>3 DEF Without
  <2>2. e \notin Range(q)
    BY <1>1, <1>2, <1>3
  <2> QED BY <2>1, <2>2
<1>4. CASE Contains(q, e)
  <2> DEFINE i == CHOOSE j \in 1..Len(q) : q[j] = e
             w == RemoveAt(q, i)
  <2>1. i \in 1..Len(q) /\ q[i] = e
    BY <1>2, <1>4
  <2>2. Without(q, e) = w
    BY <1>1, <1>4 DEF Without
  <2> HIDE DEF i
  <2>3. /\ w \in Seq(S) /\ Len(w) = Len(q) - 1
        /\ \A j \in 1..Len(q) - 1 : w[j] = IF j < i THEN q[j] ELSE q[j + 1]
    BY <2>1, RemovedAt
  <2>4. \A j, k \in 1..Len(w) : w[j] = w[k] => j = k
    BY <2>1, RemovedDistinct
  <2> HIDE DEF w
  <2>5. Range(w) = {w[j] : j \in 1..Len(q) - 1}
    <3>1. DOMAIN w = 1..Len(q) - 1
      BY <1>1, <2>3
    <3> QED BY <3>1 DEF Range
  <2>6. \A j \in 1..Len(q) - 1 : w[j] \in Range(q) \ {e}
    <3> SUFFICES ASSUME NEW j \in 1..Len(q) - 1 PROVE w[j] \in Range(q) \ {e}
      OBVIOUS
    <3>1. PICK k \in 1..Len(q) : w[j] = q[k] /\ k # i
      BY <1>1, <2>1, <2>3
    <3> QED BY <3>1, <1>1, <2>1
  <2>7. \A x \in Range(q) \ {e} : \E j \in 1..Len(q) - 1 : w[j] = x
    <3> SUFFICES ASSUME NEW x \in Range(q) \ {e} PROVE \E j \in 1..Len(q) - 1 : w[j] = x
      OBVIOUS
    <3>1. PICK k \in 1..Len(q) : q[k] = x /\ k # i
      BY <1>1, <2>1
    <3>2. CASE k < i
      BY <3>1, <3>2, <1>1, <2>1, <2>3
    <3>3. CASE k > i
      <4>1. k - 1 \in 1..Len(q) - 1 /\ ~(k - 1 < i) /\ k - 1 + 1 = k
        BY <3>3, <1>1, <2>1
      <4> QED BY <4>1, <3>1, <2>3
    <3> QED BY <3>1, <3>2, <3>3, <1>1, <2>1
  <2>8. Range(w) = Range(q) \ {e}
    BY <2>5, <2>6, <2>7
  <2> QED BY <2>2, <2>3, <2>4, <2>8
<1> QED BY <1>3, <1>4

LEMMA DevIoStep == ThreadInv /\ dev_io_run => ThreadInv'
<1> SUFFICES ASSUME ThreadInv, dev_io_run PROVE ThreadInv'
  OBVIOUS
<1>1. PICK bad :
        /\ thread' = [thread EXCEPT !.pc = "poll", !.open = Without(@, bad)]
        /\ attached' = [d \in Devs |-> IF d = bad THEN {} ELSE attached[d]]
        /\ UNCHANGED <<callbacks, main>>
  BY DEF dev_io_run
<1>2. /\ thread \in Threads(thread) /\ callbacks \in Seq(Callbacks) /\ thread.open \in Seq(Devs)
      /\ attached \in [Devs -> SUBSET Streams]
      /\ \A j, k \in 1..Len(callbacks) : callbacks[j].dev = callbacks[k].dev => j = k
      /\ \A j, k \in 1..Len(thread.open) : thread.open[j] = thread.open[k] => j = k
  BY DEF ThreadInv, TypeInv, ListsInv, Threads
<1> DEFINE w == Without(thread.open, bad)
<1>3. /\ w \in Seq(Devs) /\ Range(w) = Range(thread.open) \ {bad}
      /\ \A j, k \in 1..Len(w) : w[j] = w[k] => j = k
  BY <1>2, DeletedFrom
<1> HIDE DEF w
<1>4. thread' = [thread EXCEPT !.pc = "poll", !.open = w]
  BY <1>1 DEF w
<1>5. /\ thread'.pc = "poll" /\ thread'.open = w
      /\ thread'.remix = thread.remix /\ thread'.info = thread.info /\ thread'.msgs = thread.msgs
      /\ thread' \in Threads(thread')
  BY <1>2, <1>3, <1>4 DEF Threads
<1>6. PollfdsCurrent'
  BY <1>5 DEF PollfdsCurrent
<1>7. Registered' = Registered
  BY <1>1 DEF Registered
<1>8. attached' \in [Devs -> SUBSET Streams] /\ \A d \in Devs : attached'[d] \subseteq attached[d]
  BY <1>1, <1>2
<1>9. \A d \in Devs : d \notin Range(thread'.open) => attached'[d] = {}
  BY <1>1, <1>3, <1>5 DEF ThreadInv, HeldInv
<1>10. /\ \A j, k \in 1..Len(thread'.open) : thread'.open[j] = thread'.open[k] => j = k
       /\ Range(thread'.open) \subseteq Range(thread.open)
       /\ callbacks' \in Seq(Callbacks) /\ Registered' \subseteq Registered
       /\ \A j, k \in 1..Len(callbacks') : callbacks'[j].dev = callbacks'[k].dev => j = k
       /\ UNCHANGED main /\ (thread'.pc = "message" => thread.msgs # <<>>)
  BY <1>1, <1>2, <1>3, <1>5, <1>7
<1> QED BY <1>5, <1>6, <1>8, <1>9, <1>10, ThreadMoves

LEMMA EntryType ==
    ASSUME callbacks \in Seq(Callbacks), NEW i \in Nat
    PROVE  IsFiniteSet({j \in 1..i : callbacks[j].enabled}) /\ Entry(i) \in 0..i
<1> DEFINE on == {j \in 1..i : callbacks[j].enabled}
<1>1. IsFiniteSet(1..i) /\ Cardinality(1..i) = i
  BY FS_Interval
<1>2. IsFiniteSet(on) /\ Cardinality(on) <= i
  BY <1>1, FS_Subset
<1>3. Cardinality(on) \in Nat
  BY <1>2, FS_CardinalityType
<1> QED BY <1>2, <1>3 DEF Entry

\* An enabled callback has an entry of its own, and it is one of those that are made.
LEMMA EntriesDiffer ==
    ASSUME callbacks \in Seq(Callbacks), NEW i \in 1..Len(callbacks), NEW n \in Nat, i < n,
           callbacks[n].enabled
    PROVE  Entry(i) < Entry(n)
<1> DEFINE a == {j \in 1..i : callbacks[j].enabled}
           b == {j \in 1..n : callbacks[j].enabled}
<1>1. a \subseteq b /\ n \in b /\ n \notin a
  OBVIOUS
<1>2. IsFiniteSet(a) /\ IsFiniteSet(b)
  BY EntryType
<1> HIDE DEF a, b
<1>3. Cardinality(a) <= Cardinality(b) /\ (Cardinality(b) = Cardinality(a) => b = a)
  BY <1>1, <1>2, FS_Subset
<1>4. Cardinality(a) \in Nat /\ Cardinality(b) \in Nat
  BY <1>2, FS_CardinalityType
<1>5. Cardinality(a) < Cardinality(b)
  BY <1>1, <1>3, <1>4
<1> QED BY <1>5 DEF Entry, a, b

LEMMA EntriesWithin ==
    ASSUME callbacks \in Seq(Callbacks), NEW i \in 1..Len(callbacks), callbacks[i].enabled
    PROVE  Entry(i) \in 1..Entry(Len(callbacks)) /\ At(Entry(i)) = i
<1> DEFINE n == Len(callbacks)
           a == {j \in 1..i : callbacks[j].enabled}
           b == {j \in 1..n : callbacks[j].enabled}
<1>1. a \subseteq b /\ i \in a
  OBVIOUS
<1>2. IsFiniteSet(a) /\ IsFiniteSet(b) /\ Entry(i) \in Nat /\ Entry(n) \in Nat
  <2>1. i \in Nat /\ n \in Nat
    OBVIOUS
  <2>2. IsFiniteSet(a) /\ Entry(i) \in 0..i /\ IsFiniteSet(b) /\ Entry(n) \in 0..n
    BY <2>1, EntryType
  <2> QED BY <2>1, <2>2
<1>3. Cardinality(a) <= Cardinality(b)
  BY <1>1, <1>2, FS_Subset
<1>4. Cardinality(a) # 0
  BY <1>1, <1>2, FS_EmptySet
<1>5. Entry(i) \in 1..Entry(n)
  BY <1>2, <1>3, <1>4 DEF Entry
<1>6. ASSUME NEW j \in 1..n, callbacks[j].enabled, Entry(j) = Entry(i) PROVE j = i
  <2>1. Entry(j) \in Nat
    BY <1>2, <1>6
  <2>2. ~(j < i) /\ ~(i < j)
    BY <1>2, <1>6, <2>1, EntriesDiffer
  <2> QED BY <2>2
<1>7. At(Entry(i)) = i
  <2>1. DOMAIN callbacks = 1..n
    OBVIOUS
  <2> DEFINE P(j) == j \in 1..n /\ callbacks[j].enabled /\ Entry(j) = Entry(i)
  <2>2. At(Entry(i)) = CHOOSE j \in 1..n : callbacks[j].enabled /\ Entry(j) = Entry(i)
    BY <2>1 DEF At
  <2>3. At(Entry(i)) \in 1..n /\ callbacks[At(Entry(i))].enabled /\ Entry(At(Entry(i))) = Entry(i)
    BY <2>2
  <2> QED BY <1>6, <2>3
<1> QED BY <1>5, <1>7

\* Polling: every callback that is enabled gets the entry of its descriptor, in the array as it
\* is now, or the array grows and the thread comes back before it waits.
LEMMA PollStep == ThreadInv /\ audio_io_thread_poll => ThreadInv'
<1> SUFFICES ASSUME ThreadInv, audio_io_thread_poll PROVE ThreadInv'
  OBVIOUS
<1>0. PICK more \in StreamFds : add_pollfds(more)
  BY DEF audio_io_thread_poll
<1> DEFINE n == Len(callbacks)
           on == Entry(n)
           full == on + more + 1 >= thread.size
           entries == [k \in 1..on |-> callbacks[At(k)].dev]
           gen == IF full THEN thread.gen + 1 ELSE thread.gen
           size == IF full THEN 2 * thread.size ELSE thread.size
           pc == IF full THEN "poll" ELSE "wait"
           fd(i) == IF callbacks[i].enabled /\ (full => Entry(i) < thread.size - 1)
                      THEN [gen |-> thread.gen, idx |-> Entry(i)]
                    ELSE IF full /\ callbacks[i].enabled /\ Entry(i) > thread.size - 1
                      THEN callbacks[i].pollfd
                    ELSE Null
<1>1. /\ callbacks' = [i \in DOMAIN callbacks |-> [callbacks[i] EXCEPT !.pollfd = fd(i)]]
      /\ thread' = [thread EXCEPT !.pollfds = entries, !.fds = more, !.gen = gen, !.size = size, !.pc = pc]
      /\ UNCHANGED <<attached, main>>
  BY <1>0 DEF add_pollfds
<1>2. /\ thread \in Threads(thread) /\ callbacks \in Seq(Callbacks)
      /\ attached \in [Devs -> SUBSET Streams] /\ n \in Nat /\ DOMAIN callbacks = 1..n
      /\ \A j, k \in 1..n : callbacks[j].dev = callbacks[k].dev => j = k
  BY DEF ThreadInv, TypeInv, ListsInv
<1>3. thread.size \in Nat /\ thread.gen \in Nat /\ on \in Nat
  <2>1. thread.size \in Nat /\ thread.gen \in Nat
    BY <1>2 DEF Threads
  <2>2. on \in 0..n
    BY <1>2, EntryType
  <2> QED BY <2>1, <2>2, <1>2
<1>4. gen \in Nat /\ size \in Nat /\ pc \in {"poll", "wait"}
      /\ (full => pc = "poll") /\ (~full => gen = thread.gen)
  BY <1>3
<1>5. ASSUME NEW i \in 1..n PROVE fd(i) \in [gen : Nat, idx : Nat]
  <2>1. i \in Nat /\ callbacks[i] \in Callbacks
    BY <1>2
  <2>2. Entry(i) \in 0..i
    BY <1>2, <2>1, EntryType
  <2>3. Entry(i) \in Nat
    BY <2>1, <2>2
  <2> QED BY <2>1, <2>3, <1>3 DEF Callbacks, Null
<1>6. ASSUME NEW i \in 1..n, ~full PROVE fd(i) # Null => fd(i).gen = gen /\ entries[fd(i).idx] = callbacks[i].dev
  <2>1. CASE callbacks[i].enabled
    <3>1. fd(i) = [gen |-> thread.gen, idx |-> Entry(i)]
      BY <1>6, <2>1
    <3>2. Entry(i) \in 1..on /\ At(Entry(i)) = i
      BY <1>2, <2>1, EntriesWithin
    <3>3. entries[Entry(i)] = callbacks[i].dev
      BY <3>2
    <3> QED BY <3>1, <3>3, <1>4, <1>6
  <2>2. CASE ~callbacks[i].enabled
    BY <2>2
  <2> QED BY <2>1, <2>2
<1> HIDE DEF fd, entries, full, gen, size, pc, on
<1>7. /\ thread'.pc = pc /\ thread'.open = thread.open /\ thread'.pollfds = entries /\ thread'.gen = gen
      /\ thread'.remix = thread.remix /\ thread'.info = thread.info /\ thread'.msgs = thread.msgs
      /\ thread' \in Threads(thread')
  BY <1>1, <1>2, <1>4 DEF Threads
<1>8. ASSUME NEW i \in 1..n
      PROVE  callbacks'[i] \in Callbacks /\ callbacks'[i].dev = callbacks[i].dev
             /\ callbacks'[i].pollfd = fd(i)
  <2>1. callbacks'[i] = [callbacks[i] EXCEPT !.pollfd = fd(i)] /\ callbacks[i] \in Callbacks
    BY <1>1, <1>2
  <2> QED BY <2>1, <1>5 DEF Callbacks
<1>9. callbacks' \in Seq(Callbacks) /\ Len(callbacks') = n /\ DOMAIN callbacks' = 1..n
  <2>1. callbacks' = [i \in 1..n |-> [callbacks[i] EXCEPT !.pollfd = fd(i)]]
    BY <1>1, <1>2
  <2>2. callbacks' \in [1..n -> Callbacks]
    BY <2>1, <1>8
  <2> QED BY <2>2, <1>2
<1>10. Registered' = Registered
  <2>1. Registered' = {callbacks'[j].dev : j \in 1..n} /\ Registered = {callbacks[j].dev : j \in 1..n}
    BY <1>2, <1>9 DEF Registered
  <2> QED BY <2>1, <1>8
<1>11. PollfdsCurrent'
  <2>1. CASE full
    <3>1. thread'.pc = "poll"
      BY <2>1, <1>4, <1>7
    <3> QED BY <3>1 DEF PollfdsCurrent
  <2>2. CASE ~full
    <3>1. \A i \in 1..n : Current(callbacks'[i], thread'.gen, thread'.pollfds)
      BY <2>2, <1>6, <1>7, <1>8 DEF Current
    <3> QED BY <3>1, <1>9, CurrentCallbacksPrime
  <2> QED BY <2>1, <2>2
<1>12. /\ \A j, k \in 1..Len(thread'.open) : thread'.open[j] = thread'.open[k] => j = k
       /\ Range(thread'.open) \subseteq Range(thread.open)
       /\ \A e \in Devs : e \notin Range(thread'.open) => attached'[e] = {}
       /\ \A e \in Devs : attached'[e] \subseteq attached[e]
  BY <1>1, <1>7 DEF ThreadInv, ListsInv, HeldInv
<1>13. /\ Registered' \subseteq Registered /\ UNCHANGED main
       /\ attached' \in [Devs -> SUBSET Streams]
       /\ \A j, k \in 1..Len(callbacks') : callbacks'[j].dev = callbacks'[k].dev => j = k
       /\ (thread'.pc = "message" => thread.msgs # <<>>)
  <2>1. thread'.pc # "message"
    BY <1>4, <1>7
  <2>2. \A j, k \in 1..Len(callbacks') : callbacks'[j].dev = callbacks'[k].dev => j = k
    BY <1>2, <1>8, <1>9
  <2>3. UNCHANGED main /\ attached' \in [Devs -> SUBSET Streams]
    BY <1>1, <1>2
  <2> QED BY <1>10, <2>1, <2>2, <2>3
<1> QED BY <1>7, <1>9, <1>11, <1>12, <1>13, ThreadMoves

LEMMA MinOfTwo ==
    ASSUME NEW a \in Nat, NEW b \in Nat
    PROVE  Min({a, b}) \in Nat /\ Min({a, b}) <= a /\ Min({a, b}) <= b
<1> DEFINE S == {a, b}
<1>1. \E x \in S : \A y \in S : x <= y
  <2>1. CASE a <= b
    BY <2>1
  <2>2. CASE ~(a <= b)
    BY <2>2
  <2> QED BY <2>1, <2>2
<1>2. Min(S) \in S /\ \A y \in S : Min(S) <= y
  BY <1>1 DEF Min
<1> QED BY <1>2

\* audio_thread_dump_thread_info stops at the limits of both arrays.
LEMMA DumpBounded ==
    ASSUME ThreadInv
    PROVE  /\ dump_thread_info \in [devs : Nat, streams : Nat]
           /\ dump_thread_info.devs <= MaxDebugDevs /\ dump_thread_info.streams <= MaxDebugStreams
<1> USE AudioThreadAssumption
<1> DEFINE outs == {i \in DOMAIN thread.open : thread.open[i] \in Outputs}
           ins == DOMAIN thread.open \ outs
           nout == Min({MaxDebugDevs, Cardinality(outs)})
           nin == Min({MaxDebugDevs - nout, Cardinality(ins)})
           listed == {i \in outs : Place(i, outs) < MaxDebugDevs} \cup {i \in ins : Place(i, ins) <= nin}
           all == {e \in listed \X Streams : e[2] \in attached[thread.open[e[1]]]}
           nstreams == Min({MaxDebugStreams, Cardinality(all)})
<1>1. thread.open \in Seq(Devs)
  BY DEF ThreadInv, TypeInv, Threads
<1>2. IsFiniteSet(DOMAIN thread.open)
  <2>1. DOMAIN thread.open = 1..Len(thread.open) /\ 1 \in Int /\ Len(thread.open) \in Int
    BY <1>1
  <2>2. IsFiniteSet(1..Len(thread.open))
    BY <2>1, FS_Interval
  <2> QED BY <2>1, <2>2
<1>3. outs \in SUBSET DOMAIN thread.open /\ ins \in SUBSET DOMAIN thread.open
      /\ listed \in SUBSET DOMAIN thread.open
  OBVIOUS
<1>4. IsFiniteSet(outs) /\ IsFiniteSet(ins) /\ IsFiniteSet(listed)
  BY <1>2, <1>3, FS_Subset
<1>5. IsFiniteSet(listed \X Streams) /\ all \in SUBSET (listed \X Streams)
  BY <1>4, FS_Product
<1>6. IsFiniteSet(all)
  BY <1>5, FS_Subset
<1>7. Cardinality(outs) \in Nat /\ Cardinality(ins) \in Nat /\ Cardinality(all) \in Nat
  BY <1>4, <1>6, FS_CardinalityType
<1>8. nout \in Nat /\ nout <= MaxDebugDevs
  BY <1>7, MinOfTwo
<1>9. MaxDebugDevs - nout \in Nat
  BY <1>8
<1>10. nin \in Nat /\ nin <= MaxDebugDevs - nout
  BY <1>7, <1>9, MinOfTwo
<1>11. nstreams \in Nat /\ nstreams <= MaxDebugStreams
  BY <1>7, MinOfTwo
<1>12. dump_thread_info = [devs |-> nout + nin, streams |-> nstreams]
  BY DEF dump_thread_info
<1> HIDE DEF nout, nin, nstreams
<1> QED BY <1>8, <1>10, <1>11, <1>12

\* The audio thread reads a command only when the main thread waits for it.
LEMMA CommandRead ==
    ASSUME ThreadInv, thread.pc = "message"
    PROVE  /\ main.pc = "waiting" /\ main.rsp = <<>>
           /\ Head(thread.msgs) \in Commands /\ Tail(thread.msgs) = <<>>
           /\ Head(thread.msgs).id = main.cmd.id /\ Head(thread.msgs).dev = main.cmd.dev
           /\ Head(thread.msgs).stream = main.cmd.stream
           /\ main.cmd.id = "CONFIG_GLOBAL_REMIX" =>
                /\ Head(thread.msgs).conv \in main.remix \cup {0}
                /\ Head(thread.msgs).conv = 0 \/ Head(thread.msgs).conv # thread.remix
<1>1. thread.msgs # <<>> /\ main.pc = "waiting"
  BY DEF ThreadInv, StepInv
<1>2. Pending
  BY <1>1 DEF ThreadInv, StepInv, Replied
<1>3. PICK m \in Commands :
         /\ thread.msgs = <<m>>
         /\ m.id = main.cmd.id /\ m.dev = main.cmd.dev /\ m.stream = main.cmd.stream
         /\ m.id = "CONFIG_GLOBAL_REMIX" =>
              m.conv \in main.remix \cup {0} /\ (m.conv = 0 \/ m.conv # thread.remix)
  BY <1>2 DEF Pending
<1>4. Head(thread.msgs) = m /\ Tail(thread.msgs) = <<>>
  BY <1>3
<1> QED BY <1>1, <1>2, <1>3, <1>4 DEF Pending

\* A command is carried out and answered: what the answer lets the main thread free is let go of.
LEMMA Responded ==
    ASSUME ThreadInv, thread.pc = "message", NEW r \in Answers,
           main' = [main EXCEPT !.rsp = Append(@, r)],
           thread' \in Threads(thread'), thread'.msgs = Tail(thread.msgs),
           thread'.pc \in {"dispatch", "exited"},
           thread'.gen = thread.gen, thread'.pollfds = thread.pollfds,
           thread'.info.devs <= MaxDebugDevs, thread'.info.streams <= MaxDebugStreams,
           Range(thread'.open) \subseteq main.devs,
           \A j, k \in 1..Len(thread'.open) : thread'.open[j] = thread'.open[k] => j = k,
           callbacks' \in Seq(Callbacks), Registered' \subseteq Registered,
           \A j, k \in 1..Len(callbacks') : callbacks'[j].dev = callbacks'[k].dev => j = k,
           \A j \in 1..Len(callbacks') : \E k \in 1..Len(callbacks) : callbacks'[j] = callbacks[k],
           attached' \in [Devs -> SUBSET Streams],
           \A d \in Devs : attached'[d] \subseteq main.streams,
           \A d \in Devs : d \notin Range(thread'.open) => attached'[d] = {},
           thread'.remix \in main.remix \cup {0},
           main.cmd.id \in {"RM_OPEN_DEV", "REMOVE_CALLBACK"} => main.cmd.dev \notin Range(thread'.open),
           main.cmd.id = "REMOVE_CALLBACK" => main.cmd.dev \notin Registered',
           main.cmd.id = "DISCONNECT_STREAM" \/ (main.cmd.id = "DRAIN_STREAM" /\ r.rc = 0)
             => \A d \in Devs : main.cmd.stream \notin attached'[d],
           main.cmd.id = "CONFIG_GLOBAL_REMIX" => thread'.remix = 0 \/ thread'.remix # r.rc
    PROVE  ThreadInv'
<1>1. main.pc = "waiting" /\ main.rsp = <<>> /\ thread'.msgs = <<>>
  BY CommandRead
<1>2. main \in Mains /\ callbacks \in Seq(Callbacks)
  BY DEF ThreadInv, TypeInv
<1>3. Append(main.rsp, r) = <<r>> /\ <<r>> \in Seq(Answers)
  BY <1>1
<1>4. /\ main' \in Mains /\ main'.pc = main.pc /\ main'.cmd = main.cmd /\ main'.rsp = <<r>>
      /\ main'.devs = main.devs /\ main'.streams = main.streams /\ main'.remix = main.remix
  <2>1. main' = [main EXCEPT !.rsp = <<r>>]
    BY <1>3
  <2> QED BY <1>2, <1>3, <2>1 DEF Mains
<1>5. TypeInv'
  BY <1>4 DEF TypeInv
<1>6. ListsInv'
  BY DEF ListsInv
<1>7. Released(r)'
  BY <1>4 DEF Released
<1>8. StepInv'
  <2>1. Replied'
    BY <1>1, <1>4, <1>7 DEF Replied
  <2> QED BY <1>1, <1>4, <2>1 DEF StepInv
<1>9. CommandInv'
  BY <1>1, <1>4 DEF ThreadInv, CommandInv
<1>10. HeldInv'
  BY <1>4 DEF ThreadInv, HeldInv
<1>11. PollfdsCurrent'
  <2>1. \A k \in 1..Len(callbacks) : Current(callbacks[k], thread.gen, thread.pollfds)
    BY <1>2, CurrentCallbacks DEF ThreadInv, StartedPcs
  <2>2. \A j \in 1..Len(callbacks') : Current(callbacks'[j], thread'.gen, thread'.pollfds)
    BY <2>1
  <2> QED BY <2>2, CurrentCallbacksPrime
<1>12. DumpFits'
  BY DEF DumpFits
<1> QED BY <1>5, <1>6, <1>8, <1>9, <1>10, <1>11, <1>12 DEF ThreadInv

\* The same when the open list and the callbacks stay as they are.
LEMMA RespondedInPlace ==
    ASSUME ThreadInv, thread.pc = "message", NEW r \in Answers,
           main' = [main EXCEPT !.rsp = Append(@, r)],
           thread' \in Threads(thread'), thread'.msgs = Tail(thread.msgs),
           thread'.pc \in {"dispatch", "exited"},
           thread'.gen = thread.gen, thread'.pollfds = thread.pollfds,
           thread'.info.devs <= MaxDebugDevs, thread'.info.streams <= MaxDebugStreams,
           thread'.open = thread.open, UNCHANGED callbacks,
           attached' \in [Devs -> SUBSET Streams],
           \A d \in Devs : attached'[d] \subseteq main.streams,
           \A d \in Devs : d \notin Range(thread.open) => attached'[d] = {},
           thread'.remix \in main.remix \cup {0},
           main.cmd.id \notin {"RM_OPEN_DEV", "REMOVE_CALLBACK"},
           main.cmd.id = "DISCONNECT_STREAM" \/ (main.cmd.id = "DRAIN_STREAM" /\ r.rc = 0)
             => \A d \in Devs : main.cmd.stream \notin attached'[d],
           main.cmd.id = "CONFIG_GLOBAL_REMIX" => thread'.remix = 0 \/ thread'.remix # r.rc
    PROVE  ThreadInv'
<1>1. Registered' = Registered
  BY DEF Registered
<1>2. /\ callbacks' \in Seq(Callbacks) /\ Registered' \subseteq Registered
      /\ \A j \in 1..Len(callbacks') : \E k \in 1..Len(callbacks) : callbacks'[j] = callbacks[k]
  BY <1>1 DEF ThreadInv, TypeInv
<1>3. /\ \A j, k \in 1..Len(thread'.open) : thread'.open[j] = thread'.open[k] => j = k
      /\ \A j, k \in 1..Len(callbacks') : callbacks'[j].dev = callbacks'[k].dev => j = k
  BY DEF ThreadInv, ListsInv
<1>4. Range(thread'.open) \subseteq main.devs
  BY DEF ThreadInv, HeldInv
<1>5. /\ main.cmd.id \in {"RM_OPEN_DEV", "REMOVE_CALLBACK"} => main.cmd.dev \notin Range(thread'.open)
      /\ main.cmd.id = "REMOVE_CALLBACK" => main.cmd.dev \notin Registered'
      /\ \A d \in Devs : d \notin Range(thread'.open) => attached'[d] = {}
  OBVIOUS
<1> QED BY <1>2, <1>3, <1>4, <1>5, Responded

\* thread_disconnect_stream leaves the stream attached nowhere: a device that is not open has none.
LEMMA Disconnected ==
    ASSUME ThreadInv, NEW q
    PROVE  /\ thread_disconnect_stream(q) \in [Devs -> SUBSET Streams]
           /\ \A d \in Devs : thread_disconnect_stream(q)[d] \subseteq attached[d] \ {q}
<1>1. attached \in [Devs -> SUBSET Streams] /\ \A d \in Devs : d \notin Range(thread.open) => attached[d] = {}
  BY DEF ThreadInv, TypeInv, HeldInv
<1>2. CASE thread_find_stream(q)
  <2>1. thread_disconnect_stream(q) = [d \in Devs |-> attached[d] \ {q}]
    BY <1>2 DEF thread_disconnect_stream
  <2> QED BY <1>1, <2>1
<1>3. CASE ~thread_find_stream(q)
  <2>1. thread_disconnect_stream(q) = attached
    BY <1>3 DEF thread_disconnect_stream
  <2>2. \A d \in Devs : q \notin attached[d]
    BY <1>1, <1>3 DEF thread_find_stream
  <2> QED BY <1>1, <2>1, <2>2
<1> QED BY <1>2, <1>3

LEMMA MessageStep == ThreadInv /\ handle_playback_thread_message => ThreadInv'
<1> SUFFICES ASSUME ThreadInv, handle_playback_thread_message PROVE ThreadInv'
  OBVIOUS
<1> DEFINE msg == Head(thread.msgs)
           t == [thread EXCEPT !.msgs = Tail(@), !.pc = "dispatch"]
<1>1. /\ thread.pc = "message" /\ main.pc = "waiting" /\ msg \in Commands /\ Tail(thread.msgs) = <<>>
      /\ msg.id = main.cmd.id /\ msg.dev = main.cmd.dev /\ msg.stream = main.cmd.stream
      /\ main.cmd.id = "CONFIG_GLOBAL_REMIX" =>
            msg.conv \in main.remix \cup {0} /\ (msg.conv = 0 \/ msg.conv # thread.remix)
  BY CommandRead DEF handle_playback_thread_message
<1>2. /\ thread \in Threads(thread) /\ callbacks \in Seq(Callbacks) /\ thread.open \in Seq(Devs)
      /\ attached \in [Devs -> SUBSET Streams] /\ main \in Mains /\ thread.info \in [devs : Nat, streams : Nat]
      /\ thread.remix \in Nat
  BY DEF ThreadInv, TypeInv, Threads
<1>3. /\ \A j, k \in 1..Len(callbacks) : callbacks[j].dev = callbacks[k].dev => j = k
      /\ \A j, k \in 1..Len(thread.open) : thread.open[j] = thread.open[k] => j = k
      /\ \A d \in Devs : attached[d] \subseteq main.streams
      /\ \A d \in Devs : d \notin Range(thread.open) => attached[d] = {}
      /\ Range(thread.open) \subseteq main.devs /\ thread.remix \in main.remix \cup {0}
      /\ thread.info.devs <= MaxDebugDevs /\ thread.info.streams <= MaxDebugStreams
  BY DEF ThreadInv, ListsInv, HeldInv, DumpFits
<1>4. /\ t \in Threads(t) /\ t.msgs = Tail(thread.msgs) /\ t.pc = "dispatch" /\ t.gen = thread.gen
      /\ t.pollfds = thread.pollfds /\ t.info = thread.info /\ t.open = thread.open /\ t.remix = thread.remix
  <2> DEFINE rest == Tail(thread.msgs)
  <2>1. rest \in Seq(Commands)
    <3>1. rest = <<>>
      BY <1>1
    <3> HIDE DEF rest
    <3> QED BY <3>1
  <2>2. t = [thread EXCEPT !.msgs = rest, !.pc = "dispatch"]
    OBVIOUS
  <2>3. rest = Tail(thread.msgs)
    OBVIOUS
  <2> HIDE DEF rest, t
  <2>4. /\ t \in Threads(t) /\ t.msgs = rest /\ t.pc = "dispatch" /\ t.gen = thread.gen
        /\ t.pollfds = thread.pollfds /\ t.info = thread.info /\ t.open = thread.open /\ t.remix = thread.remix
    BY <1>2, <2>1, <2>2 DEF Threads
  <2> QED BY <2>3, <2>4
<1>5. \A n \in {0, 1} : Answer("int", n) \in Answers /\ Answer("int", n).rc = n
  BY DEF Answers, Answer
<1> HIDE DEF t, msg
<1>6. ASSUME NEW n \in {0, 1}, Respond(t, Answer("int", n)), UNCHANGED callbacks,
             main.cmd.id \notin {"RM_OPEN_DEV", "REMOVE_CALLBACK", "CONFIG_GLOBAL_REMIX"},
             attached' \in [Devs -> SUBSET Streams],
             \A d \in Devs : attached'[d] \subseteq main.streams,
             \A d \in Devs : d \notin Range(thread.open) => attached'[d] = {},
             main.cmd.id = "DISCONNECT_STREAM" \/ (main.cmd.id = "DRAIN_STREAM" /\ n = 0)
               => \A d \in Devs : main.cmd.stream \notin attached'[d]
      PROVE  ThreadInv'
  <2>1. thread' = t /\ main' = [main EXCEPT !.rsp = Append(@, Answer("int", n))]
    BY <1>6 DEF Respond
  <2>2. Answer("int", n) \in Answers /\ Answer("int", n).rc = n
    BY <1>5
  <2> DEFINE r == Answer("int", n)
  <2>3. r \in Answers /\ r.rc = n /\ main' = [main EXCEPT !.rsp = Append(@, r)]
    BY <2>1, <2>2
  <2> HIDE DEF r
  <2>4. /\ thread' \in Threads(thread') /\ thread'.msgs = Tail(thread.msgs)
        /\ thread'.pc \in {"dispatch", "exited"}
        /\ thread'.gen = thread.gen /\ thread'.pollfds = thread.pollfds
        /\ thread'.info.devs <= MaxDebugDevs /\ thread'.info.streams <= MaxDebugStreams
        /\ thread'.open = thread.open /\ thread'.remix \in main.remix \cup {0}
    BY <1>3, <1>4, <2>1
  <2> QED BY <1>1, <1>6, <2>3, <2>4, RespondedInPlace
<1>7. CASE /\ msg.id = "ADD_STREAM"
           /\ attached' = thread_add_stream(msg.stream, msg.dev)
           /\ Respond(t, Answer("int", 0)) /\ UNCHANGED callbacks
  <2>1. main.cmd.id = "ADD_STREAM" /\ msg.stream \in main.streams
    BY <1>1, <1>7 DEF ThreadInv, CommandInv
  <2>2. main.streams \subseteq Streams
    BY <1>2 DEF Mains
  <2>3. CASE Contains(thread.open, msg.dev)
    <3>1. attached' = [attached EXCEPT ![msg.dev] = @ \cup {msg.stream}]
      BY <1>7, <2>3 DEF thread_add_stream
    <3>2. msg.dev \in Range(thread.open)
      BY <1>2, <2>3 DEF Contains, Range
    <3>3. /\ attached' \in [Devs -> SUBSET Streams] /\ \A d \in Devs : attached'[d] \subseteq main.streams
          /\ \A d \in Devs : d \notin Range(thread.open) => attached'[d] = {}
      BY <1>2, <1>3, <2>1, <2>2, <3>1, <3>2
    <3> QED BY <1>6, <1>7, <2>1, <3>3
  <2>4. CASE ~Contains(thread.open, msg.dev)
    <3>1. attached' = attached
      BY <1>7, <2>4 DEF thread_add_stream
    <3> QED BY <1>2, <1>3, <1>6, <1>7, <2>1, <3>1
  <2> QED BY <2>3, <2>4
<1>8. ASSUME NEW n \in {0, 1}, main.cmd.id \in {"DISCONNECT_STREAM", "DRAIN_STREAM"},
             attached' = thread_disconnect_stream(msg.stream), Respond(t, Answer("int", n)),
             UNCHANGED callbacks
      PROVE  ThreadInv'
  <2>1. /\ attached' \in [Devs -> SUBSET Streams]
        /\ \A d \in Devs : attached'[d] \subseteq attached[d] \ {msg.stream}
    BY <1>8, Disconnected
  <2>2. /\ \A d \in Devs : attached'[d] \subseteq main.streams
        /\ \A d \in Devs : d \notin Range(thread.open) => attached'[d] = {}
        /\ \A d \in Devs : main.cmd.stream \notin attached'[d]
    BY <1>1, <1>3, <2>1
  <2> QED BY <1>6, <1>8, <2>1, <2>2
<1>9. CASE /\ msg.id = "DISCONNECT_STREAM"
           /\ attached' = thread_disconnect_stream(msg.stream)
           /\ Respond(t, Answer("int", 0)) /\ UNCHANGED callbacks
  BY <1>1, <1>8, <1>9
<1>10. CASE /\ msg.id = "DRAIN_STREAM"
            /\ \E r \in Drained(msg.stream) : attached' = r[2] /\ Respond(t, Answer("int", r[1]))
            /\ UNCHANGED callbacks
  <2>1. PICK r \in Drained(msg.stream) : attached' = r[2] /\ Respond(t, Answer("int", r[1]))
    BY <1>10
  <2>2. CASE thread_find_stream(msg.stream) /\ r = <<0, thread_disconnect_stream(msg.stream)>>
    <3>1. r[1] = 0 /\ r[2] = thread_disconnect_stream(msg.stream)
      BY <2>2
    <3> QED BY <1>1, <1>8, <1>10, <2>1, <3>1
  <2>3. CASE r = <<1, attached>>
    <3>1. r[1] = 1 /\ r[2] = attached
      BY <2>3
    <3> QED BY <1>1, <1>2, <1>3, <1>6, <1>10, <2>1, <3>1
  <2>4. CASE ~thread_find_stream(msg.stream) /\ r = <<0, attached>>
    <3>1. r[1] = 0 /\ r[2] = attached /\ attached = thread_disconnect_stream(msg.stream)
      BY <2>4 DEF thread_disconnect_stream
    <3> QED BY <1>1, <1>8, <1>10, <2>1, <3>1
  <2> QED BY <2>1, <2>2, <2>3, <2>4 DEF Drained
<1> DEFINE zero == Answer("int", 0)
<1>11. zero \in Answers /\ Answer("int", 0) = zero
  BY <1>5
<1> HIDE DEF zero
<1>12. CASE /\ msg.id = "ADD_OPEN_DEV"
            /\ Respond(thread_add_open_dev(t, msg.dev), Answer("int", 0))
            /\ UNCHANGED <<callbacks, attached>>
  <2> DEFINE open == IF Contains(thread.open, msg.dev) THEN thread.open ELSE Append(thread.open, msg.dev)
  <2>1. main.cmd.id = "ADD_OPEN_DEV" /\ msg.dev \in main.devs /\ msg.dev \in Devs
    <3>1. main.devs \subseteq Devs
      BY <1>2 DEF Mains
    <3> QED BY <3>1, <1>1, <1>12 DEF ThreadInv, CommandInv
  <2>2. thread' = [t EXCEPT !.open = open] /\ main' = [main EXCEPT !.rsp = Append(@, zero)]
    BY <1>4, <1>11, <1>12 DEF Respond, thread_add_open_dev
  <2>3. /\ open \in Seq(Devs) /\ Range(open) = Range(thread.open) \cup {msg.dev}
        /\ \A j, k \in 1..Len(open) : open[j] = open[k] => j = k
    <3>1. Range(thread.open) = {thread.open[j] : j \in 1..Len(thread.open)} /\ Len(thread.open) \in Nat
      BY <1>2 DEF Range
    <3>2. Contains(thread.open, msg.dev) <=> msg.dev \in Range(thread.open)
      BY <1>2, <3>1 DEF Contains
    <3>3. CASE Contains(thread.open, msg.dev)
      BY <1>2, <1>3, <3>2, <3>3
    <3>4. CASE ~Contains(thread.open, msg.dev)
      <4> DEFINE w == Append(thread.open, msg.dev)
      <4>1. /\ w \in Seq(Devs) /\ Len(w) = Len(thread.open) + 1 /\ w[Len(thread.open) + 1] = msg.dev
            /\ \A j \in 1..Len(thread.open) : w[j] = thread.open[j]
        BY <1>2, <2>1
      <4> HIDE DEF w
      <4>2. DOMAIN w = 1..Len(thread.open) + 1
        BY <3>1, <4>1
      <4>3. Range(w) = {w[j] : j \in 1..Len(thread.open) + 1}
        BY <4>2 DEF Range
      <4>4. \A j \in 1..Len(thread.open) + 1 : j \in 1..Len(thread.open) \/ j = Len(thread.open) + 1
        BY <3>1
      <4>5. Range(w) = Range(thread.open) \cup {msg.dev}
        <5>1. \A j \in 1..Len(thread.open) + 1 : w[j] \in Range(thread.open) \cup {msg.dev}
          BY <3>1, <4>1, <4>4
        <5>2. \A j \in 1..Len(thread.open) : j \in 1..Len(thread.open) + 1
          BY <3>1
        <5>3. Len(thread.open) + 1 \in 1..Len(thread.open) + 1
          BY <3>1
        <5>4. Range(thread.open) \subseteq Range(w)
          BY <3>1, <4>1, <4>3, <5>2
        <5>5. msg.dev \in Range(w)
          BY <4>1, <4>3, <5>3
        <5> QED BY <4>3, <5>1, <5>4, <5>5
      <4>6. \A j \in 1..Len(thread.open) : thread.open[j] # msg.dev
        BY <3>1, <3>2, <3>4
      <4>7. \A j, k \in 1..Len(w) : w[j] = w[k] => j = k
        BY <1>3, <4>1, <4>4, <4>6
      <4>8. open = w
        BY <3>4 DEF w
      <4> QED BY <4>1, <4>5, <4>7, <4>8
    <3> QED BY <3>3, <3>4
  <2> HIDE DEF open
  <2>4. /\ thread' \in Threads(thread') /\ thread'.msgs = Tail(thread.msgs)
        /\ thread'.pc \in {"dispatch", "exited"}
        /\ thread'.gen = thread.gen /\ thread'.pollfds = thread.pollfds
        /\ thread'.info.devs <= MaxDebugDevs /\ thread'.info.streams <= MaxDebugStreams
        /\ thread'.open = open /\ thread'.remix \in main.remix \cup {0}
    BY <1>3, <1>4, <2>2, <2>3 DEF Threads
  <2>5. Registered' = Registered
    BY <1>12 DEF Registered
  <2>6. /\ Range(thread'.open) \subseteq main.devs
        /\ \A j, k \in 1..Len(thread'.open) : thread'.open[j] = thread'.open[k] => j = k
        /\ callbacks' \in Seq(Callbacks) /\ Registered' \subseteq Registered
        /\ \A j, k \in 1..Len(callbacks') : callbacks'[j].dev = callbacks'[k].dev => j = k
        /\ \A j \in 1..Len(callbacks') : \E k \in 1..Len(callbacks) : callbacks'[j] = callbacks[k]
        /\ attached' \in [Devs -> SUBSET Streams]
        /\ \A d \in Devs : attached'[d] \subseteq main.streams
        /\ \A d \in Devs : d \notin Range(thread'.open) => attached'[d] = {}
    BY <1>2, <1>3, <1>12, <2>1, <2>3, <2>4, <2>5
  <2>7. /\ main.cmd.id \in {"RM_OPEN_DEV", "REMOVE_CALLBACK"} => main.cmd.dev \notin Range(thread'.open)
        /\ main.cmd.id = "REMOVE_CALLBACK" => main.cmd.dev \notin Registered'
        /\ main.cmd.id = "DISCONNECT_STREAM" \/ (main.cmd.id = "DRAIN_STREAM" /\ zero.rc = 0)
             => \A d \in Devs : main.cmd.stream \notin attached'[d]
        /\ main.cmd.id = "CONFIG_GLOBAL_REMIX" => thread'.remix = 0 \/ thread'.remix # zero.rc
    BY <2>1
  <2> QED BY <1>1, <1>11, <2>2, <2>4, <2>6, <2>7, Responded
<1>13. CASE /\ msg.id = "RM_OPEN_DEV"
            /\ attached' = [attached EXCEPT ![msg.dev] = IF Contains(thread.open, msg.dev) THEN {} ELSE @]
            /\ Respond(thread_rm_open_dev(t, msg.dev), Answer("int", 0)) /\ UNCHANGED callbacks
  <2> DEFINE open == Without(thread.open, msg.dev)
  <2>1. main.cmd.id = "RM_OPEN_DEV"
    BY <1>1, <1>13
  <2>2. thread' = [t EXCEPT !.open = open] /\ main' = [main EXCEPT !.rsp = Append(@, zero)]
    BY <1>4, <1>11, <1>13 DEF Respond, thread_rm_open_dev
  <2>3. /\ open \in Seq(Devs) /\ Range(open) = Range(thread.open) \ {msg.dev}
        /\ \A j, k \in 1..Len(open) : open[j] = open[k] => j = k
    BY <1>2, <1>3, DeletedFrom
  <2> HIDE DEF open
  <2>4. /\ thread' \in Threads(thread') /\ thread'.msgs = Tail(thread.msgs)
        /\ thread'.pc \in {"dispatch", "exited"}
        /\ thread'.gen = thread.gen /\ thread'.pollfds = thread.pollfds
        /\ thread'.info.devs <= MaxDebugDevs /\ thread'.info.streams <= MaxDebugStreams
        /\ thread'.open = open /\ thread'.remix \in main.remix \cup {0}
    BY <1>3, <1>4, <2>2, <2>3 DEF Threads
  <2>5. Registered' = Registered
    BY <1>13 DEF Registered
  <2>6. /\ attached' \in [Devs -> SUBSET Streams]
        /\ \A d \in Devs : attached'[d] \subseteq attached[d]
        /\ \A d \in Devs : d \notin Range(thread'.open) => attached'[d] = {}
    <3>1. Contains(thread.open, msg.dev) <=> msg.dev \in Range(thread.open)
      BY <1>2 DEF Contains, Range
    <3>2. ASSUME NEW d \in Devs PROVE attached'[d] = IF d = msg.dev /\ Contains(thread.open, d) THEN {} ELSE attached[d]
      BY <1>2, <1>13
    <3>3. attached' \in [Devs -> SUBSET Streams]
      BY <1>2, <1>13
    <3> QED BY <1>2, <1>3, <2>3, <2>4, <3>1, <3>2, <3>3
  <2>7. /\ Range(thread'.open) \subseteq main.devs
        /\ \A j, k \in 1..Len(thread'.open) : thread'.open[j] = thread'.open[k] => j = k
        /\ callbacks' \in Seq(Callbacks) /\ Registered' \subseteq Registered
        /\ \A j, k \in 1..Len(callbacks') : callbacks'[j].dev = callbacks'[k].dev => j = k
        /\ \A j \in 1..Len(callbacks') : \E k \in 1..Len(callbacks) : callbacks'[j] = callbacks[k]
        /\ \A d \in Devs : attached'[d] \subseteq main.streams
    BY <1>2, <1>3, <1>13, <2>3, <2>4, <2>5, <2>6
  <2>8. /\ main.cmd.id \in {"RM_OPEN_DEV", "REMOVE_CALLBACK"} => main.cmd.dev \notin Range(thread'.open)
        /\ main.cmd.id = "REMOVE_CALLBACK" => main.cmd.dev \notin Registered'
        /\ main.cmd.id = "DISCONNECT_STREAM" \/ (main.cmd.id = "DRAIN_STREAM" /\ zero.rc = 0)
             => \A d \in Devs : main.cmd.stream \notin attached'[d]
        /\ main.cmd.id = "CONFIG_GLOBAL_REMIX" => thread'.remix = 0 \/ thread'.remix # zero.rc
    BY <1>1, <2>1, <2>3, <2>4
  <2> QED BY <1>1, <1>11, <2>2, <2>4, <2>6, <2>7, <2>8, Responded
<1>14. CASE /\ msg.id = "REMOVE_CALLBACK"
            /\ callbacks' = audio_thread_rm_callback(msg.dev)
            /\ Respond([t EXCEPT !.cur = IF callbacks' = <<>> THEN None ELSE callbacks'[1].dev], Answer("int", 0))
            /\ UNCHANGED attached
  <2> DEFINE cur == IF callbacks' = <<>> THEN None ELSE callbacks'[1].dev
  <2>1. main.cmd.id = "REMOVE_CALLBACK" /\ msg.dev \notin Range(thread.open)
    BY <1>1, <1>14 DEF ThreadInv, CommandInv
  <2>2. thread' = [t EXCEPT !.cur = cur] /\ main' = [main EXCEPT !.rsp = Append(@, zero)]
    BY <1>11, <1>14 DEF Respond
  <2> HIDE DEF cur
  <2>3. /\ callbacks' \in Seq(Callbacks) /\ Registered' \subseteq Registered /\ msg.dev \notin Registered'
        /\ \A j, k \in 1..Len(callbacks') : callbacks'[j].dev = callbacks'[k].dev => j = k
        /\ \A j \in 1..Len(callbacks') : \E k \in 1..Len(callbacks) : callbacks'[j] = callbacks[k]
    BY <1>2, <1>3, <1>14, CallbackRemoved
  <2>4. /\ thread' \in Threads(thread') /\ thread'.msgs = Tail(thread.msgs)
        /\ thread'.pc \in {"dispatch", "exited"}
        /\ thread'.gen = thread.gen /\ thread'.pollfds = thread.pollfds
        /\ thread'.info.devs <= MaxDebugDevs /\ thread'.info.streams <= MaxDebugStreams
        /\ thread'.open = thread.open /\ thread'.remix \in main.remix \cup {0}
    BY <1>3, <1>4, <2>2 DEF Threads
  <2>5. /\ Range(thread'.open) \subseteq main.devs
        /\ \A j, k \in 1..Len(thread'.open) : thread'.open[j] = thread'.open[k] => j = k
        /\ attached' \in [Devs -> SUBSET Streams]
        /\ \A d \in Devs : attached'[d] \subseteq main.streams
        /\ \A d \in Devs : d \notin Range(thread'.open) => attached'[d] = {}
    BY <1>2, <1>3, <1>14, <2>4
  <2>6. /\ main.cmd.id \in {"RM_OPEN_DEV", "REMOVE_CALLBACK"} => main.cmd.dev \notin Range(thread'.open)
        /\ main.cmd.id = "REMOVE_CALLBACK" => main.cmd.dev \notin Registered'
        /\ main.cmd.id = "DISCONNECT_STREAM" \/ (main.cmd.id = "DRAIN_STREAM" /\ zero.rc = 0)
             => \A d \in Devs : main.cmd.stream \notin attached'[d]
        /\ main.cmd.id = "CONFIG_GLOBAL_REMIX" => thread'.remix = 0 \/ thread'.remix # zero.rc
    BY <1>1, <2>1, <2>3, <2>4
  <2> QED BY <1>1, <1>11, <2>2, <2>3, <2>4, <2>5, <2>6, Responded
<1>15. CASE /\ msg.id = "CONFIG_GLOBAL_REMIX"
            /\ Respond([t EXCEPT !.remix = msg.conv], Answer("ptr", thread.remix))
            /\ UNCHANGED <<callbacks, attached>>
  <2> DEFINE r == Answer("ptr", thread.remix)
  <2>1. r \in Answers /\ r.rc = thread.remix
    BY <1>2 DEF Answers, Answer
  <2>2. thread' = [t EXCEPT !.remix = msg.conv] /\ main' = [main EXCEPT !.rsp = Append(@, r)]
    BY <1>15 DEF Respond
  <2> HIDE DEF r
  <2>3. /\ main.cmd.id = "CONFIG_GLOBAL_REMIX" /\ msg.conv \in main.remix \cup {0}
        /\ (msg.conv = 0 \/ msg.conv # thread.remix) /\ msg.conv \in Nat
    BY <1>1, <1>15 DEF Commands
  <2>4. /\ thread' \in Threads(thread') /\ thread'.msgs = Tail(thread.msgs)
        /\ thread'.pc \in {"dispatch", "exited"}
        /\ thread'.gen = thread.gen /\ thread'.pollfds = thread.pollfds
        /\ thread'.info.devs <= MaxDebugDevs /\ thread'.info.streams <= MaxDebugStreams
        /\ thread'.open = thread.open /\ thread'.remix = msg.conv
    BY <1>3, <1>4, <2>2, <2>3 DEF Threads
  <2> QED BY <1>1, <1>2, <1>3, <1>15, <2>1, <2>2, <2>3, <2>4, RespondedInPlace
<1>16. CASE /\ msg.id = "DUMP_THREAD_INFO"
            /\ Respond([t EXCEPT !.info = dump_thread_info], Answer("int", 0))
            /\ UNCHANGED <<callbacks, attached>>
  <2>1. thread' = [t EXCEPT !.info = dump_thread_info] /\ main' = [main EXCEPT !.rsp = Append(@, zero)]
    BY <1>11, <1>16 DEF Respond
  <2>2. /\ dump_thread_info \in [devs : Nat, streams : Nat]
        /\ dump_thread_info.devs <= MaxDebugDevs /\ dump_thread_info.streams <= MaxDebugStreams
    BY DumpBounded
  <2>3. /\ thread' \in Threads(thread') /\ thread'.msgs = Tail(thread.msgs)
        /\ thread'.pc \in {"dispatch", "exited"}
        /\ thread'.gen = thread.gen /\ thread'.pollfds = thread.pollfds
        /\ thread'.info = dump_thread_info
        /\ thread'.open = thread.open /\ thread'.remix = thread.remix
    BY <1>4, <2>1, <2>2 DEF Threads
  <2> QED BY <1>1, <1>2, <1>3, <1>11, <1>16, <2>1, <2>2, <2>3, RespondedInPlace
<1>17. CASE /\ msg.id \in {"IS_DEV_OPEN", "DEV_START_RAMP", "AEC_DUMP"}
            /\ Respond(t, Answer("int", IF Contains(thread.open, msg.dev) THEN 1 ELSE 0))
            /\ UNCHANGED <<callbacks, attached>>
  <2>1. PICK n \in {0, 1} : Respond(t, Answer("int", n))
    BY <1>17
  <2> QED BY <1>1, <1>2, <1>3, <1>6, <1>17, <2>1
<1>18. CASE /\ msg.id = "STOP"
            /\ Respond([t EXCEPT !.pc = "exited"], Answer("int", 0))
            /\ UNCHANGED <<callbacks, attached>>
  <2>1. thread' = [t EXCEPT !.pc = "exited"] /\ main' = [main EXCEPT !.rsp = Append(@, zero)]
    BY <1>11, <1>18 DEF Respond
  <2>2. /\ thread' \in Threads(thread') /\ thread'.msgs = Tail(thread.msgs)
        /\ thread'.pc \in {"dispatch", "exited"}
        /\ thread'.gen = thread.gen /\ thread'.pollfds = thread.pollfds
        /\ thread'.info = thread.info
        /\ thread'.open = thread.open /\ thread'.remix = thread.remix
    BY <1>4, <2>1 DEF Threads
  <2> QED BY <1>1, <1>2, <1>3, <1>11, <1>18, <2>1, <2>2, RespondedInPlace
<1> QED BY <1>7, <1>9, <1>10, <1>12, <1>13, <1>14, <1>15, <1>16, <1>17, <1>18
        DEF handle_playback_thread_message, msg, t

LEMMA ThreadStep == ThreadInv /\ Next => ThreadInv'
<1> SUFFICES ASSUME ThreadInv, Next PROVE ThreadInv'
  OBVIOUS
<1>1. CASE AudioThreadStep
  BY <1>1, DevIoStep, PollStep, PpollStep, MessageStep, DispatchStep, DispatchDoneStep DEF AudioThreadStep
<1>2. CASE MainStep
  BY <1>2, AppendStep, PostSteps, AnswerStep, JoinStep DEF MainStep
<1>3. CASE audio_thread_start
  BY <1>3, StartStep
<1>4. ASSUME NEW d \in Devs, configure_dev(d) PROVE ThreadInv'
  BY <1>4, ConfigureStep
<1>5. ASSUME NEW conv \in 0..2, audio_thread_config_global_remix(conv) PROVE ThreadInv'
  BY <1>5, RemixStep
<1> QED BY <1>1, <1>2, <1>3, <1>4, <1>5, PostSteps DEF Next

LEMMA ThreadStutter == ThreadInv /\ UNCHANGED vars => ThreadInv'
<1> SUFFICES ASSUME ThreadInv, UNCHANGED vars PROVE ThreadInv'
  OBVIOUS
<1>1. UNCHANGED <<thread, callbacks, attached, main>>
  BY DEF vars
<1>2. Registered' = Registered
  BY <1>1 DEF Registered
<1>3. \A r : Released(r)' <=> Released(r)
  BY <1>1, <1>2 DEF Released
<1>4. TypeInv' /\ ListsInv' /\ CommandInv' /\ HeldInv'
  BY <1>1, <1>2 DEF ThreadInv, TypeInv, ListsInv, CommandInv, HeldInv
<1>5. StepInv'
  BY <1>1, <1>3 DEF ThreadInv, StepInv, Pending, Replied
<1>6. PollfdsCurrent' /\ DumpFits'
  BY <1>1 DEF ThreadInv, PollfdsCurrent, DumpFits
<1> QED BY <1>4, <1>5, <1>6 DEF ThreadInv

\* The two threads stay in step, for any devices and streams, any size the array of descriptors
\* starts with, any number of commands, growth of the array for a stream behind the callbacks, and
\* callbacks appended while the audio thread takes others away (audio_thread.c).
THEOREM ThreadsStayInStep == MCSpec => []ThreadsInStep
<1>1. MCInit => ThreadInv
  BY ThreadInit DEF MCInit
<1>2. ThreadInv /\ [MCNext]_mcVars => ThreadInv'
  BY ThreadStep, ThreadStutter DEF MCNext, mcVars
<1>3. ThreadInv => ThreadsInStep
  <2>1. ThreadInv => thread.open \in Seq(Devs)
    BY DEF ThreadInv, TypeInv, Threads
  <2>2. thread.open \in Seq(Devs) => Range(thread.open) \subseteq Devs
    BY DEF Range
  <2>3. ThreadInv => AnswersInStep
    BY DEF ThreadInv, StepInv, AnswersInStep
  <2>4. ThreadInv => HeldIsLive
    BY <2>1, <2>2 DEF ThreadInv, HeldInv, HeldIsLive
  <2> QED BY <2>3, <2>4 DEF ThreadInv, ThreadsInStep
<1> QED BY <1>1, <1>2, <1>3, PTL DEF MCSpec

-----------------------------------------------------------------------------
(* Capture: the input path of dev_io.c, cras_iodev.c, input_data.c and     *)
(* cras_apm_list.c.                                                        *)

Frames == [id : Nat, dsp : Nat]
Taps == [off : Nat, room : Nat, apmIn : Seq(Nat), apmOut : Seq(Nat), got : Nat, raw : BOOLEAN, again : {FALSE},
         failed : BOOLEAN]
InputDevs == [queue : Seq(Frames), captured : Nat, dsp_offset : Nat, frames_read : Nat, fbuf : Seq(Nat)]

Rising(c) == \A i, j \in 1..Len(c) : i < j => c[i] < c[j]

\* The frames of the hardware buffer are in order, those the DSP has seen are the ones below its
\* offset, and the float buffer has one frame for each of them, older than the others.
QueueSound(q, off, fb, cap) ==
    /\ \A i, j \in 1..Len(q) : i < j => q[i].id < q[j].id
    /\ \A i \in 1..Len(q) : 0 < q[i].id /\ q[i].id <= cap /\ q[i].dsp <= 1 /\ (i > off => q[i].dsp = 0)
    /\ Len(fb) = off /\ Rising(fb)
    /\ \A i \in 1..Len(fb) : 0 < fb[i] /\ fb[i] <= cap
    /\ \A i \in 1..Len(fb), j \in 1..Len(q) : j > off => fb[i] < q[j].id

\* Frame x is older than what a stream at place k of the float buffer has not read.
Older(x, k, q, off, fb) ==
    /\ \A i \in 1..Len(fb) : i > k => x < fb[i]
    /\ \A j \in 1..Len(q) : j > off => x < q[j].id

\* A stream without processing was given frames older than those behind its place in the hardware
\* buffer; one with processing has older frames the further they have come.
InOrder(s, t, q, off, fb, cap) ==
    /\ t.off <= off /\ t.got <= cap
    /\ s \notin ApmStreams => \A i \in 1..Len(q) : i > t.off => t.got < q[i].id
    /\ s \in ApmStreams =>
         /\ Len(t.apmIn) <= ApmFrames /\ Rising(t.apmIn) /\ Rising(t.apmOut)
         /\ Older(t.got, t.off, q, off, fb)
         /\ \A i \in 1..Len(t.apmIn) : t.got < t.apmIn[i] /\ t.apmIn[i] <= cap /\ Older(t.apmIn[i], t.off, q, off, fb)
         /\ \A i \in 1..Len(t.apmOut) : t.got < t.apmOut[i] /\ t.apmOut[i] <= cap /\ Older(t.apmOut[i], t.off, q, off, fb)
         /\ \A i \in 1..Len(t.apmOut), j \in 1..Len(t.apmIn) : t.apmOut[i] < t.apmIn[j]

\* What remains of it once the audio processing of the stream has failed.
Stuck(s, t, off) == s \in ApmStreams /\ t.off <= off /\ Len(t.apmIn) <= ApmFrames

StreamSound(s, t, q, off, fb, cap) ==
    IF t.failed THEN Stuck(s, t, off) ELSE InOrder(s, t, q, off, fb, cap)

Sound(s, t, d) == StreamSound(s, t, d.queue, d.dsp_offset, d.fbuf, d.captured)

InInv ==
    /\ idev \in InputDevs /\ inStream \in [InStreams -> Taps] /\ list \in Seq(InStreams)
    /\ \A j, k \in 1..Len(list) : list[j] = list[k] => j = k
    /\ QueueSound(idev.queue, idev.dsp_offset, idev.fbuf, idev.captured)
    /\ \A s \in Range(list) : Sound(s, inStream[s], idev)

\* What is left of a sequence without its first n elements.
LEMMA FromOf ==
    ASSUME NEW S, NEW q \in Seq(S), NEW n \in Nat
    PROVE  LET w == In!From(q, n)
           IN /\ w \in Seq(S) /\ Len(w) = IF n <= Len(q) THEN Len(q) - n ELSE 0
              /\ \A i \in 1..Len(w) : i + n \in 1..Len(q) /\ w[i] = q[i + n]
<1> DEFINE w == SubSeq(q, n + 1, Len(q))
<1>0. Len(q) \in Nat
  OBVIOUS
<1>1. CASE n <= Len(q)
  <2>1. w \in Seq(S) /\ Len(w) = Len(q) - n /\ \A i \in 1..Len(q) - n : w[i] = q[i + n]
    BY <1>0, <1>1
  <2> QED BY <1>0, <1>1, <2>1 DEF In!From
<1>2. CASE ~(n <= Len(q))
  <2>1. w = <<>>
    BY <1>0, <1>2
  <2> QED BY <1>2, <2>1 DEF In!From
<1> QED BY <1>1, <1>2

\* The first k of the frames behind place n.
LEMMA PartOf ==
    ASSUME NEW S, NEW q \in Seq(S), NEW n \in Nat, NEW k \in Nat, n + k <= Len(q)
    PROVE  /\ SubSeq(q, n + 1, n + k) \in Seq(S) /\ Len(SubSeq(q, n + 1, n + k)) = k
           /\ \A i \in 1..k : n + i \in 1..Len(q) /\ SubSeq(q, n + 1, n + k)[i] = q[n + i]
<1> DEFINE w == SubSeq(q, n + 1, n + k)
<1>0. Len(q) \in Nat
  OBVIOUS
<1>1. w \in Seq(S) /\ Len(w) = k
  BY <1>0
<1>2. \A i \in 1..k : n + i \in 1..Len(q) /\ w[i] = q[n + i]
  BY <1>0
<1> QED BY <1>1, <1>2

LEMMA FrameAt ==
    ASSUME NEW q \in Seq(Frames), NEW i \in 1..Len(q)
    PROVE  q[i].id \in Nat /\ q[i].dsp \in Nat
<1>1. q[i] \in Frames
  OBVIOUS
<1> QED BY <1>1 DEF Frames

LEMMA InInit == In!Init => InInv
<1> SUFFICES ASSUME In!Init PROVE InInv
  OBVIOUS
<1>1. In!Detached \in Taps
  BY DEF In!Detached, Taps
<1>2. /\ idev \in InputDevs /\ idev.queue = <<>> /\ idev.fbuf = <<>> /\ idev.dsp_offset = 0
  BY DEF In!Init, InputDevs
<1>3. inStream \in [InStreams -> Taps] /\ list = <<>>
  BY <1>1 DEF In!Init
<1>4. QueueSound(idev.queue, idev.dsp_offset, idev.fbuf, idev.captured)
  BY <1>2 DEF QueueSound, Rising
<1>5. Range(list) = {}
  BY <1>3 DEF Range
<1> QED BY <1>2, <1>3, <1>4, <1>5 DEF InInv

\* The hardware buffer loses n frames from its front, the other marks stay (n = 0: nothing changes).
LEMMA QueueShort ==
    ASSUME NEW q \in Seq(Frames), NEW w \in Seq(Frames), NEW n \in Nat, NEW off \in Nat, NEW fb \in Seq(Nat),
           NEW cap \in Nat,
           \A i \in 1..Len(w) : i + n \in 1..Len(q) /\ w[i] = q[i + n],
           QueueSound(q, off, fb, cap)
    PROVE  /\ QueueSound(w, off, fb, cap)
           /\ \A s \in InStreams, t \in Taps : StreamSound(s, t, q, off, fb, cap) => StreamSound(s, t, w, off, fb, cap)
<1> DEFINE at(i) == i + n
<1>1. \A i \in 1..Len(w) : at(i) \in 1..Len(q) /\ w[i] = q[at(i)] /\ i \in Nat
  OBVIOUS
<1>1a. \A i, j \in 1..Len(w) : i < j => at(i) < at(j)
  BY <1>1
<1>1b. \A i \in 1..Len(w), k \in Nat : i > k => at(i) > k
  BY <1>1
<1> HIDE DEF at
<1>2. QueueSound(w, off, fb, cap)
  <2>1. \A i, j \in 1..Len(w) : i < j => w[i].id < w[j].id
    BY <1>1, <1>1a DEF QueueSound
  <2>2. \A i \in 1..Len(w) : 0 < w[i].id /\ w[i].id <= cap /\ w[i].dsp <= 1 /\ (i > off => w[i].dsp = 0)
    BY <1>1, <1>1b DEF QueueSound
  <2>3. \A i \in 1..Len(fb), j \in 1..Len(w) : j > off => fb[i] < w[j].id
    BY <1>1, <1>1b DEF QueueSound
  <2> QED BY <2>1, <2>2, <2>3 DEF QueueSound
<1>3. ASSUME NEW s \in InStreams, NEW t \in Taps, InOrder(s, t, q, off, fb, cap) PROVE InOrder(s, t, w, off, fb, cap)
  <2>1. t.off \in Nat
    BY DEF Taps
  <2>2. s \notin ApmStreams => \A i \in 1..Len(w) : i > t.off => t.got < w[i].id
    BY <1>1, <1>1b, <1>3, <2>1 DEF InOrder
  <2>3. ASSUME NEW x, NEW k, Older(x, k, q, off, fb) PROVE Older(x, k, w, off, fb)
    BY <1>1, <1>1b, <2>3 DEF Older
  <2> QED BY <1>3, <2>2, <2>3 DEF InOrder
<1> QED BY <1>2, <1>3 DEF StreamSound

LEMMA CaptureStep == InInv /\ In!HardwareCaptures => InInv'
<1> SUFFICES ASSUME InInv, In!HardwareCaptures PROVE InInv'
  OBVIOUS
<1> DEFINE new == [id |-> idev.captured + 1, dsp |-> 0]
           q == idev.queue
           w == Append(q, new)
           cap == idev.captured
           off == idev.dsp_offset
           fb == idev.fbuf
<1>1. /\ idev' = [idev EXCEPT !.captured = cap + 1, !.queue = w] /\ UNCHANGED <<list, inStream>>
  BY DEF In!HardwareCaptures
<1>2. /\ idev \in InputDevs /\ q \in Seq(Frames) /\ cap \in Nat /\ off \in Nat /\ fb \in Seq(Nat)
      /\ QueueSound(q, off, fb, cap) /\ inStream \in [InStreams -> Taps]
      /\ \A s \in Range(list) : StreamSound(s, inStream[s], q, off, fb, cap)
  BY DEF InInv, InputDevs, Sound
<1>3. new \in Frames /\ new.id = cap + 1 /\ new.dsp = 0
  BY <1>2 DEF Frames
<1> HIDE DEF new
<1>4. /\ w \in Seq(Frames) /\ Len(w) = Len(q) + 1 /\ w[Len(q) + 1] = new /\ Len(q) \in Nat
      /\ \A i \in 1..Len(q) : w[i] = q[i]
  BY <1>2, <1>3
<1>5. \A i \in 1..Len(w) : i \in 1..Len(q) \/ i = Len(q) + 1
  BY <1>4
<1> HIDE DEF w
<1>6. /\ idev' \in InputDevs /\ idev'.queue = w /\ idev'.captured = cap + 1
      /\ idev'.dsp_offset = off /\ idev'.fbuf = fb
  <2>1. cap + 1 \in Nat
    BY <1>2
  <2> DEFINE c == cap + 1
  <2>2. idev' = [idev EXCEPT !.captured = c, !.queue = w] /\ c \in Nat
    BY <1>1, <2>1
  <2> HIDE DEF c
  <2>3. idev' \in InputDevs /\ idev'.queue = w /\ idev'.captured = c /\ idev'.dsp_offset = off /\ idev'.fbuf = fb
    BY <1>2, <1>4, <2>2 DEF InputDevs
  <2> QED BY <2>3 DEF c
<1> HIDE DEF q, cap, off, fb
<1>7. QueueSound(w, off, fb, cap + 1)
  <2>1. \A i, j \in 1..Len(w) : i < j => w[i].id < w[j].id
    <3> SUFFICES ASSUME NEW i \in 1..Len(w), NEW j \in 1..Len(w), i < j PROVE w[i].id < w[j].id
      OBVIOUS
    <3>1. i \in 1..Len(q)
      BY <1>4, <1>5
    <3>2. w[i].id = q[i].id /\ q[i].id <= cap /\ q[i].id \in Nat
      BY <1>2, <1>4, <3>1, FrameAt DEF QueueSound
    <3>3. CASE j \in 1..Len(q)
      BY <1>2, <1>4, <3>1, <3>3 DEF QueueSound
    <3>4. CASE j = Len(q) + 1
      BY <1>2, <1>3, <1>4, <3>2, <3>4
    <3> QED BY <1>5, <3>3, <3>4
  <2>2. \A i \in 1..Len(w) : 0 < w[i].id /\ w[i].id <= cap + 1 /\ w[i].dsp <= 1 /\ (i > off => w[i].dsp = 0)
    <3> SUFFICES ASSUME NEW i \in 1..Len(w)
                 PROVE  0 < w[i].id /\ w[i].id <= cap + 1 /\ w[i].dsp <= 1 /\ (i > off => w[i].dsp = 0)
      OBVIOUS
    <3>1. CASE i \in 1..Len(q)
      <4>1. q[i].id \in Nat
        BY <1>2, <3>1, FrameAt
      <4> QED BY <1>2, <1>4, <3>1, <4>1 DEF QueueSound
    <3>2. CASE i = Len(q) + 1
      BY <1>2, <1>3, <1>4, <3>2
    <3> QED BY <1>5, <3>1, <3>2
  <2>3. \A i \in 1..Len(fb) : 0 < fb[i] /\ fb[i] <= cap + 1 /\ fb[i] < cap + 1
    <3>1. \A i \in 1..Len(fb) : fb[i] \in Nat
      BY <1>2
    <3> QED BY <1>2, <3>1 DEF QueueSound
  <2>4. \A i \in 1..Len(fb), j \in 1..Len(w) : j > off => fb[i] < w[j].id
    <3> SUFFICES ASSUME NEW i \in 1..Len(fb), NEW j \in 1..Len(w), j > off PROVE fb[i] < w[j].id
      OBVIOUS
    <3>1. CASE j \in 1..Len(q)
      BY <1>2, <1>4, <3>1 DEF QueueSound
    <3>2. CASE j = Len(q) + 1
      BY <1>3, <1>4, <2>3, <3>2
    <3> QED BY <1>5, <3>1, <3>2
  <2> QED BY <1>2, <2>1, <2>2, <2>3, <2>4 DEF QueueSound
<1>8. ASSUME NEW s \in InStreams, NEW t \in Taps, InOrder(s, t, q, off, fb, cap)
      PROVE  InOrder(s, t, w, off, fb, cap + 1)
  <2>1. t.got \in Nat /\ t.got <= cap /\ t.apmIn \in Seq(Nat) /\ t.apmOut \in Seq(Nat)
    BY <1>8 DEF Taps, InOrder
  <2>2. s \notin ApmStreams => \A i \in 1..Len(w) : i > t.off => t.got < w[i].id
    <3> SUFFICES ASSUME s \notin ApmStreams, NEW i \in 1..Len(w), i > t.off PROVE t.got < w[i].id
      OBVIOUS
    <3>1. CASE i \in 1..Len(q)
      BY <1>4, <1>8, <3>1 DEF InOrder
    <3>2. CASE i = Len(q) + 1
      BY <1>2, <1>3, <1>4, <2>1, <3>2
    <3> QED BY <1>5, <3>1, <3>2
  <2>3. ASSUME NEW x \in Nat, x <= cap, Older(x, t.off, q, off, fb) PROVE Older(x, t.off, w, off, fb) /\ x <= cap + 1
    <3>1. x < cap + 1 /\ x <= cap + 1
      BY <1>2, <2>3
    <3>2. ASSUME NEW j \in 1..Len(w), j > off PROVE x < w[j].id
      <4>1. CASE j \in 1..Len(q)
        BY <1>4, <2>3, <3>2, <4>1 DEF Older
      <4>2. CASE j = Len(q) + 1
        BY <1>3, <1>4, <3>1, <4>2
      <4> QED BY <1>5, <4>1, <4>2
    <3> QED BY <2>3, <3>1, <3>2 DEF Older
  <2>4. ASSUME s \in ApmStreams
        PROVE  /\ \A i \in 1..Len(t.apmIn) : t.apmIn[i] <= cap + 1 /\ Older(t.apmIn[i], t.off, w, off, fb)
               /\ \A i \in 1..Len(t.apmOut) : t.apmOut[i] <= cap + 1 /\ Older(t.apmOut[i], t.off, w, off, fb)
               /\ Older(t.got, t.off, w, off, fb)
    <3>1. /\ \A i \in 1..Len(t.apmIn) : t.apmIn[i] \in Nat /\ t.apmIn[i] <= cap /\ Older(t.apmIn[i], t.off, q, off, fb)
          /\ \A i \in 1..Len(t.apmOut) : t.apmOut[i] \in Nat /\ t.apmOut[i] <= cap /\ Older(t.apmOut[i], t.off, q, off, fb)
          /\ Older(t.got, t.off, q, off, fb)
      BY <1>8, <2>1, <2>4 DEF InOrder
    <3> QED BY <2>1, <2>3, <3>1
  <2>5. t.got <= cap + 1
    BY <1>2, <2>1
  <2> QED BY <1>8, <2>2, <2>4, <2>5 DEF InOrder
<1>9. \A s \in Range(list) : s \in InStreams
  BY DEF InInv, Range
<1>10. \A s \in Range(list) : Sound(s, inStream[s], idev')
  BY <1>2, <1>6, <1>8, <1>9 DEF Sound, StreamSound
<1> QED BY <1>1, <1>6, <1>7, <1>10 DEF InInv

\* cras_iodev_get_input_buffer: the DSP runs over the frames between its offset and the n that are
\* read, and they join the float buffer.
LEMMA InputBuffer ==
    ASSUME InInv, NEW n \in 1..Len(idev.queue)
    PROVE  LET d == In!cras_iodev_get_input_buffer(idev, n)
               m == In!Greater(n, idev.dsp_offset)
           IN /\ d \in InputDevs /\ d.frames_read = n /\ d.dsp_offset = idev.dsp_offset /\ d.captured = idev.captured
              /\ Len(d.queue) = Len(idev.queue) /\ m \in Nat /\ n <= m
              /\ QueueSound(d.queue, m, d.fbuf, d.captured)
              /\ \A s \in InStreams, t \in Taps :
                   Sound(s, t, idev) => StreamSound(s, t, d.queue, m, d.fbuf, d.captured)
<1> DEFINE q == idev.queue
           off == idev.dsp_offset
           fb == idev.fbuf
           cap == idev.captured
           todo == off + 1 .. n
           m == In!Greater(n, off)
           k == Cardinality(todo)
           w == [i \in DOMAIN q |-> IF i \in todo THEN [q[i] EXCEPT !.dsp = @ + 1] ELSE q[i]]
           more == [i \in 1..k |-> q[off + i].id]
           f == fb \o more
           d == In!cras_iodev_get_input_buffer(idev, n)
<1>1. /\ idev \in InputDevs /\ q \in Seq(Frames) /\ off \in Nat /\ fb \in Seq(Nat) /\ cap \in Nat
      /\ QueueSound(q, off, fb, cap)
  BY DEF InInv, InputDevs
<1>2. d = [idev EXCEPT !.frames_read = n, !.queue = w, !.fbuf = f]
  BY DEF In!cras_iodev_get_input_buffer, In!Cardinality, Cardinality
<1> HIDE DEF d
<1>3. Len(q) \in Nat /\ n \in Nat /\ DOMAIN q = 1..Len(q) /\ n <= Len(q)
  BY <1>1
<1> HIDE DEF q, off, fb, cap
<1>4. m \in Nat /\ n <= m /\ off <= m /\ k = m - off /\ (m = n \/ m = off)
  <2>1. k = IF off + 1 > n THEN 0 ELSE n - (off + 1) + 1
    BY <1>1, <1>3, FS_Interval
  <2> HIDE DEF k
  <2> QED BY <1>1, <1>3, <2>1 DEF In!Greater
<1>5. \A i \in 1..k : off + i \in todo /\ off + i \in 1..Len(q)
  <2> HIDE DEF k
  <2> QED BY <1>1, <1>3, <1>4
<1>6. more \in Seq(Nat) /\ Len(more) = k /\ \A i \in 1..k : more[i] = q[off + i].id
  <2>1. k \in Nat
    BY <1>1, <1>4
  <2>2. \A i \in 1..k : q[off + i].id \in Nat
    BY <1>1, <1>5, FrameAt
  <2> HIDE DEF k
  <2> QED BY <2>1, <2>2
<1> HIDE DEF k, more
<1>7. /\ f \in Seq(Nat) /\ Len(f) = m /\ Len(fb) = off
      /\ \A i \in 1..m : f[i] = IF i <= off THEN fb[i] ELSE q[i].id
      /\ \A i \in 1..m : i > off => i \in 1..Len(q)
  <2>1. Len(fb) = off
    BY <1>1 DEF QueueSound
  <2>2. f \in Seq(Nat) /\ Len(f) = off + k
    BY <1>1, <1>6, <2>1, ConcatProperties
  <2>3. Len(f) = m
    BY <1>1, <1>4, <2>2
  <2>4. ASSUME NEW i \in 1..m PROVE f[i] = IF i <= off THEN fb[i] ELSE q[i].id
    <3>1. i \in 1..Len(fb) + Len(more)
      BY <1>1, <1>4, <1>6, <2>1
    <3>2. CASE i <= off
      <4>1. f[i] = fb[i]
        BY <1>1, <1>6, <2>1, <3>1, <3>2, ConcatProperties
      <4> QED BY <3>2, <4>1
    <3>3. CASE ~(i <= off)
      <4>1. f[i] = more[i - off]
        BY <1>1, <1>6, <2>1, <3>1, <3>3, ConcatProperties
      <4>2. i - off \in 1..k /\ off + (i - off) = i
        BY <1>1, <1>4, <3>3
      <4> QED BY <3>3, <4>1, <4>2, <1>6
    <3> QED BY <3>2, <3>3
  <2>5. \A i \in 1..m : i > off => i \in 1..Len(q)
    BY <1>1, <1>3, <1>4
  <2> QED BY <2>1, <2>2, <2>3, <2>4, <2>5
<1>8. /\ w \in Seq(Frames) /\ Len(w) = Len(q)
      /\ \A i \in 1..Len(q) : w[i].id = q[i].id /\ w[i].dsp = IF i \in todo THEN q[i].dsp + 1 ELSE q[i].dsp
  <2>1. ASSUME NEW i \in 1..Len(q)
        PROVE  /\ w[i] \in Frames /\ w[i].id = q[i].id
               /\ w[i].dsp = IF i \in todo THEN q[i].dsp + 1 ELSE q[i].dsp
    <3>1. q[i] \in Frames /\ w[i] = IF i \in todo THEN [q[i] EXCEPT !.dsp = @ + 1] ELSE q[i]
      BY <1>1, <1>3
    <3> HIDE DEF w, todo
    <3>2. CASE i \in todo
      BY <3>1, <3>2 DEF Frames
    <3>3. CASE i \notin todo
      BY <3>1, <3>3
    <3> QED BY <3>2, <3>3
  <2>2. w \in [1..Len(q) -> Frames]
    BY <1>3, <2>1
  <2> HIDE DEF w
  <2> QED BY <1>3, <2>1, <2>2
<1> HIDE DEF w, f, m
<1>9. /\ d \in InputDevs /\ d.frames_read = n /\ d.dsp_offset = off /\ d.captured = cap
      /\ d.queue = w /\ d.fbuf = f
  BY <1>1, <1>2, <1>3, <1>7, <1>8 DEF InputDevs, off, cap
<1>10. QueueSound(w, m, f, cap)
  <2>1. \A i, j \in 1..Len(w) : i < j => w[i].id < w[j].id
    BY <1>1, <1>8 DEF QueueSound
  <2>2. ASSUME NEW i \in 1..Len(w)
        PROVE 0 < w[i].id /\ w[i].id <= cap /\ w[i].dsp <= 1 /\ (i > m => w[i].dsp = 0)
    <3>1. q[i].dsp \in Nat /\ q[i].dsp <= 1 /\ (i > off => q[i].dsp = 0) /\ 0 < q[i].id /\ q[i].id <= cap
      BY <1>1, <1>8, FrameAt DEF QueueSound
    <3>2. i \in todo => i > off /\ ~(i > m)
      BY <1>1, <1>3, <1>4
    <3>3. i > m => i > off
      BY <1>1, <1>4
    <3> QED BY <1>8, <3>1, <3>2, <3>3
  <2>3. ASSUME NEW i \in 1..m PROVE 0 < f[i] /\ f[i] <= cap
    <3>1. CASE i <= off
      <4>1. i \in 1..Len(fb) /\ f[i] = fb[i]
        BY <1>1, <1>7, <3>1
      <4> QED BY <4>1, <1>1 DEF QueueSound
    <3>2. CASE ~(i <= off)
      <4>1. i \in 1..Len(q) /\ f[i] = q[i].id
        BY <1>1, <1>7, <3>2
      <4> QED BY <4>1, <1>1 DEF QueueSound
    <3> QED BY <3>1, <3>2
  <2>4. ASSUME NEW i \in 1..m, NEW j \in 1..Len(w), j > i, j > off PROVE f[i] < w[j].id
    <3>0. j \in 1..Len(q) /\ w[j].id = q[j].id
      BY <1>8
    <3>1. CASE i <= off
      <4>1. i \in 1..Len(fb) /\ f[i] = fb[i]
        BY <1>1, <1>7, <3>1
      <4> QED BY <4>1, <3>0, <2>4, <1>1 DEF QueueSound
    <3>2. CASE ~(i <= off)
      <4>1. i \in 1..Len(q) /\ f[i] = q[i].id
        BY <1>1, <1>7, <3>2
      <4> QED BY <4>1, <3>0, <2>4, <1>1 DEF QueueSound
    <3> QED BY <3>1, <3>2
  <2>5. ASSUME NEW i \in 1..m, NEW j \in 1..m, i < j PROVE f[i] < f[j]
    <3>1. CASE j <= off
      <4>1. i \in 1..Len(fb) /\ j \in 1..Len(fb) /\ f[i] = fb[i] /\ f[j] = fb[j]
        BY <1>1, <1>7, <2>5, <3>1
      <4> QED BY <4>1, <2>5, <1>1 DEF QueueSound, Rising
    <3>2. CASE ~(j <= off)
      <4>0. j \in 1..Len(q) /\ f[j] = q[j].id /\ j > off
        BY <1>1, <1>7, <3>2
      <4>1. j \in 1..Len(w) /\ f[j] = w[j].id /\ j > off
        BY <1>8, <4>0
      <4> QED BY <4>1, <2>4, <2>5
    <3> QED BY <3>1, <3>2
  <2>6. ASSUME NEW i \in 1..m, NEW j \in 1..Len(w), j > m PROVE f[i] < w[j].id
    <3>1. j > i /\ j > off
      BY <1>1, <1>4, <1>8, <2>6
    <3> QED BY <2>4, <3>1
  <2> QED BY <1>7, <2>1, <2>2, <2>3, <2>5, <2>6 DEF QueueSound, Rising
<1>11. ASSUME NEW s \in InStreams, NEW t \in Taps, InOrder(s, t, q, off, fb, cap)
       PROVE  InOrder(s, t, w, m, f, cap)
  <2>1. t.off \in Nat /\ t.off <= off /\ t.off <= m
    BY <1>1, <1>4, <1>11 DEF InOrder, Taps
  <2>2. ASSUME NEW x, Older(x, t.off, q, off, fb) PROVE Older(x, t.off, w, m, f)
    <3>1. ASSUME NEW i \in 1..m, i > t.off PROVE x < f[i]
      <4>1. CASE i <= off
        <5>0. i \in 1..off
          BY <1>1, <1>4, <4>1
        <5>1. i \in 1..Len(fb) /\ f[i] = fb[i]
          BY <1>7, <4>1, <5>0
        <5> QED BY <5>1, <2>2, <3>1 DEF Older
      <4>2. CASE ~(i <= off)
        <5>1. i \in 1..Len(q) /\ i > off /\ f[i] = q[i].id
          BY <1>1, <1>7, <4>2
        <5> QED BY <5>1, <2>2 DEF Older
      <4> QED BY <4>1, <4>2
    <3>2. ASSUME NEW j \in 1..Len(w), j > m PROVE x < w[j].id
      <4>1. j \in 1..Len(q) /\ j > off /\ w[j].id = q[j].id
        BY <1>1, <1>4, <1>8, <3>2
      <4> QED BY <4>1, <2>2 DEF Older
    <3> QED BY <1>7, <3>1, <3>2 DEF Older
  <2>3. s \notin ApmStreams => \A i \in 1..Len(w) : i > t.off => t.got < w[i].id
    BY <1>8, <1>11 DEF InOrder
  <2> QED BY <1>11, <2>1, <2>2, <2>3 DEF InOrder
<1>12. \A s \in InStreams, t \in Taps : Sound(s, t, idev) => StreamSound(s, t, w, m, f, cap)
  <2> SUFFICES ASSUME NEW s \in InStreams, NEW t \in Taps, StreamSound(s, t, q, off, fb, cap)
               PROVE  StreamSound(s, t, w, m, f, cap)
    BY DEF Sound, q, off, fb, cap
  <2>1. CASE t.failed
    <3>1. t.off \in Nat /\ t.off <= off /\ t.off <= m
      BY <1>1, <1>4, <2>1 DEF StreamSound, Stuck, Taps
    <3> QED BY <2>1, <3>1 DEF StreamSound, Stuck
  <2>2. CASE ~t.failed
    BY <1>11, <2>2 DEF StreamSound
  <2> QED BY <2>1, <2>2
<1> QED BY <1>4, <1>8, <1>9, <1>10, <1>12 DEF q, off, cap, d, m

\* What a stream has once it was given the frames.
LEMMA Delivered ==
    ASSUME NEW t \in Taps, NEW frames \in Seq(Frames), Len(frames) <= t.room,
           frames # <<>> => t.failed \/ t.got < frames[1].id
    PROVE  LET u == In!Deliver(t, frames)
           IN /\ u \in Taps /\ u.off = t.off /\ u.apmIn = t.apmIn /\ u.apmOut = t.apmOut /\ u.failed = t.failed
              /\ u.room = t.room - Len(frames)
              /\ u.got = IF frames = <<>> THEN t.got ELSE frames[Len(frames)].id
<1> DEFINE u == In!Deliver(t, frames)
           room == t.room - Len(frames)
           got == IF frames = <<>> THEN t.got ELSE frames[Len(frames)].id
           again == ~t.failed /\ frames # <<>> /\ frames[1].id <= t.got
           raw == \E i \in DOMAIN frames : frames[i].dsp # 1
<1>1. u = [t EXCEPT !.room = room, !.got = got, !.again = again, !.raw = raw]
  BY DEF In!Deliver
<1>2. room \in Nat
  BY DEF Taps
<1>3. got \in Nat
  <2>1. t.got \in Nat
    BY DEF Taps
  <2>2. frames # <<>> => Len(frames) \in 1..Len(frames)
    OBVIOUS
  <2> QED BY <2>1, <2>2, FrameAt
<1>4. again = FALSE
  <2>1. frames # <<>> => frames[1].id \in Nat
    BY FrameAt
  <2>2. t.got \in Nat
    BY DEF Taps
  <2> QED BY <2>1, <2>2
<1>5. raw \in BOOLEAN
  OBVIOUS
<1> HIDE DEF room, got, again, raw, u
<1>6. u \in Taps /\ u.off = t.off /\ u.apmIn = t.apmIn /\ u.apmOut = t.apmOut /\ u.room = room /\ u.got = got
      /\ u.failed = t.failed
  BY <1>1, <1>2, <1>3, <1>4, <1>5 DEF Taps
<1> QED BY <1>6 DEF u, room, got

\* dev_stream_capture: a stream without processing is given the frames behind its place.
LEMMA PlainCapture ==
    ASSUME NEW s \in InStreams, s \notin ApmStreams, NEW t \in Taps, NEW d \in InputDevs, NEW m \in Nat,
           NEW n \in 1..Len(d.queue), n <= m,
           QueueSound(d.queue, m, d.fbuf, d.captured), InOrder(s, t, d.queue, m, d.fbuf, d.captured)
    PROVE  LET u == In!dev_stream_capture(t, d, n)
           IN u \in Taps /\ u.failed = t.failed /\ InOrder(s, u, d.queue, m, d.fbuf, d.captured)
<1> DEFINE q == d.queue
           from == In!Lesser(t.off, n)
           k == In!Lesser(n - from, t.room)
           frames == SubSeq(q, from + 1, from + k)
           v == In!Deliver(t, frames)
           u == In!dev_stream_capture(t, d, n)
           place == v.off + k
<1>1. q \in Seq(Frames) /\ Len(q) \in Nat /\ d.captured \in Nat /\ t.off \in Nat /\ t.room \in Nat /\ t.got \in Nat
  BY DEF InputDevs, Taps
<1>2. u = [v EXCEPT !.off = place]
  BY DEF In!dev_stream_capture
<1> HIDE DEF u, q
<1>3. /\ from \in Nat /\ k \in Nat /\ k <= t.room /\ from + k <= n /\ from + k <= Len(q)
      /\ t.off + k <= m /\ (k > 0 => from = t.off)
  <2>1. n \in Nat /\ n <= Len(q) /\ t.off <= m
    BY <1>1 DEF InOrder, q
  <2>2. from \in Nat /\ from <= n /\ from <= t.off /\ (from = t.off \/ from = n)
    BY <1>1, <2>1 DEF In!Lesser
  <2> HIDE DEF from
  <2>3. k \in Nat /\ k <= t.room /\ k <= n - from
    BY <1>1, <2>1, <2>2 DEF In!Lesser
  <2> HIDE DEF k
  <2>4. k > 0 => from = t.off
    BY <2>1, <2>2, <2>3
  <2>5. from + k <= n /\ from + k <= Len(q)
    BY <1>1, <2>1, <2>2, <2>3
  <2>6. t.off + k <= m
    BY <1>1, <2>1, <2>2, <2>3, <2>4
  <2> QED BY <2>2, <2>3, <2>4, <2>5, <2>6
<1> HIDE DEF from, k
<1>4. /\ frames \in Seq(Frames) /\ Len(frames) = k
      /\ \A i \in 1..k : from + i \in 1..Len(q) /\ frames[i] = q[from + i]
  <2>1. q \in Seq(Frames) /\ from \in Nat /\ k \in Nat /\ from + k <= Len(q)
    BY <1>1, <1>3
  <2> QED BY <2>1, PartOf
<1> HIDE DEF frames
<1>5. frames # <<>> <=> k > 0
  BY <1>3, <1>4
<1>6. ASSUME NEW i \in 1..Len(q), i > t.off PROVE t.got < q[i].id
  BY <1>6 DEF InOrder, q
<1>7. frames # <<>> => t.got < frames[1].id
  <2> SUFFICES ASSUME k > 0 PROVE t.got < frames[1].id
    BY <1>5
  <2>1. 1 \in 1..k /\ from + 1 > t.off
    BY <1>1, <1>3
  <2> QED BY <1>4, <1>6, <2>1
<1>8. /\ v \in Taps /\ v.off = t.off /\ v.apmIn = t.apmIn /\ v.apmOut = t.apmOut /\ v.failed = t.failed
      /\ v.got = IF frames = <<>> THEN t.got ELSE frames[Len(frames)].id
  <2>1. Len(frames) <= t.room
    BY <1>3, <1>4
  <2> QED BY <1>4, <1>7, <2>1, Delivered
<1> HIDE DEF v
<1>9. place = t.off + k /\ place \in Nat
  BY <1>1, <1>3, <1>8
<1> HIDE DEF place
<1>10. u \in Taps /\ u.off = place /\ u.got = v.got /\ u.failed = t.failed
  BY <1>2, <1>8, <1>9 DEF Taps
<1>11. u.off <= m
  BY <1>3, <1>9, <1>10
<1>12. u.got <= d.captured /\ \A i \in 1..Len(q) : i > u.off => u.got < q[i].id
  <2>1. CASE k = 0
    <3>1. u.got = t.got /\ u.off = t.off
      BY <1>1, <1>5, <1>8, <1>9, <1>10, <2>1
    <3>2. t.got <= d.captured
      BY DEF InOrder
    <3> QED BY <3>1, <3>2, <1>6
  <2>2. CASE k > 0
    <3> DEFINE last == from + k
    <3>1. /\ last \in 1..Len(q) /\ u.got = q[last].id /\ last = u.off
      <4>1. k \in 1..k /\ Len(frames) = k /\ frames # <<>>
        BY <1>3, <1>4, <1>5, <2>2
      <4>2. last \in 1..Len(q) /\ u.got = q[last].id
        BY <1>4, <1>8, <1>10, <4>1
      <4>3. last = u.off
        BY <1>3, <1>9, <1>10, <2>2
      <4> QED BY <4>2, <4>3
    <3> HIDE DEF last
    <3> QED BY <3>1 DEF QueueSound, q
  <2> QED BY <1>3, <2>1, <2>2
<1> QED BY <1>10, <1>11, <1>12 DEF InOrder, u, q

\* cras_apm_list_process: frames go from the float buffer to the block of the stream, and a full
\* block is processed once the last one was read.
LEMMA BlockProcessed ==
    ASSUME NEW s \in InStreams, s \in ApmStreams, NEW t \in Taps, NEW d \in InputDevs, NEW m \in Nat,
           QueueSound(d.queue, m, d.fbuf, d.captured), InOrder(s, t, d.queue, m, d.fbuf, d.captured)
    PROVE  LET u == In!cras_apm_list_process(t, d)
           IN u \in Taps /\ u.failed = t.failed /\ InOrder(s, u, d.queue, m, d.fbuf, d.captured)
<1> DEFINE q == d.queue
           fb == d.fbuf
           cap == d.captured
           c == t.apmIn
           w == In!Lesser(Len(fb) - t.off, ApmFrames - Len(c))
           part_ == SubSeq(fb, t.off + 1, t.off + w)
           in == c \o part_
           run == Len(in) = ApmFrames /\ t.apmOut = <<>>
           place == t.off + w
           a == IF run THEN <<>> ELSE in
           b == IF run THEN in ELSE t.apmOut
           u == In!cras_apm_list_process(t, d)
<1>1. /\ fb \in Seq(Nat) /\ cap \in Nat /\ t.off \in Nat /\ t.got \in Nat /\ c \in Seq(Nat) /\ t.apmOut \in Seq(Nat)
      /\ Len(fb) \in Nat /\ Len(c) \in Nat
  BY DEF InputDevs, Taps
<1>2. u = [t EXCEPT !.off = place, !.apmIn = a, !.apmOut = b]
  BY DEF In!cras_apm_list_process, In!Taken, In!Block, In!Runs
<1>3. /\ Len(fb) = m /\ Rising(fb) /\ QueueSound(q, m, fb, cap)
      /\ t.off <= m /\ Len(c) <= ApmFrames /\ Rising(c) /\ Rising(t.apmOut) /\ t.got <= cap
      /\ Older(t.got, t.off, q, m, fb)
      /\ \A i \in 1..Len(c) : t.got < c[i] /\ c[i] <= cap /\ Older(c[i], t.off, q, m, fb)
      /\ \A i \in 1..Len(t.apmOut) : t.got < t.apmOut[i] /\ t.apmOut[i] <= cap /\ Older(t.apmOut[i], t.off, q, m, fb)
      /\ \A i \in 1..Len(t.apmOut), j \in 1..Len(c) : t.apmOut[i] < c[j]
  BY DEF InOrder, QueueSound
<1> HIDE DEF q, fb, cap, c, u
<1>4. w \in Nat /\ t.off + w <= Len(fb) /\ Len(c) + w <= ApmFrames
  BY <1>1, <1>3, InAssumption DEF In!Lesser
<1> HIDE DEF w
<1>5. /\ part_ \in Seq(Nat) /\ Len(part_) = w
      /\ \A i \in 1..w : t.off + i \in 1..Len(fb) /\ part_[i] = fb[t.off + i]
  <2> DEFINE o == t.off
  <2>1. fb \in Seq(Nat) /\ o \in Nat /\ w \in Nat /\ o + w <= Len(fb) /\ part_ = SubSeq(fb, o + 1, o + w)
    BY <1>1, <1>4
  <2> HIDE DEF o, part_
  <2>2. /\ part_ \in Seq(Nat) /\ Len(part_) = w
        /\ \A i \in 1..w : o + i \in 1..Len(fb) /\ part_[i] = fb[o + i]
    BY <2>1, PartOf
  <2> QED BY <2>2 DEF o
<1> HIDE DEF part_
<1>6. in \in Seq(Nat) /\ Len(in) = Len(c) + w /\ Len(in) <= ApmFrames
  <2>1. in \in Seq(Nat) /\ Len(in) = Len(c) + Len(part_)
    BY <1>1, <1>5, ConcatProperties
  <2> HIDE DEF in
  <2> QED BY <2>1, <1>4, <1>5
<1>7. \A i \in 1..Len(c) : in[i] = c[i]
  <2>1. \A i \in 1..Len(c) : i \in 1..Len(c) + Len(part_) /\ i <= Len(c)
    BY <1>1, <1>4, <1>5
  <2> QED BY <1>1, <1>5, <2>1, ConcatProperties
<1> DEFINE at(i) == t.off + (i - Len(c))
<1>8. ASSUME NEW i \in 1..Len(in), ~(i \in 1..Len(c))
      PROVE  at(i) \in 1..Len(fb) /\ at(i) > t.off /\ at(i) <= place /\ in[i] = fb[at(i)]
  <2>1. i \in 1..Len(c) + Len(part_) /\ ~(i <= Len(c)) /\ i - Len(c) \in 1..w
    BY <1>1, <1>4, <1>5, <1>6, <1>8
  <2>2. in[i] = part_[i - Len(c)]
    BY <1>1, <1>5, <2>1, ConcatProperties
  <2>3. at(i) \in 1..Len(fb) /\ in[i] = fb[at(i)]
    BY <1>5, <2>1, <2>2
  <2>4. at(i) > t.off /\ at(i) <= place
    BY <1>1, <1>4, <2>1
  <2> QED BY <2>3, <2>4
<1>9. \A i, j \in 1..Len(in) : i < j => at(i) < at(j)
  <2> SUFFICES ASSUME NEW i \in 1..Len(in), NEW j \in 1..Len(in), i < j PROVE at(i) < at(j)
    OBVIOUS
  <2>1. i \in Nat /\ j \in Nat
    BY <1>1, <1>4, <1>6
  <2> HIDE DEF in
  <2> QED BY <1>1, <2>1
<1>10. place \in Nat /\ place <= m /\ t.off <= place
  BY <1>1, <1>3, <1>4
<1>10a. \A i, j \in 1..Len(in) : i < j /\ j \in 1..Len(c) => i \in 1..Len(c)
  <2> HIDE DEF in
  <2> QED BY <1>1, <1>4, <1>6
<1> HIDE DEF in, at, place
<1>11. ASSUME NEW x, Older(x, t.off, q, m, fb) PROVE Older(x, place, q, m, fb)
  <2>1. \A i \in 1..Len(fb) : i > place => i > t.off
    BY <1>1, <1>10
  <2> QED BY <1>11, <2>1 DEF Older
<1>12. ASSUME NEW k \in 1..Len(fb), k <= place PROVE Older(fb[k], place, q, m, fb)
  <2>1. \A i \in 1..Len(fb) : i > place => k < i
    BY <1>10, <1>12
  <2>2. \A j \in 1..Len(q) : j > m => fb[k] < q[j].id
    BY <1>3 DEF QueueSound
  <2> QED BY <1>3, <2>1, <2>2 DEF Older, Rising
<1>13. ASSUME NEW i \in 1..Len(in)
       PROVE  /\ t.got < in[i] /\ in[i] <= cap /\ Older(in[i], place, q, m, fb)
              /\ \A j \in 1..Len(t.apmOut) : t.apmOut[j] < in[i]
  <2>1. CASE i \in 1..Len(c)
    BY <1>3, <1>7, <1>11, <2>1
  <2>2. CASE ~(i \in 1..Len(c))
    <3>1. at(i) \in 1..Len(fb) /\ at(i) > t.off /\ at(i) <= place /\ in[i] = fb[at(i)]
      BY <1>8, <2>2
    <3>2. t.got < fb[at(i)] /\ \A j \in 1..Len(t.apmOut) : t.apmOut[j] < fb[at(i)]
      BY <1>3, <3>1 DEF Older
    <3>3. fb[at(i)] <= cap
      BY <1>3, <3>1 DEF QueueSound
    <3> QED BY <1>12, <3>1, <3>2, <3>3
  <2> QED BY <2>1, <2>2
<1>14. Rising(in)
  <2> SUFFICES ASSUME NEW i \in 1..Len(in), NEW j \in 1..Len(in), i < j PROVE in[i] < in[j]
    BY DEF Rising
  <2>1. CASE j \in 1..Len(c)
    <3>1. i \in 1..Len(c)
      BY <1>10a, <2>1
    <3> QED BY <1>3, <1>7, <2>1, <3>1 DEF Rising
  <2>2. CASE ~(j \in 1..Len(c))
    <3>1. at(j) \in 1..Len(fb) /\ at(j) > t.off /\ in[j] = fb[at(j)]
      BY <1>8, <2>2
    <3>2. CASE i \in 1..Len(c)
      BY <1>3, <1>7, <3>1, <3>2 DEF Older
    <3>3. CASE ~(i \in 1..Len(c))
      <4>1. at(i) \in 1..Len(fb) /\ in[i] = fb[at(i)]
        BY <1>8, <3>3
      <4> QED BY <1>3, <1>9, <3>1, <4>1 DEF Rising
    <3> QED BY <3>2, <3>3
  <2> QED BY <2>1, <2>2
<1>15. /\ a \in Seq(Nat) /\ b \in Seq(Nat) /\ (run \/ ~run)
       /\ (run => a = <<>> /\ b = in) /\ (~run => a = in /\ b = t.apmOut)
  <2>1. <<>> \in Seq(Nat)
    OBVIOUS
  <2> HIDE DEF run
  <2> QED BY <1>1, <1>6, <2>1
<1> HIDE DEF a, b, run
<1>16. /\ u \in Taps /\ u.failed = t.failed /\ u.off = place /\ u.got = t.got /\ u.apmIn = a /\ u.apmOut = b
  BY <1>2, <1>10, <1>15 DEF Taps
<1>17. /\ Len(a) <= ApmFrames /\ Rising(a) /\ Rising(b)
       /\ \A i \in 1..Len(a) : t.got < a[i] /\ a[i] <= cap /\ Older(a[i], place, q, m, fb)
       /\ \A i \in 1..Len(b) : t.got < b[i] /\ b[i] <= cap /\ Older(b[i], place, q, m, fb)
       /\ \A i \in 1..Len(b), j \in 1..Len(a) : b[i] < a[j]
  <2>1. CASE run
    <3>1. a = <<>> /\ b = in /\ Len(a) = 0 /\ 1..Len(a) = {}
      BY <1>15, <2>1
    <3>2. Len(a) <= ApmFrames /\ Rising(a)
      BY <3>1, InAssumption DEF Rising
    <3> QED BY <1>13, <1>14, <3>1, <3>2
  <2>2. CASE ~run
    <3>1. a = in /\ b = t.apmOut
      BY <1>15, <2>2
    <3> QED BY <1>3, <1>6, <1>11, <1>13, <1>14, <3>1
  <2> QED BY <2>1, <2>2
<1>18. Older(t.got, place, q, m, fb)
  BY <1>3, <1>11
<1>19. InOrder(s, u, q, m, fb, cap)
  BY <1>3, <1>10, <1>16, <1>17, <1>18 DEF InOrder
<1> QED BY <1>16, <1>19 DEF u, q, fb, cap

\* cras_apm_list_put_processed: the stream is given what it has room for of the last block.
LEMMA ProcessedRead ==
    ASSUME NEW s \in InStreams, s \in ApmStreams, NEW t \in Taps, NEW q, NEW m \in Nat, NEW fb, NEW cap \in Nat,
           InOrder(s, t, q, m, fb, cap)
    PROVE  LET u == In!cras_apm_list_put_processed(t)
           IN u \in Taps /\ u.failed = t.failed /\ InOrder(s, u, q, m, fb, cap)
<1> DEFINE o == t.apmOut
           k == In!Lesser(Len(o), t.room)
           frames == [i \in 1..k |-> [id |-> o[i], dsp |-> 1]]
           v == In!Deliver(t, frames)
           w == In!From(o, k)
           u == In!cras_apm_list_put_processed(t)
<1>1. t.off \in Nat /\ t.room \in Nat /\ t.got \in Nat /\ t.apmIn \in Seq(Nat) /\ o \in Seq(Nat) /\ Len(o) \in Nat
  BY DEF Taps
<1>2. u = [v EXCEPT !.apmOut = In!From(v.apmOut, k)]
  BY DEF In!cras_apm_list_put_processed
<1>3. /\ t.off <= m /\ t.got <= cap /\ Len(t.apmIn) <= ApmFrames /\ Rising(t.apmIn) /\ Rising(o)
      /\ Older(t.got, t.off, q, m, fb)
      /\ \A i \in 1..Len(t.apmIn) : t.got < t.apmIn[i] /\ t.apmIn[i] <= cap /\ Older(t.apmIn[i], t.off, q, m, fb)
      /\ \A i \in 1..Len(o) : t.got < o[i] /\ o[i] <= cap /\ Older(o[i], t.off, q, m, fb)
      /\ \A i \in 1..Len(o), j \in 1..Len(t.apmIn) : o[i] < t.apmIn[j]
  BY DEF InOrder
<1> HIDE DEF u, o
<1>4. k \in Nat /\ k <= Len(o) /\ k <= t.room
  BY <1>1 DEF In!Lesser
<1> HIDE DEF k
<1>5. frames \in Seq(Frames) /\ Len(frames) = k /\ \A i \in 1..k : i \in 1..Len(o) /\ frames[i].id = o[i]
  <2>1. ASSUME NEW i \in 1..k PROVE i \in 1..Len(o) /\ frames[i] \in Frames /\ frames[i].id = o[i]
    <3>1. i \in 1..Len(o)
      BY <1>1, <1>4
    <3>2. o[i] \in Nat
      BY <1>1, <3>1
    <3>3. frames[i] = [id |-> o[i], dsp |-> 1]
      OBVIOUS
    <3> HIDE DEF frames
    <3> QED BY <3>1, <3>2, <3>3 DEF Frames
  <2>2. frames \in [1..k -> Frames]
    BY <2>1
  <2> HIDE DEF frames
  <2> QED BY <1>4, <2>1, <2>2
<1> HIDE DEF frames
<1>6. frames # <<>> <=> k > 0
  BY <1>4, <1>5
<1>7. /\ v \in Taps /\ v.failed = t.failed /\ v.off = t.off /\ v.apmIn = t.apmIn /\ v.apmOut = o
      /\ v.got = IF frames = <<>> THEN t.got ELSE frames[Len(frames)].id
  <2>1. Len(frames) <= t.room
    BY <1>4, <1>5
  <2>2. frames # <<>> => t.got < frames[1].id
    <3>1. k > 0 => 1 \in 1..k
      BY <1>4
    <3> QED BY <1>3, <1>5, <1>6, <3>1
  <2>3. /\ v \in Taps /\ v.failed = t.failed /\ v.off = t.off /\ v.apmIn = t.apmIn /\ v.apmOut = t.apmOut
        /\ v.got = IF frames = <<>> THEN t.got ELSE frames[Len(frames)].id
    BY <1>5, <2>1, <2>2, Delivered
  <2> QED BY <2>3 DEF o
<1> HIDE DEF v
<1>8. /\ w \in Seq(Nat) /\ Len(w) = Len(o) - k
      /\ \A i \in 1..Len(w) : i + k \in 1..Len(o) /\ w[i] = o[i + k]
  BY <1>1, <1>4, FromOf
<1> DEFINE at(i) == i + k
<1>9. \A i \in 1..Len(w) : at(i) \in 1..Len(o) /\ w[i] = o[at(i)] /\ at(i) > k
  <2> HIDE DEF w
  <2> QED BY <1>4, <1>8
<1>10. \A i, j \in 1..Len(w) : i < j => at(i) < at(j)
  <2> HIDE DEF w
  <2> QED BY <1>4, <1>8
<1>11. u \in Taps /\ u.failed = t.failed /\ u.off = t.off /\ u.apmIn = t.apmIn /\ u.apmOut = w /\ u.got = v.got
  <2>1. u = [v EXCEPT !.apmOut = w]
    BY <1>2, <1>7
  <2> HIDE DEF w
  <2> QED BY <1>7, <1>8, <2>1 DEF Taps
<1> HIDE DEF w, at
<1>12. Rising(w)
  BY <1>3, <1>9, <1>10 DEF Rising
<1>13. /\ u.got <= cap /\ Older(u.got, t.off, q, m, fb)
       /\ \A i \in 1..Len(t.apmIn) : u.got < t.apmIn[i]
       /\ \A i \in 1..Len(w) : u.got < w[i]
  <2>1. CASE k = 0
    <3>1. u.got = t.got
      BY <1>6, <1>7, <1>11, <2>1
    <3> QED BY <1>3, <1>9, <3>1
  <2>2. CASE k > 0
    <3>1. k \in 1..Len(o) /\ k \in 1..k /\ k = Len(frames) /\ frames # <<>>
      BY <1>1, <1>4, <1>5, <1>6, <2>2
    <3>2. u.got = o[k]
      BY <1>5, <1>7, <1>11, <3>1
    <3>3. \A i \in 1..Len(w) : k < at(i)
      BY <1>1, <1>4, <1>9
    <3>4. \A i \in 1..Len(w) : o[k] < o[at(i)]
      BY <1>3, <1>9, <3>1, <3>3 DEF Rising
    <3> QED BY <1>3, <1>9, <3>1, <3>2, <3>4
  <2> QED BY <1>4, <2>1, <2>2
<1>14. InOrder(s, u, q, m, fb, cap)
  BY <1>3, <1>9, <1>11, <1>12, <1>13 DEF InOrder
<1> QED BY <1>11, <1>14 DEF u

\* What the block takes of the float buffer fits in it, also after a failure.
LEMMA BlockTaken ==
    ASSUME NEW t \in Taps, NEW d \in InputDevs, t.off <= Len(d.fbuf), Len(t.apmIn) <= ApmFrames
    PROVE  /\ In!Taken(t, d) \in Nat /\ t.off + In!Taken(t, d) <= Len(d.fbuf)
           /\ In!Block(t, d) \in Seq(Nat) /\ Len(In!Block(t, d)) <= ApmFrames
<1> DEFINE fb == d.fbuf
           c == t.apmIn
           w == In!Taken(t, d)
           part_ == SubSeq(fb, t.off + 1, t.off + w)
<1>1. fb \in Seq(Nat) /\ t.off \in Nat /\ c \in Seq(Nat) /\ Len(fb) \in Nat /\ Len(c) \in Nat
  BY DEF InputDevs, Taps
<1>2. w = In!Lesser(Len(fb) - t.off, ApmFrames - Len(c))
  BY DEF In!Taken
<1>7. In!Block(t, d) = c \o part_
  BY DEF In!Block
<1> HIDE DEF w, part_
<1>3. t.off <= Len(fb) /\ Len(c) <= ApmFrames
  OBVIOUS
<1> HIDE DEF fb, c
<1>4. w \in Nat /\ t.off + w <= Len(fb) /\ Len(c) + w <= ApmFrames
  <2>1. Len(fb) - t.off \in Nat /\ ApmFrames - Len(c) \in Nat
    BY <1>1, <1>3, InAssumption
  <2>2. w \in Nat /\ w <= Len(fb) - t.off /\ w <= ApmFrames - Len(c)
    BY <1>2, <2>1 DEF In!Lesser
  <2> QED BY <1>1, <2>1, <2>2, InAssumption
<1>5. part_ \in Seq(Nat) /\ Len(part_) = w
  <2>1. fb \in Seq(Nat) /\ t.off \in Nat /\ w \in Nat /\ t.off + w <= Len(fb)
    BY <1>1, <1>4
  <2> QED BY <2>1, PartOf, SMTT(30) DEF part_
<1>6. c \o part_ \in Seq(Nat) /\ Len(c \o part_) = Len(c) + w
  BY <1>1, <1>5
<1> QED BY <1>4, <1>6, <1>7 DEF w, fb, c

\* A failure leaves the offset of the stream where it is and its block full.
LEMMA BlockFailed ==
    ASSUME NEW s \in ApmStreams, NEW t \in Taps, NEW d \in InputDevs, NEW k \in Nat, NEW m \in Nat,
           Len(d.fbuf) = m, t.off <= m, Len(t.apmIn) <= ApmFrames
    PROVE  LET u == In!cras_apm_list_process_fails(t, d, k) IN u \in Taps /\ u.failed /\ Stuck(s, u, m)
<1> DEFINE u == In!cras_apm_list_process_fails(t, d, k)
           c == In!Block(t, d)
           room == t.room - In!Lesser(k, t.room)
           yes == TRUE
<1>1. c \in Seq(Nat) /\ Len(c) <= ApmFrames
  BY BlockTaken
<1>2. room \in Nat
  BY DEF Taps, In!Lesser
<1>3. u = [t EXCEPT !.apmIn = c, !.failed = yes, !.room = room]
  BY DEF In!cras_apm_list_process_fails
<1>4. yes \in BOOLEAN /\ yes
  OBVIOUS
<1> HIDE DEF u, c, room, yes
<1>5. u \in Taps /\ u.failed = yes /\ u.off = t.off /\ u.apmIn = c
  BY <1>1, <1>2, <1>3, <1>4 DEF Taps
<1>6. Stuck(s, u, m)
  BY <1>1, <1>5 DEF Stuck
<1> QED BY <1>4, <1>5, <1>6 DEF u

\* A stream whose processing has failed before goes on with the frames it finds.
LEMMA StuckProcessed ==
    ASSUME NEW s, NEW t \in Taps, NEW d \in InputDevs, NEW m \in Nat, Len(d.fbuf) = m, t.failed, Stuck(s, t, m)
    PROVE  LET u == In!cras_apm_list_put_processed(In!cras_apm_list_process(t, d))
           IN u \in Taps /\ u.failed = t.failed /\ Stuck(s, u, m)
<1> DEFINE w == In!Taken(t, d)
           in == In!Block(t, d)
           run == In!Runs(t, d)
           place == t.off + w
           a == IF run THEN <<>> ELSE in
           b == IF run THEN in ELSE t.apmOut
           x == In!cras_apm_list_process(t, d)
<1>1. t.off \in Nat /\ t.apmOut \in Seq(Nat) /\ t.off <= Len(d.fbuf) /\ Len(t.apmIn) <= ApmFrames
  BY DEF Taps, Stuck
<1>2. w \in Nat /\ t.off + w <= m /\ in \in Seq(Nat) /\ Len(in) <= ApmFrames
  BY <1>1, BlockTaken
<1>3. x = [t EXCEPT !.off = place, !.apmIn = a, !.apmOut = b]
  BY DEF In!cras_apm_list_process
<1> HIDE DEF w, in, run, x
<1>4. place \in Nat /\ place <= m /\ a \in Seq(Nat) /\ b \in Seq(Nat)
  BY <1>1, <1>2
<1>5. Len(a) <= ApmFrames
  <2>1. Len(<<>>) <= ApmFrames
    BY InAssumption
  <2> QED BY <1>2, <2>1
<1> HIDE DEF place, a, b
<1>6. x \in Taps /\ x.failed = t.failed /\ x.off = place /\ x.apmIn = a /\ x.apmOut = b
  BY <1>3, <1>4 DEF Taps
<1> DEFINE o == x.apmOut
           k == In!Lesser(Len(o), x.room)
           frames == [i \in 1..k |-> [id |-> o[i], dsp |-> 1]]
           v == In!Deliver(x, frames)
           u == In!cras_apm_list_put_processed(x)
<1>7. u = [v EXCEPT !.apmOut = In!From(v.apmOut, k)]
  BY DEF In!cras_apm_list_put_processed
<1>8. o \in Seq(Nat) /\ x.room \in Nat /\ Len(o) \in Nat
  BY <1>6 DEF Taps
<1> HIDE DEF o
<1>9. k \in Nat /\ k <= Len(o) /\ k <= x.room
  BY <1>8 DEF In!Lesser
<1> HIDE DEF k, u
<1>10. frames \in Seq(Frames) /\ Len(frames) = k
  <2>1. \A i \in 1..k : i \in 1..Len(o)
    BY <1>8, <1>9
  <2>2. \A i \in 1..k : o[i] \in Nat
    BY <1>8, <2>1
  <2>3. \A i \in 1..k : [id |-> o[i], dsp |-> 1] \in Frames
    BY <2>2 DEF Frames
  <2>4. frames \in [1..k -> Frames]
    BY <2>3
  <2> HIDE DEF frames
  <2> QED BY <1>9, <2>4
<1> HIDE DEF frames
<1>11. v \in Taps /\ v.failed = x.failed /\ v.off = x.off /\ v.apmIn = x.apmIn /\ v.apmOut = o
  <2>1. v \in Taps /\ v.failed = x.failed /\ v.off = x.off /\ v.apmIn = x.apmIn /\ v.apmOut = x.apmOut
    BY <1>6, <1>9, <1>10, Delivered
  <2> QED BY <2>1 DEF o
<1> HIDE DEF v
<1> DEFINE rest == In!From(o, k)
<1>12. rest \in Seq(Nat) /\ u = [v EXCEPT !.apmOut = rest]
  BY <1>7, <1>8, <1>9, <1>11, FromOf
<1> HIDE DEF rest
<1>13. u \in Taps /\ u.failed = v.failed /\ u.off = v.off /\ u.apmIn = v.apmIn
  BY <1>11, <1>12 DEF Taps
<1>14. Stuck(s, u, m)
  BY <1>4, <1>5, <1>6, <1>11, <1>13 DEF Stuck
<1>15. u \in Taps /\ u.failed = t.failed
  BY <1>6, <1>11, <1>13
<1> QED BY <1>14, <1>15 DEF u, x

\* cras_iodev_put_input_buffer: every mark moves by the frames that all streams have read.
LEMMA Shifted ==
    ASSUME NEW q \in Seq(Frames), NEW m \in Nat, NEW fb \in Seq(Nat), NEW cap \in Nat, NEW r \in Nat, r <= m,
           QueueSound(q, m, fb, cap)
    PROVE  LET w == In!From(q, r)
               f == In!From(fb, r)
           IN /\ w \in Seq(Frames) /\ f \in Seq(Nat) /\ QueueSound(w, m - r, f, cap)
              /\ \A s \in InStreams, t \in Taps : r <= t.off /\ StreamSound(s, t, q, m, fb, cap) =>
                   LET u == [t EXCEPT !.off = t.off - r]
                   IN u \in Taps /\ StreamSound(s, u, w, m - r, f, cap)
<1> DEFINE w == In!From(q, r)
           f == In!From(fb, r)
           at(i) == i + r
           l == m - r
<1>1. w \in Seq(Frames) /\ \A i \in 1..Len(w) : at(i) \in 1..Len(q) /\ w[i] = q[at(i)]
  BY FromOf
<1>2. Len(fb) = m /\ Rising(fb)
  BY DEF QueueSound
<1>3. f \in Seq(Nat) /\ Len(f) = l /\ \A i \in 1..Len(f) : at(i) \in 1..Len(fb) /\ f[i] = fb[at(i)]
  BY <1>2, FromOf
<1> HIDE DEF w, f
<1>4. \A i \in 1..Len(w) : i \in Nat
  OBVIOUS
<1>5. \A i \in 1..Len(f) : i \in Nat
  OBVIOUS
<1>6. \A i, j \in Nat : i < j => at(i) < at(j)
  OBVIOUS
<1>7. \A i \in Nat : i > l => at(i) > m
  OBVIOUS
<1>8. \A i \in Nat, k \in Nat : r <= k /\ i > k - r => at(i) > k
  OBVIOUS
<1>9. l \in Nat
  OBVIOUS
<1> HIDE DEF at, l
<1>10. QueueSound(w, l, f, cap)
  <2>1. \A i, j \in 1..Len(w) : i < j => w[i].id < w[j].id
    BY <1>1, <1>4, <1>6 DEF QueueSound
  <2>2. \A i \in 1..Len(w) : 0 < w[i].id /\ w[i].id <= cap /\ w[i].dsp <= 1 /\ (i > l => w[i].dsp = 0)
    BY <1>1, <1>4, <1>7 DEF QueueSound
  <2>3. Rising(f)
    BY <1>2, <1>3, <1>5, <1>6 DEF Rising
  <2>4. \A i \in 1..Len(f) : 0 < f[i] /\ f[i] <= cap
    BY <1>3 DEF QueueSound
  <2>5. \A i \in 1..Len(f), j \in 1..Len(w) : j > l => f[i] < w[j].id
    <3> SUFFICES ASSUME NEW i \in 1..Len(f), NEW j \in 1..Len(w), j > l PROVE f[i] < w[j].id
      OBVIOUS
    <3>1. at(i) \in 1..Len(fb) /\ f[i] = fb[at(i)] /\ at(j) \in 1..Len(q) /\ w[j] = q[at(j)] /\ at(j) > m
      BY <1>1, <1>3, <1>4, <1>7
    <3> QED BY <3>1 DEF QueueSound
  <2> QED BY <1>3, <2>1, <2>2, <2>3, <2>4, <2>5 DEF QueueSound
<1>11. ASSUME NEW s \in InStreams, NEW t \in Taps, r <= t.off, StreamSound(s, t, q, m, fb, cap)
       PROVE  LET u == [t EXCEPT !.off = t.off - r] IN u \in Taps /\ StreamSound(s, u, w, l, f, cap)
  <2> DEFINE o == t.off - r
             u == [t EXCEPT !.off = o]
  <2>1. t.off \in Nat /\ o \in Nat /\ t.off <= m
    BY <1>11 DEF Taps, StreamSound, Stuck, InOrder
  <2>2. o <= l
    BY <2>1 DEF l
  <2>3. \A i \in Nat : i > o => at(i) > t.off
    BY <1>8, <1>11, <2>1
  <2> HIDE DEF o
  <2>4. /\ u \in Taps /\ u.failed = t.failed /\ u.off = o /\ u.got = t.got /\ u.apmIn = t.apmIn /\ u.apmOut = t.apmOut
    BY <2>1 DEF Taps
  <2> HIDE DEF u
  <2>5. ASSUME NEW x, Older(x, t.off, q, m, fb) PROVE Older(x, o, w, l, f)
    <3>1. \A i \in 1..Len(f) : i > o => x < f[i]
      BY <1>3, <1>5, <2>3, <2>5 DEF Older
    <3>2. \A j \in 1..Len(w) : j > l => x < w[j].id
      BY <1>1, <1>4, <1>7, <2>5 DEF Older
    <3> QED BY <3>1, <3>2 DEF Older
  <2>6. ASSUME ~t.failed PROVE StreamSound(s, u, w, l, f, cap)
    <3>1. InOrder(s, t, q, m, fb, cap)
      BY <1>11, <2>6 DEF StreamSound
    <3>2. s \notin ApmStreams => \A i \in 1..Len(w) : i > o => t.got < w[i].id
      BY <1>1, <1>4, <2>3, <3>1 DEF InOrder
    <3>3. InOrder(s, u, w, l, f, cap)
      BY <2>2, <2>4, <2>5, <3>1, <3>2 DEF InOrder
    <3> QED BY <2>4, <2>6, <3>3 DEF StreamSound
  <2>7. ASSUME t.failed PROVE StreamSound(s, u, w, l, f, cap)
    BY <1>11, <2>2, <2>4, <2>7 DEF StreamSound, Stuck
  <2> QED BY <2>4, <2>6, <2>7 DEF u, o
<1> QED BY <1>1, <1>3, <1>10, <1>11 DEF w, f, l

LEMMA LeastOf ==
    ASSUME NEW T, T \subseteq Nat, T # {}
    PROVE  In!Min(T) \in T /\ \A y \in T : In!Min(T) <= y
<1> DEFINE R == {pair \in Nat \X Nat : pair[1] < pair[2]}
<1>1. IsWellFoundedOn(R, Nat)
  BY NatLessThanWellFounded DEF OpToRel
<1>2. PICK x \in T : \A y \in T : ~(<<y, x>> \in R)
  BY <1>1, WFMin
<1>3. \A y \in T : x <= y
  <2> TAKE y \in T
  <2>1. x \in Nat /\ y \in Nat
    OBVIOUS
  <2>2. ~(y < x)
    BY <1>2, <2>1
  <2> QED BY <2>1, <2>2
<1> HIDE DEF R
<1> QED BY <1>3 DEF In!Min

LEMMA AttachedIs == In!Attached = Range(list)
  BY DEF In!Attached, In!Range, Range

LEMMA ListedAre ==
    ASSUME list \in Seq(InStreams)
    PROVE  /\ Range(list) \subseteq InStreams /\ (list # <<>> => Range(list) # {} /\ Head(list) \in Range(list))
           /\ DOMAIN list = 1..Len(list)
<1>1. list # <<>> => 1 \in DOMAIN list /\ Head(list) = list[1]
  OBVIOUS
<1> QED BY <1>1 DEF Range

\* capture_to_streams
LEMMA CapturedToStreams == InInv /\ In!capture_to_streams => InInv'
<1> SUFFICES ASSUME InInv, In!capture_to_streams PROVE InInv'
  OBVIOUS
<1>0. /\ idev \in InputDevs /\ inStream \in [InStreams -> Taps] /\ list \in Seq(InStreams)
      /\ Range(list) \subseteq InStreams /\ Len(idev.queue) \in Nat
      /\ \A s \in Range(list) : Sound(s, inStream[s], idev)
  BY ListedAre DEF InInv, InputDevs
<1>1. In!get_stream_limit \in Nat /\ In!get_stream_limit <= Len(idev.queue)
  <2> DEFINE T == {inStream[s].room : s \in In!Attached} \cup {Len(idev.queue)}
  <2>1. T \subseteq Nat
    <3>1. \A s \in Range(list) : inStream[s].room \in Nat
      BY <1>0 DEF Taps
    <3> QED BY <1>0, <3>1, AttachedIs
  <2>2. Len(idev.queue) \in T
    OBVIOUS
  <2>3. In!get_stream_limit = In!Min(T)
    BY DEF In!get_stream_limit
  <2> HIDE DEF T
  <2> QED BY <2>1, <2>2, <2>3, LeastOf
<1> DEFINE d(n) == In!cras_iodev_get_input_buffer(idev, n)
           t(n, err) == [s \in InStreams |-> IF s \in In!Attached THEN In!input_data_get_for_stream(s, d(n), n, err) ELSE inStream[s]]
           read(n, err) == IF list = <<>> THEN n ELSE In!Min({t(n, err)[s].off : s \in In!Attached})
<1>2. PICK n \in 1..In!get_stream_limit, failing \in SUBSET In!MayFail : \E err \in [failing -> 0..InThreshold] :
        /\ idev' = In!cras_iodev_put_input_buffer(d(n), read(n, err))
        /\ inStream' = [s \in InStreams |-> IF s \in In!Attached THEN [t(n, err)[s] EXCEPT !.off = @ - read(n, err)] ELSE t(n, err)[s]]
        /\ UNCHANGED <<list, inChanges>>
  BY DEF In!capture_to_streams
<1>2a. PICK err \in [failing -> 0..InThreshold] :
        /\ idev' = In!cras_iodev_put_input_buffer(d(n), read(n, err))
        /\ inStream' = [s \in InStreams |-> IF s \in In!Attached THEN [t(n, err)[s] EXCEPT !.off = @ - read(n, err)] ELSE t(n, err)[s]]
        /\ UNCHANGED <<list, inChanges>>
  BY <1>2
<1>2b. \A s \in DOMAIN err : err[s] \in Nat
  BY InAssumption
<1>3. n \in Nat /\ n \in 1..Len(idev.queue)
  BY <1>0, <1>1
<1> DEFINE e == d(n)
           v == t(n, err)
           r == read(n, err)
           m == In!Greater(n, idev.dsp_offset)
           cap == e.captured
<1>4. /\ e \in InputDevs /\ e.frames_read = n /\ e.dsp_offset = idev.dsp_offset
      /\ Len(e.queue) = Len(idev.queue) /\ m \in Nat /\ n <= m
      /\ QueueSound(e.queue, m, e.fbuf, cap)
      /\ \A s \in InStreams, x \in Taps : Sound(s, x, idev) => StreamSound(s, x, e.queue, m, e.fbuf, cap)
  BY <1>3, InputBuffer
<1>5. /\ v = [s \in InStreams |-> IF s \in Range(list) THEN In!input_data_get_for_stream(s, e, n, err) ELSE inStream[s]]
      /\ r = IF list = <<>> THEN n ELSE In!Min({v[s].off : s \in Range(list)})
      /\ idev' = In!cras_iodev_put_input_buffer(e, r)
      /\ inStream' = [s \in InStreams |-> IF s \in Range(list) THEN [v[s] EXCEPT !.off = v[s].off - r] ELSE v[s]]
  BY <1>2a, AttachedIs
<1> HIDE DEF e, v, r, m, d, t, read
<1>6. ASSUME NEW s \in Range(list)
      PROVE  v[s] \in Taps /\ StreamSound(s, v[s], e.queue, m, e.fbuf, cap)
  <2> DEFINE x == inStream[s]
  <2>1. s \in InStreams /\ x \in Taps /\ StreamSound(s, x, e.queue, m, e.fbuf, cap)
    BY <1>0, <1>4
  <2>2. v[s] = In!input_data_get_for_stream(s, e, n, err)
    BY <1>5, <2>1
  <2>3. CASE s \in ApmStreams /\ s \in DOMAIN err /\ In!Runs(x, e)
    <3> DEFINE k == err[s]
               z == In!cras_apm_list_process_fails(x, e, k)
    <3>1. v[s] = z
      BY <2>2, <2>3 DEF In!input_data_get_for_stream
    <3>2. k \in Nat
      BY <1>2b, <2>3
    <3> HIDE DEF x, k
    <3>3. Len(e.fbuf) = m /\ x.off <= m /\ Len(x.apmIn) <= ApmFrames
      BY <1>4, <2>1, <2>3 DEF QueueSound, StreamSound, Stuck, InOrder
    <3>4. z \in Taps /\ z.failed /\ Stuck(s, z, m)
      BY <1>4, <2>1, <2>3, <3>2, <3>3, BlockFailed
    <3> HIDE DEF z
    <3> QED BY <3>1, <3>4 DEF StreamSound
  <2>4. CASE s \in ApmStreams /\ ~(s \in DOMAIN err /\ In!Runs(x, e))
    <3> DEFINE y == In!cras_apm_list_process(x, e)
               z == In!cras_apm_list_put_processed(y)
    <3>1. v[s] = z
      BY <2>2, <2>4 DEF In!input_data_get_for_stream
    <3> HIDE DEF x
    <3>2. CASE x.failed
      <4>1. Len(e.fbuf) = m /\ Stuck(s, x, m)
        BY <1>4, <2>1, <3>2 DEF QueueSound, StreamSound
      <4>2. z \in Taps /\ z.failed = x.failed /\ Stuck(s, z, m)
        BY <1>4, <2>1, <3>2, <4>1, StuckProcessed
      <4> HIDE DEF z
      <4> QED BY <3>1, <3>2, <4>2 DEF StreamSound
    <3>3. CASE ~x.failed
      <4>1. InOrder(s, x, e.queue, m, e.fbuf, cap)
        BY <2>1, <3>3 DEF StreamSound
      <4>2. y \in Taps /\ y.failed = x.failed /\ InOrder(s, y, e.queue, m, e.fbuf, cap)
        BY <1>4, <2>1, <2>4, <4>1, BlockProcessed
      <4> HIDE DEF y
      <4>3. cap \in Nat
        BY <1>4 DEF InputDevs
      <4> HIDE DEF cap
      <4>4. z \in Taps /\ z.failed = y.failed /\ InOrder(s, z, e.queue, m, e.fbuf, cap)
        BY <1>4, <2>1, <2>4, <4>2, <4>3, ProcessedRead
      <4> HIDE DEF z
      <4> QED BY <3>1, <3>3, <4>2, <4>4 DEF StreamSound
    <3> QED BY <3>2, <3>3
  <2>5. CASE s \notin ApmStreams
    <3> DEFINE z == In!dev_stream_capture(x, e, n)
    <3>1. v[s] = z
      BY <2>2, <2>5 DEF In!input_data_get_for_stream
    <3> HIDE DEF x
    <3>2. n \in 1..Len(e.queue)
      BY <1>3, <1>4
    <3>3. ~x.failed /\ InOrder(s, x, e.queue, m, e.fbuf, cap)
      BY <2>1, <2>5 DEF StreamSound, Stuck
    <3>4. z \in Taps /\ z.failed = x.failed /\ InOrder(s, z, e.queue, m, e.fbuf, cap)
      BY <1>4, <2>1, <2>5, <3>2, <3>3, PlainCapture
    <3> HIDE DEF z
    <3> QED BY <3>1, <3>3, <3>4 DEF StreamSound
  <2> QED BY <2>3, <2>4, <2>5
<1>7. r \in Nat /\ r <= m /\ \A s \in Range(list) : r <= v[s].off
  <2>1. CASE list = <<>>
    <3>1. Range(list) = {} /\ r = n
      BY <1>5, <2>1 DEF Range
    <3> QED BY <1>3, <1>4, <3>1
  <2>2. CASE list # <<>>
    <3> DEFINE T == {v[s].off : s \in Range(list)}
    <3>1. \A s \in Range(list) : v[s].off \in Nat /\ v[s].off <= m
      BY <1>6 DEF StreamSound, Stuck, InOrder, Taps
    <3>2. T \subseteq Nat /\ T # {}
      BY <1>0, <2>2, <3>1, ListedAre
    <3>3. r = In!Min(T)
      BY <1>5, <2>2
    <3>4. r \in T /\ \A y \in T : r <= y
      <4> HIDE DEF T
      <4> QED BY <3>2, <3>3, LeastOf
    <3>5. r \in Nat /\ r <= m
      BY <3>1, <3>4
    <3>6. \A s \in Range(list) : r <= v[s].off
      BY <3>4
    <3> QED BY <3>5, <3>6
  <2> QED BY <2>1, <2>2
<1> DEFINE w == In!From(e.queue, r)
           f == In!From(e.fbuf, r)
           l == m - r
<1>8. /\ w \in Seq(Frames) /\ f \in Seq(Nat) /\ QueueSound(w, l, f, cap) /\ e.queue \in Seq(Frames) /\ e.fbuf \in Seq(Nat)
      /\ \A s \in InStreams, x \in Taps : r <= x.off /\ StreamSound(s, x, e.queue, m, e.fbuf, cap) =>
           [x EXCEPT !.off = x.off - r] \in Taps /\ StreamSound(s, [x EXCEPT !.off = x.off - r], w, l, f, cap)
  <2>1. e.queue \in Seq(Frames) /\ e.fbuf \in Seq(Nat) /\ cap \in Nat
    BY <1>4 DEF InputDevs
  <2> HIDE DEF cap
  <2> QED BY <1>4, <1>7, <2>1, Shifted
<1>9. idev' = [e EXCEPT !.dsp_offset = l, !.fbuf = f, !.queue = w] /\ l \in Nat
  <2>1. In!Greater(e.frames_read, e.dsp_offset) = m
    BY <1>4 DEF m
  <2>2. In!input_data_set_all_streams_read(e.fbuf, r) = f
    <3>1. Len(e.fbuf) = m
      BY <1>4 DEF QueueSound
    <3>2. ~(Len(e.fbuf) < r)
      BY <1>4, <1>7, <3>1
    <3> QED BY <3>2 DEF In!input_data_set_all_streams_read
  <2>3. idev' = [e EXCEPT !.dsp_offset = l, !.fbuf = f, !.queue = w]
    BY <1>5, <2>1, <2>2 DEF In!cras_iodev_put_input_buffer
  <2>4. l \in Nat
    BY <1>4, <1>7
  <2> QED BY <2>3, <2>4
<1> HIDE DEF w, f, l
<1>10. idev' \in InputDevs /\ idev'.queue = w /\ idev'.fbuf = f /\ idev'.dsp_offset = l /\ idev'.captured = cap
  BY <1>4, <1>8, <1>9 DEF InputDevs
<1> HIDE DEF cap
<1>11. ASSUME NEW s \in Range(list) PROVE inStream'[s] \in Taps /\ Sound(s, inStream'[s], idev')
  <2> DEFINE y == [v[s] EXCEPT !.off = v[s].off - r]
  <2>1. inStream'[s] = y
    BY <1>0, <1>5
  <2>2. y \in Taps /\ StreamSound(s, y, w, l, f, cap)
    BY <1>0, <1>6, <1>7, <1>8
  <2> HIDE DEF y
  <2> QED BY <1>10, <2>1, <2>2 DEF Sound
<1>12. inStream' \in [InStreams -> Taps]
  <2>1. ASSUME NEW s \in InStreams PROVE inStream'[s] \in Taps
    <3>1. CASE s \in Range(list)
      BY <1>11, <3>1
    <3>2. CASE s \notin Range(list)
      <4>1. inStream'[s] = v[s] /\ v[s] = inStream[s]
        BY <1>5, <3>2
      <4> QED BY <1>0, <4>1
    <3> QED BY <3>1, <3>2
  <2>2. DOMAIN inStream' = InStreams /\ inStream' = [s \in InStreams |-> inStream'[s]]
    BY <1>5
  <2> QED BY <2>1, <2>2
<1>13. list' = list /\ Range(list') = Range(list)
  BY <1>2
<1>14. QueueSound(idev'.queue, idev'.dsp_offset, idev'.fbuf, idev'.captured)
  BY <1>8, <1>10
<1>15. /\ list' \in Seq(InStreams) /\ \A j, k \in 1..Len(list') : list'[j] = list'[k] => j = k
  BY <1>13 DEF InInv
<1>16. \A s \in Range(list') : Sound(s, inStream'[s], idev')
  BY <1>11, <1>13
<1> QED BY <1>10, <1>12, <1>14, <1>15, <1>16 DEF InInv

LEMMA ClientHasRead == ASSUME InInv, NEW s \in InStreams, In!ClientReads(s) PROVE InInv'
<1> DEFINE x == inStream[s]
           y == [x EXCEPT !.room = InThreshold]
<1>1. /\ inStream' = [inStream EXCEPT ![s] = y] /\ idev' = idev /\ list' = list
  BY DEF In!ClientReads
<1>2. inStream \in [InStreams -> Taps] /\ x \in Taps
  BY DEF InInv
<1> HIDE DEF x
<1>3. y \in Taps /\ y.failed = x.failed /\ y.off = x.off /\ y.got = x.got /\ y.apmIn = x.apmIn /\ y.apmOut = x.apmOut
  BY <1>2, InAssumption DEF Taps
<1> HIDE DEF y
<1>4. inStream' \in [InStreams -> Taps] /\ inStream'[s] = y /\ \A u \in InStreams : u # s => inStream'[u] = inStream[u]
  BY <1>1, <1>2, <1>3
<1>5. ASSUME NEW u \in Range(list) PROVE Sound(u, inStream'[u], idev)
  <2>1. Sound(u, inStream[u], idev) /\ u \in InStreams
    BY ListedAre DEF InInv
  <2>2. CASE u = s
    <3>1. Sound(s, x, idev)
      BY <2>1, <2>2 DEF x
    <3> QED BY <1>3, <1>4, <2>2, <3>1 DEF Sound, StreamSound, Stuck, InOrder
  <2>3. CASE u # s
    BY <1>4, <2>1, <2>3
  <2> QED BY <2>2, <2>3
<1> QED BY <1>1, <1>4, <1>5 DEF InInv

\* dev_io_append_stream: the first stream flushes the device, a later one joins where the first one is.
LEMMA InStreamAppended == ASSUME InInv, NEW s \in InStreams, In!dev_io_append_stream(s) PROVE InInv'
<1> DEFINE q == IF list = <<>> THEN <<>> ELSE idev.queue
           place == IF list = <<>> THEN 0 ELSE In!Lesser(inStream[Head(list)].off, InThreshold)
           y == [In!Detached EXCEPT !.room = InThreshold, !.off = place]
           c == Append(list, s)
<1>0. /\ idev \in InputDevs /\ inStream \in [InStreams -> Taps] /\ list \in Seq(InStreams)
      /\ \A j, k \in 1..Len(list) : list[j] = list[k] => j = k
      /\ QueueSound(idev.queue, idev.dsp_offset, idev.fbuf, idev.captured)
      /\ \A u \in Range(list) : Sound(u, inStream[u], idev)
  BY DEF InInv
<1>1. /\ idev' = [idev EXCEPT !.queue = q] /\ list' = c /\ inStream' = [inStream EXCEPT ![s] = y] /\ s \notin Range(list)
  BY AttachedIs DEF In!dev_io_append_stream
<1>2. /\ idev.queue \in Seq(Frames) /\ idev.dsp_offset \in Nat /\ idev.fbuf \in Seq(Nat) /\ idev.captured \in Nat
  BY <1>0 DEF InputDevs
<1>3. q \in Seq(Frames) /\ (q = idev.queue \/ Len(q) = 0)
  BY <1>2
<1>4. place \in Nat /\ place <= idev.dsp_offset
  <2>1. CASE list = <<>>
    BY <1>2, <2>1
  <2>2. CASE list # <<>>
    <3> DEFINE h == Head(list)
    <3>1. h \in Range(list) /\ h \in InStreams
      BY <1>0, <2>2, ListedAre
    <3>2. inStream[h].off \in Nat /\ inStream[h].off <= idev.dsp_offset
      BY <1>0, <3>1 DEF Sound, StreamSound, Stuck, InOrder, Taps
    <3> QED BY <1>2, <2>2, <3>2, InAssumption DEF In!Lesser
  <2> QED BY <2>1, <2>2
<1> HIDE DEF place, q
<1>5. /\ y \in Taps /\ ~y.failed /\ y.off = place /\ y.got = 0 /\ y.apmIn = <<>> /\ y.apmOut = <<>>
  <2> DEFINE z == In!Detached
  <2>1. z \in Taps /\ ~z.failed /\ z.got = 0 /\ z.apmIn = <<>> /\ z.apmOut = <<>>
    BY DEF In!Detached, Taps
  <2>2. y = [z EXCEPT !.room = InThreshold, !.off = place]
    OBVIOUS
  <2> HIDE DEF y, z
  <2> QED BY <1>4, <2>1, <2>2, InAssumption DEF Taps
<1> HIDE DEF y
<1>6. /\ idev' \in InputDevs /\ idev'.queue = q /\ idev'.dsp_offset = idev.dsp_offset /\ idev'.fbuf = idev.fbuf
      /\ idev'.captured = idev.captured
  BY <1>0, <1>1, <1>3 DEF InputDevs
<1> DEFINE off == idev.dsp_offset
           fb == idev.fbuf
           cap == idev.captured
           n == IF q = idev.queue THEN 0 ELSE 1
<1>7. /\ QueueSound(q, off, fb, cap)
      /\ \A u \in InStreams, t \in Taps : StreamSound(u, t, idev.queue, off, fb, cap) => StreamSound(u, t, q, off, fb, cap)
  <2>1. CASE q = idev.queue
    BY <1>0, <2>1
  <2>2. CASE Len(q) = 0
    <3>1. \A i \in 1..Len(q) : i + 0 \in 1..Len(idev.queue) /\ q[i] = idev.queue[i + 0]
      BY <2>2
    <3>2. idev.queue \in Seq(Frames) /\ q \in Seq(Frames) /\ 0 \in Nat /\ off \in Nat /\ fb \in Seq(Nat) /\ cap \in Nat
      BY <1>2, <1>3
    <3>3. QueueSound(idev.queue, off, fb, cap)
      BY <1>0
    <3> HIDE DEF off, fb, cap
    <3> QED BY <3>1, <3>2, <3>3, QueueShort
  <2> QED BY <1>3, <2>1, <2>2
<1>8. StreamSound(s, y, q, off, fb, cap)
  <2>1. \A i \in 1..Len(q) : 0 < q[i].id
    BY <1>7 DEF QueueSound
  <2>2. \A i \in 1..Len(fb) : 0 < fb[i]
    BY <1>7 DEF QueueSound
  <2>3. Len(y.apmIn) = 0 /\ Len(y.apmOut) = 0 /\ Rising(y.apmIn) /\ Rising(y.apmOut) /\ Len(y.apmIn) <= ApmFrames
    BY <1>5, InAssumption DEF Rising
  <2>4. Older(0, place, q, off, fb)
    BY <2>1, <2>2 DEF Older
  <2>5. 0 <= cap
    BY <1>2
  <2> QED BY <1>4, <1>5, <2>1, <2>3, <2>4, <2>5 DEF StreamSound, InOrder
<1>9. inStream' \in [InStreams -> Taps] /\ inStream'[s] = y /\ \A u \in InStreams : u # s => inStream'[u] = inStream[u]
  BY <1>0, <1>1, <1>5
<1>10. /\ c \in Seq(InStreams) /\ Len(c) = Len(list) + 1 /\ Len(list) \in Nat /\ c[Len(list) + 1] = s
       /\ \A i \in 1..Len(list) : c[i] = list[i]
  BY <1>0
<1> HIDE DEF c
<1>11. \A i \in 1..Len(c) : i \in 1..Len(list) \/ i = Len(list) + 1
  BY <1>10
<1>12. \A i \in 1..Len(list) : list[i] # s
  BY <1>0, <1>1 DEF Range
<1>13. \A j, k \in 1..Len(c) : c[j] = c[k] => j = k
  BY <1>0, <1>10, <1>11, <1>12
<1>14. \A u \in Range(c) : u = s \/ u \in Range(list)
  <2>1. DOMAIN c = 1..Len(c) /\ DOMAIN list = 1..Len(list)
    BY <1>0, <1>10
  <2> QED BY <1>10, <1>11, <2>1 DEF Range
<1>15. ASSUME NEW u \in Range(c) PROVE Sound(u, inStream'[u], idev')
  <2>1. CASE u = s
    BY <1>6, <1>8, <1>9, <2>1 DEF Sound
  <2>2. CASE u # s
    <3>1. u \in Range(list) /\ u \in InStreams /\ inStream'[u] = inStream[u]
      BY <1>0, <1>9, <1>14, <2>2, ListedAre
    <3>2. StreamSound(u, inStream[u], q, off, fb, cap)
      BY <1>0, <1>7, <3>1 DEF Sound
    <3> QED BY <1>6, <3>1, <3>2 DEF Sound
  <2> QED BY <2>1, <2>2
<1>16. QueueSound(idev'.queue, idev'.dsp_offset, idev'.fbuf, idev'.captured)
  BY <1>6, <1>7
<1>17. list' \in Seq(InStreams) /\ \A j, k \in 1..Len(list') : list'[j] = list'[k] => j = k
  BY <1>1, <1>10, <1>13
<1>18. \A u \in Range(list') : Sound(u, inStream'[u], idev')
  BY <1>1, <1>15
<1> QED BY <1>6, <1>9, <1>16, <1>17, <1>18 DEF InInv

LEMMA InStreamRemoved == ASSUME InInv, NEW s \in InStreams, In!cras_iodev_rm_stream(s) PROVE InInv'
<1> DEFINE x == In!Detached
           c == Without(list, s)
<1>0. /\ inStream \in [InStreams -> Taps] /\ list \in Seq(InStreams)
      /\ \A j, k \in 1..Len(list) : list[j] = list[k] => j = k
  BY DEF InInv
<1>1. /\ inStream' = [inStream EXCEPT ![s] = x] /\ idev' = idev /\ s \in Range(list)
      /\ list' = In!RemoveAt(list, CHOOSE i \in DOMAIN list : list[i] = s)
  BY AttachedIs DEF In!cras_iodev_rm_stream
<1>2. list' = c
  <2>1. Contains(list, s)
    BY <1>0, <1>1 DEF Contains, Range
  <2>2. DOMAIN list = 1..Len(list)
    BY <1>0
  <2> DEFINE i == CHOOSE j \in DOMAIN list : list[j] = s
  <2>3. c = RemoveAt(list, i)
    BY <2>1, <2>2 DEF Without
  <2>4. list' = In!RemoveAt(list, i)
    BY <1>1
  <2> HIDE DEF i, c
  <2> QED BY <2>3, <2>4 DEF In!RemoveAt, RemoveAt
<1>3. c \in Seq(InStreams) /\ (\A j, k \in 1..Len(c) : c[j] = c[k] => j = k) /\ Range(c) = Range(list) \ {s}
  BY <1>0, DeletedFrom
<1> HIDE DEF c
<1>4. x \in Taps
  BY DEF In!Detached, Taps
<1> HIDE DEF x
<1>5. inStream' \in [InStreams -> Taps] /\ \A u \in InStreams : u # s => inStream'[u] = inStream[u]
  BY <1>0, <1>1, <1>4
<1>6. \A u \in Range(list') : Sound(u, inStream'[u], idev')
  <2> SUFFICES ASSUME NEW u \in Range(c) PROVE Sound(u, inStream'[u], idev)
    BY <1>1, <1>2
  <2>1. u \in Range(list) /\ u # s /\ u \in InStreams
    BY <1>0, <1>3, ListedAre
  <2> QED BY <1>5, <2>1 DEF InInv
<1> QED BY <1>1, <1>2, <1>3, <1>5, <1>6 DEF InInv

\* A device that fell behind loses the oldest frames of its buffer, whatever the DSP and the streams
\* have seen of them.
LEMMA SamplesDropped == InInv /\ In!dev_io_drop_samples => InInv'
<1> SUFFICES ASSUME InInv, In!dev_io_drop_samples PROVE InInv'
  OBVIOUS
<1> DEFINE q == idev.queue
           n == Len(q) - InThreshold
           w == In!From(q, n)
           off == idev.dsp_offset
           fb == idev.fbuf
           cap == idev.captured
<1>1. idev' = [idev EXCEPT !.queue = w] /\ inStream' = inStream /\ list' = list /\ Len(q) > InThreshold
  BY DEF In!dev_io_drop_samples
<1>2. /\ idev \in InputDevs /\ q \in Seq(Frames) /\ off \in Nat /\ fb \in Seq(Nat) /\ cap \in Nat
      /\ QueueSound(q, off, fb, cap) /\ Len(q) \in Nat
  BY DEF InInv, InputDevs
<1>3. n \in Nat
  BY <1>1, <1>2, InAssumption
<1> HIDE DEF n, q
<1>4. w \in Seq(Frames) /\ \A i \in 1..Len(w) : i + n \in 1..Len(q) /\ w[i] = q[i + n]
  BY <1>2, <1>3, FromOf
<1> HIDE DEF w
<1>5. /\ idev' \in InputDevs /\ idev'.queue = w /\ idev'.dsp_offset = off /\ idev'.fbuf = fb /\ idev'.captured = cap
  BY <1>1, <1>2, <1>4 DEF InputDevs
<1> HIDE DEF off, fb, cap
<1>6. /\ QueueSound(w, off, fb, cap)
      /\ \A s \in InStreams, t \in Taps : StreamSound(s, t, q, off, fb, cap) => StreamSound(s, t, w, off, fb, cap)
  BY <1>2, <1>3, <1>4, QueueShort
<1>7. \A s \in Range(list) : Sound(s, inStream[s], idev')
  <2>1. \A s \in Range(list) : s \in InStreams /\ inStream[s] \in Taps /\ StreamSound(s, inStream[s], q, off, fb, cap)
    BY ListedAre DEF InInv, Sound, q, off, fb, cap
  <2> QED BY <1>5, <1>6, <2>1 DEF Sound
<1>8. QueueSound(idev'.queue, idev'.dsp_offset, idev'.fbuf, idev'.captured)
  BY <1>5, <1>6
<1> QED BY <1>1, <1>5, <1>7, <1>8 DEF InInv

LEMMA InStutter == InInv /\ UNCHANGED inVars => InInv'
  BY DEF InInv, inVars

LEMMA InStep == InInv /\ In!Next => InInv'
  BY CaptureStep, CapturedToStreams, ClientHasRead, InStreamAppended, InStreamRemoved, SamplesDropped DEF In!Next

\* Captured frames reach each stream in order and none twice as long as its audio processing has
\* not failed, the DSP runs at most once over a frame, and audio processing finds what its stream
\* has read, through partial reads, streams that join and leave, frames that are dropped and
\* processing that fails (capture_to_streams, cras_iodev_put_input_buffer, input_data.c,
\* cras_apm_list.c).
THEOREM CapturedInOrder == MCSpec => []CapturedOnce
<1>1. MCInit => InInv
  BY InInit DEF MCInit
<1>2. InInv /\ [MCNext]_mcVars => InInv'
  BY InStep, InStutter DEF MCNext, mcVars
<1>3. InInv => CapturedOnce
  <2> SUFFICES ASSUME InInv PROVE CapturedOnce
    OBVIOUS
  <2>1. In!DeliveredInOrder
    BY DEF InInv, Taps, In!DeliveredInOrder
  <2>2. In!ProcessedAtMostOnce
    <3>1. DOMAIN idev.queue = 1..Len(idev.queue)
      BY DEF InInv, InputDevs
    <3> QED BY <3>1 DEF InInv, QueueSound, In!ProcessedAtMostOnce
  <2>3. In!ApmHasInput
    BY AttachedIs DEF InInv, QueueSound, Sound, StreamSound, Stuck, InOrder, In!ApmHasInput
  <2> QED BY <2>1, <2>2, <2>3 DEF CapturedOnce
<1> QED BY <1>1, <1>2, <1>3, PTL DEF MCSpec
=============================================================================
