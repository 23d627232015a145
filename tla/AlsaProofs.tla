----------------------------- MODULE AlsaProofs -----------------------------
(***************************************************************************)
(* Proofs about the ALSA devices as MCAlsa composes them: the buffer of a  *)
(* playback device, for every size of the ring and every level the device  *)
(* keeps in it.                                                            *)
(***************************************************************************)
EXTENDS MCAlsa, TLAPS

Cells == Buffer!Cells
Rings == [ring : [Cells -> {"zero", "new", "old"}], hw : Cells, level : Int, suspended : BOOLEAN]
Aios == [state : {"normal", "no_stream"}, free_running : BOOLEAN, filled : Nat]

\* The cell that the hardware plays k frames from now
Cell(h, k) == (h + k) % BufferSize

\* Frames that were written and not played are among the next n
Within(p, n) == \A k \in Cells : p.ring[Cell(p.hw, k)] = "new" => k < n

\* None of the next n frames was played before
NotOld(p, n) == \A k \in Cells : k < n => p.ring[Cell(p.hw, k)] # "old"

Zeroed(p) == \A i \in Cells : p.ring[i] = "zero"

\* While the device drains, the last a.filled frames before the application pointer are zeros.  After
\* a resume the pointer is where the hardware is, and the next cycle fills the ring with zeros.
RingSound(p, a, l) ==
    /\ p \in Rings /\ a \in Aios
    /\ p.level <= BufferSize /\ a.filled < BufferSize
    /\ a.state = "normal" => ~a.free_running /\ a.filled = 0
    /\ a.free_running => Zeroed(p)
    /\ Within(p, BufferSize - a.filled)
    /\ a.free_running \/ Within(p, p.level - a.filled) \/ (l /\ p.level <= 0)
    /\ l \/ (~p.suspended /\ NotOld(p, p.level) /\ (a.free_running \/ p.level >= 0))

BufferInv == RingSound(pcm, aio, late) /\ late \in BOOLEAN /\ noise = FALSE /\ lost = FALSE

-----------------------------------------------------------------------------
(* The ring.                                                               *)

LEMMA SizesAre ==
    /\ BufferSize \in Nat /\ 0 < BufferSize /\ MinBufferLevel \in Nat /\ MinCbLevel \in Nat /\ Cells = 0..(BufferSize - 1)
    /\ MinBufferLevel + MinCbLevel + MinCbLevel \div 2 \in 0..BufferSize
    /\ MinBufferLevel + MinCbLevel \in 0..BufferSize /\ MinCbLevel <= BufferSize
    /\ FillZeros \in Nat /\ SevereFrames \in Nat
<1>1. MinCbLevel \div 2 \in Nat
  BY BufferAssumption
<1> DEFINE half == MinCbLevel \div 2
<1>2. half \in Nat /\ MinBufferLevel + MinCbLevel + half <= BufferSize
  BY <1>1, BufferAssumption
<1> HIDE DEF half
<1>3. MinBufferLevel + MinCbLevel + half \in 0..BufferSize /\ MinBufferLevel + MinCbLevel \in 0..BufferSize /\ MinCbLevel <= BufferSize
  BY <1>2, BufferAssumption
<1> QED BY <1>3, BufferAssumption DEF half, Cells, Buffer!Cells

LEMMA WrapsOnce ==
    ASSUME NEW h \in Cells, NEW k \in Cells
    PROVE  /\ Cell(h, k) = IF h + k < BufferSize THEN h + k ELSE h + k - BufferSize
           /\ Cell(h, k) \in Cells
<1> DEFINE N == BufferSize
           a == h + k
<1>1. N \in Nat \ {0} /\ h \in 0..N - 1 /\ k \in 0..N - 1
  BY SizesAre
<1> HIDE DEF N
<1>2. CASE a < N
  <2>1. a \in 0..N - 1
    BY <1>1, <1>2
  <2> HIDE DEF a
  <2>2. a % N = a
    BY <1>1, <2>1
  <2> QED BY <1>2, <2>1, <2>2, SizesAre DEF Cell, a, N
<1>3. CASE ~(a < N)
  <2>1. a \in N..2 * N - 1 /\ a - N \in 0..N - 1
    BY <1>1, <1>3
  <2> HIDE DEF a
  <2>2. a % N = a - N
    BY <1>1, <2>1
  <2> QED BY <1>3, <2>1, <2>2, SizesAre DEF Cell, a, N
<1> QED BY <1>2, <1>3

LEMMA CellsDiffer ==
    ASSUME NEW h \in Cells, NEW j \in Cells, NEW k \in Cells, Cell(h, j) = Cell(h, k)
    PROVE  j = k
<1>1. BufferSize \in Nat /\ h \in 0..BufferSize - 1 /\ j \in 0..BufferSize - 1 /\ k \in 0..BufferSize - 1
  BY SizesAre
<1>2. /\ Cell(h, j) = IF h + j < BufferSize THEN h + j ELSE h + j - BufferSize
      /\ Cell(h, k) = IF h + k < BufferSize THEN h + k ELSE h + k - BufferSize
  BY WrapsOnce
<1>3. (IF h + j < BufferSize THEN h + j ELSE h + j - BufferSize) = (IF h + k < BufferSize THEN h + k ELSE h + k - BufferSize)
  BY <1>2, Zenon
<1> QED BY <1>1, <1>3

LEMMA CellOf ==
    ASSUME NEW h \in Cells, NEW i \in Cells
    PROVE  \E k \in Cells : Cell(h, k) = i
<1> DEFINE k == IF h <= i THEN i - h ELSE i - h + BufferSize
<1>1. BufferSize \in Nat /\ h \in 0..BufferSize - 1 /\ i \in 0..BufferSize - 1
  BY SizesAre
<1>2. k \in 0..BufferSize - 1 /\ i = IF h + k < BufferSize THEN h + k ELSE h + k - BufferSize
  BY <1>1
<1>3. k \in Cells
  BY <1>2, SizesAre
<1> HIDE DEF k
<1> QED BY <1>2, <1>3, WrapsOnce

\* A write of n frames at the application pointer
LEMMA Written ==
    ASSUME NEW p \in Rings, p.level \in Nat, NEW n \in Nat, p.level + n <= BufferSize, NEW what \in {"zero", "new"}
    PROVE  LET w == Buffer!mmap_write(p, n, what)
           IN /\ w \in Rings /\ w.hw = p.hw /\ w.level = p.level + n /\ w.suspended = p.suspended
              /\ \A k \in Cells : w.ring[Cell(p.hw, k)] =
                   IF p.level <= k /\ k < p.level + n THEN what ELSE p.ring[Cell(p.hw, k)]
<1> DEFINE at == Buffer!Ahead(p, p.level, n)
           r == [i \in Cells |-> IF i \in at THEN what ELSE p.ring[i]]
           l == p.level + n
           w == Buffer!mmap_write(p, n, what)
<1>1. w = [p EXCEPT !.ring = r, !.level = l]
  BY DEF Buffer!mmap_write, Cells
<1>2. p.hw \in Cells /\ p.ring \in [Cells -> {"zero", "new", "old"}] /\ BufferSize \in Nat
  BY SizesAre DEF Rings
<1>3. r \in [Cells -> {"zero", "new", "old"}] /\ l \in Int
  <2> HIDE DEF at
  <2> QED BY <1>2
<1>4. ASSUME NEW k \in Cells PROVE Cell(p.hw, k) \in at <=> p.level <= k /\ k < p.level + n
  <2>0. k \in 0..BufferSize - 1
    BY SizesAre
  <2>1. ASSUME p.level <= k, k < p.level + n PROVE Cell(p.hw, k) \in at
    <3> DEFINE i == k - p.level
    <3>1. i \in 0..(n - 1) /\ p.hw + p.level + i = p.hw + k
      BY <1>2, <2>0, <2>1, SizesAre
    <3> HIDE DEF i
    <3> QED BY <3>1 DEF Buffer!Ahead, Cell
  <2>2. ASSUME Cell(p.hw, k) \in at PROVE p.level <= k /\ k < p.level + n
    <3>1. PICK i \in 0..(n - 1) : Cell(p.hw, k) = (p.hw + p.level + i) % BufferSize
      BY <2>2 DEF Buffer!Ahead
    <3> DEFINE j == p.level + i
    <3>2. j \in Cells /\ p.hw + p.level + i = p.hw + j /\ p.level <= j /\ j < p.level + n
      BY <1>2, SizesAre
    <3> HIDE DEF j
    <3>3. Cell(p.hw, k) = Cell(p.hw, j)
      BY <3>1, <3>2 DEF Cell
    <3>4. k = j
      BY <1>2, <3>2, <3>3, CellsDiffer
    <3> QED BY <3>2, <3>4
  <2> QED BY <2>1, <2>2
<1>5. ASSUME NEW k \in Cells
      PROVE  r[Cell(p.hw, k)] = IF p.level <= k /\ k < p.level + n THEN what ELSE p.ring[Cell(p.hw, k)]
  <2>1. Cell(p.hw, k) \in Cells
    BY <1>2, WrapsOnce
  <2>2. r[Cell(p.hw, k)] = IF Cell(p.hw, k) \in at THEN what ELSE p.ring[Cell(p.hw, k)]
    <3> HIDE DEF at
    <3> QED BY <2>1
  <2> HIDE DEF r, at
  <2> QED BY <1>4, <2>2
<1> HIDE DEF r, l, w
<1>6. w \in Rings /\ w.hw = p.hw /\ w.level = l /\ w.suspended = p.suspended /\ w.ring = r
  BY <1>1, <1>3 DEF Rings
<1> QED BY <1>5, <1>6 DEF w, l

\* The hardware plays a frame and moves on
LEMMA FramePlayed ==
    ASSUME NEW p \in Rings
    PROVE  LET w == Buffer!PlayFrame(p)
           IN /\ w \in Rings /\ w.level = Buffer!Larger(p.level - 1, 0 - SevereFrames - 1) /\ w.suspended = p.suspended
              /\ \A i \in Cells : w.ring[i] = IF i = p.hw /\ p.ring[i] = "new" THEN "old" ELSE p.ring[i]
              /\ \A k \in Cells : IF k = BufferSize - 1 THEN Cell(w.hw, k) = p.hw
                                  ELSE k + 1 \in Cells /\ Cell(w.hw, k) = Cell(p.hw, k + 1) /\ Cell(w.hw, k) # p.hw
<1> DEFINE x == IF p.ring[p.hw] = "new" THEN "old" ELSE p.ring[p.hw]
           r == [p.ring EXCEPT ![p.hw] = x]
           h == (p.hw + 1) % BufferSize
           l == Buffer!Larger(p.level - 1, 0 - SevereFrames - 1)
           w == Buffer!PlayFrame(p)
<1>1. w = [p EXCEPT !.ring = r, !.hw = h, !.level = l]
  BY DEF Buffer!PlayFrame
<1>2. p.hw \in Cells /\ p.ring \in [Cells -> {"zero", "new", "old"}] /\ BufferSize \in Nat /\ p.level \in Int
      /\ p.hw \in 0..BufferSize - 1 /\ SevereFrames \in Nat
  BY SizesAre DEF Rings
<1>3. x \in {"zero", "new", "old"}
  BY <1>2
<1>4. r \in [Cells -> {"zero", "new", "old"}] /\ \A i \in Cells : r[i] = IF i = p.hw /\ p.ring[i] = "new" THEN "old" ELSE p.ring[i]
  BY <1>2, <1>3
<1>5. h = IF p.hw + 1 < BufferSize THEN p.hw + 1 ELSE 0
  <2>1. CASE BufferSize = 1
    <3>1. p.hw = 0 /\ p.hw + 1 = 1
      BY <1>2, <2>1
    <3>2. 1 % 1 = 0
      OBVIOUS
    <3> QED BY <2>1, <3>1, <3>2
  <2>2. CASE BufferSize > 1
    <3>1. 1 \in Cells /\ h = Cell(p.hw, 1)
      BY <1>2, <2>2, SizesAre DEF Cell
    <3> HIDE DEF h
    <3>2. h = IF p.hw + 1 < BufferSize THEN p.hw + 1 ELSE p.hw + 1 - BufferSize
      BY <1>2, <3>1, WrapsOnce
    <3> QED BY <1>2, <3>2
  <2> QED BY <1>2, <2>1, <2>2, SizesAre
<1>6. h \in Cells /\ l \in Int
  <2>1. h \in 0..BufferSize - 1
    <3> HIDE DEF h
    <3> QED BY <1>2, <1>5
  <2> QED BY <1>2, <2>1, SizesAre DEF Buffer!Larger
<1> HIDE DEF x, r, h, l, w
<1>7. w \in Rings /\ w.hw = h /\ w.level = l /\ w.suspended = p.suspended /\ w.ring = r
  BY <1>1, <1>4, <1>6 DEF Rings
<1>8. ASSUME NEW k \in Cells
      PROVE  IF k = BufferSize - 1 THEN Cell(h, k) = p.hw
             ELSE k + 1 \in Cells /\ Cell(h, k) = Cell(p.hw, k + 1) /\ Cell(h, k) # p.hw
  <2>1. k \in 0..BufferSize - 1
    BY SizesAre
  <2>2. Cell(h, k) = IF h + k < BufferSize THEN h + k ELSE h + k - BufferSize
    BY <1>6, WrapsOnce
  <2>3. CASE k = BufferSize - 1
    <3>1. Cell(h, k) = p.hw
      BY <1>2, <1>5, <2>1, <2>2, <2>3
    <3> QED BY <2>3, <3>1
  <2>4. CASE k # BufferSize - 1
    <3>1. k + 1 \in Cells /\ k + 1 \in 0..BufferSize - 1
      BY <1>2, <2>1, <2>4, SizesAre
    <3>2. Cell(p.hw, k + 1) = IF p.hw + (k + 1) < BufferSize THEN p.hw + (k + 1) ELSE p.hw + (k + 1) - BufferSize
      BY <1>2, <3>1, WrapsOnce
    <3>3. Cell(h, k) = Cell(p.hw, k + 1) /\ Cell(h, k) # p.hw
      BY <1>2, <1>5, <2>1, <2>2, <2>4, <3>1, <3>2
    <3> QED BY <2>4, <3>1, <3>3
  <2> QED BY <2>3, <2>4
<1> QED BY <1>4, <1>7, <1>8 DEF w, l

\* A ring of zeros is sound whatever the rest is.
LEMMA ZerosSound ==
    ASSUME NEW p \in Rings, Zeroed(p), ~p.suspended, p.level \in 0..BufferSize, NEW a \in Aios, a.filled < BufferSize,
           a.state = "normal" => ~a.free_running /\ a.filled = 0, NEW l \in BOOLEAN
    PROVE  RingSound(p, a, l)
<1>1. \A k \in Cells : p.ring[Cell(p.hw, k)] = "zero"
  BY WrapsOnce DEF Zeroed, Rings
<1>2. \A n : Within(p, n) /\ NotOld(p, n)
  BY <1>1 DEF Within, NotOld
<1>3. p.level <= BufferSize /\ p.level >= 0
  BY SizesAre
<1> QED BY <1>2, <1>3 DEF RingSound

\* close_dev and open_dev
LEMMA ResetSound == RingSound(Buffer!Opened, Buffer!Configured, FALSE)
<1> DEFINE r == [i \in Buffer!Cells |-> "zero"]
           p == Buffer!Opened
           a == Buffer!Configured
<1>1. r \in [Cells -> {"zero", "new", "old"}] /\ \A i \in Cells : r[i] = "zero"
  BY DEF Cells
<1>2. p = [ring |-> r, hw |-> 0, level |-> MinCbLevel, suspended |-> FALSE]
  BY DEF Buffer!Opened
<1> HIDE DEF r, p
<1>3. 0 \in Cells /\ MinCbLevel \in Int /\ MinCbLevel \in 0..BufferSize
  BY SizesAre
<1>4. p \in Rings /\ p.ring = r /\ ~p.suspended /\ p.level = MinCbLevel
  BY <1>1, <1>2, <1>3 DEF Rings
<1>5. a \in Aios /\ a.filled = 0 /\ ~a.free_running
  BY DEF Buffer!Configured, Aios
<1> HIDE DEF a
<1>6. Zeroed(p) /\ p.level \in 0..BufferSize /\ a.filled < BufferSize
  BY <1>1, <1>3, <1>4, <1>5, SizesAre DEF Zeroed
<1> QED BY <1>4, <1>5, <1>6, ZerosSound DEF p, a

\* alsa_output_underrun: zeros everywhere, and the pointer a callback and a half ahead
LEMMA UnderrunZeros ==
    ASSUME NEW p \in Rings, ~p.suspended
    PROVE  LET w == Buffer!alsa_output_underrun(p)
           IN w \in Rings /\ Zeroed(w) /\ ~w.suspended /\ w.level \in 0..BufferSize
<1> DEFINE r == [i \in Buffer!Cells |-> "zero"]
           f == Buffer!fill_whole_buffer_with_zeros(p)
           l == MinBufferLevel + MinCbLevel + MinCbLevel \div 2
           w == Buffer!alsa_output_underrun(p)
<1>1. r \in [Cells -> {"zero", "new", "old"}] /\ \A i \in Cells : r[i] = "zero"
  BY DEF Cells
<1>2. f = [p EXCEPT !.ring = r]
  BY DEF Buffer!fill_whole_buffer_with_zeros
<1> HIDE DEF r, f
<1>3. f \in Rings /\ f.ring = r /\ f.suspended = p.suspended
  BY <1>1, <1>2 DEF Rings
<1>4. w = [f EXCEPT !.level = l]
  BY <1>3 DEF Buffer!alsa_output_underrun, Buffer!cras_alsa_resume_appl_ptr, f
<1>5. l \in 0..BufferSize /\ l \in Int
  BY SizesAre
<1> HIDE DEF l, w
<1>6. w \in Rings /\ w.ring = r /\ w.level = l /\ w.suspended = p.suspended
  BY <1>3, <1>4, <1>5 DEF Rings
<1> QED BY <1>1, <1>5, <1>6 DEF Zeroed, w

\* What frames_queued reports of a ring, and what it leaves: the pointer is at the hardware
\* after a resume.
LEMMA Available ==
    ASSUME NEW p \in Rings, NEW a, NEW l, RingSound(p, a, l)
    PROVE  LET level == Buffer!cras_alsa_get_avail_frames(p)
               w == Buffer!AfterAvail(p)
           IN /\ level \in Int /\ level <= BufferSize /\ w \in Rings /\ ~w.suspended
              /\ w.ring = p.ring /\ w.hw = p.hw
              /\ p.suspended => level = BufferSize /\ w.level = 0
              /\ ~p.suspended => w = p /\ (level > 0 => level = p.level)
<1> DEFINE level == Buffer!cras_alsa_get_avail_frames(p)
           w == Buffer!AfterAvail(p)
<1>1. p.level \in Int /\ p.level <= BufferSize /\ BufferSize \in Nat /\ SevereFrames \in Nat /\ p.suspended \in BOOLEAN
  BY SizesAre DEF Rings, RingSound
<1>2. CASE p.suspended
  <2>1. level = BufferSize
    BY <1>2 DEF Buffer!cras_alsa_get_avail_frames
  <2>2. w = [p EXCEPT !.suspended = FALSE, !.level = 0]
    BY <1>2 DEF Buffer!AfterAvail, Buffer!cras_alsa_attempt_resume
  <2> HIDE DEF level, w
  <2>3. w \in Rings /\ w.suspended = FALSE /\ w.ring = p.ring /\ w.hw = p.hw /\ w.level = 0
    <3> DEFINE no == FALSE
               here == 0
    <3>1. w = [p EXCEPT !.suspended = no, !.level = here]
      BY <2>2
    <3>2. no \in BOOLEAN /\ here \in Int
      OBVIOUS
    <3> HIDE DEF no, here
    <3>3. w.suspended = no /\ w.ring = p.ring /\ w.hw = p.hw /\ w.level = here
      BY <3>1 DEF Rings
    <3>4. w \in Rings
      BY <3>1, <3>2 DEF Rings
    <3> QED BY <3>3, <3>4 DEF no, here
  <2>4. level \in Int /\ level <= BufferSize
    BY <1>1, <2>1
  <2> QED BY <1>2, <2>1, <2>3, <2>4 DEF level, w
<1>3. CASE ~p.suspended
  <2>1. level = IF 0 - p.level > SevereFrames THEN -1 ELSE Buffer!Larger(p.level, 0)
    BY <1>3 DEF Buffer!cras_alsa_get_avail_frames
  <2>2. w = p
    BY <1>3 DEF Buffer!AfterAvail
  <2> HIDE DEF level, w
  <2>3. level \in Int /\ level <= BufferSize /\ (level > 0 => level = p.level)
    BY <1>1, <2>1 DEF Buffer!Larger
  <2> QED BY <1>3, <2>2, <2>3 DEF level, w
<1> QED BY <1>1, <1>2, <1>3

-----------------------------------------------------------------------------
(* The audio thread.                                                       *)

LEMMA BufferReset == Buffer!Reset /\ BufferInv => BufferInv'
  BY ResetSound DEF Buffer!Reset, BufferInv

\* write_output_samples
LEMMA SamplesWritten == BufferInv /\ Buffer!write_output_samples => BufferInv'
<1> SUFFICES ASSUME BufferInv, Buffer!write_output_samples PROVE BufferInv'
  OBVIOUS
<1> DEFINE level == Buffer!cras_alsa_get_avail_frames(pcm)
           p == Buffer!AfterAvail(pcm)
           under == Buffer!alsa_output_underrun(p)
<1>1. /\ RingSound(pcm, aio, late) /\ pcm \in Rings /\ aio \in Aios /\ aio.state = "normal" /\ aio.filled = 0
      /\ ~aio.free_running /\ late \in BOOLEAN /\ noise = FALSE /\ lost = FALSE
  BY DEF BufferInv, RingSound, Buffer!write_output_samples
<1>2. /\ level \in Int /\ level <= BufferSize /\ p \in Rings /\ ~p.suspended /\ p.ring = pcm.ring /\ p.hw = pcm.hw
      /\ pcm.suspended => level = BufferSize /\ p.level = 0
      /\ ~pcm.suspended => p = pcm /\ (level > 0 => level = pcm.level)
  BY <1>1, Available
<1>3. \/ level < 0 /\ Buffer!Reset
      \/ pcm' = under /\ late' = FALSE /\ UNCHANGED <<aio, noise, lost>>
      \/ /\ level > MinBufferLevel /\ level < BufferSize
         /\ \E n \in 1..(BufferSize - level) : pcm' = Buffer!mmap_write(p, n, "new")
         /\ UNCHANGED <<aio, late, noise, lost>>
      \/ level = BufferSize /\ p # pcm /\ pcm' = p /\ UNCHANGED <<aio, late, noise, lost>>
  BY DEF Buffer!write_output_samples
<1> HIDE DEF level, p
<1>4. CASE Buffer!Reset
  BY <1>4, BufferReset
<1>5. CASE pcm' = under /\ late' = FALSE /\ UNCHANGED <<aio, noise, lost>>
  <2>1. under \in Rings /\ Zeroed(under) /\ ~under.suspended /\ under.level \in 0..BufferSize
    BY <1>2, UnderrunZeros
  <2>2. aio.filled < BufferSize
    BY <1>1, SizesAre
  <2> HIDE DEF under
  <2>3. RingSound(under, aio, FALSE)
    BY <1>1, <2>1, <2>2, ZerosSound
  <2> QED BY <1>1, <1>5, <2>3 DEF BufferInv
<1>6. CASE /\ level > MinBufferLevel /\ level < BufferSize
           /\ \E n \in 1..(BufferSize - level) : pcm' = Buffer!mmap_write(p, n, "new")
           /\ UNCHANGED <<aio, late, noise, lost>>
  <2>1. PICK n \in 1..(BufferSize - level) : pcm' = Buffer!mmap_write(p, n, "new")
    BY <1>6
  <2>2. level > 0 /\ n \in Nat /\ level + n <= BufferSize /\ level # BufferSize
    BY <1>2, <1>6, SizesAre
  <2>3. p = pcm /\ pcm.level = level /\ ~pcm.suspended
    BY <1>2, <2>2
  <2> DEFINE w == Buffer!mmap_write(pcm, n, "new")
  <2>4. /\ w \in Rings /\ w.hw = pcm.hw /\ w.level = level + n /\ w.suspended = pcm.suspended
        /\ \A k \in Cells : w.ring[Cell(pcm.hw, k)] =
             IF level <= k /\ k < level + n THEN "new" ELSE pcm.ring[Cell(pcm.hw, k)]
    BY <1>1, <1>2, <2>2, <2>3, Written
  <2> HIDE DEF w
  <2>5. Within(w, level + n)
    <3>1. Within(pcm, level)
      BY <1>1, <1>2, <2>2, <2>3 DEF RingSound
    <3>2. ASSUME NEW k \in Cells, w.ring[Cell(w.hw, k)] = "new" PROVE k < level + n
      <4>1. k \in 0..BufferSize - 1 /\ level \in Int
        BY <1>2, SizesAre
      <4>2. CASE level <= k /\ k < level + n
        BY <4>2
      <4>3. CASE ~(level <= k /\ k < level + n)
        <5>1. k < level
          BY <2>4, <3>1, <3>2, <4>3 DEF Within
        <5> QED BY <1>2, <2>2, <4>1, <5>1
      <4> QED BY <4>2, <4>3
    <3> QED BY <3>2 DEF Within
  <2>6. Within(w, BufferSize)
    BY SizesAre DEF Within
  <2>7. late \/ NotOld(w, level + n)
    <3> SUFFICES ASSUME ~late, NEW k \in Cells, k < level + n PROVE w.ring[Cell(w.hw, k)] # "old"
      BY DEF NotOld
    <3>1. NotOld(pcm, level)
      BY <1>1, <2>3 DEF RingSound
    <3>2. k \in 0..BufferSize - 1 /\ level \in Int
      BY <1>2, SizesAre
    <3>3. k < level \/ (level <= k /\ k < level + n)
      BY <3>2
    <3> QED BY <2>4, <3>1, <3>3 DEF NotOld
  <2>8. w.level <= BufferSize /\ w.level >= 0 /\ w.level - aio.filled = level + n /\ BufferSize - aio.filled = BufferSize /\ aio.filled < BufferSize
    BY <1>1, <1>2, <2>2, <2>4, SizesAre
  <2>9. RingSound(w, aio, late)
    BY <1>1, <2>3, <2>4, <2>5, <2>6, <2>7, <2>8 DEF RingSound
  <2> QED BY <1>1, <1>6, <2>1, <2>3, <2>9 DEF BufferInv, w
<1>7. CASE level = BufferSize /\ p # pcm /\ pcm' = p /\ UNCHANGED <<aio, late, noise, lost>>
  <2>1. pcm.suspended
    BY <1>2, <1>7
  <2>2. p.level = 0 /\ late = TRUE
    BY <1>1, <1>2, <2>1 DEF RingSound
  <2>3. Within(p, BufferSize - aio.filled)
    BY <1>1, <1>2 DEF RingSound, Within
  <2>4. p.level <= BufferSize /\ p.level <= 0 /\ aio.filled < BufferSize
    BY <1>1, <2>2, SizesAre
  <2>5. RingSound(p, aio, late)
    BY <1>1, <1>2, <2>2, <2>3, <2>4 DEF RingSound
  <2> QED BY <1>1, <1>7, <2>5 DEF BufferInv
<1> QED BY <1>3, <1>4, <1>5, <1>6, <1>7

\* adjust_appl_ptr_for_leaving_free_run, adjust_appl_ptr_samples_remaining
LEMMA FreeRunLeft == BufferInv /\ Buffer!leave_free_run => BufferInv'
<1> SUFFICES ASSUME BufferInv, Buffer!leave_free_run PROVE BufferInv'
  OBVIOUS
<1> DEFINE level == Buffer!cras_alsa_get_avail_frames(pcm)
           p == Buffer!AfterAvail(pcm)
           ahead == MinBufferLevel + MinCbLevel
           offset == Buffer!Larger(ahead, Buffer!Larger(level - aio.filled, 0))
           padded == IF offset > level THEN Buffer!mmap_write(p, offset - level, "zero") ELSE p
           a == Buffer!Configured
<1>1. /\ RingSound(pcm, aio, late) /\ pcm \in Rings /\ aio \in Aios /\ late \in BOOLEAN /\ noise = FALSE /\ lost = FALSE
      /\ aio.free_running \in BOOLEAN /\ aio.filled \in Nat /\ aio.filled < BufferSize
  BY DEF BufferInv, RingSound, Aios
<1>2. /\ level \in Int /\ level <= BufferSize /\ p \in Rings /\ ~p.suspended /\ p.ring = pcm.ring /\ p.hw = pcm.hw
      /\ pcm.suspended => level = BufferSize /\ p.level = 0
      /\ ~pcm.suspended => p = pcm /\ (level > 0 => level = pcm.level)
  BY <1>1, Available
<1>3. \/ /\ pcm' = IF aio.free_running THEN Buffer!cras_alsa_resume_appl_ptr(pcm, ahead)
                   ELSE IF level <= MinBufferLevel THEN Buffer!alsa_output_underrun(p)
                   ELSE Buffer!cras_alsa_resume_appl_ptr(padded, offset)
         /\ aio' = a
         /\ late' = (late /\ ~aio.free_running /\ level > MinBufferLevel)
         /\ UNCHANGED <<noise, lost>>
      \/ Buffer!Reset
  BY DEF Buffer!leave_free_run
<1>4. a \in Aios /\ a.filled = 0 /\ a.free_running = FALSE
  BY DEF Buffer!Configured, Aios
<1>5. ahead \in 0..BufferSize /\ BufferSize \in Nat /\ 0 < BufferSize /\ a.filled < BufferSize /\ MinBufferLevel \in Nat
  BY <1>4, SizesAre
<1> HIDE DEF level, p, ahead, a
<1>6. CASE Buffer!Reset
  BY <1>6, BufferReset
<1>7. ASSUME aio.free_running, pcm' = Buffer!cras_alsa_resume_appl_ptr(pcm, ahead) PROVE RingSound(pcm', a, FALSE)
  <2> DEFINE w == Buffer!cras_alsa_resume_appl_ptr(pcm, ahead)
             no == FALSE
             l == IF pcm.suspended THEN 0 ELSE ahead
  <2>1. w = IF pcm.suspended THEN [pcm EXCEPT !.suspended = no, !.level = l] ELSE [pcm EXCEPT !.level = l]
    BY DEF Buffer!cras_alsa_resume_appl_ptr, Buffer!cras_alsa_attempt_resume
  <2>2. l \in 0..BufferSize /\ l \in Int /\ no \in BOOLEAN
    BY <1>5
  <2> HIDE DEF w, no, l
  <2>3. w \in Rings
    BY <1>1, <2>1, <2>2 DEF Rings
  <2>4. w.ring = pcm.ring /\ w.level = l /\ w.hw = pcm.hw
    BY <1>1, <2>1 DEF Rings
  <2>5. ~w.suspended
    <3>1. CASE pcm.suspended
      <4>1. w.suspended = no
        BY <1>1, <2>1, <3>1 DEF Rings
      <4> QED BY <4>1 DEF no
    <3>2. CASE ~pcm.suspended
      <4>1. w.suspended = pcm.suspended
        BY <1>1, <2>1, <3>2 DEF Rings
      <4> QED BY <3>2, <4>1
    <3> QED BY <3>1, <3>2
  <2>6. Zeroed(w)
    BY <1>1, <1>7, <2>4 DEF RingSound, Zeroed
  <2>7. RingSound(w, a, FALSE)
    BY <1>4, <1>5, <2>2, <2>3, <2>4, <2>5, <2>6, ZerosSound
  <2> QED BY <1>7, <2>7 DEF w
<1>8. ASSUME pcm' = Buffer!alsa_output_underrun(p) PROVE RingSound(pcm', a, FALSE)
  <2> DEFINE w == Buffer!alsa_output_underrun(p)
  <2>1. w \in Rings /\ Zeroed(w) /\ ~w.suspended /\ w.level \in 0..BufferSize
    BY <1>2, UnderrunZeros
  <2> HIDE DEF w
  <2>2. RingSound(w, a, FALSE)
    BY <1>4, <1>5, <2>1, ZerosSound
  <2> QED BY <1>8, <2>2 DEF w
<1>9. ASSUME ~aio.free_running, level > MinBufferLevel, pcm' = Buffer!cras_alsa_resume_appl_ptr(padded, offset)
      PROVE  RingSound(pcm', a, late)
  <2>1. /\ offset \in Nat /\ offset <= BufferSize /\ level - aio.filled <= offset /\ level > 0
    BY <1>1, <1>2, <1>5, <1>9 DEF Buffer!Larger
  <2> DEFINE more == offset - level
  <2> HIDE DEF offset
  <2>2. pcm.suspended => p.level = 0 /\ padded = p /\ late = TRUE /\ BufferSize - aio.filled <= offset
    <3> SUFFICES ASSUME pcm.suspended PROVE p.level = 0 /\ padded = p /\ late = TRUE /\ BufferSize - aio.filled <= offset
      OBVIOUS
    <3>1. p.level = 0 /\ level = BufferSize /\ late = TRUE
      BY <1>1, <1>2 DEF RingSound
    <3>2. ~(offset > level)
      BY <1>2, <2>1, <3>1
    <3> QED BY <2>1, <3>1, <3>2
  <2>3. /\ padded \in Rings /\ ~padded.suspended /\ padded.hw = pcm.hw
        /\ \A k \in Cells : padded.ring[Cell(pcm.hw, k)] =
             IF level <= k /\ k < offset THEN "zero" ELSE pcm.ring[Cell(pcm.hw, k)]
    <3>0. \A k \in Cells : k \in 0..BufferSize - 1
      BY SizesAre
    <3>1. CASE offset > level
      <4>1. ~pcm.suspended
        <5>1. pcm.suspended => level = BufferSize
          BY <1>2
        <5> QED BY <1>2, <1>5, <2>1, <3>1, <5>1
      <4>2. p = pcm /\ pcm.level = level /\ padded = Buffer!mmap_write(pcm, more, "zero")
        BY <1>2, <2>1, <3>1, <4>1
      <4>3. more \in Nat /\ pcm.level \in Nat /\ pcm.level + more = offset
        BY <1>2, <2>1, <3>1, <4>2
      <4>4. pcm.level + more <= BufferSize
        BY <2>1, <4>3
      <4> DEFINE w == Buffer!mmap_write(pcm, more, "zero")
      <4> HIDE DEF more
      <4>5. /\ w \in Rings /\ w.hw = pcm.hw /\ w.suspended = pcm.suspended
            /\ \A k \in Cells : w.ring[Cell(pcm.hw, k)] =
                 IF pcm.level <= k /\ k < pcm.level + more THEN "zero" ELSE pcm.ring[Cell(pcm.hw, k)]
        BY <1>1, <4>3, <4>4, Written
      <4> HIDE DEF w, padded
      <4>6. padded = w
        BY <4>2 DEF w
      <4> QED BY <4>1, <4>2, <4>3, <4>5, <4>6
    <3>2. CASE ~(offset > level)
      <4>1. padded = p
        BY <3>2
      <4>2. \A k \in Cells : ~(level <= k /\ k < offset)
        BY <1>2, <2>1, <3>0, <3>2
      <4> QED BY <1>2, <4>1, <4>2
    <3> QED BY <3>1, <3>2
  <2> DEFINE w == [padded EXCEPT !.level = offset]
  <2>4. pcm' = w
    BY <1>9, <2>3 DEF Buffer!cras_alsa_resume_appl_ptr
  <2> HIDE DEF padded
  <2>5. /\ w \in Rings /\ w.hw = pcm.hw /\ w.suspended = padded.suspended /\ w.level = offset /\ w.ring = padded.ring
    BY <2>1, <2>3 DEF Rings
  <2> HIDE DEF w
  <2>6. Within(w, offset)
    <3>1. \E n \in Int : n <= offset /\ Within(pcm, n)
      <4>1. CASE pcm.suspended
        <5>1. Within(pcm, BufferSize - aio.filled) /\ BufferSize - aio.filled <= offset /\ BufferSize - aio.filled \in Int
          BY <1>1, <1>5, <2>2, <4>1 DEF RingSound
        <5> QED BY <5>1
      <4>2. CASE ~pcm.suspended
        <5>1. pcm.level = level
          BY <1>2, <2>1, <4>2
        <5>2. Within(pcm, level - aio.filled)
          BY <1>1, <1>2, <1>9, <2>1, <5>1 DEF RingSound
        <5>3. level - aio.filled \in Int
          BY <1>1, <1>2
        <5> QED BY <2>1, <5>2, <5>3
      <4> QED BY <4>1, <4>2
    <3>2. PICK n \in Int : n <= offset /\ Within(pcm, n)
      BY <3>1
    <3>3. ASSUME NEW k \in Cells, w.ring[Cell(w.hw, k)] = "new" PROVE k < offset
      <4>1. pcm.ring[Cell(pcm.hw, k)] = "new"
        BY <2>3, <2>5, <3>3
      <4>2. k < n /\ k \in 0..BufferSize - 1
        BY <3>2, <4>1, SizesAre DEF Within
      <4> QED BY <2>1, <3>2, <4>2
    <3> QED BY <3>3 DEF Within
  <2>7. Within(w, BufferSize)
    BY SizesAre DEF Within
  <2>8. late \/ NotOld(w, offset)
    <3> SUFFICES ASSUME ~late, NEW k \in Cells, k < offset PROVE w.ring[Cell(w.hw, k)] # "old"
      BY DEF NotOld
    <3>1. ~pcm.suspended /\ NotOld(pcm, pcm.level)
      BY <1>1 DEF RingSound
    <3>2. pcm.level = level
      BY <1>2, <2>1, <3>1
    <3>3. k < level \/ (level <= k /\ k < offset)
      BY <1>2, SizesAre
    <3> QED BY <2>3, <2>5, <3>1, <3>2, <3>3 DEF NotOld
  <2>9. offset - a.filled = offset /\ BufferSize - a.filled = BufferSize /\ offset >= 0
    BY <1>4, <1>5, <2>1
  <2>10. RingSound(w, a, late)
    BY <1>4, <1>5, <2>1, <2>3, <2>5, <2>6, <2>7, <2>8, <2>9 DEF RingSound
  <2> QED BY <2>4, <2>10
<1>10. CASE /\ pcm' = IF aio.free_running THEN Buffer!cras_alsa_resume_appl_ptr(pcm, ahead)
                      ELSE IF level <= MinBufferLevel THEN Buffer!alsa_output_underrun(p)
                      ELSE Buffer!cras_alsa_resume_appl_ptr(padded, offset)
            /\ aio' = a
            /\ late' = (late /\ ~aio.free_running /\ level > MinBufferLevel)
            /\ UNCHANGED <<noise, lost>>
  <2> HIDE DEF padded, offset
  <2>1. CASE aio.free_running
    <3>1. RingSound(pcm', a, FALSE) /\ late' = FALSE
      BY <1>7, <1>10, <2>1
    <3> QED BY <1>1, <1>10, <3>1 DEF BufferInv
  <2>2. CASE ~aio.free_running /\ level <= MinBufferLevel
    <3>0. ~(level > MinBufferLevel)
      BY <1>2, <1>5, <2>2
    <3>1. RingSound(pcm', a, FALSE) /\ late' = FALSE
      BY <1>8, <1>10, <2>2, <3>0
    <3> QED BY <1>1, <1>10, <3>1 DEF BufferInv
  <2>3. CASE ~aio.free_running /\ ~(level <= MinBufferLevel)
    <3>0. level > MinBufferLevel
      BY <1>2, <1>5, <2>3
    <3>1. RingSound(pcm', a, late)
      BY <1>9, <1>10, <2>3, <3>0
    <3>2. late' = late
      BY <1>1, <1>10, <2>3, <3>0
    <3> QED BY <1>1, <1>10, <3>1, <3>2 DEF BufferInv
  <2> QED BY <2>1, <2>2, <2>3
<1> QED BY <1>3, <1>6, <1>10

\* possibly_enter_free_run: a ring in which only zeros are queued is filled with zeros, and no
\* frame is lost by it.
LEMMA FreeRunEntered == BufferInv /\ Buffer!possibly_enter_free_run => BufferInv'
<1> SUFFICES ASSUME BufferInv, Buffer!possibly_enter_free_run PROVE BufferInv'
  OBVIOUS
<1> DEFINE level == Buffer!cras_alsa_get_avail_frames(pcm)
           p == Buffer!AfterAvail(pcm)
           n == Buffer!Smaller(FillZeros, BufferSize - level)
           yes == TRUE
           free == [aio EXCEPT !.free_running = yes]
           more == [aio EXCEPT !.filled = aio.filled + n]
<1>1. /\ RingSound(pcm, aio, late) /\ pcm \in Rings /\ aio \in Aios /\ late \in BOOLEAN /\ noise = FALSE /\ lost = FALSE
      /\ aio.filled \in Nat /\ aio.filled < BufferSize /\ ~aio.free_running /\ aio.state = "no_stream"
  BY DEF BufferInv, RingSound, Aios, Buffer!possibly_enter_free_run
<1>2. /\ level \in Int /\ level <= BufferSize /\ p \in Rings /\ ~p.suspended /\ p.ring = pcm.ring /\ p.hw = pcm.hw
      /\ pcm.suspended => level = BufferSize /\ p.level = 0
      /\ ~pcm.suspended => p = pcm /\ (level > 0 => level = pcm.level)
  BY <1>1, Available
<1>3. \/ Buffer!Reset
      \/ /\ pcm' = Buffer!alsa_output_underrun(p) /\ aio' = free /\ late' = FALSE
         /\ UNCHANGED <<noise, lost>>
      \/ /\ level > MinBufferLevel /\ level <= aio.filled
         /\ pcm' = Buffer!fill_whole_buffer_with_zeros(p) /\ aio' = free
         /\ lost' = (lost \/ Buffer!Fresh(p) # {}) /\ late' = FALSE
         /\ UNCHANGED noise
      \/ /\ level > MinBufferLevel /\ level > aio.filled
         /\ pcm' = Buffer!mmap_write(p, n, "zero") /\ aio' = more
         /\ UNCHANGED <<late, noise, lost>>
  BY DEF Buffer!possibly_enter_free_run
<1> HIDE DEF level, p
<1>4. free \in Aios /\ free.filled = aio.filled /\ free.state = "no_stream" /\ free.free_running = yes
  <2>1. yes \in BOOLEAN
    OBVIOUS
  <2> HIDE DEF yes
  <2> QED BY <1>1, <2>1 DEF Aios
<1> HIDE DEF free
<1>4a. BufferSize \in Nat /\ MinBufferLevel \in Nat /\ FillZeros \in Nat
  BY SizesAre
<1>5. CASE Buffer!Reset
  BY <1>5, BufferReset
<1>6. CASE /\ pcm' = Buffer!alsa_output_underrun(p) /\ aio' = free /\ late' = FALSE
           /\ UNCHANGED <<noise, lost>>
  <2> DEFINE w == Buffer!alsa_output_underrun(p)
  <2>1. w \in Rings /\ Zeroed(w) /\ ~w.suspended /\ w.level \in 0..BufferSize
    BY <1>2, UnderrunZeros
  <2> HIDE DEF w
  <2>2. RingSound(w, free, FALSE)
    BY <1>1, <1>4, <2>1, ZerosSound
  <2> QED BY <1>1, <1>6, <2>2 DEF BufferInv, w
<1>7. CASE /\ level > MinBufferLevel /\ level <= aio.filled
           /\ pcm' = Buffer!fill_whole_buffer_with_zeros(p) /\ aio' = free
           /\ lost' = (lost \/ Buffer!Fresh(p) # {}) /\ late' = FALSE
           /\ UNCHANGED noise
  <2>1. level > 0 /\ level # BufferSize
    BY <1>1, <1>2, <1>4a, <1>7
  <2>2. ~pcm.suspended /\ p = pcm /\ level = pcm.level
    BY <1>2, <2>1
  <2>3. Within(pcm, level - aio.filled)
    BY <1>1, <1>2, <2>1, <2>2 DEF RingSound
  <2>4. ASSUME NEW i \in Cells PROVE pcm.ring[i] # "new"
    <3>1. PICK k \in Cells : Cell(pcm.hw, k) = i
      BY <1>1, CellOf DEF Rings
    <3>2. ~(k < level - aio.filled)
      BY <1>1, <1>2, <1>7, SizesAre
    <3> QED BY <2>3, <3>1, <3>2 DEF Within
  <2>5. Buffer!Fresh(p) = {}
    BY <2>2, <2>4 DEF Buffer!Fresh, Cells
  <2> DEFINE r == [i \in Buffer!Cells |-> "zero"]
             w == [pcm EXCEPT !.ring = r]
  <2>6. pcm' = w
    BY <1>7, <2>2 DEF Buffer!fill_whole_buffer_with_zeros
  <2>7. r \in [Cells -> {"zero", "new", "old"}] /\ \A i \in Cells : r[i] = "zero"
    BY DEF Cells
  <2> HIDE DEF r
  <2>8. w \in Rings /\ w.ring = r /\ w.level = pcm.level /\ w.suspended = pcm.suspended
    BY <1>1, <2>7 DEF Rings
  <2> HIDE DEF w
  <2>9. Zeroed(w) /\ w.level \in 0..BufferSize
    BY <1>2, <1>4a, <2>1, <2>2, <2>7, <2>8 DEF Zeroed
  <2>10. RingSound(w, free, FALSE)
    BY <1>1, <1>4, <2>2, <2>8, <2>9, ZerosSound
  <2> QED BY <1>1, <1>7, <2>5, <2>6, <2>10 DEF BufferInv
<1>8. CASE /\ level > MinBufferLevel /\ level > aio.filled
           /\ pcm' = Buffer!mmap_write(p, n, "zero") /\ aio' = more
           /\ UNCHANGED <<late, noise, lost>>
  <2>1. n \in Nat /\ level + n <= BufferSize /\ level > 0 /\ (level = BufferSize => n = 0)
    BY <1>2, <1>4a, <1>8 DEF Buffer!Smaller
  <2> DEFINE w == Buffer!mmap_write(p, n, "zero")
             zeros == aio.filled + n
  <2> HIDE DEF n
  <2>2. zeros \in Nat /\ zeros < BufferSize
    BY <1>1, <1>2, <1>4a, <1>8, <2>1
  <2>3. more \in Aios /\ more.filled = zeros /\ more.state = "no_stream" /\ more.free_running = aio.free_running
    <3>1. more = [aio EXCEPT !.filled = zeros]
      OBVIOUS
    <3> HIDE DEF zeros, more
    <3> QED BY <1>1, <2>2, <3>1 DEF Aios
  <2> HIDE DEF more
  <2>4. CASE pcm.suspended
    <3>1. level = BufferSize /\ n = 0 /\ p.level = 0 /\ late = TRUE
      BY <1>1, <1>2, <2>1, <2>4 DEF RingSound
    <3>2. p.level \in Nat /\ p.level + n <= BufferSize /\ p.level + n = 0
      BY <1>4a, <3>1
    <3>3. /\ w \in Rings /\ w.hw = p.hw /\ w.level = p.level + n
          /\ \A k \in Cells : w.ring[Cell(p.hw, k)] =
               IF p.level <= k /\ k < p.level + n THEN "zero" ELSE p.ring[Cell(p.hw, k)]
      BY <1>2, <2>1, <3>2, Written
    <3> HIDE DEF w
    <3>4. zeros = aio.filled /\ w.level = 0 /\ w.level <= BufferSize
      BY <1>1, <1>4a, <3>1, <3>2, <3>3
    <3>5. Within(w, BufferSize - zeros)
      <4>1. Within(pcm, BufferSize - aio.filled)
        BY <1>1 DEF RingSound
      <4>2. ASSUME NEW k \in Cells, w.ring[Cell(w.hw, k)] = "new" PROVE pcm.ring[Cell(pcm.hw, k)] = "new"
        BY <1>2, <3>3, <4>2
      <4> QED BY <3>4, <4>1, <4>2 DEF Within
    <3>6. w.level <= 0
      BY <3>4
    <3>7. RingSound(w, more, late)
      BY <1>1, <2>2, <2>3, <3>1, <3>3, <3>4, <3>5, <3>6 DEF RingSound
    <3> QED BY <1>1, <1>8, <3>7 DEF BufferInv, w
  <2>5. CASE ~pcm.suspended
    <3>1. p = pcm /\ pcm.level = level
      BY <1>2, <2>1, <2>5
    <3>2. p.level \in Nat /\ p.level + n <= BufferSize /\ p.level = level
      BY <1>2, <2>1, <3>1
    <3>3. /\ w \in Rings /\ w.hw = p.hw /\ w.level = p.level + n /\ w.suspended = p.suspended
          /\ \A k \in Cells : w.ring[Cell(p.hw, k)] =
               IF p.level <= k /\ k < p.level + n THEN "zero" ELSE p.ring[Cell(p.hw, k)]
      BY <1>2, <2>1, <3>2, Written
    <3> HIDE DEF w
    <3>4. ASSUME NEW k \in Cells, w.ring[Cell(w.hw, k)] = "new"
          PROVE  k < level - aio.filled /\ k \in Nat
      <4>1. Within(pcm, level - aio.filled)
        BY <1>1, <1>2, <2>1, <3>1 DEF RingSound
      <4>2. pcm.ring[Cell(pcm.hw, k)] = "new"
        BY <3>1, <3>3, <3>4
      <4> QED BY <4>1, <4>2, SizesAre DEF Within
    <3>5. w.level - zeros = level - aio.filled /\ level - aio.filled <= BufferSize - zeros /\ w.level <= BufferSize /\ w.level >= 0
      BY <1>1, <1>2, <1>4a, <2>1, <3>2, <3>3
    <3>6. Within(w, w.level - zeros)
      BY <3>4, <3>5 DEF Within
    <3>7. Within(w, BufferSize - zeros)
      <4>1. level - aio.filled \in Int /\ BufferSize - zeros \in Int
        BY <1>1, <1>2, <1>4a, <2>2
      <4>2. ASSUME NEW k \in Cells, w.ring[Cell(w.hw, k)] = "new" PROVE k < BufferSize - zeros
        BY <3>4, <3>5, <4>1, <4>2
      <4> QED BY <4>2 DEF Within
    <3>8. late \/ NotOld(w, w.level)
      <4> SUFFICES ASSUME ~late, NEW k \in Cells, k < w.level PROVE w.ring[Cell(w.hw, k)] # "old"
        BY DEF NotOld
      <4>1. NotOld(pcm, level)
        BY <1>1, <3>1 DEF RingSound
      <4>2. k \in Nat
        BY SizesAre
      <4>3. k < level \/ (level <= k /\ k < level + n)
        BY <1>2, <3>2, <3>3, <4>2
      <4> QED BY <3>1, <3>2, <3>3, <4>1, <4>3 DEF NotOld
    <3>9. RingSound(w, more, late)
      BY <1>1, <1>2, <2>2, <2>3, <3>3, <3>5, <3>6, <3>7, <3>8 DEF RingSound
    <3> QED BY <1>1, <1>8, <3>9 DEF BufferInv, w
  <2> QED BY <2>4, <2>5
<1> QED BY <1>3, <1>5, <1>6, <1>7, <1>8

LEMMA StreamsGone == BufferInv /\ Buffer!no_stream_playback_transition => BufferInv'
<1> SUFFICES ASSUME BufferInv, Buffer!no_stream_playback_transition PROVE BufferInv'
  OBVIOUS
<1>1. /\ RingSound(pcm, aio, late) /\ aio \in Aios /\ aio.state = "normal" /\ aio' = [aio EXCEPT !.state = "no_stream"]
      /\ UNCHANGED <<pcm, late, noise, lost>>
  BY DEF BufferInv, RingSound, Buffer!no_stream_playback_transition
<1>2. aio' \in Aios /\ aio'.state = "no_stream" /\ aio'.filled = aio.filled /\ aio'.free_running = aio.free_running
  BY <1>1 DEF Aios
<1>3. RingSound(pcm, aio', late)
  BY <1>1, <1>2 DEF RingSound
<1> QED BY <1>1, <1>3 DEF BufferInv

-----------------------------------------------------------------------------
(* The hardware.                                                           *)

LEMMA BufferPlays == BufferInv /\ Buffer!Play => BufferInv'
<1> SUFFICES ASSUME BufferInv, Buffer!Play PROVE BufferInv'
  OBVIOUS
<1> DEFINE w == Buffer!PlayFrame(pcm)
           f == aio.filled
<1>1. /\ RingSound(pcm, aio, late) /\ pcm \in Rings /\ aio \in Aios /\ late \in BOOLEAN /\ noise = FALSE /\ lost = FALSE
      /\ f \in Nat /\ f < BufferSize /\ pcm.level \in Int /\ pcm.level <= BufferSize /\ pcm.hw \in Cells
  BY DEF BufferInv, RingSound, Aios, Rings
<1>2. /\ ~pcm.suspended /\ (aio.free_running \/ pcm.level > 0 \/ late) /\ pcm' = w
      /\ noise' = (noise \/ (pcm.ring[pcm.hw] = "old" /\ ~late)) /\ UNCHANGED <<aio, late, lost>>
  BY DEF Buffer!Play
<1>3. /\ w \in Rings /\ w.level = Buffer!Larger(pcm.level - 1, 0 - SevereFrames - 1) /\ w.suspended = pcm.suspended
      /\ \A i \in Cells : w.ring[i] = IF i = pcm.hw /\ pcm.ring[i] = "new" THEN "old" ELSE pcm.ring[i]
      /\ \A k \in Cells : IF k = BufferSize - 1 THEN Cell(w.hw, k) = pcm.hw
                          ELSE k + 1 \in Cells /\ Cell(w.hw, k) = Cell(pcm.hw, k + 1) /\ Cell(w.hw, k) # pcm.hw
  BY <1>1, FramePlayed
<1> HIDE DEF w, f
<1>4. /\ w.level \in Int /\ pcm.level - 1 <= w.level /\ w.level <= BufferSize
      /\ (pcm.level > 0 => w.level = pcm.level - 1) /\ (pcm.level <= 0 => w.level <= 0)
      /\ BufferSize \in Nat /\ 0 < BufferSize
  BY <1>1, <1>3, SizesAre DEF Buffer!Larger
<1>5. noise' = FALSE
  <2> SUFFICES ASSUME ~late PROVE pcm.ring[pcm.hw] # "old"
    BY <1>1, <1>2
  <2>1. CASE aio.free_running
    BY <1>1, <2>1 DEF RingSound, Zeroed
  <2>2. CASE pcm.level > 0
    <3>1. 0 \in Cells /\ Cell(pcm.hw, 0) = pcm.hw
      <4>1. 0 \in Cells /\ pcm.hw \in 0..BufferSize - 1
        BY <1>1, SizesAre
      <4>2. Cell(pcm.hw, 0) = IF pcm.hw + 0 < BufferSize THEN pcm.hw + 0 ELSE pcm.hw + 0 - BufferSize
        BY <1>1, <4>1, WrapsOnce
      <4> QED BY <1>4, <4>1, <4>2
    <3>2. NotOld(pcm, pcm.level)
      BY <1>1 DEF RingSound
    <3> QED BY <2>2, <3>1, <3>2 DEF NotOld
  <2> QED BY <1>2, <2>1, <2>2
<1>6. aio.free_running => Zeroed(w)
  BY <1>1, <1>3 DEF RingSound, Zeroed
<1>7. \A k \in Cells : k \in Nat /\ Cell(w.hw, k) \in Cells
  <2>1. w.hw \in Cells
    BY <1>3 DEF Rings
  <2>2. \A k \in Cells : k \in Nat
    BY SizesAre
  <2>3. \A k \in Cells : Cell(w.hw, k) \in Cells
    BY <2>1, WrapsOnce
  <2> QED BY <2>2, <2>3
<1>8. ASSUME NEW k \in Cells, w.ring[Cell(w.hw, k)] = "new"
      PROVE  k + 1 \in Cells /\ pcm.ring[Cell(pcm.hw, k + 1)] = "new"
  <2>1. k # BufferSize - 1
    BY <1>3, <1>7, <1>8
  <2> QED BY <1>3, <1>7, <1>8, <2>1
<1>9. ASSUME NEW n \in Int, Within(pcm, n) PROVE Within(w, n - 1) /\ Within(w, n)
  <2>1. ASSUME NEW k \in Cells, w.ring[Cell(w.hw, k)] = "new" PROVE k < n - 1 /\ k < n
    <3>1. k + 1 < n
      BY <1>8, <1>9, <2>1 DEF Within
    <3> QED BY <1>7, <3>1
  <2> QED BY <2>1 DEF Within
<1>10. Within(w, BufferSize - f)
  <2>1. BufferSize - f \in Int /\ Within(pcm, BufferSize - f)
    BY <1>1, <1>4 DEF RingSound, f
  <2> QED BY <1>9, <2>1
<1>11. aio.free_running \/ Within(w, w.level - f) \/ (late /\ w.level <= 0)
  <2>1. CASE Within(pcm, pcm.level - f)
    <3> DEFINE n == pcm.level - f
    <3>1. n \in Int /\ Within(pcm, n) /\ n - 1 <= w.level - f /\ n - 1 \in Int /\ w.level - f \in Int
      BY <1>1, <1>4, <2>1
    <3> HIDE DEF n
    <3>2. Within(w, n - 1)
      BY <1>9, <3>1
    <3>3. \A k \in Cells : k < n - 1 => k < w.level - f
      BY <1>7, <3>1
    <3>4. Within(w, w.level - f)
      BY <3>2, <3>3 DEF Within
    <3> QED BY <3>4
  <2>2. CASE aio.free_running \/ (late /\ pcm.level <= 0)
    BY <1>4, <2>2
  <2> QED BY <1>1, <2>1, <2>2 DEF RingSound, f
<1>12. ASSUME ~late, ~aio.free_running PROVE NotOld(w, w.level) /\ w.level >= 0
  <2>1. pcm.level > 0 /\ NotOld(pcm, pcm.level) /\ w.level = pcm.level - 1
    BY <1>1, <1>2, <1>4, <1>12 DEF RingSound
  <2>2. ASSUME NEW k \in Cells, k < w.level PROVE w.ring[Cell(w.hw, k)] # "old"
    <3>0. k \in Nat /\ w.level = pcm.level - 1 /\ pcm.level \in Int /\ pcm.level <= BufferSize
      BY <1>1, <1>7, <2>1
    <3>1. k + 1 < pcm.level /\ k # BufferSize - 1
      BY <1>4, <2>2, <3>0
    <3>2. k + 1 \in Cells /\ Cell(w.hw, k) = Cell(pcm.hw, k + 1) /\ Cell(w.hw, k) # pcm.hw
      BY <1>3, <3>1
    <3>3. pcm.ring[Cell(pcm.hw, k + 1)] # "old"
      BY <2>1, <3>1, <3>2 DEF NotOld
    <3> QED BY <1>3, <1>7, <3>2, <3>3
  <2>3. w.level >= 0
    BY <1>1, <2>1
  <2> QED BY <2>2, <2>3 DEF NotOld
<1>13. ASSUME aio.free_running PROVE NotOld(w, w.level)
  BY <1>6, <1>7, <1>13 DEF NotOld, Zeroed
<1>14. RingSound(w, aio, late)
  BY <1>1, <1>2, <1>3, <1>4, <1>6, <1>10, <1>11, <1>12, <1>13 DEF RingSound, f
<1> QED BY <1>1, <1>2, <1>5, <1>14 DEF BufferInv

\* Woken too late, or suspended: what is queued stays.
LEMMA BufferLate == BufferInv /\ (Buffer!Late \/ Buffer!Suspend) => BufferInv'
<1> SUFFICES ASSUME BufferInv, Buffer!Late \/ Buffer!Suspend PROVE BufferInv'
  OBVIOUS
<1>1. /\ RingSound(pcm, aio, late) /\ pcm \in Rings /\ late' = TRUE /\ UNCHANGED <<aio, noise, lost>>
      /\ pcm' = pcm \/ pcm' = [pcm EXCEPT !.suspended = TRUE]
  BY DEF BufferInv, RingSound, Buffer!Late, Buffer!Suspend
<1>2. pcm' \in Rings /\ pcm'.ring = pcm.ring /\ pcm'.hw = pcm.hw /\ pcm'.level = pcm.level
  <2>1. CASE pcm' = pcm
    BY <1>1, <2>1
  <2>2. CASE pcm' = [pcm EXCEPT !.suspended = TRUE]
    <3> DEFINE yes == TRUE
    <3>1. pcm' = [pcm EXCEPT !.suspended = yes] /\ yes \in BOOLEAN
      BY <2>2
    <3> HIDE DEF yes
    <3> QED BY <1>1, <3>1 DEF Rings
  <2> QED BY <1>1, <2>1, <2>2
<1>3. RingSound(pcm, aio, TRUE)
  BY <1>1 DEF RingSound
<1>4. \A n : Within(pcm, n) => Within(pcm', n)
  BY <1>2 DEF Within
<1>5. Zeroed(pcm) => Zeroed(pcm')
  BY <1>2 DEF Zeroed
<1>6. RingSound(pcm', aio, TRUE)
  BY <1>2, <1>3, <1>4, <1>5 DEF RingSound
<1> QED BY <1>1, <1>6 DEF BufferInv

LEMMA BufferStep == BufferInv /\ Buffer!Next => BufferInv'
  BY SamplesWritten, FreeRunLeft, FreeRunEntered, StreamsGone, BufferPlays, BufferLate DEF Buffer!Next

LEMMA BufferStutter == BufferInv /\ UNCHANGED bufferVars => BufferInv'
  BY DEF BufferInv, bufferVars

\* As long as the audio thread wakes in time no frame is played twice, and every frame that was
\* written is played, whatever order streams leave and come back in, devices suspend and the
\* thread oversleeps (alsa_output_underrun, possibly_enter_free_run,
\* adjust_appl_ptr_samples_remaining and adjust_appl_ptr_for_leaving_free_run).
THEOREM FramesPlayedOnce == MCSpec => []PlayedOnce
<1>1. MCInit => BufferInv
  BY ResetSound DEF MCInit, Buffer!Init, BufferInv
<1>2. BufferInv /\ [MCNext]_mcVars => BufferInv'
  BY BufferStep, BufferStutter DEF MCNext, mcVars
<1>3. BufferInv => PlayedOnce
  <2> SUFFICES ASSUME BufferInv PROVE PlayedOnce
    OBVIOUS
  <2>1. Buffer!NothingPlayedTwice
    BY DEF BufferInv, Buffer!NothingPlayedTwice
  <2>2. Buffer!QueuedIsPlayed
    <3> SUFFICES ASSUME ~late, NEW i \in Buffer!Fresh(pcm) PROVE i \in Buffer!Ahead(pcm, 0, Buffer!Larger(pcm.level, 0))
      BY DEF BufferInv, Buffer!QueuedIsPlayed
    <3>1. pcm \in Rings /\ aio.filled \in Nat /\ pcm.level \in Int /\ pcm.hw \in Cells /\ i \in Cells /\ pcm.ring[i] = "new"
      BY DEF BufferInv, RingSound, Rings, Aios, Buffer!Fresh, Cells
    <3>2. PICK k \in Cells : Cell(pcm.hw, k) = i
      BY <3>1, CellOf
    <3>3. ~aio.free_running
      BY <3>1 DEF BufferInv, RingSound, Zeroed
    <3>4. k < pcm.level - aio.filled
      BY <3>1, <3>2, <3>3 DEF BufferInv, RingSound, Within
    <3> DEFINE l == Buffer!Larger(pcm.level, 0)
    <3>5. k \in 0..(l - 1) /\ pcm.hw + 0 + k = pcm.hw + k
      BY <3>1, <3>4, SizesAre DEF Buffer!Larger
    <3> HIDE DEF l
    <3>6. i = (pcm.hw + 0 + k) % BufferSize
      BY <3>2, <3>5 DEF Cell
    <3>7. i \in Buffer!Ahead(pcm, 0, l)
      BY <3>5, <3>6 DEF Buffer!Ahead
    <3> QED BY <3>7 DEF l
  <2> QED BY <2>1, <2>2 DEF PlayedOnce
<1> QED BY <1>1, <1>2, <1>3, PTL DEF MCSpec
=============================================================================
