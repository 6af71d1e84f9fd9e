------------------------- MODULE Simulation_proofs --------------------------
(***************************************************************************)
(* Theorems about the system for all models, devices and sequences of calls.  *)
(* First that it stays consistent, and what the pipeline does to times of     *)
(* any length. Then that the figures of every row add up, in this order: sums *)
(* over finite sets; the devices and what they answer; the layers; the columns *)
(* of a row; times and energies of a list of layers; the inductive invariant  *)
(* TypedInv. Then that the pipeline only shortens: what a time depends on; the *)
(* layers of a decoder by name; the invariant TimesInv. Then that operations   *)
(* and memory are those of the whole model: totals over lists of layers; the   *)
(* decoder of one of n GPUs and the decoder of one alone; the weights; the     *)
(* invariants BuiltInv and CountedInv; the layer score. The theorems are at    *)
(* the end.                                                                 *)
(***************************************************************************)
EXTENDS Simulation, NaturalFacts, SequenceTheorems, FiniteSetTheorems, TLAPS

IsXPU(d) == d = [config |-> d.config, num |-> d.num, tiles |-> d.tiles]
IsPIM(d) ==
  d = [config |-> d.config, num |-> d.num, dhead |-> d.dhead, rows |-> d.rows, fresh |-> d.fresh]

(* What is needed beside Consistent: the devices have the fields that are     *)
(* looked up, and only those of the PIM kind keep no table of tiles.         *)
DevicesOK ==
  /\ IsXPU(gpu) /\ gpu.config.kind # "PIM"
  /\ \/ acc = SameAsGpu
     \/ IsXPU(acc) /\ acc.config.kind # "PIM"
     \/ acc.config.kind = "PIM" /\ IsPIM(acc)
  /\ model # NoModel => model = [infos |-> model.infos, tp |-> model.tp]

IInv == Consistent /\ DevicesOK

(* A layer that is timed changes nothing of a device but its table of tiles. *)
LEMMA AfterCostKeepsDevice ==
  ASSUME NEW d, IsXPU(d), d.config.kind # "PIM", NEW l
  PROVE  /\ IsXPU(AfterCost(d, l))
         /\ AfterCost(d, l).config = d.config
         /\ AfterCost(d, l).num = d.num
BY DEF IsXPU, AfterCost, WithTile

(* Nor, of a PIM device, but what its simulator has seen.                     *)
LEMMA AfterCostKeepsPim ==
  ASSUME NEW d, IsPIM(d), d.config.kind = "PIM", NEW l
  PROVE  /\ IsPIM(AfterCost(d, l))
         /\ AfterCost(d, l).config = d.config
         /\ AfterCost(d, l).num = d.num
         /\ AfterCost(d, l).dhead = d.dhead
<1>1. CASE ~IsScore(l)
  BY <1>1 DEF AfterCost, WithRow
<1>2. CASE IsScore(l)
  <2> DEFINE run == RowKey(d, d.dhead, l)
             look == RowKey(d, l.k, l)
             rows == IF d.rows = {} THEN {run} ELSE d.rows
             fresh == look \notin rows
             kept == IF look \in rows THEN rows ELSE rows \cup {run}
  <2>1. AfterCost(d, l) = [d EXCEPT !.fresh = fresh, !.rows = kept]
    BY <1>2 DEF AfterCost, WithRow
  <2> HIDE DEF fresh, kept
  <2>. QED  BY <2>1 DEF IsPIM
<1>. QED  BY <1>1, <1>2

(* The devices that are made have the number and the kind they are made with. *)
LEMMA NewDevices ==
  ASSUME NEW n
  PROVE  /\ IsXPU(Gpu(n)) /\ Gpu(n).num = n /\ Gpu(n).config.kind # "PIM"
         /\ IsXPU(Cpu) /\ Cpu.config.kind = "CPU"
         /\ SameAsGpu.config.kind = "NONE"
BY SimulationAssumption DEF IsXPU, Gpu, Cpu, XPU, SameAsGpu

(* An accelerator of a PIM configuration is of the PIM kind.                 *)
LEMMA NewPim ==
  ASSUME NEW c \in PimConfigs, NEW dhead, NEW rows
  PROVE  PIM(c, dhead, rows).config.kind = "PIM" /\ IsPIM(PIM(c, dhead, rows))
BY SimulationAssumption DEF PIM, IsPIM

(* Whatever is set and asked in whichever order, the model is divided among   *)
(* as many parts as there are GPUs, and the attention device is of the kind   *)
(* that hetero_name says (set_model, set_accelerator, set_xpu).              *)
THEOREM SimulationConsistent == Spec => []Consistent
<1>1. Init => IInv
  BY NewDevices DEF Init, IInv, Consistent, DevicesOK
<1>2. IInv /\ [Next]_vars => IInv'
  <2> SUFFICES ASSUME IInv, [Next]_vars PROVE IInv'
    OBVIOUS
  <2> USE DEF IInv, Consistent, DevicesOK
  <2>1. ASSUME NEW infos \in Models \cup {NoModel}, NEW name \in {"NONE", "CPU"}, New(infos, name)
        PROVE IInv'
    <3>1. acc' = IF name = "CPU" THEN Cpu ELSE SameAsGpu
      BY <2>1 DEF New
    <3>2. hetero' = name /\ gpu' = gpu
      BY <2>1 DEF New
    <3>3. model' = IF infos = NoModel THEN NoModel ELSE [infos |-> infos, tp |-> gpu.num]
      BY <2>1 DEF New
    <3>. QED  BY <3>1, <3>2, <3>3, NewDevices
  <2>2. ASSUME NEW infos \in Models, SetModel(infos)
        PROVE IInv'
    BY <2>2 DEF SetModel
  <2>3. ASSUME NEW infos \in Models, NEW config \in PimConfigs, SetPim(infos, config)
        PROVE IInv'
    BY <2>3, NewPim DEF SetPim
  <2>4. CASE SetCpu
    BY <2>4, NewDevices DEF SetCpu
  <2>5. ASSUME NEW n \in GpuCounts, SetXpu(n)
        PROVE IInv'
    <3>1. gpu' = Gpu(n) /\ acc' = SameAsGpu /\ hetero' = "NONE"
      BY <2>5 DEF SetXpu
    <3>2. model' = IF model = NoModel THEN NoModel ELSE [model EXCEPT !.tp = n]
      BY <2>5 DEF SetXpu
    <3>. QED  BY <3>1, <3>2, NewDevices
  <2>6. CASE SumLayer
    <3>1. gpu' = AfterCost(gpu, work.sum[work.at]) /\ UNCHANGED <<acc, hetero, model>>
      BY <2>6 DEF SumLayer
    <3>. QED  BY <3>1, AfterCostKeepsDevice
  <2>7. CASE GenLayer
    <3> DEFINE l == work.gen[work.stage][work.at]
               onGpu == ~OnAcc(l) \/ acc = SameAsGpu
    <3>1. /\ gpu' = IF onGpu THEN AfterCost(gpu, l) ELSE gpu
          /\ acc' = IF onGpu THEN acc ELSE AfterCost(acc, l)
          /\ UNCHANGED <<hetero, model>>
      BY <2>7 DEF GenLayer
    <3>2. IsXPU(gpu') /\ gpu'.num = gpu.num /\ gpu'.config = gpu.config
      BY <3>1, AfterCostKeepsDevice
    <3>3. /\ acc'.config.kind = acc.config.kind
          /\ \/ acc' = SameAsGpu
             \/ IsXPU(acc') /\ acc'.config.kind # "PIM"
             \/ acc'.config.kind = "PIM" /\ IsPIM(acc')
      BY <3>1, AfterCostKeepsDevice, AfterCostKeepsPim
    <3>. QED  BY <3>1, <3>2, <3>3
  <2>8. CASE \/ \E c \in Calls : Simulate(c)
             \/ EndOfSum \/ EndOfStage \/ NextBatch \/ Fail \/ Report \/ UNCHANGED vars
    <3>1. UNCHANGED <<gpu, acc, hetero, model>>
      BY <2>8 DEF Simulate, EndOfSum, EndOfStage, NextBatch, Fail, Report, vars
    <3>. QED  BY <3>1
  <2>. QED
    BY <2>1, <2>2, <2>3, <2>4, <2>5, <2>6, <2>7, <2>8 DEF Next
<1>. QED  BY <1>1, <1>2, PTL DEF Spec, IInv

---------------------------------------------------------------------------
(* The pipeline, for times of any length.                                   *)

Times == [qkv : Nat, prj : Nat, x2g : Nat, attn : Nat]
HeadsOfGpus ==
  /\ model.infos.heads \in Nat \ {0}
  /\ gpu.num \in Nat
  /\ gpu.num <= model.infos.heads

(* What is left of a time and what is hidden of it are its two parts.        *)
LEMMA ShortAndHidden ==
  ASSUME HeadsOfGpus, NEW a \in Nat
  PROVE  Short(a) \in 0..a /\ Hidden(a) \in 0..a /\ Short(a) + Hidden(a) = a
<1>1. Short(a) \in 0..a
  BY ShareOfNumber DEF Short, HeadsOfGpus
<1>. QED  BY <1>1 DEF Hidden

(* The three ways of _pipeline() to hide times.                             *)
LEMMA PipelinedTimes ==
  ASSUME NEW t \in Times, NEW level \in BOOLEAN
  PROVE  LET fc == t.qkv + t.prj
             p == Pipelined(t, level)
             h == Hidden(t.attn)
         IN /\ ~level => /\ p.qkv = t.qkv /\ p.prj = t.prj
                         /\ p.x2g = IF t.attn > t.x2g THEN Short(t.x2g) ELSE t.x2g - h
            /\ level /\ t.attn > fc =>
                 /\ p.qkv = Short(t.qkv) /\ p.prj = Short(t.prj)
                 /\ p.x2g = IF t.attn > t.x2g THEN Short(t.x2g) ELSE t.x2g - h
            /\ level /\ t.attn <= fc /\ fc > t.x2g =>
                 /\ p.qkv = t.qkv - (3 * h) \div 4 /\ p.prj = t.prj - h \div 4
                 /\ p.x2g = Short(t.x2g)
            /\ level /\ t.attn <= fc /\ fc <= t.x2g =>
                 /\ p.qkv = Short(t.qkv) /\ p.prj = Short(t.prj)
                 /\ p.x2g = t.x2g - h
<1> DEFINE fc == t.qkv + t.prj
<1>1. t = [qkv |-> t.qkv, prj |-> t.prj, x2g |-> t.x2g, attn |-> t.attn]
      /\ t.qkv \in Nat /\ t.prj \in Nat /\ t.x2g \in Nat /\ t.attn \in Nat
  BY DEF Times
<1>2. CASE ~level
  BY <1>1, <1>2 DEF Pipelined
<1>3. CASE level /\ t.attn > fc
  BY <1>1, <1>3 DEF Pipelined
<1>4. CASE level /\ t.attn <= fc
  BY <1>1, <1>4 DEF Pipelined
<1>. QED  BY <1>1, <1>2, <1>3, <1>4

(* Pipelining only shortens times, and only one of the two projections can    *)
(* get a negative one: the one that is shorter than the ratio 3:1 in which     *)
(* the attention is hidden behind them says (_pipeline, lines 147 to 151).   *)
THEOREM PipelineShortensTimes ==
  ASSUME HeadsOfGpus, NEW t \in Times, NEW level \in BOOLEAN
  PROVE  LET p == Pipelined(t, level)
         IN /\ p.qkv <= t.qkv /\ p.prj <= t.prj
            /\ p.x2g \in 0..t.x2g
            /\ p.qkv < 0 => t.qkv < 3 * t.prj
            /\ p.prj < 0 => t.qkv > 3 * t.prj
<1> DEFINE q == t.qkv
           r == t.prj
           x == t.x2g
           a == t.attn
           h == Hidden(a)
           sq == Short(q)
           sr == Short(r)
           sx == Short(x)
           pq == Pipelined(t, level).qkv
           pr == Pipelined(t, level).prj
           px == Pipelined(t, level).x2g
<1> SUFFICES /\ pq <= q /\ pr <= r
             /\ px \in 0..x
             /\ pq < 0 => q < 3 * r
             /\ pr < 0 => q > 3 * r
  OBVIOUS
<1>1. q \in Nat /\ r \in Nat /\ x \in Nat /\ a \in Nat
  BY DEF Times
<1>2. h \in 0..a /\ sq \in 0..q /\ sr \in 0..r /\ sx \in 0..x
  BY <1>1, ShortAndHidden
<1>3. ~level => pq = q /\ pr = r /\ px = IF a > x THEN sx ELSE x - h
  BY PipelinedTimes
<1>4. level /\ a > q + r => pq = sq /\ pr = sr /\ px = IF a > x THEN sx ELSE x - h
  BY PipelinedTimes
<1>5. level /\ a <= q + r /\ q + r > x =>
        pq = q - (3 * h) \div 4 /\ pr = r - h \div 4 /\ px = sx
  BY PipelinedTimes
<1>6. level /\ a <= q + r /\ q + r <= x => pq = sq /\ pr = sr /\ px = x - h
  BY PipelinedTimes
<1> HIDE DEF q, r, x, a, h, sq, sr, sx, pq, pr, px
<1>7. CASE ~level
  BY <1>1, <1>2, <1>3, <1>7
<1>8. CASE level /\ a > q + r
  BY <1>1, <1>2, <1>4, <1>8
<1>9. CASE level /\ a <= q + r /\ q + r > x
  BY <1>1, <1>2, <1>5, <1>9
<1>10. CASE level /\ a <= q + r /\ q + r <= x
  BY <1>1, <1>2, <1>6, <1>10
<1>. QED  BY <1>1, <1>7, <1>8, <1>9, <1>10

(* The branches of _pipeline() compute an overlap: the time of a pipelined     *)
(* block is the longest of the stages that overlap, and of the others what    *)
(* one head needs; dividing by 4 may lose one unit.                          *)
THEOREM PipelineIsOverlap ==
  ASSUME HeadsOfGpus, NEW t \in Times
  PROVE  LET fc == t.qkv + t.prj
             Total(p) == p.qkv + p.prj + p.x2g + t.attn
             projections == Short(t.qkv) + Short(t.prj)
         IN /\ t.attn > t.x2g => Total(Pipelined(t, FALSE)) = fc + t.attn + Short(t.x2g)
            /\ t.attn <= t.x2g => Total(Pipelined(t, FALSE)) = fc + t.x2g + Short(t.attn)
            /\ t.attn > fc /\ t.attn > t.x2g =>
                 Total(Pipelined(t, TRUE)) = t.attn + projections + Short(t.x2g)
            /\ t.x2g >= fc /\ t.x2g >= t.attn =>
                 Total(Pipelined(t, TRUE)) = t.x2g + projections + Short(t.attn)
            /\ fc >= t.attn /\ fc > t.x2g =>
                 Total(Pipelined(t, TRUE)) - (fc + Short(t.x2g) + Short(t.attn)) \in {0, 1}
<1> DEFINE q == t.qkv
           r == t.prj
           x == t.x2g
           a == t.attn
           h == Hidden(a)
           sq == Short(q)
           sr == Short(r)
           sx == Short(x)
           sa == Short(a)
           p == Pipelined(t, TRUE)
           pq == p.qkv
           pr == p.prj
           px == p.x2g
           l == Pipelined(t, FALSE)
           lq == l.qkv
           lr == l.prj
           lx == l.x2g
<1> SUFFICES /\ a > x => lq + lr + lx + a = (q + r) + a + sx
             /\ a <= x => lq + lr + lx + a = (q + r) + x + sa
             /\ a > q + r /\ a > x => pq + pr + px + a = a + (sq + sr) + sx
             /\ x >= q + r /\ x >= a => pq + pr + px + a = x + (sq + sr) + sa
             /\ q + r >= a /\ q + r > x => (pq + pr + px + a) - ((q + r) + sx + sa) \in {0, 1}
  OBVIOUS
<1>1. q \in Nat /\ r \in Nat /\ x \in Nat /\ a \in Nat
  BY DEF Times
<1>2. /\ h \in Nat /\ sq \in Nat /\ sr \in Nat /\ sx \in Nat /\ sa \in Nat
      /\ sa + h = a
  BY <1>1, ShortAndHidden
<1>3. lq = q /\ lr = r /\ lx = IF a > x THEN sx ELSE x - h
  BY PipelinedTimes
<1>4. a > q + r /\ a > x => pq = sq /\ pr = sr /\ px = sx
  BY PipelinedTimes
<1>5. ASSUME x >= q + r, x >= a
      PROVE  pq = sq /\ pr = sr /\ px = x - h
  <2>1. q + r <= x /\ ~(a > x) /\ (a > q + r \/ a <= q + r)
    BY <1>1, <1>5
  <2>2. a > q + r => pq = sq /\ pr = sr /\ px = IF a > x THEN sx ELSE x - h
    BY PipelinedTimes
  <2>3. a <= q + r /\ q + r <= x => pq = sq /\ pr = sr /\ px = x - h
    BY PipelinedTimes
  <2>. QED  BY <2>1, <2>2, <2>3
<1>6. q + r >= a /\ q + r > x => pq = q - (3 * h) \div 4 /\ pr = r - h \div 4 /\ px = sx
  BY <1>1, PipelinedTimes
<1> HIDE DEF q, r, x, a, h, sq, sr, sx, sa, p, pq, pr, px, l, lq, lr, lx
<1>7. /\ a > x => lq + lr + lx + a = (q + r) + a + sx
      /\ a <= x => lq + lr + lx + a = (q + r) + x + sa
  BY <1>1, <1>2, <1>3
<1>8. a > q + r /\ a > x => pq + pr + px + a = a + (sq + sr) + sx
  BY <1>1, <1>2, <1>4
<1>9. x >= q + r /\ x >= a => pq + pr + px + a = x + (sq + sr) + sa
  BY <1>1, <1>2, <1>5
<1>10. q + r >= a /\ q + r > x => (pq + pr + px + a) - ((q + r) + sx + sa) \in {0, 1}
  BY <1>1, <1>2, <1>6
<1>. QED  BY <1>7, <1>8, <1>9, <1>10

---------------------------------------------------------------------------
(* Sums over finite sets. SumFunction folds over a set in an order that CHOOSE *)
(* picks, so everything is shown of one set of sums and of any order.       *)

Some(s) == CHOOSE x \in s : TRUE

(* F gives every set of indices the sum of f over it, taken off one by one.   *)
TakesOne(F, f, T) ==
  \A s \in SUBSET T : F[s] = IF s = {} THEN 0 ELSE f[Some(s)] + F[s \ {Some(s)}]

SumsOf(F, f, T) ==
  /\ f \in [T -> Int]
  /\ F \in [SUBSET T -> Int]
  /\ TakesOne(F, f, T)

(* CHOOSE takes an element.                                                 *)
LEMMA SomeIn == ASSUME NEW s, s # {} PROVE Some(s) \in s
BY DEF Some

(* A finite set loses an element when one is taken out.                      *)
LEMMA OneLess ==
  ASSUME NEW s, IsFiniteSet(s), NEW x \in s
  PROVE  /\ IsFiniteSet(s \ {x})
         /\ Cardinality(s) \in Nat \ {0}
         /\ Cardinality(s \ {x}) = Cardinality(s) - 1
BY FS_RemoveElement, FS_CardinalityType, FS_EmptySet

(* A holds a set whenever it has all smaller ones.                          *)
Hereditary(A, T) ==
  \A s \in SUBSET T : (\A x \in s : \A t \in SUBSET (s \ {x}) : t \in A) => s \in A

(* What holds for a set whenever it holds for all smaller ones, holds for all *)
(* subsets of a finite set.                                                *)
LEMMA SubsetInduction ==
  ASSUME NEW T, IsFiniteSet(T), NEW A, Hereditary(A, T)
  PROVE  SUBSET T \subseteq A
<1> DEFINE N == {n \in Nat : \A s \in SUBSET T : Cardinality(s) <= n => s \in A}
<1>0. \A s \in SUBSET T : IsFiniteSet(s) /\ Cardinality(s) \in Nat
  BY FS_Subset, FS_CardinalityType
<1>1. 0 \in N
  <2>1. ASSUME NEW s \in SUBSET T, Cardinality(s) <= 0 PROVE s = {}
    BY <1>0, <2>1, FS_EmptySet
  <2>2. {} \in A
    BY DEF Hereditary
  <2>. QED  BY <2>1, <2>2
<1>2. ASSUME NEW n \in Nat, n \in N PROVE n + 1 \in N
  <2>1. ASSUME NEW s \in SUBSET T, Cardinality(s) <= n + 1 PROVE s \in A
    <3>1. ASSUME NEW x \in s, NEW t \in SUBSET (s \ {x}) PROVE t \in A
      <4>1. IsFiniteSet(s \ {x}) /\ Cardinality(s \ {x}) <= n
        BY <1>0, <2>1, OneLess
      <4>2. Cardinality(t) <= Cardinality(s \ {x})
        BY <4>1, FS_Subset
      <4>3. t \in SUBSET T /\ Cardinality(t) \in Nat /\ Cardinality(s \ {x}) \in Nat
        BY <1>0
      <4>. QED  BY <1>2, <4>1, <4>2, <4>3
    <3>. QED  BY <3>1 DEF Hereditary
  <2>. QED  BY <2>1
<1>3. Nat \subseteq N
  <2> HIDE DEF N
  <2>. QED  BY <1>1, <1>2, NatInductionSet
<1>. QED  BY <1>0, <1>3

(* There is a function that gives every subset its sum.                     *)
LEMMA SumsExist ==
  ASSUME NEW T, IsFiniteSet(T), NEW f \in [T -> Int]
  PROVE  \E F : SumsOf(F, f, T)
<1> DEFINE S == [SUBSET T -> Int]
           base == [s \in SUBSET T |-> 0]
           Next1(F) == [s \in SUBSET T |-> IF s = {} THEN 0 ELSE f[Some(s)] + F[s \ {Some(s)}]]
           step == [n \in Nat |-> [F \in S |-> Next1(F)]]
<1>1. ASSUME NEW F \in S PROVE Next1(F) \in S
  <2>1. ASSUME NEW s \in SUBSET T, s # {} PROVE f[Some(s)] + F[s \ {Some(s)}] \in Int
    BY <2>1, SomeIn
  <2>. QED  BY <2>1
<1>2. step \in StepsOf(S) /\ base \in S
  <2> HIDE DEF Next1, S
  <2>1. step \in StepsOf(S)
    BY <1>1 DEF StepsOf
  <2>. QED  BY <2>1 DEF S
<1>3. PICK g \in [Nat -> S] : Recurs(g, base, step)
  <2> HIDE DEF S, base, step
  <2>. QED  BY <1>2, RecursiveFunctionExists
<1>4. \A n \in Nat : g[n] \in S /\ g[n + 1] = Next1(g[n])
  <2> SUFFICES ASSUME NEW n \in Nat PROVE g[n] \in S /\ g[n + 1] = Next1(g[n])
    OBVIOUS
  <2>1. g[n] \in S /\ g[n + 1] = step[n + 1][g[n]]
    <3> HIDE DEF S, step
    <3>. QED  BY <1>3 DEF Recurs
  <2> HIDE DEF S, Next1
  <2>. QED  BY <2>1
<1> DEFINE A == {n \in Nat : \A s \in SUBSET T : Cardinality(s) <= n => g[n + 1][s] = g[n][s]}
<1>5. 0 \in A
  <2>1. ASSUME NEW s \in SUBSET T, Cardinality(s) <= 0 PROVE g[1][s] = g[0][s]
    <3>1. s = {}
      BY <2>1, FS_Subset, FS_CardinalityType, FS_EmptySet
    <3>2. g[0] = base
      <4> HIDE DEF S, base, step
      <4>. QED  BY <1>3 DEF Recurs
    <3>3. g[1] = Next1(g[0])
      <4> HIDE DEF S, Next1
      <4>1. 0 \in Nat /\ 0 + 1 = 1
        OBVIOUS
      <4>. QED  BY <1>4, <4>1
    <3>4. g[1][s] = 0
      BY <3>1, <3>3
    <3>5. g[0][s] = 0
      BY <3>1, <3>2
    <3>. QED  BY <3>4, <3>5
  <2>. QED  BY <2>1
<1>6. ASSUME NEW n \in Nat, n \in A PROVE n + 1 \in A
  <2>1. ASSUME NEW s \in SUBSET T, Cardinality(s) <= n + 1 PROVE g[(n + 1) + 1][s] = g[n + 1][s]
    <3>1. g[(n + 1) + 1] = Next1(g[n + 1]) /\ g[n + 1] = Next1(g[n])
      <4> HIDE DEF S, Next1
      <4>. QED  BY <1>4
    <3>2. CASE s = {}
      BY <3>1, <3>2
    <3>3. CASE s # {}
      <4> DEFINE r == s \ {Some(s)}
      <4>1. r \in SUBSET T /\ Cardinality(r) <= n
        <5>1. IsFiniteSet(s)
          BY FS_Subset
        <5>2. Some(s) \in s
          BY <3>3, SomeIn
        <5>3. Cardinality(s) \in Nat /\ Cardinality(r) = Cardinality(s) - 1
          BY <5>1, <5>2, OneLess
        <5>. QED  BY <5>3, <2>1
      <4>2. g[n + 1][r] = g[n][r]
        BY <1>6, <4>1
      <4> HIDE DEF r
      <4>3. g[(n + 1) + 1][s] = f[Some(s)] + g[n + 1][r] /\ g[n + 1][s] = f[Some(s)] + g[n][r]
        BY <3>1, <3>3 DEF r
      <4>. QED  BY <4>2, <4>3
    <3>. QED  BY <3>2, <3>3
  <2>. QED  BY <2>1
<1>7. Nat \subseteq A
  <2> HIDE DEF A
  <2>. QED  BY <1>5, <1>6, NatInductionSet
<1>8. PICK n \in Nat : n = Cardinality(T)
  BY FS_CardinalityType
<1>9. \A s \in SUBSET T : Cardinality(s) <= n
  BY <1>8, FS_Subset
<1>10. \A s \in SUBSET T : g[n + 1][s] = g[n][s]
  BY <1>7, <1>8, <1>9
<1>11. g[n] \in [SUBSET T -> Int]
  BY <1>4
<1>12. \A s \in SUBSET T : g[n + 1][s] = IF s = {} THEN 0 ELSE f[Some(s)] + g[n][s \ {Some(s)}]
  <2>1. g[n + 1] = Next1(g[n])
    BY <1>4
  <2>. QED  BY <2>1
<1>. QED  BY <1>10, <1>11, <1>12 DEF SumsOf, TakesOne

(* Two that give sums of the same values agree.                            *)
LEMMA SumsAgree ==
  ASSUME NEW T, IsFiniteSet(T), NEW f, NEW F, NEW G, TakesOne(F, f, T), TakesOne(G, f, T)
  PROVE  \A s \in SUBSET T : F[s] = G[s]
<1> DEFINE A == {s \in SUBSET T : F[s] = G[s]}
<1>1. ASSUME NEW s \in SUBSET T, \A x \in s : \A t \in SUBSET (s \ {x}) : t \in A PROVE s \in A
  <2>1. s # {} => s \ {Some(s)} \in A
    BY <1>1, SomeIn
  <2>. QED  BY <2>1 DEF TakesOne
<1>3. SUBSET T \subseteq A
  <2> HIDE DEF A
  <2>1. Hereditary(A, T)
    BY <1>1 DEF Hereditary
  <2>. QED  BY <2>1, SubsetInduction
<1>. QED  BY <1>3

(* SumFunction takes such a function at the set of all indices.             *)
LEMMA SumIsSums ==
  ASSUME NEW T, IsFiniteSet(T), NEW f \in [T -> Int]
  PROVE  \E F : SumsOf(F, f, T) /\ SumFunction(f) = F[T]
<1> DEFINE Def(g) == [s \in SUBSET T |-> IF s = {} THEN 0 ELSE f[Some(s)] + g[s \ {Some(s)}]]
           sums == CHOOSE g : g = Def(g)
<1>1. PICK F : SumsOf(F, f, T)
  BY SumsExist
<1>2. F = Def(F)
  BY <1>1 DEF SumsOf, TakesOne
<1>3. sums = Def(sums)
  <2> HIDE DEF Def
  <2>. QED  BY <1>2
<1>4. SumFunction(f) = sums[T]
  BY DEF SumFunction, SumFunctionOnSet, FoldFunctionOnSet, MapThenFoldSet, Some
<1>5. \A s \in SUBSET T : sums[s] = IF s = {} THEN 0 ELSE f[Some(s)] + sums[s \ {Some(s)}]
  <2> HIDE DEF sums
  <2>. QED  BY <1>3
<1>6. TakesOne(sums, f, T) /\ TakesOne(F, f, T)
  <2> HIDE DEF sums
  <2>. QED  BY <1>1, <1>5 DEF SumsOf, TakesOne
<1>7. F[T] = sums[T]
  <2> HIDE DEF sums
  <2>. QED  BY <1>6, SumsAgree
<1>. QED  BY <1>1, <1>4, <1>7

(* The sum is a number ...                                                 *)
LEMMA SumIsInt ==
  ASSUME NEW T, IsFiniteSet(T), NEW f \in [T -> Int]
  PROVE  SumFunction(f) \in Int
<1>1. PICK F : SumsOf(F, f, T) /\ SumFunction(f) = F[T]
  BY SumIsSums
<1>. QED  BY <1>1 DEF SumsOf

(* ... 0 if there is nothing to add ...                                     *)
LEMMA SumOfNone ==
  ASSUME NEW f \in [{} -> Int]
  PROVE  SumFunction(f) = 0
<1>1. IsFiniteSet({})
  BY FS_EmptySet
<1>2. PICK F : SumsOf(F, f, {}) /\ SumFunction(f) = F[{}]
  BY <1>1, SumIsSums
<1>. QED  BY <1>2 DEF SumsOf, TakesOne

(* ... and it does not matter which index is added last.                     *)
LEMMA SumsTakeAny ==
  ASSUME NEW T, IsFiniteSet(T), NEW f, NEW F, SumsOf(F, f, T), NEW e \in T
  PROVE  \A s \in SUBSET T : e \in s => F[s] = f[e] + F[s \ {e}]
<1> DEFINE A == {s \in SUBSET T : \A y \in s : F[s] = f[y] + F[s \ {y}]}
<1>1. ASSUME NEW s \in SUBSET T, \A x \in s : \A t \in SUBSET (s \ {x}) : t \in A PROVE s \in A
  <2> SUFFICES ASSUME NEW y \in s PROVE F[s] = f[y] + F[s \ {y}]
    OBVIOUS
  <2>1. PICK p \in s : p = Some(s)
    BY SomeIn
  <2>2. F[s] = f[p] + F[s \ {p}]
    BY <2>1 DEF SumsOf, TakesOne
  <2>3. CASE y # p
    <3> DEFINE u == s \ {p}
               v == s \ {y}
    <3>1. u \in A /\ v \in A /\ y \in u /\ p \in v
      BY <1>1, <2>3
    <3>2. F[u] = f[y] + F[u \ {y}] /\ F[v] = f[p] + F[v \ {p}]
      BY <3>1
    <3>3. F[u \ {y}] = F[v \ {p}]
      <4>1. u \ {y} = v \ {p}
        OBVIOUS
      <4> HIDE DEF u, v
      <4>. QED  BY <4>1, Zenon
    <3>4. f[y] \in Int /\ f[p] \in Int /\ F[u \ {y}] \in Int
      BY DEF SumsOf
    <3> HIDE DEF u, v
    <3>5. F[s] = f[p] + F[u] /\ F[s \ {y}] = F[v]
      BY <2>2, Zenon DEF u, v
    <3>. QED  BY <3>2, <3>3, <3>4, <3>5
  <2>4. CASE y = p
    BY <2>2, <2>4
  <2>. QED  BY <2>3, <2>4
<1>2. SUBSET T \subseteq A
  <2> HIDE DEF A
  <2>1. Hereditary(A, T)
    BY <1>1 DEF Hereditary
  <2>. QED  BY <2>1, SubsetInduction
<1>. QED  BY <1>2

(* The sums over a part of the indices are those of the restriction.         *)
LEMMA SumsOfPart ==
  ASSUME NEW T, IsFiniteSet(T), NEW f, NEW F, SumsOf(F, f, T), NEW r \in SUBSET T
  PROVE  SumFunction([x \in r |-> f[x]]) = F[r]
<1> DEFINE g == [x \in r |-> f[x]]
<1>1. IsFiniteSet(r) /\ g \in [r -> Int]
  BY FS_Subset DEF SumsOf
<1>2. PICK G : SumsOf(G, g, r) /\ SumFunction(g) = G[r]
  <2> HIDE DEF g
  <2>. QED  BY <1>1, SumIsSums
<1>3. TakesOne(F, g, r)
  <2>1. \A s \in SUBSET r : s # {} => Some(s) \in r
    BY SomeIn
  <2>. QED  BY <2>1 DEF SumsOf, TakesOne
<1>4. F[r] = G[r]
  <2> HIDE DEF g
  <2>. QED  BY <1>1, <1>2, <1>3, SumsAgree DEF SumsOf
<1>. QED  BY <1>2, <1>4

(* Any index may be added last.                                            *)
LEMMA SumWithout ==
  ASSUME NEW T, IsFiniteSet(T), NEW f \in [T -> Int], NEW x \in T
  PROVE  SumFunction(f) = f[x] + SumFunction([y \in T \ {x} |-> f[y]])
<1>1. PICK F : SumsOf(F, f, T) /\ SumFunction(f) = F[T]
  BY SumIsSums
<1>2. F[T] = f[x] + F[T \ {x}]
  <2>1. \A s \in SUBSET T : x \in s => F[s] = f[x] + F[s \ {x}]
    BY <1>1, SumsTakeAny
  <2>. QED  BY <2>1
<1>3. SumFunction([y \in T \ {x} |-> f[y]]) = F[T \ {x}]
  <2>1. T \ {x} \in SUBSET T
    OBVIOUS
  <2>. QED  BY <1>1, <2>1, SumsOfPart
<1>. QED  BY <1>1, <1>2, <1>3

(* Of f, all numbers but that of x.                                          *)
Rest(f, x) == [y \in DOMAIN f \ {x} |-> f[y]]

(* Any index may be added last, the rest being named.                       *)
LEMMA SumAndRest ==
  ASSUME NEW T, IsFiniteSet(T), NEW f \in [T -> Int], NEW x \in T
  PROVE  SumFunction(f) = f[x] + SumFunction(Rest(f, x))
<1>1. Rest(f, x) = [y \in T \ {x} |-> f[y]]
  BY DEF Rest
<1>2. SumFunction(f) = f[x] + SumFunction([y \in T \ {x} |-> f[y]])
  BY SumWithout
<1>. QED  BY <1>1, <1>2

(* The sum of sums is the sum of what is added.                             *)
LEMMA SumOfSums ==
  ASSUME NEW T, IsFiniteSet(T), NEW f \in [T -> Int], NEW g \in [T -> Int], NEW h \in [T -> Int],
         \A x \in T : h[x] = f[x] + g[x]
  PROVE  SumFunction(h) = SumFunction(f) + SumFunction(g)
<1>1. PICK F : SumsOf(F, f, T) /\ SumFunction(f) = F[T]
  BY SumIsSums
<1>2. PICK G : SumsOf(G, g, T) /\ SumFunction(g) = G[T]
  BY SumIsSums
<1>3. PICK H : SumsOf(H, h, T) /\ SumFunction(h) = H[T]
  BY SumIsSums
<1> DEFINE A == {s \in SUBSET T : H[s] = F[s] + G[s]}
<1>4. ASSUME NEW s \in SUBSET T, \A x \in s : \A t \in SUBSET (s \ {x}) : t \in A PROVE s \in A
  <2>1. CASE s = {}
    <3>1. F[s] = 0 /\ G[s] = 0 /\ H[s] = 0
      BY <2>1, <1>1, <1>2, <1>3 DEF SumsOf, TakesOne
    <3>. QED  BY <3>1
  <2>2. CASE s # {}
    <3>1. PICK p \in s : p = Some(s)
      BY <2>2, SomeIn
    <3> DEFINE r == s \ {p}
    <3>2. r \in A
      BY <1>4
    <3>3. H[r] = F[r] + G[r]
      BY <3>2
    <3>4. F[s] = f[p] + F[r] /\ G[s] = g[p] + G[r] /\ H[s] = h[p] + H[r]
      BY <1>1, <1>2, <1>3, <3>1, <3>2 DEF SumsOf, TakesOne
    <3>5. h[p] = f[p] + g[p] /\ f[p] \in Int /\ g[p] \in Int /\ F[r] \in Int /\ G[r] \in Int
      BY <1>1, <1>2 DEF SumsOf
    <3> HIDE DEF r
    <3>. QED  BY <3>3, <3>4, <3>5
  <2>. QED  BY <2>1, <2>2
<1>5. SUBSET T \subseteq A
  <2> HIDE DEF A
  <2>1. Hereditary(A, T)
    BY <1>4 DEF Hereditary
  <2>. QED  BY <2>1, SubsetInduction
<1>. QED  BY <1>1, <1>2, <1>3, <1>5

(* t is taken before u: it is cheaper, or as cheap and found first.          *)
NotAfter(t, u, a, b) ==
  \/ a[t] * b[u] < a[u] * b[t]
  \/ a[t] * b[u] = a[u] * b[t] /\ ~Before(u, t)

(* Of finitely many tiles whose costs are fractions one is the first of the   *)
(* cheapest.                                                               *)
LEMMA CheapestExists ==
  ASSUME NEW S \in SUBSET (Positive \X Positive), IsFiniteSet(S), S # {},
         NEW a \in [S -> Nat], NEW b \in [S -> Positive]
  PROVE  \E t \in S : \A u \in S \ {t} : NotAfter(t, u, a, b)
<1> DEFINE First(t, s) == \A u \in s \ {t} : NotAfter(t, u, a, b)
           A == {s \in SUBSET S : s # {} => \E t \in s : First(t, s)}
<1>1. ASSUME NEW t \in S, NEW u \in S
      PROVE  /\ a[t] \in Nat /\ b[t] \in Positive
             /\ a[t] * b[u] \in Nat
             /\ t = u \/ NotAfter(t, u, a, b) \/ NotAfter(u, t, a, b)
  <2>1. a[t] \in Nat /\ b[t] \in Positive /\ a[u] \in Nat /\ b[u] \in Positive
    OBVIOUS
  <2>2. a[t] * b[u] \in Nat /\ a[u] * b[t] \in Nat
    BY <2>1 DEF Positive
  <2>3. ~Before(t, u) \/ ~Before(u, t)
    BY DEF Before, Positive
  <2> DEFINE x == a[t] * b[u]
             y == a[u] * b[t]
  <2>4. x \in Nat /\ y \in Nat
    BY <2>2
  <2>5. /\ NotAfter(t, u, a, b) <=> x < y \/ (x = y /\ ~Before(u, t))
        /\ NotAfter(u, t, a, b) <=> y < x \/ (y = x /\ ~Before(t, u))
    BY DEF NotAfter
  <2> HIDE DEF x, y
  <2>6. x < y \/ y < x \/ x = y
    BY <2>4
  <2>7. NotAfter(t, u, a, b) \/ NotAfter(u, t, a, b)
    BY <2>3, <2>5, <2>6
  <2>. QED  BY <2>1, <2>2, <2>7
<1>2. ASSUME NEW t \in S, NEW u \in S, NEW v \in S, NotAfter(t, u, a, b), NotAfter(u, v, a, b)
      PROVE  NotAfter(t, v, a, b)
  <2> DEFINE p == a[t] * b[u]
             q == a[u] * b[t]
             x == a[u] * b[v]
             y == a[v] * b[u]
             c == a[t] * b[v]
             d == a[v] * b[t]
  <2>1. p \in Nat /\ q \in Nat /\ x \in Nat /\ y \in Nat /\ c \in Nat /\ d \in Nat
    BY <1>1
  <2>2. /\ p < q \/ (p = q /\ ~Before(u, t))
        /\ x < y \/ (x = y /\ ~Before(v, u))
    BY <1>2 DEF NotAfter
  <2>3. c <= d /\ (p < q \/ x < y => c < d)
    <3>1. p <= q /\ x <= y
      BY <2>1, <2>2
    <3>. QED  BY <1>1, <3>1, FractionsTransitive
  <2>4. ~Before(u, t) /\ ~Before(v, u) => ~Before(v, t)
    BY DEF Before, Positive
  <2> HIDE DEF p, q, x, y
  <2>5. c < d \/ (c = d /\ ~Before(v, t))
    BY <2>1, <2>2, <2>3, <2>4
  <2>. QED  BY <2>5 DEF NotAfter
<1>3. ASSUME NEW s \in SUBSET S, \A x \in s : \A r \in SUBSET (s \ {x}) : r \in A PROVE s \in A
  <2> SUFFICES ASSUME s # {} PROVE \E t \in s : First(t, s)
    OBVIOUS
  <2>1. PICK p \in s : TRUE
    OBVIOUS
  <2>2. s \ {p} \in A
    BY <1>3
  <2>3. CASE s \ {p} = {}
    BY <2>3
  <2>4. CASE s \ {p} # {}
    <3>1. PICK t \in s \ {p} : First(t, s \ {p})
      BY <2>2, <2>4
    <3>2. CASE NotAfter(t, p, a, b)
      BY <3>1, <3>2
    <3>3. CASE NotAfter(p, t, a, b)
      <4>1. ASSUME NEW u \in s \ {p} PROVE NotAfter(p, u, a, b)
        <5>1. u = t \/ NotAfter(t, u, a, b)
          BY <3>1
        <5>. QED  BY <1>2, <3>3, <5>1
      <4>. QED  BY <4>1
    <3>. QED  BY <1>1, <3>2, <3>3
  <2>. QED  BY <2>3, <2>4
<1>4. SUBSET S \subseteq A
  <2> HIDE DEF A
  <2>1. Hereditary(A, S)
    BY <1>3 DEF Hereditary
  <2>. QED  BY <2>1, SubsetInduction
<1>. QED  BY <1>4

---------------------------------------------------------------------------
(* The types of layers and devices, and the tiles of a matrix multiplication. *)

LayerNames ==
  {"qkv", "score", "softmax", "context", "proj", "comm_g2g", "comm_x2g", "norm1", "norm2",
   "ff1", "ff2", "ff3", "glu", "relu", "gelu"}

(* A layer with sizes.                                                      *)
LayerRec ==
  [name : LayerNames, type : LayerTypes, m : Positive, n : Positive, k : Positive, numOp : Positive,
   dbyte : {1, 2}, bound : {"compute", "memory"}, time : Int, energy : [1..6 -> Int]]

Tile == Positive \X Positive

(* Division that rounds up, of natural numbers.                             *)
LEMMA CeilDivType ==
  ASSUME NEW a \in Nat, NEW b \in Positive
  PROVE  CeilDiv(a, b) \in Nat /\ (a > 0 => CeilDiv(a, b) \in Positive)
<1>1. a + b - 1 \in Nat
  BY DEF Positive
<1>2. (a + b - 1) \div b \in Nat
  BY <1>1 DEF Positive
<1>3. ASSUME a > 0 PROVE (a + b - 1) \div b # 0
  <2> DEFINE c == a + b - 1
             q == c \div b
  <2>1. c \in Nat /\ b \in Nat \ {0} /\ c >= b
    BY <1>1, <1>3 DEF Positive
  <2> HIDE DEF c
  <2>2. c = b * q + (c % b) /\ c % b \in 0..(b - 1)
    BY <2>1, Remainder
  <2>3. q = 0 => b * q = 0
    BY <2>1
  <2>. QED  BY <2>1, <2>2, <2>3 DEF c
<1>. QED  BY <1>2, <1>3 DEF CeilDiv, Positive

(* Products of numbers that are not zero are not zero.                      *)
LEMMA TimesType ==
  /\ \A a, b \in Nat : a * b \in Nat /\ a + b \in Nat
  /\ \A a, b \in Positive : a * b \in Positive /\ a + b \in Positive
  /\ Positive \subseteq Nat /\ Nat \subseteq Int
<1>1. \A a, b \in Nat \ {0} : a * b # 0
  OBVIOUS
<1>. QED  BY <1>1 DEF Positive

(* The fields of a layer.                                                   *)
LEMMA LayerSizes ==
  ASSUME NEW l \in LayerRec
  PROVE  /\ l.m \in Positive /\ l.n \in Positive /\ l.k \in Positive /\ l.numOp \in Positive
         /\ l.dbyte \in Positive /\ l.dbyte \in {1, 2} /\ l.type \in LayerTypes
         /\ l.m \in Nat /\ l.n \in Nat /\ l.k \in Nat /\ l.numOp \in Nat /\ l.dbyte \in Nat
         /\ l.time \in Int /\ l.energy \in [1..6 -> Int] /\ l.bound \in {"compute", "memory"}
BY DEF LayerRec, Positive

(* The traffic, and what it costs.                                          *)
LEMMA TrafficType ==
  ASSUME NEW l \in LayerRec, NEW t \in Tile
  PROVE  /\ Traffic(l, t) \in Nat \X Nat \X Nat
         /\ Total3(Traffic(l, t)) \in Nat
         /\ ThreadBlocks(l, t) \in Positive
<1>1. t[1] \in Positive /\ t[2] \in Positive
  BY DEF Tile
<1>2. /\ CeilDiv(l.n, t[2]) \in Positive /\ CeilDiv(l.m, t[1]) \in Positive
      /\ CeilDiv(l.n, t[2]) \in Nat /\ CeilDiv(l.m, t[1]) \in Nat
  <2>1. l.n \in Nat /\ l.m \in Nat /\ l.n > 0 /\ l.m > 0
    BY LayerSizes DEF Positive
  <2>. QED  BY <1>1, <2>1, CeilDivType
<1>3. l.dbyte * l.numOp \in Nat
  BY LayerSizes, TimesType
<1>4. CeilDiv(l.n, t[2]) * l.m * l.k * (l.dbyte * l.numOp) \in Nat
  BY LayerSizes, TimesType, <1>2, <1>3
<1>5. CeilDiv(l.m, t[1]) * l.n * l.k * (l.dbyte * l.numOp) \in Nat
  BY LayerSizes, TimesType, <1>2, <1>3
<1>6. l.m * l.n * (l.dbyte * l.numOp) \in Nat
  BY LayerSizes, TimesType, <1>3
<1>7. Traffic(l, t) \in Nat \X Nat \X Nat
  BY <1>4, <1>5, <1>6 DEF Traffic
<1>8. Total3(Traffic(l, t)) \in Nat
  BY <1>7 DEF Total3
<1>9. ThreadBlocks(l, t) \in Positive
  <2>1. CeilDiv(l.m, t[1]) * CeilDiv(l.n, t[2]) \in Positive /\ 1 \in Positive
    BY <1>2, TimesType DEF Positive
  <2>2. \A x \in Positive : l.numOp * x \in Positive
    BY LayerSizes, TimesType
  <2>. QED  BY <2>1, <2>2 DEF ThreadBlocks
<1>. QED  BY <1>7, <1>8, <1>9

(* A device of which the rates are positive.                                *)
XpuConfigs == {GpuConfig, CpuConfig}

(* What is assumed of the configurations of the GPUs and the CPU.           *)
LEMMA ConfigTypes ==
  ASSUME NEW c \in XpuConfigs
  PROVE  /\ c.cores \in Positive /\ c.flops \in Positive /\ c.bw \in Positive /\ c.io \in Positive
         /\ c.l1 \in Nat /\ c.l2 \in Nat /\ c.l2bw \in Nat /\ c.l1 >= 1152
         /\ c.energy.mem \in Nat /\ c.energy.alu \in Nat
BY DeviceAssumption DEF XpuConfigs, Positive

(* The waves of thread blocks are numbers.                                  *)
LEMMA WavesType ==
  ASSUME NEW d, d.config \in XpuConfigs, NEW l \in LayerRec, NEW t \in Tile
  PROVE  Waves(d, l, t) \in Positive
<1>1. ThreadBlocks(l, t) \in Nat /\ ThreadBlocks(l, t) > 0 /\ d.config.cores \in Positive
  BY TrafficType, ConfigTypes DEF Positive
<1>2. CeilDiv(ThreadBlocks(l, t), d.config.cores) \in Positive
  BY <1>1, CeilDivType
<1>. QED  BY <1>1, <1>2, TimesType DEF Waves

L1Tiles(d, l) ==
  {t \in {Least2(tm, l.m) : tm \in TRange} \X {Least2(tn, l.n) : tn \in TRange} : L1Fits(d, l, t)}

(* There is a tile that fits in the L1 cache: the smallest one does.        *)
LEMMA L1TilesExist ==
  ASSUME NEW d, d.config \in XpuConfigs, NEW l \in LayerRec
  PROVE  /\ L1Tiles(d, l) \in SUBSET Tile /\ IsFiniteSet(L1Tiles(d, l)) /\ L1Tiles(d, l) # {}
         /\ \A t \in L1Tiles(d, l) : t[1] <= l.m /\ t[2] <= l.n
<1> DEFINE M == {Least2(tm, l.m) : tm \in TRange}
           N == {Least2(tn, l.n) : tn \in TRange}
<1>0. l.m \in Nat \ {0} /\ l.n \in Nat \ {0}
  BY LayerSizes DEF Positive
<1>1. /\ \A x \in M : x \in Positive /\ x <= l.m
      /\ \A x \in N : x \in Positive /\ x <= l.n
  BY <1>0 DEF Least2, TRange, Positive
<1>2. IsFiniteSet(M \X N)
  <2>1. IsFiniteSet(1..l.m) /\ IsFiniteSet(1..l.n)
    BY <1>0, 1 \in Int, l.m \in Int, l.n \in Int, FS_Interval
  <2>2. M \subseteq 1..l.m /\ N \subseteq 1..l.n
    BY <1>0, <1>1 DEF Positive
  <2>3. IsFiniteSet(M) /\ IsFiniteSet(N)
    BY <2>1, <2>2, FS_Subset
  <2>. QED  BY <2>3, FS_Product
<1>3. IsFiniteSet(L1Tiles(d, l))
  <2>1. L1Tiles(d, l) \subseteq M \X N
    BY DEF L1Tiles
  <2>. QED  BY <1>2, <2>1, FS_Subset
<1>4. \A t \in L1Tiles(d, l) : t \in Tile /\ t[1] <= l.m /\ t[2] <= l.n
  <2> HIDE DEF M, N
  <2>1. \A t \in L1Tiles(d, l) : t \in M \X N
    BY DEF L1Tiles, M, N
  <2>. QED  BY <2>1, <1>1 DEF Tile
<1>5. <<Least2(8, l.m), Least2(8, l.n)>> \in L1Tiles(d, l)
  <2>1. PICK a \in 1..8 : a = Least2(8, l.m)
    BY <1>0 DEF Least2
  <2>2. PICK b \in 1..8 : b = Least2(8, l.n)
    BY <1>0 DEF Least2
  <2>3. a \in M /\ b \in N
    BY <2>1, <2>2 DEF TRange
  <2>4. L1Fits(d, l, <<a, b>>)
    <3>1. (a + b) * 32 * l.dbyte + a * b * l.dbyte <= 1152
      <4>1. a * b <= 64
        <5>1. a * b <= 8 * b
          OBVIOUS
        <5>. QED  BY <5>1
      <4>2. a * b \in Nat
        OBVIOUS
      <4>3. l.dbyte = 1 \/ l.dbyte = 2
        BY LayerSizes
      <4>. QED  BY <4>1, <4>2, <4>3
    <3>2. d.config.l1 >= 1152 /\ d.config.l1 \in Nat
      BY ConfigTypes
    <3>3. (a + b) * 32 * l.dbyte + a * b * l.dbyte \in Nat
      BY LayerSizes
    <3>. QED  BY <3>1, <3>2, <3>3 DEF L1Fits
  <2>. QED  BY <2>1, <2>2, <2>3, <2>4 DEF L1Tiles
<1>. QED  BY <1>3, <1>4, <1>5

(* The tile that is chosen for the L1 cache is one of them.                 *)
LEMMA L1TileType ==
  ASSUME NEW d, d.config \in XpuConfigs, NEW l \in LayerRec
  PROVE  /\ L1Tile(d, l) \in Tile
         /\ L1Tile(d, l)[1] <= l.m /\ L1Tile(d, l)[2] <= l.n
<1> DEFINE S == L1Tiles(d, l)
           cost(t) == Total3(Traffic(l, t)) * Waves(d, l, t) * Waves(d, l, t)
           blocks(t) == ThreadBlocks(l, t) * ThreadBlocks(l, t)
           a == [t \in S |-> cost(t)]
           b == [t \in S |-> blocks(t)]
           Cost2(t, u) == cost(t) * ThreadBlocks(l, u) * ThreadBlocks(l, u)
           Best1(t) == \A u \in S \ {t} : ~(Cost2(u, t) < Cost2(t, u))
                                        /\ (Before(u, t) => Cost2(t, u) < Cost2(u, t))
<1>1. S \in SUBSET Tile /\ IsFiniteSet(S) /\ S # {}
  BY L1TilesExist
<1>2. ASSUME NEW t \in S
      PROVE  cost(t) \in Nat /\ blocks(t) \in Positive /\ ThreadBlocks(l, t) \in Positive
  <2>1. /\ Total3(Traffic(l, t)) \in Nat /\ Waves(d, l, t) \in Positive /\ Waves(d, l, t) \in Nat
        /\ ThreadBlocks(l, t) \in Positive
    BY <1>1, TrafficType, WavesType, TimesType
  <2>. QED  BY <2>1, TimesType
<1>3. a \in [S -> Nat] /\ b \in [S -> Positive]
  <2> HIDE DEF S, cost, blocks
  <2>. QED  BY <1>2
<1>4. PICK t \in S : \A u \in S \ {t} : NotAfter(t, u, a, b)
  <2> HIDE DEF S, a, b
  <2>. QED  BY <1>1, <1>3, CheapestExists DEF Tile
<1>5. ASSUME NEW u \in S PROVE a[t] * b[u] = Cost2(t, u) /\ a[u] * b[t] = Cost2(u, t)
  <2>1. /\ cost(t) \in Nat /\ cost(u) \in Nat
        /\ ThreadBlocks(l, t) \in Nat /\ ThreadBlocks(l, u) \in Nat
    BY <1>2, TimesType
  <2> HIDE DEF S, cost
  <2>2. \A x, y \in Nat : x * (y * y) = x * y * y
    OBVIOUS
  <2>. QED  BY <2>1, <2>2
<1>6. Best1(t)
  <2> SUFFICES ASSUME NEW u \in S \ {t}
               PROVE  /\ ~(Cost2(u, t) < Cost2(t, u))
                      /\ Before(u, t) => Cost2(t, u) < Cost2(u, t)
    OBVIOUS
  <2> DEFINE p == Cost2(t, u)
             q == Cost2(u, t)
  <2>1. p \in Nat /\ q \in Nat
    BY <1>2, TimesType
  <2>2. p < q \/ (p = q /\ ~Before(u, t))
    BY <1>4, <1>5 DEF NotAfter
  <2> HIDE DEF p, q
  <2>3. ~(q < p) /\ (Before(u, t) => p < q)
    BY <2>1, <2>2
  <2>. QED  BY <2>3 DEF p, q
<1>7. L1Tile(d, l) = CHOOSE x \in S : Best1(x)
  BY DEF L1Tile, FirstCheapest, L1Tiles
<1>8. L1Tile(d, l) \in S
  <2> HIDE DEF S, Best1
  <2>. QED  BY <1>6, <1>7
<1>. QED  BY <1>1, <1>8, L1TilesExist

Sides2(side, whole) == {side * i : i \in 1..(whole \div side)} \cup {whole}
L2Fits(d, l, t) == ((t[1] + t[2]) * l.k + 64 * t[1] * t[2]) * l.dbyte <= 64 * d.config.l2

(* The sides of tiles of the L2 cache.                                      *)
LEMMA SidesType ==
  ASSUME NEW side \in Positive, NEW whole \in Positive, side <= whole
  PROVE  /\ Sides2(side, whole) \subseteq Positive
         /\ side \in Sides2(side, whole)
         /\ IsFiniteSet(Sides2(side, whole))
<1> DEFINE q == whole \div side
<1>0. side \in Nat \ {0} /\ whole \in Nat \ {0}
  BY DEF Positive
<1>1. q \in Nat /\ whole = side * q + (whole % side) /\ whole % side \in 0..(side - 1)
  BY <1>0, Remainder
<1>2. q # 0
  BY <1>0, <1>1
<1>3. ASSUME NEW i \in 1..q PROVE side * i \in 1..whole
  <2>1. side * i <= side * q
    BY <1>0, <1>1
  <2>2. side * i \in Nat \ {0} /\ side * q \in Nat
    BY <1>0, <1>1
  <2>. QED  BY <1>0, <1>1, <2>1, <2>2
<1> HIDE DEF q
<1>4. Sides2(side, whole) \subseteq 1..whole
  BY <1>0, <1>3 DEF Sides2, q
<1>5. IsFiniteSet(1..whole)
  BY <1>0, 1 \in Int, whole \in Int, FS_Interval
<1>6. side \in Sides2(side, whole)
  <2>1. 1 \in 1..q /\ side = side * 1
    BY <1>0, <1>1, <1>2
  <2>. QED  BY <2>1 DEF Sides2, q
<1>. QED  BY <1>0, <1>4, <1>5, <1>6, FS_Subset DEF Positive

(* The tile that is chosen for the L2 cache.                                *)
LEMMA L2TileType ==
  ASSUME NEW d, NEW l \in LayerRec, NEW l1 \in Tile, l1[1] <= l.m, l1[2] <= l.n
  PROVE  L2Tile(d, l, l1) \in Tile
<1> DEFINE S == {t \in Sides2(l1[1], l.m) \X Sides2(l1[2], l.n) : L2Fits(d, l, t) \/ t = l1}
           cost(t) == Total3(Traffic(l, t))
           a == [t \in S |-> cost(t)]
           b == [t \in S |-> 1]
           Best2(t) == \A u \in S \ {t} : ~(cost(u) < cost(t)) /\ (Before(u, t) => cost(t) < cost(u))
<1>1. l1[1] \in Positive /\ l1[2] \in Positive /\ l.m \in Positive /\ l.n \in Positive
      /\ l1 = <<l1[1], l1[2]>>
  BY LayerSizes DEF Tile
<1>2. /\ Sides2(l1[1], l.m) \subseteq Positive /\ Sides2(l1[2], l.n) \subseteq Positive
      /\ IsFiniteSet(Sides2(l1[1], l.m)) /\ IsFiniteSet(Sides2(l1[2], l.n))
      /\ l1[1] \in Sides2(l1[1], l.m) /\ l1[2] \in Sides2(l1[2], l.n)
  BY <1>1, SidesType
<1>3. S \in SUBSET Tile /\ IsFiniteSet(S) /\ l1 \in S
  <2>1. S \subseteq Sides2(l1[1], l.m) \X Sides2(l1[2], l.n)
    OBVIOUS
  <2>2. IsFiniteSet(Sides2(l1[1], l.m) \X Sides2(l1[2], l.n))
    BY <1>2, FS_Product
  <2>3. IsFiniteSet(S)
    BY <2>1, <2>2, FS_Subset
  <2>4. l1 \in Sides2(l1[1], l.m) \X Sides2(l1[2], l.n)
    BY <1>1, <1>2
  <2>5. Sides2(l1[1], l.m) \X Sides2(l1[2], l.n) \subseteq Tile
    BY <1>2 DEF Tile
  <2>. QED  BY <2>1, <2>3, <2>4, <2>5
<1>4. ASSUME NEW t \in S PROVE cost(t) \in Nat
  BY <1>3, TrafficType
<1>5. a \in [S -> Nat] /\ b \in [S -> Positive]
  <2> HIDE DEF S, cost
  <2>. QED  BY <1>4 DEF Positive
<1>6. PICK t \in S : \A u \in S \ {t} : NotAfter(t, u, a, b)
  <2> HIDE DEF S, a, b
  <2>. QED  BY <1>3, <1>5, CheapestExists DEF Tile
<1>7. Best2(t)
  <2> SUFFICES ASSUME NEW u \in S \ {t}
               PROVE  ~(cost(u) < cost(t)) /\ (Before(u, t) => cost(t) < cost(u))
    OBVIOUS
  <2>1. cost(t) \in Nat /\ cost(u) \in Nat
    BY <1>4
  <2>2. NotAfter(t, u, a, b) /\ a[t] = cost(t) /\ a[u] = cost(u) /\ b[t] = 1 /\ b[u] = 1
    BY <1>6
  <2> HIDE DEF S, cost, a, b
  <2>. QED  BY <2>1, <2>2 DEF NotAfter
<1>8. L2Tile(d, l, l1) = CHOOSE x \in S : Best2(x)
  BY DEF L2Tile, FirstCheapest, Sides2, L2Fits
<1>9. L2Tile(d, l, l1) \in S
  <2> HIDE DEF S, Best2
  <2>. QED  BY <1>7, <1>8
<1>. QED  BY <1>3, <1>9

---------------------------------------------------------------------------
(* What a device answers is well typed, and the energy of a transfer is that of *)
(* the interface alone.                                                     *)

(* A device of which the tables hold tiles.                                 *)
XpuOK(d) ==
  /\ IsXPU(d) /\ d.config \in XpuConfigs /\ d.num \in Positive
  /\ \A key \in DOMAIN d.tiles : d.tiles[key].l1 \in Tile /\ d.tiles[key].l2 \in Tile

(* Consulting a device for a layer leaves a device whose table has its tile. *)
LEMMA WithTileOK ==
  ASSUME NEW d, XpuOK(d), NEW l \in LayerRec
  PROVE  /\ XpuOK(WithTile(d, l))
         /\ WithTile(d, l).config = d.config /\ WithTile(d, l).num = d.num
         /\ ~IsCommunication(l) => /\ TileOf(WithTile(d, l), l).l1 \in Tile
                                   /\ TileOf(WithTile(d, l), l).l2 \in Tile
<1> DEFINE key0 == TileKey(l)
           opt == OptimalTile(d, l)
           table == [key \in DOMAIN d.tiles \cup {key0} |->
                       IF key \in DOMAIN d.tiles THEN d.tiles[key] ELSE opt]
<1>1. opt.l1 \in Tile /\ opt.l2 \in Tile
  <2>1. L1Tile(d, l) \in Tile /\ L1Tile(d, l)[1] <= l.m /\ L1Tile(d, l)[2] <= l.n
    BY L1TileType DEF XpuOK
  <2>2. L2Tile(d, l, L1Tile(d, l)) \in Tile
    BY <2>1, L2TileType
  <2>. QED  BY <2>1, <2>2 DEF OptimalTile
<1>2. CASE IsCommunication(l) \/ key0 \in DOMAIN d.tiles
  BY <1>2 DEF WithTile, TileOf, XpuOK
<1>3. CASE ~(IsCommunication(l) \/ key0 \in DOMAIN d.tiles)
  <2>1. WithTile(d, l) = [config |-> d.config, num |-> d.num, tiles |-> table]
    BY <1>3 DEF WithTile, XpuOK, IsXPU
  <2>2. \A key \in DOMAIN table : table[key].l1 \in Tile /\ table[key].l2 \in Tile
    <3> HIDE DEF opt, key0
    <3>. QED  BY <1>1 DEF XpuOK
  <2>3. key0 \in DOMAIN table
    OBVIOUS
  <2> HIDE DEF table
  <2>. QED  BY <2>1, <2>2, <2>3 DEF XpuOK, IsXPU, TileOf
<1>. QED  BY <1>2, <1>3

(* The types of the figures of a layer: its operations ...                  *)
LEMMA FlopsType ==
  ASSUME NEW l \in LayerRec
  PROVE  Flops(l) \in Nat
<1> DEFINE e == l.m * l.n * l.numOp
<1>1. e \in Nat /\ l.k \in Nat
  BY LayerSizes, TimesType
<1>2. 2 * e * l.k \in Nat
  <2> HIDE DEF e
  <2>1. 2 * e \in Nat
    BY <1>1
  <2>. QED  BY <1>1, <2>1, TimesType
<1>3. l.type \in LayerTypes
  BY LayerSizes
<1> HIDE DEF e
<1>4. 5 * e \in Nat /\ e * 1 \in Nat /\ e * 9 \in Nat /\ e * 8 \in Nat
  BY <1>1
<1>5. Flops(l) = CASE l.type = "SOFTMAX" -> 5 * e
                   [] l.type = "ACT" -> e * (CASE l.name = "relu" -> 1
                                               [] l.name = "glu" -> 9
                                               [] OTHER -> 8)
                   [] l.type = "NORM" -> 5 * e
                   [] l.type \in {"FC", "MATMUL"} -> 2 * e * l.k
                   [] OTHER -> 0
  BY DEF Flops, e
<1>6. CASE l.type = "ACT"
  <2>1. \/ Flops(l) = e * 1 /\ l.name = "relu"
        \/ Flops(l) = e * 9 /\ l.name = "glu"
        \/ Flops(l) = e * 8
    BY <1>5, <1>6
  <2>. QED  BY <2>1, <1>4
<1>7. CASE l.type # "ACT"
  BY <1>2, <1>4, <1>5, <1>7
<1>. QED  BY <1>6, <1>7

(* ... its data ...                                                         *)
LEMMA SizeType ==
  ASSUME NEW l \in LayerRec
  PROVE  Size(l) \in Nat \X Nat \X Nat /\ Total3(Size(l)) \in Nat
<1>1. /\ l.m * l.n * (l.numOp * l.dbyte) \in Nat
      /\ l.m * l.k * (l.numOp * l.dbyte) \in Nat
      /\ l.n * l.k * (l.numOp * l.dbyte) \in Nat
  BY LayerSizes, TimesType
<1>2. Size(l) \in Nat \X Nat \X Nat
  BY <1>1 DEF Size
<1>. QED  BY <1>2 DEF Total3

(* ... which are counted in quanta ...                                     *)
Quanta == {Quantum * i : i \in Nat}

LEMMA QuantaType ==
  /\ Quanta \subseteq Nat /\ 0 \in Quanta
  /\ \A i \in Nat : Quantum * i \in Quanta
  /\ \A a, b \in Quanta : a + b \in Quanta
  /\ \A a \in Quanta, n \in Nat : a * n \in Quanta
<1>1. Quantum \in Nat
  BY DeviceAssumption
<1>2. \A i \in Nat : Quantum * i \in Nat
  BY <1>1, TimesType
<1>3. Quantum * 0 = 0
  BY <1>1
<1>4. ASSUME NEW a \in Quanta, NEW b \in Quanta PROVE a + b \in Quanta
  <2>1. PICK i \in Nat, j \in Nat : a = Quantum * i /\ b = Quantum * j
    BY <1>4 DEF Quanta
  <2>2. a + b = Quantum * (i + j)
    BY <1>1, <2>1
  <2>3. i + j \in Nat
    OBVIOUS
  <2>. QED  BY <2>2, <2>3 DEF Quanta
<1>5. ASSUME NEW a \in Quanta, NEW n \in Nat PROVE a * n \in Quanta
  <2>1. PICK i \in Nat : a = Quantum * i
    BY <1>5 DEF Quanta
  <2>2. a * n = Quantum * (i * n)
    BY <1>1, <2>1
  <2>3. i * n \in Nat
    BY TimesType
  <2>. QED  BY <2>2, <2>3 DEF Quanta
<1>6. 0 \in Nat
  OBVIOUS
<1>7. Quanta \subseteq Nat
  BY <1>2 DEF Quanta
<1>8. 0 \in Quanta
  BY <1>3, <1>6 DEF Quanta
<1>9. \A i \in Nat : Quantum * i \in Quanta
  BY DEF Quanta
<1>. QED  BY <1>4, <1>5, <1>7, <1>8, <1>9

(* ... so is the time that an amount of work takes at a rate ...            *)
LEMMA TimeType ==
  ASSUME NEW work0 \in Nat, NEW rate \in Positive
  PROVE  Time(work0, rate) \in Quanta /\ Time(work0, rate) \in Nat
<1>1. CeilDiv(work0, rate) \in Nat
  BY CeilDivType
<1>. QED  BY <1>1, QuantaType DEF Time

(* ... its traffic at the levels of the memory ...                          *)
LEMMA LevelsType ==
  ASSUME NEW d, NEW l \in LayerRec,
         l.type \in {"FC", "MATMUL"} => TileOf(d, l).l1 \in Tile /\ TileOf(d, l).l2 \in Tile
  PROVE  \A i \in 1..4 : Total3(Levels(d, l)[i]) \in Nat
<1>1. CASE l.type \in {"FC", "MATMUL"}
  <2> DEFINE t1 == Traffic(l, TileOf(d, l).l2)
             t2 == Traffic(l, TileOf(d, l).l1)
             t3 == Traffic(l, <<16, 16>>)
             e == l.m * l.n * l.k
             t4 == [i \in 1..3 |-> e]
  <2>1. Total3(t1) \in Nat /\ Total3(t2) \in Nat
    BY <1>1, TrafficType
  <2>2. Total3(t3) \in Nat
    <3>1. <<16, 16>> \in Tile
      BY DEF Tile, Positive
    <3>. QED  BY <3>1, TrafficType
  <2>3. Total3(t4) \in Nat
    <3>1. e \in Nat
      BY LayerSizes, TimesType
    <3> HIDE DEF e
    <3>. QED  BY <3>1 DEF Total3
  <2>4. Levels(d, l) = <<t1, t2, t3, t4>>
    BY <1>1 DEF Levels
  <2> HIDE DEF t1, t2, t3, t4
  <2>. QED  BY <2>1, <2>2, <2>3, <2>4
<1>2. CASE l.type \notin {"FC", "MATMUL"}
  <2>1. Levels(d, l) = [level \in 1..4 |-> Size(l)]
    BY <1>2 DEF Levels
  <2>. QED  BY <2>1, SizeType
<1>. QED  BY <1>1, <1>2

(* ... the share of the cores that its tiles keep busy ...                  *)
LEMMA UtilizationType ==
  ASSUME NEW d, d.config \in XpuConfigs, NEW l \in LayerRec, TileOf(d, l).l1 \in Tile
  PROVE  Utilization(d, l)[1] \in Positive /\ Utilization(d, l)[2] \in Positive
BY TrafficType, WavesType DEF Utilization, Positive

(* ... and its times to compute and to load.                                *)
LEMMA ComputeTimeType ==
  ASSUME NEW d, d.config \in XpuConfigs, NEW l \in LayerRec, TileOf(d, l).l1 \in Tile
  PROVE  ComputeTime(d, l) \in Quanta
<1> DEFINE u1 == Utilization(d, l)[1]
           u2 == Utilization(d, l)[2]
<1>1. u1 \in Positive /\ u2 \in Nat /\ d.config.flops \in Positive /\ Flops(l) \in Nat
  <2>1. u1 \in Positive /\ u2 \in Nat
    BY UtilizationType, TimesType
  <2>. QED  BY <2>1, ConfigTypes, FlopsType
<1>2. 2 \div l.dbyte \in Positive
  BY LayerSizes DEF Positive
<1> HIDE DEF u1, u2
<1>3. 10 * Flops(l) * u2 \in Nat
  <2>1. 10 * Flops(l) \in Nat
    BY <1>1
  <2>. QED  BY <1>1, <2>1, TimesType
<1>4. 8 * d.config.flops * u1 * (2 \div l.dbyte) \in Positive
  <2>1. 8 * d.config.flops \in Positive
    BY <1>1 DEF Positive
  <2>. QED  BY <1>1, <1>2, <2>1, TimesType
<1>. QED  BY <1>3, <1>4, TimeType DEF ComputeTime, u1, u2

(* The measured lines of the GPUs are natural numbers too.                  *)
LEMMA MemTimeType ==
  ASSUME NEW d, d.config \in XpuConfigs, NEW l \in LayerRec,
         TileOf(d, l).l1 \in Tile, TileOf(d, l).l2 \in Tile
  PROVE  MemTime(d, l) \in Quanta
<1> DEFINE u1 == Utilization(d, l)[1]
           u2 == Utilization(d, l)[2]
           off == Total3(Levels(d, l)[1])
           l2 == Total3(Levels(d, l)[2])
           c == d.config
           Fitted(line) == Quantum * (line.base + CeilDiv(line.slope * off, c.bw))
<1>1. /\ u1 \in Positive /\ u2 \in Nat /\ c.bw \in Positive /\ c.l2bw \in Nat
      /\ off \in Nat /\ l2 \in Nat /\ Quantum \in Nat
  <2>1. u1 \in Positive /\ u2 \in Nat
    BY UtilizationType, TimesType
  <2>2. off \in Nat /\ l2 \in Nat
    BY LevelsType
  <2>3. c.bw \in Positive /\ c.l2bw \in Nat /\ Quantum \in Nat
    BY ConfigTypes, DeviceAssumption
  <2>. QED  BY <2>1, <2>2, <2>3
<1> HIDE DEF u1, u2, off, l2
<1>2. ASSUME NEW line, line.base \in Nat, line.slope \in Nat PROVE Fitted(line) \in Quanta
  <2>1. line.slope * off \in Nat
    BY <1>1, <1>2
  <2>2. CeilDiv(line.slope * off, c.bw) \in Nat
    BY <1>1, <2>1, CeilDivType
  <2>. QED  BY <1>1, <1>2, <2>2, TimesType, QuantaType
<1>3. c.kind = "GPU" => Fitted(c.act) \in Quanta /\ Fitted(c.norm) \in Quanta
  <2>1. c.kind = "GPU" => c = GpuConfig
    BY SimulationAssumption DEF XpuConfigs
  <2> HIDE DEF Fitted
  <2>. QED  BY <1>2, <2>1, DeviceAssumption
<1>4. Time(20 * off * u2, 17 * c.bw * u1) \in Quanta
  <2>1. 20 * off * u2 \in Nat
    <3>1. 20 * off \in Nat
      BY <1>1
    <3>. QED  BY <1>1, <3>1, TimesType
  <2>2. 17 * c.bw * u1 \in Positive
    <3>1. 17 * c.bw \in Positive
      BY <1>1 DEF Positive
    <3>. QED  BY <1>1, <3>1, TimesType
  <2>. QED  BY <2>1, <2>2, TimeType
<1>5. c.l2bw # 0 => Time(l2, c.l2bw) \in Quanta
  BY <1>1, TimeType DEF Positive
<1>6. \/ c.kind = "GPU" /\ MemTime(d, l) \in {Fitted(c.act), Fitted(c.norm)}
      \/ MemTime(d, l) = Most2(Time(20 * off * u2, 17 * c.bw * u1),
                               IF c.l2bw = 0 THEN 0 ELSE Time(l2, c.l2bw))
  BY DEF MemTime, off, u1, u2, l2
<1> HIDE DEF Fitted
<1>. QED  BY <1>3, <1>4, <1>5, <1>6, QuantaType DEF Most2

CostOK(cost, l) ==
  /\ cost.time \in Nat
  /\ cost.energy \in [1..6 -> Nat]
  /\ cost.bound \in {"compute", "memory"}
  /\ IsCommunication(l) => \A i \in 1..5 : cost.energy[i] = 0

(* The energy of a transfer is in the sixth place.                          *)
LEMMA CommEnergyType ==
  ASSUME NEW e \in Nat
  PROVE  CommEnergy(e) \in [1..6 -> Nat] /\ NoEnergy \in [1..6 -> Nat]
         /\ \A i \in 1..5 : CommEnergy(e)[i] = 0 /\ NoEnergy[i] = 0
BY DEF CommEnergy, NoEnergy

(* The energy of a layer on the GPUs or the CPU.                            *)
LEMMA XpuEnergyType ==
  ASSUME NEW d, d.config \in XpuConfigs, d.num \in Positive, NEW l \in LayerRec,
         l.type \in {"FC", "MATMUL"} => TileOf(d, l).l1 \in Tile /\ TileOf(d, l).l2 \in Tile
  PROVE  XpuEnergy(d, l) \in [1..6 -> Nat]
<1> DEFINE t(i) == Total3(Levels(d, l)[i])
           c == d.config
           e == c.energy
           alu == (Flops(l) * e.alu) \div 2
           factor == <<0, e.l2, e.l1, e.reg>>
           part(i) == CASE i = 1 -> t(1) * e.mem
                        [] i = 5 -> alu
                        [] i = 6 -> 0
                        [] OTHER -> IF c.kind = "CPU" THEN 0 ELSE t(i) * factor[i]
<1>1. t(1) \in Nat /\ t(2) \in Nat /\ t(3) \in Nat /\ t(4) \in Nat
  BY LevelsType
<1>2. e.mem \in Nat /\ e.alu \in Nat
  BY ConfigTypes
<1>3. c.kind # "CPU" => e.l2 \in Nat /\ e.l1 \in Nat /\ e.reg \in Nat
  <2>1. c.kind # "CPU" => c = GpuConfig
    BY SimulationAssumption DEF XpuConfigs
  <2>. QED  BY <2>1, DeviceAssumption
<1>4. alu \in Nat
  <2>1. Flops(l) * e.alu \in Nat
    BY <1>2, FlopsType, TimesType
  <2>. QED  BY <2>1
<1>5. t(1) * e.mem \in Nat
  <2> HIDE DEF t, e
  <2>. QED  BY <1>1, <1>2, TimesType
<1>6. c.kind # "CPU" => \A i \in 2..4 : factor[i] \in Nat
  <2> HIDE DEF e, c
  <2>. QED  BY <1>3
<1>7. ASSUME NEW i \in 1..6 PROVE part(i) \in Nat
  <2>1. CASE i \notin 2..4 \/ c.kind = "CPU"
    <3> HIDE DEF t, alu, e, c, factor
    <3>1. i \notin 2..4 => i = 1 \/ i = 5 \/ i = 6
      OBVIOUS
    <3>. QED  BY <1>4, <1>5, <2>1, <3>1
  <2>2. CASE i \in 2..4 /\ c.kind # "CPU"
    <3> HIDE DEF t, alu, e, c, factor
    <3>1. t(i) \in Nat /\ factor[i] \in Nat
      BY <1>1, <1>6, <2>2
    <3>2. t(i) * factor[i] \in Nat
      BY <3>1, TimesType
    <3>3. i # 1 /\ i # 5 /\ i # 6
      BY <2>2
    <3>4. part(i) = t(i) * factor[i]
      BY <2>2, <3>3
    <3>. QED  BY <3>2, <3>4
  <2>. QED  BY <2>1, <2>2
<1>8. XpuEnergy(d, l) = [i \in 1..6 |-> d.num * part(i)]
  BY DEF XpuEnergy
<1> HIDE DEF part
<1>9. \A i \in 1..6 : d.num * part(i) \in Nat
  BY <1>7, TimesType
<1>. QED  BY <1>8, <1>9

(* A transfer on the GPUs or the CPU.                                       *)
LEMMA XpuIoType ==
  ASSUME NEW d, d.config \in XpuConfigs, d.num \in Positive, NEW l \in LayerRec
  PROVE  /\ XpuIo(d, l).time \in Quanta
         /\ XpuIo(d, l).energy \in [1..6 -> Nat]
         /\ \A i \in 1..5 : XpuIo(d, l).energy[i] = 0
<1> DEFINE c == d.config
           traffic == l.m * l.n * l.numOp * l.dbyte
           share == CeilDiv(traffic, d.num)
           line == c.nvlink
           fit == Quantum * (line.base + CeilDiv(line.slope * share, c.io))
           step == Most2(fit, Time(2 * share, c.io))
           comm == d.num * traffic * c.energy.comm
<1>1. traffic \in Nat /\ c.io \in Positive /\ Quantum \in Nat /\ d.num \in Nat
  <2>1. traffic \in Nat
    BY LayerSizes, TimesType
  <2>2. d.num \in Nat
    BY DEF Positive
  <2>3. c.io \in Positive
    BY ConfigTypes
  <2>4. Quantum \in Nat
    BY DeviceAssumption
  <2>. QED  BY <2>1, <2>2, <2>3, <2>4
<1> HIDE DEF traffic
<1>2. share \in Nat
  BY <1>1, CeilDivType
<1> HIDE DEF share
<1>3. Time(2 * traffic, c.io) \in Quanta /\ Time(2 * share, c.io) \in Quanta
  <2>1. 2 * traffic \in Nat /\ 2 * share \in Nat
    BY <1>1, <1>2
  <2>. QED  BY <1>1, <2>1, TimeType
<1>4. CASE c.kind = "CPU"
  <2>1. XpuIo(d, l) = [time |-> Time(2 * traffic, c.io), energy |-> NoEnergy]
    BY <1>4 DEF XpuIo, traffic
  <2>. QED  BY <1>3, <2>1, CommEnergyType
<1>5. CASE c.kind # "CPU"
  <2>1. c = GpuConfig
    BY <1>5, SimulationAssumption DEF XpuConfigs
  <2>2. line.base \in Nat /\ line.slope \in Nat /\ c.energy.comm \in Nat
    BY <2>1, DeviceAssumption
  <2>3. fit \in Quanta
    <3>1. line.slope * share \in Nat
      BY <1>2, <2>2, TimesType
    <3>2. CeilDiv(line.slope * share, c.io) \in Nat
      BY <1>1, <3>1, CeilDivType
    <3>3. line.base + CeilDiv(line.slope * share, c.io) \in Nat
      BY <2>2, <3>2
    <3>. QED  BY <3>3, QuantaType
  <2>4. step \in Quanta
    BY <1>3, <2>3 DEF Most2
  <2>5. comm \in Nat
    BY <1>1, <2>2, TimesType
  <2>6. step * (d.num - 1) \in Quanta
    <3>1. d.num - 1 \in Nat
      BY DEF Positive
    <3>. QED  BY <2>4, <3>1, QuantaType
  <2>7. XpuIo(d, l) = [time |-> IF l.type = "X2G" THEN Time(2 * traffic, c.io) ELSE step * (d.num - 1),
                       energy |-> CommEnergy(comm)]
    BY <1>5 DEF XpuIo, traffic, share
  <2>. QED  BY <1>3, <2>5, <2>6, <2>7, CommEnergyType
<1>. QED  BY <1>4, <1>5

(* What a GPU or a CPU answers is a cost.                                   *)
LEMMA XpuCostType ==
  ASSUME NEW d, XpuOK(d), NEW l \in LayerRec,
         ~IsCommunication(l) => TileOf(d, l).l1 \in Tile /\ TileOf(d, l).l2 \in Tile
  PROVE  CostOK(XpuCost(d, l), l) /\ XpuCost(d, l).time \in Quanta
<1>0. d.config \in XpuConfigs /\ d.num \in Positive
  BY DEF XpuOK
<1>1. CASE IsCommunication(l)
  <2>1. XpuCost(d, l) = [time |-> XpuIo(d, l).time, energy |-> XpuIo(d, l).energy, bound |-> l.bound]
    BY <1>1 DEF XpuCost
  <2>2. XpuIo(d, l).time \in Quanta /\ XpuIo(d, l).time \in Nat
    BY <1>0, XpuIoType, QuantaType
  <2>. QED  BY <1>0, <2>1, <2>2, XpuIoType, LayerSizes DEF CostOK
<1>2. CASE ~IsCommunication(l)
  <2> DEFINE compute == ComputeTime(d, l)
             mem == MemTime(d, l)
  <2>1. compute \in Quanta /\ mem \in Quanta /\ compute \in Nat /\ mem \in Nat
    BY <1>0, <1>2, ComputeTimeType, MemTimeType, QuantaType
  <2>2. XpuEnergy(d, l) \in [1..6 -> Nat]
    BY <1>0, <1>2, XpuEnergyType
  <2>3. XpuCost(d, l) = [time |-> Most2(compute, mem), energy |-> XpuEnergy(d, l),
                         bound |-> IF compute > mem THEN "compute" ELSE "memory"]
    BY <1>2 DEF XpuCost
  <2>. QED  BY <1>2, <2>1, <2>2, <2>3 DEF CostOK, Most2
<1>. QED  BY <1>1, <1>2

PimOK(d) ==
  IsPIM(d) /\ d.config \in PimConfigs /\ d.num = d.config.num /\ d.dhead \in Nat

(* What the simulator of a PIM device answers are numbers.                  *)
SimulatorAnswers ==
  \A c \in PimConfigs, dhead \in Nat,
     asked \in [n : Positive, heads : Positive, dbyte : {1, 2}] :
    LET ram == Simulated(c, dhead, asked)
    IN ram.time \in Nat /\ ram.io \in Nat /\ ram.accesses \in Nat

(* A layer asks for some head, and is answered with numbers.                 *)
LEMMA AskedType ==
  ASSUME NEW l \in LayerRec
  PROVE  Asked(l) \in [n : Positive, heads : Positive, dbyte : {1, 2}]
<1>1. l.n \in Positive /\ l.numOp \in Nat /\ l.numOp > 0 /\ l.dbyte \in {1, 2}
  BY LayerSizes DEF Positive
<1>2. CeilDiv(l.numOp, 5) \in Positive
  <2>1. 5 \in Positive
    BY DEF Positive
  <2>. QED  BY <1>1, <2>1, CeilDivType
<1>. QED  BY <1>1, <1>2 DEF Asked

(* What it is answered, from the table or not, are numbers.                   *)
LEMMA AnsweredType ==
  ASSUME SimulatorAnswers, NEW d, PimOK(d), NEW l \in LayerRec
  PROVE  LET ram == Answered(d, l)
         IN ram.time \in Nat /\ ram.io \in Nat /\ ram.accesses \in Nat
<1> DEFINE dhead == IF d.fresh THEN d.dhead ELSE l.k
           ram == Simulated(d.config, dhead, Asked(l))
           n == IF d.config.type = "BUFFER" /\ ~d.fresh THEN 2 * ram.accesses ELSE ram.accesses
<1>1. dhead \in Nat /\ d.config \in PimConfigs
  BY LayerSizes DEF PimOK, Positive
<1>2. ram.time \in Nat /\ ram.io \in Nat /\ ram.accesses \in Nat
  BY <1>1, AskedType DEF SimulatorAnswers
<1>3. Answered(d, l) = [ram EXCEPT !.accesses = n]
  BY DEF Answered
<1>4. n \in Nat
  BY <1>2
<1> HIDE DEF ram, n
<1>. QED  BY <1>2, <1>3, <1>4

(* The energy of a layer on PIM.                                            *)
LEMMA PimEnergyType ==
  ASSUME NEW d, d.num \in Nat, NEW mem \in Nat, NEW alu \in Nat
  PROVE  PimEnergy(d, mem, alu) \in [1..6 -> Nat]
<1>1. mem * d.num \in Nat /\ alu * d.num \in Nat
  BY TimesType
<1>. QED  BY <1>1 DEF PimEnergy

(* What PIM answers is a cost, if what its simulator answers are numbers.   *)
LEMMA PimCostType ==
  ASSUME SimulatorAnswers,
         NEW d, PimOK(d), NEW l \in LayerRec, OnAcc(l)
  PROVE  CostOK(PimCost(d, l), l)
<1> DEFINE c == d.config
<1>1. c \in PimConfigs
  BY DEF PimOK
<1>2. /\ c.num \in Nat /\ c.io \in Positive /\ c.softmax \in Positive
      /\ c.energy.io \in Nat /\ c.energy.mem \in Nat /\ c.energy.alu \in Nat
      /\ c.energy.comm \in Nat /\ c.energy.sram \in Nat
  BY <1>1, SimulationAssumption DEF Positive
<1> DEFINE e == c.energy
           traffic == l.m * l.n * l.numOp * l.dbyte
           alu == (Flops(l) * e.alu) \div 2
           ram == Answered(d, l)
           compute == Time(Flops(l), c.softmax * (2 \div l.dbyte))
           mem == Time(Total3(Size(l)), c.softmax)
<1>3. d.config = c /\ d.num = c.num
  BY DEF PimOK
<1>4. ram.time \in Nat /\ ram.io \in Nat /\ ram.accesses \in Nat
  BY AnsweredType
<1>5. traffic \in Nat
  BY LayerSizes, TimesType
<1>6. alu \in Nat
  <2>1. Flops(l) * e.alu \in Nat
    BY <1>2, FlopsType, TimesType
  <2>. QED  BY <2>1
<1>7. compute \in Nat /\ mem \in Nat
  <2>1. 2 \div l.dbyte \in Positive
    BY LayerSizes DEF Positive
  <2>2. c.softmax * (2 \div l.dbyte) \in Positive
    BY <1>2, <2>1, TimesType
  <2>. QED  BY <1>2, <2>2, FlopsType, SizeType, TimeType
<1>8. PimCost(d, l) =
        CASE l.type = "X2G" ->
               [time |-> Time(2 * traffic, c.io), bound |-> l.bound,
                energy |-> CommEnergy(traffic * e.comm * c.num)]
          [] l.type = "MATMUL" /\ l.name = "score" ->
               [time |-> ram.time, bound |-> l.bound,
                energy |-> PimEnergy(d, ram.io * e.io + ram.accesses * e.mem, alu)]
          [] l.type = "MATMUL" /\ l.name # "score" ->
               [time |-> 0, bound |-> l.bound, energy |-> NoEnergy]
          [] l.type = "SOFTMAX" ->
               [time |-> Most2(compute, mem),
                bound |-> IF compute > mem THEN "compute" ELSE "memory",
                energy |-> PimEnergy(d, Total3(Size(l)) * e.sram, alu)]
  BY <1>3 DEF PimCost, IsScore
<1> HIDE DEF traffic, alu, ram, compute, mem, e, c
<1>9. CASE l.type = "X2G"
  <2>1. PimCost(d, l) = [time |-> Time(2 * traffic, c.io), bound |-> l.bound,
                         energy |-> CommEnergy(traffic * e.comm * c.num)]
    BY <1>8, <1>9
  <2>2. Time(2 * traffic, c.io) \in Nat
    <3>1. 2 * traffic \in Nat
      BY <1>5
    <3>. QED  BY <1>2, <3>1, TimeType
  <2>3. traffic * e.comm * c.num \in Nat
    BY <1>2, <1>5, TimesType DEF e
  <2>. QED  BY <2>1, <2>2, <2>3, CommEnergyType, LayerSizes DEF CostOK
<1>10. CASE l.type = "MATMUL" /\ l.name = "score"
  <2>1. PimCost(d, l) = [time |-> ram.time, bound |-> l.bound,
                         energy |-> PimEnergy(d, ram.io * e.io + ram.accesses * e.mem, alu)]
    BY <1>8, <1>10
  <2>2. ram.io * e.io + ram.accesses * e.mem \in Nat
    BY <1>2, <1>4, TimesType DEF e
  <2>3. PimEnergy(d, ram.io * e.io + ram.accesses * e.mem, alu) \in [1..6 -> Nat]
    BY <1>2, <1>3, <1>6, <2>2, PimEnergyType
  <2>4. ~IsCommunication(l)
    BY <1>10 DEF IsCommunication
  <2>. QED  BY <1>4, <2>1, <2>3, <2>4, LayerSizes DEF CostOK
<1>11. CASE l.type = "MATMUL" /\ l.name # "score"
  <2>1. PimCost(d, l) = [time |-> 0, bound |-> l.bound, energy |-> NoEnergy]
    BY <1>8, <1>11
  <2>2. NoEnergy \in [1..6 -> Nat] /\ ~IsCommunication(l)
    BY <1>11, CommEnergyType DEF IsCommunication
  <2>. QED  BY <2>1, <2>2, LayerSizes DEF CostOK
<1>12. CASE l.type = "SOFTMAX"
  <2>1. PimCost(d, l) = [time |-> Most2(compute, mem),
                         bound |-> IF compute > mem THEN "compute" ELSE "memory",
                         energy |-> PimEnergy(d, Total3(Size(l)) * e.sram, alu)]
    BY <1>8, <1>12
  <2>2. Total3(Size(l)) * e.sram \in Nat
    BY <1>2, SizeType, TimesType DEF e
  <2>3. PimEnergy(d, Total3(Size(l)) * e.sram, alu) \in [1..6 -> Nat]
    BY <1>2, <1>3, <1>6, <2>2, PimEnergyType
  <2>4. ~IsCommunication(l)
    BY <1>12 DEF IsCommunication
  <2>. QED  BY <1>7, <2>1, <2>3, <2>4 DEF CostOK, Most2
<1>13. l.type = "X2G" \/ l.type = "MATMUL" \/ l.type = "SOFTMAX"
  BY DEF OnAcc
<1>. QED  BY <1>9, <1>10, <1>11, <1>12, <1>13

---------------------------------------------------------------------------
(* The layers that are built for a model, and what times them.              *)

(* A model can be shared out to no more GPUs than it has heads.               *)
Shares(infos) == {n \in Positive : n <= infos.heads}

(* The GPUs are no more, and one alone is enough.                            *)
LEMMA GpusShare ==
  ASSUME NEW infos \in Models
  PROVE  GpuCounts \subseteq Shares(infos) /\ 1 \in Shares(infos)
<1>1. GpuCounts \subseteq Positive /\ \A n \in GpuCounts : n <= infos.heads
  BY SimulationAssumption DEF Positive
<1>2. infos.heads \in Positive
  BY SimulationAssumption DEF Infos, Positive
<1>. QED  BY <1>1, <1>2 DEF Shares, Positive

(* Each GPU has a head, and no less than one column of the hidden dimension. *)
LEMMA Widths ==
  ASSUME NEW infos \in Models, NEW tp \in Shares(infos)
  PROVE  /\ PerGpu(infos, tp) \in Positive /\ HeadsPerGpu(infos, tp) \in Positive
         /\ HeadDim(infos) \in Positive
         /\ infos.hdim \in Positive /\ infos.ff \in Positive /\ infos.heads \in Positive
         /\ infos.dbyte \in {1, 2} /\ infos.ndec \in Nat /\ infos.dhead \in Nat
         /\ tp \in Positive /\ tp <= infos.heads
<1>1. /\ infos.hdim \in Nat /\ infos.heads \in Nat \ {0} /\ infos.ff \in Nat /\ infos.ff > 0
      /\ infos.heads <= infos.hdim /\ tp \in Nat \ {0} /\ tp <= infos.heads
      /\ infos.dbyte \in {1, 2} /\ infos.ndec \in Nat /\ infos.dhead \in Nat
  BY SimulationAssumption DEF Infos, Shares, Positive
<1>2. ASSUME NEW a \in Nat, NEW b \in Nat \ {0}, b <= a PROVE a \div b \in Positive
  <2>1. a \div b \in Nat /\ a % b \in 0..(b - 1) /\ a = b * (a \div b) + (a % b)
    BY Remainder
  <2>2. a \div b = 0 => b * (a \div b) = 0
    OBVIOUS
  <2>. QED  BY <1>2, <2>1, <2>2 DEF Positive
<1>3. infos.hdim \div tp \in Positive /\ infos.heads \div tp \in Positive
      /\ infos.hdim \div infos.heads \in Positive
  BY <1>1, <1>2
<1>. QED  BY <1>1, <1>3 DEF PerGpu, HeadsPerGpu, HeadDim, Positive

(* Layer() makes layers.                                                    *)
LEMMA LayerType ==
  ASSUME NEW infos \in Models, NEW name \in LayerNames, NEW type \in LayerTypes,
         NEW m \in Positive, NEW n \in Positive, NEW k \in Positive, NEW numOp \in Positive
  PROVE  Layer(infos, name, type, m, n, k, numOp) \in LayerRec
<1>1. infos.dbyte \in {1, 2}
  BY SimulationAssumption DEF Infos
<1>2. NoEnergy \in [1..6 -> Int]
  BY DEF NoEnergy
<1>. QED  BY <1>1, <1>2 DEF Layer, LayerRec

(* The layers of the feed-forward network.                                  *)
LEMMA FeedForwardType ==
  ASSUME NEW infos \in Models, NEW tp \in Shares(infos), NEW rows \in Positive
  PROVE  FeedForward(infos, tp, rows) \in Seq(LayerRec)
<1> DEFINE inner == infos.ff * PerGpu(infos, tp)
           up(name) == Layer(infos, name, "FC", rows, inner, infos.hdim, 1)
           act(name) == Layer(infos, name, "ACT", rows, inner, 1, 1)
           down(name) == Layer(infos, name, "FC", rows, infos.hdim, inner, 1)
<1>1. inner \in Positive /\ infos.hdim \in Positive /\ 1 \in Positive
  BY Widths, TimesType DEF Positive
<1>2. ASSUME NEW name \in LayerNames
      PROVE  up(name) \in LayerRec /\ act(name) \in LayerRec /\ down(name) \in LayerRec
  <2>1. "FC" \in LayerTypes /\ "ACT" \in LayerTypes
    BY DEF LayerTypes
  <2> HIDE DEF inner
  <2>. QED  BY <1>1, <2>1, LayerType
<1>3. FeedForward(infos, tp, rows) \in
        {<<up("ff1"), up("ff2"), act("glu"), down("ff3")>>,
         <<up("ff1"), act("relu"), down("ff2")>>,
         <<up("ff1"), act("gelu"), down("ff2")>>}
  BY DEF FeedForward
<1> HIDE DEF up, act, down
<1>4. /\ <<up("ff1"), up("ff2"), act("glu"), down("ff3")>> \in Seq(LayerRec)
      /\ <<up("ff1"), act("relu"), down("ff2")>> \in Seq(LayerRec)
      /\ <<up("ff1"), act("gelu"), down("ff2")>> \in Seq(LayerRec)
  <2>1. /\ up("ff1") \in LayerRec /\ up("ff2") \in LayerRec /\ act("glu") \in LayerRec
        /\ down("ff3") \in LayerRec /\ act("relu") \in LayerRec /\ down("ff2") \in LayerRec
        /\ act("gelu") \in LayerRec
    <3>1. /\ "ff1" \in LayerNames /\ "ff2" \in LayerNames /\ "ff3" \in LayerNames
          /\ "glu" \in LayerNames /\ "relu" \in LayerNames /\ "gelu" \in LayerNames
      BY DEF LayerNames
    <3>. QED  BY <1>2, <3>1
  <2>. QED  BY <2>1
<1>. QED  BY <1>3, <1>4

(* The layers of a decoder.                                                 *)
LEMMA DecoderType ==
  ASSUME NEW infos \in Models, NEW tp \in Shares(infos), NEW batch \in Positive, NEW rows \in Positive,
         NEW q \in Positive, NEW kv \in Positive,
         NEW before \in Seq(LayerRec), NEW after \in Seq(LayerRec)
  PROVE  Decoder(infos, tp, batch, rows, q, kv, before, after) \in Seq(LayerRec)
<1> DEFINE heads == HeadsPerGpu(infos, tp) * batch
           qkv == Layer(infos, "qkv", "FC", rows, 3 * PerGpu(infos, tp), infos.hdim, 1)
           score == Layer(infos, "score", "MATMUL", q, kv, HeadDim(infos), heads)
           softmax == Layer(infos, "softmax", "SOFTMAX", q, kv, 1, heads)
           context == Layer(infos, "context", "MATMUL", q, HeadDim(infos), kv, heads)
           proj == Layer(infos, "proj", "FC", rows, infos.hdim, PerGpu(infos, tp), 1)
           comm == Layer(infos, "comm_g2g", "G2G", rows, infos.hdim, 1, 1)
           norm1 == Layer(infos, "norm1", "NORM", rows, infos.hdim, 1, 1)
           norm2 == Layer(infos, "norm2", "NORM", rows, infos.hdim, 1, 1)
           ff == FeedForward(infos, tp, rows)
<1>1. /\ heads \in Positive /\ 1 \in Positive /\ 3 * PerGpu(infos, tp) \in Positive
      /\ HeadDim(infos) \in Positive /\ infos.hdim \in Positive /\ PerGpu(infos, tp) \in Positive
  <2>1. 3 \in Positive /\ 1 \in Positive
    BY DEF Positive
  <2>. QED  BY <2>1, Widths, TimesType
<1>2. /\ qkv \in LayerRec /\ score \in LayerRec /\ softmax \in LayerRec /\ context \in LayerRec
      /\ proj \in LayerRec /\ comm \in LayerRec /\ norm1 \in LayerRec /\ norm2 \in LayerRec
  <2>1. /\ "FC" \in LayerTypes /\ "MATMUL" \in LayerTypes /\ "SOFTMAX" \in LayerTypes
        /\ "G2G" \in LayerTypes /\ "NORM" \in LayerTypes
        /\ "qkv" \in LayerNames /\ "score" \in LayerNames /\ "softmax" \in LayerNames
        /\ "context" \in LayerNames /\ "proj" \in LayerNames /\ "comm_g2g" \in LayerNames
        /\ "norm1" \in LayerNames /\ "norm2" \in LayerNames
    BY DEF LayerTypes, LayerNames
  <2> HIDE DEF heads
  <2>2. qkv \in LayerRec /\ proj \in LayerRec
    BY <1>1, <2>1, LayerType
  <2>3. score \in LayerRec /\ context \in LayerRec
    BY <1>1, <2>1, LayerType
  <2>4. softmax \in LayerRec
    BY <1>1, <2>1, LayerType
  <2>5. comm \in LayerRec
    BY <1>1, <2>1, LayerType
  <2>6. norm1 \in LayerRec /\ norm2 \in LayerRec
    BY <1>1, <2>1, LayerType
  <2>. QED  BY <2>2, <2>3, <2>4, <2>5, <2>6
<1>3. ff \in Seq(LayerRec)
  BY FeedForwardType
<1>4. Decoder(infos, tp, batch, rows, q, kv, before, after)
        = <<qkv>> \o before \o <<score, softmax, context>> \o after
          \o <<proj, comm, norm1>> \o ff \o <<comm, norm2>>
  BY DEF Decoder
<1> HIDE DEF qkv, score, softmax, context, proj, comm, norm1, norm2, ff
<1>5. /\ <<qkv>> \in Seq(LayerRec) /\ <<score, softmax, context>> \in Seq(LayerRec)
      /\ <<proj, comm, norm1>> \in Seq(LayerRec) /\ <<comm, norm2>> \in Seq(LayerRec)
  BY <1>2
<1>6. \A s, t \in Seq(LayerRec) : s \o t \in Seq(LayerRec)
  BY ConcatProperties
<1>. QED  BY <1>3, <1>4, <1>5, <1>6

(* The decoders that are built for a call: one for the prompt, and one for each *)
(* token that is generated after the first.                                 *)
LEMMA DecodersType ==
  ASSUME NEW infos \in Models, NEW tp \in Shares(infos), NEW c \in Calls, NEW hetero0 \in BOOLEAN
  PROVE  /\ SumDecoder(infos, tp, c.batch, c.lin, hetero0) \in Seq(LayerRec)
         /\ GenDecoders(infos, tp, c.batch, c.lin, c.lout, hetero0) \in Seq(Seq(LayerRec))
         /\ c.lout > 1 => Len(GenDecoders(infos, tp, c.batch, c.lin, c.lout, hetero0)) = c.lout - 1
<1>1. /\ c.batch \in Positive /\ c.lin \in Positive /\ c.lout \in Nat /\ c.batch * c.lin \in Positive
      /\ 1 \in Positive
  BY SimulationAssumption, TimesType DEF Positive
<1>2. ASSUME NEW m \in Positive, NEW n \in Positive, NEW k \in Positive
      PROVE  X2G(infos, m, n, k) \in LayerRec
  <2>1. "X2G" \in LayerTypes /\ "comm_x2g" \in LayerNames
    BY DEF LayerTypes, LayerNames
  <2>. QED  BY <1>1, <2>1, LayerType DEF X2G
<1>3. /\ 2 * PerGpu(infos, tp) \in Positive /\ 3 * PerGpu(infos, tp) \in Positive
      /\ HeadDim(infos) \in Positive /\ HeadsPerGpu(infos, tp) * c.batch \in Positive
  <2>1. 2 \in Positive /\ 3 \in Positive
    BY DEF Positive
  <2>. QED  BY <1>1, <2>1, Widths, TimesType
<1>4. SumDecoder(infos, tp, c.batch, c.lin, hetero0) \in Seq(LayerRec)
  <2> DEFINE x == X2G(infos, c.batch * c.lin, 2 * PerGpu(infos, tp), 1)
             before == IF hetero0 THEN <<x>> ELSE <<>>
             rows == c.batch * c.lin
             after == <<>>
  <2>1. x \in LayerRec
    BY <1>1, <1>2, <1>3
  <2>2. before \in Seq(LayerRec) /\ after \in Seq(LayerRec)
    <3> HIDE DEF x
    <3>. QED  BY <2>1
  <2>3. SumDecoder(infos, tp, c.batch, c.lin, hetero0)
          = Decoder(infos, tp, c.batch, rows, c.lin, c.lin, before, after)
    BY DEF SumDecoder
  <2>4. rows \in Positive
    BY <1>1
  <2> HIDE DEF before, rows, after
  <2>. QED  BY <1>1, <2>2, <2>3, <2>4, DecoderType
<1>5. ASSUME NEW stage \in 1..(c.lout - 1)
      PROVE  GenDecoder(infos, tp, c.batch, c.lin, stage, hetero0) \in Seq(LayerRec)
  <2> DEFINE x == X2G(infos, c.batch, 3 * PerGpu(infos, tp), 1)
             y == X2G(infos, 1, HeadDim(infos), HeadsPerGpu(infos, tp) * c.batch)
             before == IF hetero0 THEN <<x>> ELSE <<>>
             after == IF hetero0 THEN <<y>> ELSE <<>>
             kv == c.lin + stage
             one == 1
  <2>1. x \in LayerRec /\ y \in LayerRec
    BY <1>1, <1>2, <1>3
  <2>2. before \in Seq(LayerRec) /\ after \in Seq(LayerRec)
    <3> HIDE DEF x, y
    <3>. QED  BY <2>1
  <2>3. kv \in Positive /\ one \in Positive
    BY <1>1 DEF Positive
  <2>4. GenDecoder(infos, tp, c.batch, c.lin, stage, hetero0)
          = Decoder(infos, tp, c.batch, c.batch, one, kv, before, after)
    BY DEF GenDecoder
  <2> HIDE DEF before, after, kv, one
  <2>. QED  BY <1>1, <2>2, <2>3, <2>4, DecoderType
<1> DEFINE g == [stage \in 1..(c.lout - 1) |-> GenDecoder(infos, tp, c.batch, c.lin, stage, hetero0)]
           n == IF c.lout = 0 THEN 0 ELSE c.lout - 1
<1>6. n \in Nat /\ 1..n = 1..(c.lout - 1)
  BY <1>1
<1>7. g \in [1..n -> Seq(LayerRec)]
  BY <1>5, <1>6
<1>8. g \in Seq(Seq(LayerRec)) /\ Len(g) = n
  <2> HIDE DEF g, n
  <2>. QED  BY <1>6, <1>7, SeqDef
<1>. QED  BY <1>1, <1>4, <1>8 DEF GenDecoders

(* The kinds of devices differ.                                             *)
LEMMA XpuIsNoPim == ASSUME NEW d, XpuOK(d) PROVE d.config.kind # "PIM"
<1>1. CpuConfig.kind = "CPU" /\ GpuConfig.kind = "GPU"
  BY SimulationAssumption
<1>. QED  BY <1>1 DEF XpuOK, XpuConfigs

(* A PIM device has one of the PIM configurations.                          *)
LEMMA PimKind ==
  ASSUME NEW d, PimOK(d)
  PROVE  d.config.kind = "PIM" /\ d.config \in PimConfigs /\ d.config.bw \in Positive
BY SimulationAssumption DEF PimOK, Positive

(* A device times a layer, and stays the device it was.                      *)
LEMMA CostType ==
  ASSUME SimulatorAnswers, NEW d, NEW l \in LayerRec, XpuOK(d) \/ (PimOK(d) /\ OnAcc(l))
  PROVE  /\ CostOK(Cost(AfterCost(d, l), l), l)
         /\ XpuOK(d) => XpuOK(AfterCost(d, l)) /\ Cost(AfterCost(d, l), l).time \in Quanta
         /\ PimOK(d) => PimOK(AfterCost(d, l))
         /\ AfterCost(d, l).config = d.config /\ AfterCost(d, l).num = d.num
<1>1. CASE XpuOK(d)
  <2>1. AfterCost(d, l) = WithTile(d, l) /\ d.config.kind # "PIM" /\ ~PimOK(d)
    BY <1>1, XpuIsNoPim, PimKind DEF AfterCost
  <2>2. /\ XpuOK(WithTile(d, l)) /\ WithTile(d, l).config = d.config /\ WithTile(d, l).num = d.num
        /\ ~IsCommunication(l) => /\ TileOf(WithTile(d, l), l).l1 \in Tile
                                  /\ TileOf(WithTile(d, l), l).l2 \in Tile
    BY <1>1, WithTileOK
  <2>3. CostOK(XpuCost(WithTile(d, l), l), l) /\ XpuCost(WithTile(d, l), l).time \in Quanta
    BY <2>2, XpuCostType
  <2>4. Cost(WithTile(d, l), l) = XpuCost(WithTile(d, l), l)
    BY <2>1, <2>2 DEF Cost
  <2>. QED  BY <2>1, <2>2, <2>3, <2>4
<1>2. CASE PimOK(d) /\ OnAcc(l)
  <2>1. d.config.kind = "PIM"
    BY <1>2, PimKind
  <2>2. /\ IsPIM(AfterCost(d, l)) /\ AfterCost(d, l).config = d.config
        /\ AfterCost(d, l).num = d.num /\ AfterCost(d, l).dhead = d.dhead
    BY <1>2, <2>1, AfterCostKeepsPim DEF PimOK
  <2>3. PimOK(AfterCost(d, l)) /\ ~XpuOK(d)
    BY <1>2, <2>1, <2>2, XpuIsNoPim DEF PimOK
  <2>4. Cost(AfterCost(d, l), l) = PimCost(AfterCost(d, l), l)
    BY <2>1, <2>2 DEF Cost
  <2>5. CostOK(PimCost(AfterCost(d, l), l), l)
    BY <1>2, <2>3, PimCostType
  <2>. QED  BY <2>2, <2>3, <2>4, <2>5
<1>. QED  BY <1>1, <1>2

(* A layer that was timed is still a layer.                                 *)
LEMMA TimedType ==
  ASSUME NEW l \in LayerRec, NEW cost, CostOK(cost, l)
  PROVE  /\ Timed(l, cost) \in LayerRec
         /\ Timed(l, cost).time = cost.time /\ Timed(l, cost).energy = cost.energy
         /\ Timed(l, cost).type = l.type
<1>1. cost.time \in Int /\ cost.energy \in [1..6 -> Int] /\ cost.bound \in {"compute", "memory"}
  BY DEF CostOK
<1>. QED  BY <1>1 DEF LayerRec, Timed

---------------------------------------------------------------------------
(* The columns of the header: the keys are all different, so each column has one *)
(* place in a row.                                                          *)

(* A list of n values, of whatever kind.                                    *)
IsList(s, n) == \E S : s \in Seq(S) /\ Len(s) = n

(* A list of k values is one of m values followed by one of n values.         *)
Begins(r, s, m, t, n) == (\A i \in 1..m : r[i] = s[i]) /\ (\A i \in 1..n : r[m + i] = t[i])
Joins(r, k, s, m, t, n) == IsList(r, k) /\ Begins(r, s, m, t, n)

(* Joining two lists: the places of the second are shifted by the first.    *)
LEMMA JoinLists ==
  ASSUME NEW s, NEW t, NEW m \in Nat, NEW n \in Nat, IsList(s, m), IsList(t, n)
  PROVE  Joins(s \o t, m + n, s, m, t, n)
<1>1. PICK S : s \in Seq(S) /\ Len(s) = m
  BY DEF IsList
<1>2. PICK T : t \in Seq(T) /\ Len(t) = n
  BY DEF IsList
<1>3. s \in Seq(S \cup T) /\ t \in Seq(S \cup T)
  BY <1>1, <1>2, SeqMonotonic
<1>4. /\ s \o t \in Seq(S \cup T)
      /\ Len(s \o t) = Len(s) + Len(t)
      /\ \A i \in 1..(Len(s) + Len(t)) : (s \o t)[i] = IF i <= Len(s) THEN s[i] ELSE t[i - Len(s)]
  BY <1>3, ConcatProperties
<1>5. IsList(s \o t, m + n)
  BY <1>1, <1>2, <1>4 DEF IsList
<1>6. \A i \in 1..(m + n) : (s \o t)[i] = IF i <= m THEN s[i] ELSE t[i - m]
  BY <1>1, <1>2, <1>4
<1>7. ASSUME NEW i \in 1..m PROVE (s \o t)[i] = s[i]
  <2>1. i \in 1..(m + n) /\ i <= m
    OBVIOUS
  <2>. QED  BY <1>6, <2>1
<1>8. ASSUME NEW i \in 1..n PROVE (s \o t)[m + i] = t[i]
  <2>1. m + i \in 1..(m + n) /\ ~(m + i <= m) /\ (m + i) - m = i
    OBVIOUS
  <2>. QED  BY <1>6, <2>1
<1>. QED  BY <1>5, <1>7, <1>8 DEF Joins, Begins

(* What a list begins with, a longer one that begins with it begins with.     *)
LEMMA BeginsTwice ==
  ASSUME NEW y, NEW x, NEW a, NEW b, NEW c, NEW o \in Nat, NEW k \in Nat, NEW l \in Nat,
         NEW m \in Nat, o = k + l, Begins(x, a, k, b, l), Begins(y, x, o, c, m)
  PROVE  Begins(y, a, k, b, l)
<1>1. ASSUME NEW i \in 1..k PROVE y[i] = a[i]
  <2>1. i \in 1..o
    OBVIOUS
  <2>. QED  BY <2>1 DEF Begins
<1>2. ASSUME NEW i \in 1..l PROVE y[k + i] = b[i]
  <2>1. k + i \in 1..o
    OBVIOUS
  <2>. QED  BY <2>1 DEF Begins
<1>. QED  BY <1>1, <1>2 DEF Begins

(* Four lists that are joined.                                              *)
JoinsFour(z, a, k, b, l, c, m, d, n) ==
  /\ IsList(z, k + l + m + n)
  /\ \A i \in 1..k : z[i] = a[i]
  /\ \A i \in 1..l : z[k + i] = b[i]
  /\ \A i \in 1..m : z[k + l + i] = c[i]
  /\ \A i \in 1..n : z[k + l + m + i] = d[i]

(* The same for four lists.                                                 *)
LEMMA JoinFour ==
  ASSUME NEW a, NEW b, NEW c, NEW d, NEW k \in Nat, NEW l \in Nat, NEW m \in Nat, NEW n \in Nat,
         IsList(a, k), IsList(b, l), IsList(c, m), IsList(d, n)
  PROVE  JoinsFour(a \o b \o c \o d, a, k, b, l, c, m, d, n)
<1> DEFINE x == a \o b
           y == x \o c
           z == y \o d
           kl == k + l
           klm == kl + m
           klmn == klm + n
<1>0. kl \in Nat /\ klm \in Nat /\ klmn \in Nat /\ kl = k + l /\ klm = kl + m
  OBVIOUS
<1>1. Joins(x, kl, a, k, b, l)
  BY JoinLists
<1>2. Joins(y, klm, x, kl, c, m)
  <2>1. IsList(x, kl)
    BY <1>1 DEF Joins
  <2> HIDE DEF x, kl
  <2>. QED  BY <1>0, <2>1, JoinLists
<1>3. Joins(z, klmn, y, klm, d, n)
  <2>1. IsList(y, klm)
    BY <1>2 DEF Joins
  <2> HIDE DEF y, klm
  <2>. QED  BY <1>0, <2>1, JoinLists
<1>4. z = a \o b \o c \o d
  OBVIOUS
<1> HIDE DEF x, y, z, kl, klm, klmn
<1>5. Begins(x, a, k, b, l) /\ Begins(y, x, kl, c, m) /\ Begins(z, y, klm, d, n) /\ IsList(z, klmn)
  BY <1>1, <1>2, <1>3 DEF Joins
<1>6. Begins(z, x, kl, c, m)
  BY <1>0, <1>5, BeginsTwice
<1>7. Begins(z, a, k, b, l)
  BY <1>0, <1>5, <1>6, BeginsTwice
<1>. QED  BY <1>4, <1>5, <1>6, <1>7 DEF JoinsFour, Begins, kl, klm, klmn

InfoKeys ==
  <<"model", "dtype", "xpu", "cap", "bw", "sys_opb", "hw", "cores", "pipe_level",
    "is_parallel", "power_constraint", "gqa_size", "Lin", "Lout", "bs", "required_cap",
    "s_flops", "g_flops">>

EnergyKeys ==
  <<"g_energy", "g_dram_energy", "g_l2_energy", "g_l1_energy", "g_reg_energy",
    "g_alu_energy", "g_fc_mem_energy", "g_fc_comp_energy", "g_attn_mem_energy",
    "g_attn_comp_energy", "g_etc_mem_energy", "g_etc_comp_energy", "g_comm_energy">>

(* The lists of keys.                                                       *)
LEMMA KeyLists ==
  /\ IsList(InfoKeys, 18) /\ IsList(SumKeys, 7) /\ IsList(GenKeys, 13) /\ IsList(EnergyKeys, 13)
<1> DEFINE I == {InfoKeys[i] : i \in 1..18}
           S == {SumKeys[i] : i \in 1..7}
           G == {GenKeys[i] : i \in 1..13}
           E == {EnergyKeys[i] : i \in 1..13}
<1>1. InfoKeys \in Seq(I) /\ Len(InfoKeys) = 18
  BY DEF InfoKeys
<1>2. SumKeys \in Seq(S) /\ Len(SumKeys) = 7
  BY DEF SumKeys
<1>3. GenKeys \in Seq(G) /\ Len(GenKeys) = 13
  BY DEF GenKeys
<1>4. EnergyKeys \in Seq(E) /\ Len(EnergyKeys) = 13
  BY DEF EnergyKeys
<1>. QED  BY <1>1, <1>2, <1>3, <1>4 DEF IsList

SumNames == {"s_time", "s_matmul", "s_fc", "s_comm", "s_softmax", "s_act", "s_lnorm"}
GenNames ==
  {"g_time", "g_matmul", "g_fc", "g_comm", "g_etc", "g_qkv_time", "g_prj_time",
   "g_ff_time", "g2g_comm", "c2g_comm", "g_softmax", "g_act", "g_lnorm"}
EnergyNames ==
  {"g_energy", "g_dram_energy", "g_l2_energy", "g_l1_energy", "g_reg_energy",
    "g_alu_energy", "g_fc_mem_energy", "g_fc_comp_energy", "g_attn_mem_energy",
    "g_attn_comp_energy", "g_etc_mem_energy", "g_etc_comp_energy", "g_comm_energy"}

(* Every key is one of the names of its list.                               *)
LEMMA KeyNames ==
  /\ \A i \in 1..18 : InfoKeys[i] \notin SumNames \cup GenNames \cup EnergyNames
  /\ \A i \in 1..7 : SumKeys[i] \in SumNames
  /\ \A i \in 1..13 : GenKeys[i] \in GenNames
  /\ \A i \in 1..13 : EnergyKeys[i] \in EnergyNames
<1>1. \A i \in 1..18 : InfoKeys[i] \notin SumNames
  BY DEF InfoKeys, SumNames
<1>2. \A i \in 1..18 : InfoKeys[i] \notin GenNames
  BY DEF InfoKeys, GenNames
<1>3. \A i \in 1..18 : InfoKeys[i] \notin EnergyNames
  BY DEF InfoKeys, EnergyNames
<1>4. \A i \in 1..7 : SumKeys[i] \in SumNames
  BY DEF SumKeys, SumNames
<1>5. \A i \in 1..13 : GenKeys[i] \in GenNames
  BY DEF GenKeys, GenNames
<1>6. \A i \in 1..13 : EnergyKeys[i] \in EnergyNames
  BY DEF EnergyKeys, EnergyNames
<1>. QED  BY <1>1, <1>2, <1>3, <1>4, <1>5, <1>6

(* No name is in two of the lists.                                          *)
LEMMA NamesApart ==
  /\ \A n \in SumNames : n \notin GenNames /\ n \notin EnergyNames
  /\ \A n \in GenNames : n \notin EnergyNames
BY DEF SumNames, GenNames, EnergyNames

(* No name is in a list twice.                                              *)
LEMMA KeysInjective ==
  /\ \A i, j \in 1..7 : SumKeys[i] = SumKeys[j] => i = j
  /\ \A i, j \in 1..13 : GenKeys[i] = GenKeys[j] => i = j
  /\ \A i, j \in 1..13 : EnergyKeys[i] = EnergyKeys[j] => i = j
<1>1. \A i, j \in 1..7 : SumKeys[i] = SumKeys[j] => i = j
  BY DEF SumKeys
<1>2. \A i, j \in 1..13 : GenKeys[i] = GenKeys[j] => i = j
  BY DEF GenKeys
<1>3. \A i, j \in 1..13 : EnergyKeys[i] = EnergyKeys[j] => i = j
  BY DEF EnergyKeys
<1>. QED  BY <1>1, <1>2, <1>3

(* The header: 18 columns of the configuration, then those of the lists of keys. *)
LEMMA HeaderKeys ==
  /\ IsList(Header, 51)
  /\ \A i \in 1..18 : Header[i] = InfoKeys[i]
  /\ \A i \in 1..7 : Header[18 + i] = SumKeys[i]
  /\ \A i \in 1..13 : Header[25 + i] = GenKeys[i]
  /\ \A i \in 1..13 : Header[38 + i] = EnergyKeys[i]
<1> DEFINE s == InfoKeys \o SumKeys \o GenKeys \o EnergyKeys
<1>1. Header = s
  BY DEF Header, InfoKeys, EnergyKeys
<1>2. JoinsFour(s, InfoKeys, 18, SumKeys, 7, GenKeys, 13, EnergyKeys, 13)
  BY KeyLists, JoinFour
<1> HIDE DEF s
<1>3. 18 + 7 + 13 + 13 = 51 /\ \A i \in 1..13 : 18 + 7 + i = 25 + i /\ 18 + 7 + 13 + i = 38 + i
  OBVIOUS
<1>. QED  BY <1>1, <1>2, <1>3 DEF JoinsFour

(* Where the columns are.                                                   *)
LEMMA ColumnPlaces ==
  ASSUME NEW row
  PROVE  /\ \A i \in 1..7 : Column(row, SumKeys[i]) = row[18 + i]
         /\ \A i \in 1..13 : Column(row, GenKeys[i]) = row[25 + i]
         /\ \A i \in 1..13 : Column(row, EnergyKeys[i]) = row[38 + i]
<1>1. DOMAIN Header = 1..51
  <2>1. PICK S : Header \in Seq(S) /\ Len(Header) = 51
    BY HeaderKeys DEF IsList
  <2>. QED  BY <2>1, LenProperties
<1>2. ASSUME NEW name, NEW p \in 1..51, Header[p] = name,
             \A q \in 1..51 : Header[q] = name => q = p
      PROVE  Column(row, name) = row[p]
  <2>1. (CHOOSE q \in DOMAIN Header : Header[q] = name) = p
    BY <1>1, <1>2
  <2>. QED  BY <2>1 DEF Column
<1>3. ASSUME NEW q \in 1..51
      PROVE  \/ q \in 1..18 /\ Header[q] \notin SumNames \cup GenNames \cup EnergyNames
             \/ \E j \in 1..7 : q = 18 + j /\ Header[q] = SumKeys[j]
             \/ \E j \in 1..13 : q = 25 + j /\ Header[q] = GenKeys[j]
             \/ \E j \in 1..13 : q = 38 + j /\ Header[q] = EnergyKeys[j]
  <2>1. CASE q \in 1..18
    BY <2>1, HeaderKeys, KeyNames
  <2>2. CASE q \in 19..25
    <3>1. q - 18 \in 1..7 /\ q = 18 + (q - 18)
      BY <2>2
    <3>. QED  BY <3>1, HeaderKeys
  <2>3. CASE q \in 26..38
    <3>1. q - 25 \in 1..13 /\ q = 25 + (q - 25)
      BY <2>3
    <3>. QED  BY <3>1, HeaderKeys
  <2>4. CASE q \in 39..51
    <3>1. q - 38 \in 1..13 /\ q = 38 + (q - 38)
      BY <2>4
    <3>. QED  BY <3>1, HeaderKeys
  <2>. QED  BY <2>1, <2>2, <2>3, <2>4
<1>4. ASSUME NEW i \in 1..7 PROVE Column(row, SumKeys[i]) = row[18 + i]
  <2>1. 18 + i \in 1..51 /\ Header[18 + i] = SumKeys[i]
    BY HeaderKeys
  <2>2. ASSUME NEW q \in 1..51, Header[q] = SumKeys[i] PROVE q = 18 + i
    BY <1>3, <2>2, KeyNames, NamesApart, KeysInjective
  <2>. QED  BY <1>2, <2>1, <2>2
<1>5. ASSUME NEW i \in 1..13 PROVE Column(row, GenKeys[i]) = row[25 + i]
  <2>1. 25 + i \in 1..51 /\ Header[25 + i] = GenKeys[i]
    BY HeaderKeys
  <2>2. ASSUME NEW q \in 1..51, Header[q] = GenKeys[i] PROVE q = 25 + i
    BY <1>3, <2>2, KeyNames, NamesApart, KeysInjective
  <2>. QED  BY <1>2, <2>1, <2>2
<1>6. ASSUME NEW i \in 1..13 PROVE Column(row, EnergyKeys[i]) = row[38 + i]
  <2>1. 38 + i \in 1..51 /\ Header[38 + i] = EnergyKeys[i]
    BY HeaderKeys
  <2>2. ASSUME NEW q \in 1..51, Header[q] = EnergyKeys[i] PROVE q = 38 + i
    BY <1>3, <2>2, KeyNames, NamesApart, KeysInjective
  <2>. QED  BY <1>2, <2>1, <2>2
<1>. QED  BY <1>4, <1>5, <1>6

---------------------------------------------------------------------------
(* Sums over sets that are enumerated.                                      *)

(* Sums over sets that are enumerated.                                      *)
(* g is f without its value for a.                                          *)
Extends(f, a, g, R) ==
  /\ IsFiniteSet(R) /\ a \notin R
  /\ f \in [{a} \cup R -> Int]
  /\ g = [y \in R |-> f[y]]

(* One element is taken out of a sum.                                       *)
LEMMA SumWithFirst ==
  ASSUME NEW f, NEW a, NEW g, NEW R, Extends(f, a, g, R)
  PROVE  SumFunction(f) = f[a] + SumFunction(g)
<1> USE DEF Extends
<1> DEFINE T == {a} \cup R
<1>1. IsFiniteSet(T)
  <2>1. T = R \cup {a}
    OBVIOUS
  <2>2. IsFiniteSet(R \cup {a})
    BY FS_AddElement
  <2>. QED  BY <2>1, <2>2
<1>2. T \ {a} = R /\ a \in T
  OBVIOUS
<1>3. SumFunction(f) = f[a] + SumFunction([y \in T \ {a} |-> f[y]])
  <2> HIDE DEF T
  <2>1. f \in [T -> Int]
    BY DEF T
  <2>. QED  BY <1>1, <1>2, <2>1, SumWithout
<1>4. [y \in T \ {a} |-> f[y]] = [y \in R |-> f[y]]
  BY <1>2
<1>. QED  BY <1>3, <1>4

(* The sum of nothing.                                                      *)
LEMMA EmptySum ==
  ASSUME NEW f \in [{} -> Int] PROVE SumFunction(f) = 0 /\ IsFiniteSet({})
BY SumOfNone, FS_EmptySet

OfOne(f, a) ==
  /\ f \in [{a} -> Int]
TotalOne(s, f, a) == s = f[a]

(* The sums of one to seven values: each takes one element out of the next. *)
LEMMA SumOne ==
  ASSUME NEW f, NEW a, OfOne(f, a)
  PROVE  TotalOne(SumFunction(f), f, a) /\ IsFiniteSet({a})
<1> DEFINE R == {}
           g == [y \in R |-> f[y]]
<1>1. {a} \cup R = {a} /\ R \cup {a} = {a} /\ a \notin R
  BY DEF OfOne
<1>2. g \in [R -> Int]
  OBVIOUS
<1>3. SumFunction(g) = 0 /\ IsFiniteSet(R)
  <2> HIDE DEF g
  <2>. QED  BY <1>2, EmptySum
<1>4. f[a] \in Int
  BY DEF OfOne
<1> HIDE DEF R
<1>5. SumFunction(f) = f[a] + SumFunction(g)
  <2>1. f \in [{a} \cup R -> Int]
    BY <1>1 DEF OfOne
  <2>2. Extends(f, a, g, R)
    BY <1>1, <1>3, <2>1 DEF Extends
  <2> HIDE DEF g
  <2>. QED  BY <2>2, SumWithFirst
<1>6. IsFiniteSet({a})
  <2>1. IsFiniteSet(R \cup {a})
    BY <1>3, FS_AddElement
  <2>. QED  BY <1>1, <2>1
<1> HIDE DEF g
<1>. QED  BY <1>3, <1>4, <1>5, <1>6 DEF TotalOne

OfTwo(f, a, b) ==
  /\ a \notin {b}
  /\ f \in [{a, b} -> Int]
TotalTwo(s, f, a, b) == s = f[a] + f[b]

(* The sum of what is listed, for two to seven different indices.            *)
LEMMA SumTwo ==
  ASSUME NEW f, NEW a, NEW b, OfTwo(f, a, b)
  PROVE  TotalTwo(SumFunction(f), f, a, b) /\ IsFiniteSet({a, b})
<1> DEFINE R == {b}
           g == [y \in R |-> f[y]]
<1>1. {a} \cup R = {a, b} /\ R \cup {a} = {a, b} /\ a \notin R
  BY DEF OfTwo
<1>2. g[b] = f[b]
  OBVIOUS
<1>3. TotalOne(SumFunction(g), g, b) /\ IsFiniteSet(R)
  <2>1. OfOne(g, b)
    BY DEF OfTwo, OfOne
  <2> HIDE DEF g
  <2>. QED  BY <2>1, SumOne
<1>4. f[a] \in Int /\ f[b] \in Int
  BY DEF OfTwo
<1> HIDE DEF R
<1>5. SumFunction(f) = f[a] + SumFunction(g)
  <2>1. f \in [{a} \cup R -> Int]
    BY <1>1 DEF OfTwo
  <2>2. Extends(f, a, g, R)
    BY <1>1, <1>3, <2>1 DEF Extends
  <2> HIDE DEF g
  <2>. QED  BY <2>2, SumWithFirst
<1>6. IsFiniteSet({a, b})
  <2>1. IsFiniteSet(R \cup {a})
    BY <1>3, FS_AddElement
  <2>. QED  BY <1>1, <2>1
<1> HIDE DEF g
<1>. QED  BY <1>2, <1>3, <1>4, <1>5, <1>6 DEF TotalTwo, TotalOne

OfThree(f, a, b, c) ==
  /\ a \notin {b, c}
  /\ b \notin {c}
  /\ f \in [{a, b, c} -> Int]
TotalThree(s, f, a, b, c) == s = f[a] + f[b] + f[c]

LEMMA SumThree ==
  ASSUME NEW f, NEW a, NEW b, NEW c, OfThree(f, a, b, c)
  PROVE  TotalThree(SumFunction(f), f, a, b, c) /\ IsFiniteSet({a, b, c})
<1> DEFINE R == {b, c}
           g == [y \in R |-> f[y]]
<1>1. {a} \cup R = {a, b, c} /\ R \cup {a} = {a, b, c} /\ a \notin R
  BY DEF OfThree
<1>2. g[b] = f[b] /\ g[c] = f[c]
  OBVIOUS
<1>3. TotalTwo(SumFunction(g), g, b, c) /\ IsFiniteSet(R)
  <2>1. OfTwo(g, b, c)
    BY DEF OfThree, OfTwo
  <2> HIDE DEF g
  <2>. QED  BY <2>1, SumTwo
<1>4. f[a] \in Int /\ f[b] \in Int /\ f[c] \in Int
  BY DEF OfThree
<1> HIDE DEF R
<1>5. SumFunction(f) = f[a] + SumFunction(g)
  <2>1. f \in [{a} \cup R -> Int]
    BY <1>1 DEF OfThree
  <2>2. Extends(f, a, g, R)
    BY <1>1, <1>3, <2>1 DEF Extends
  <2> HIDE DEF g
  <2>. QED  BY <2>2, SumWithFirst
<1>6. IsFiniteSet({a, b, c})
  <2>1. IsFiniteSet(R \cup {a})
    BY <1>3, FS_AddElement
  <2>. QED  BY <1>1, <2>1
<1> HIDE DEF g
<1>. QED  BY <1>2, <1>3, <1>4, <1>5, <1>6 DEF TotalThree, TotalTwo

OfFour(f, a, b, c, d) ==
  /\ a \notin {b, c, d}
  /\ b \notin {c, d}
  /\ c \notin {d}
  /\ f \in [{a, b, c, d} -> Int]
TotalFour(s, f, a, b, c, d) == s = f[a] + f[b] + f[c] + f[d]

LEMMA SumFour ==
  ASSUME NEW f, NEW a, NEW b, NEW c, NEW d, OfFour(f, a, b, c, d)
  PROVE  TotalFour(SumFunction(f), f, a, b, c, d) /\ IsFiniteSet({a, b, c, d})
<1> DEFINE R == {b, c, d}
           g == [y \in R |-> f[y]]
<1>1. {a} \cup R = {a, b, c, d} /\ R \cup {a} = {a, b, c, d} /\ a \notin R
  BY DEF OfFour
<1>2. g[b] = f[b] /\ g[c] = f[c] /\ g[d] = f[d]
  OBVIOUS
<1>3. TotalThree(SumFunction(g), g, b, c, d) /\ IsFiniteSet(R)
  <2>1. OfThree(g, b, c, d)
    BY DEF OfFour, OfThree
  <2> HIDE DEF g
  <2>. QED  BY <2>1, SumThree
<1>4. f[a] \in Int /\ f[b] \in Int /\ f[c] \in Int /\ f[d] \in Int
  BY DEF OfFour
<1> HIDE DEF R
<1>5. SumFunction(f) = f[a] + SumFunction(g)
  <2>1. f \in [{a} \cup R -> Int]
    BY <1>1 DEF OfFour
  <2>2. Extends(f, a, g, R)
    BY <1>1, <1>3, <2>1 DEF Extends
  <2> HIDE DEF g
  <2>. QED  BY <2>2, SumWithFirst
<1>6. IsFiniteSet({a, b, c, d})
  <2>1. IsFiniteSet(R \cup {a})
    BY <1>3, FS_AddElement
  <2>. QED  BY <1>1, <2>1
<1> HIDE DEF g
<1>. QED  BY <1>2, <1>3, <1>4, <1>5, <1>6 DEF TotalFour, TotalThree

OfFive(f, a, b, c, d, e) ==
  /\ a \notin {b, c, d, e}
  /\ b \notin {c, d, e}
  /\ c \notin {d, e}
  /\ d \notin {e}
  /\ f \in [{a, b, c, d, e} -> Int]
TotalFive(s, f, a, b, c, d, e) == s = f[a] + f[b] + f[c] + f[d] + f[e]

LEMMA SumFive ==
  ASSUME NEW f, NEW a, NEW b, NEW c, NEW d, NEW e, OfFive(f, a, b, c, d, e)
  PROVE  TotalFive(SumFunction(f), f, a, b, c, d, e) /\ IsFiniteSet({a, b, c, d, e})
<1> DEFINE R == {b, c, d, e}
           g == [y \in R |-> f[y]]
<1>1. {a} \cup R = {a, b, c, d, e} /\ R \cup {a} = {a, b, c, d, e} /\ a \notin R
  BY DEF OfFive
<1>2. g[b] = f[b] /\ g[c] = f[c] /\ g[d] = f[d] /\ g[e] = f[e]
  OBVIOUS
<1>3. TotalFour(SumFunction(g), g, b, c, d, e) /\ IsFiniteSet(R)
  <2>1. OfFour(g, b, c, d, e)
    BY DEF OfFive, OfFour
  <2> HIDE DEF g
  <2>. QED  BY <2>1, SumFour
<1>4. f[a] \in Int /\ f[b] \in Int /\ f[c] \in Int /\ f[d] \in Int /\ f[e] \in Int
  BY DEF OfFive
<1> HIDE DEF R
<1>5. SumFunction(f) = f[a] + SumFunction(g)
  <2>1. f \in [{a} \cup R -> Int]
    BY <1>1 DEF OfFive
  <2>2. Extends(f, a, g, R)
    BY <1>1, <1>3, <2>1 DEF Extends
  <2> HIDE DEF g
  <2>. QED  BY <2>2, SumWithFirst
<1>6. IsFiniteSet({a, b, c, d, e})
  <2>1. IsFiniteSet(R \cup {a})
    BY <1>3, FS_AddElement
  <2>. QED  BY <1>1, <2>1
<1> HIDE DEF g
<1>. QED  BY <1>2, <1>3, <1>4, <1>5, <1>6 DEF TotalFive, TotalFour

OfSix(f, a, b, c, d, e, p) ==
  /\ a \notin {b, c, d, e, p}
  /\ b \notin {c, d, e, p}
  /\ c \notin {d, e, p}
  /\ d \notin {e, p}
  /\ e \notin {p}
  /\ f \in [{a, b, c, d, e, p} -> Int]
TotalSix(s, f, a, b, c, d, e, p) == s = f[a] + f[b] + f[c] + f[d] + f[e] + f[p]

LEMMA SumSix ==
  ASSUME NEW f, NEW a, NEW b, NEW c, NEW d, NEW e, NEW p, OfSix(f, a, b, c, d, e, p)
  PROVE  TotalSix(SumFunction(f), f, a, b, c, d, e, p) /\ IsFiniteSet({a, b, c, d, e, p})
<1> DEFINE R == {b, c, d, e, p}
           g == [y \in R |-> f[y]]
<1>1. {a} \cup R = {a, b, c, d, e, p} /\ R \cup {a} = {a, b, c, d, e, p} /\ a \notin R
  BY DEF OfSix
<1>2. g[b] = f[b] /\ g[c] = f[c] /\ g[d] = f[d] /\ g[e] = f[e] /\ g[p] = f[p]
  OBVIOUS
<1>3. TotalFive(SumFunction(g), g, b, c, d, e, p) /\ IsFiniteSet(R)
  <2>1. OfFive(g, b, c, d, e, p)
    BY DEF OfSix, OfFive
  <2> HIDE DEF g
  <2>. QED  BY <2>1, SumFive
<1>4. f[a] \in Int /\ f[b] \in Int /\ f[c] \in Int /\ f[d] \in Int /\ f[e] \in Int /\ f[p] \in Int
  BY DEF OfSix
<1> HIDE DEF R
<1>5. SumFunction(f) = f[a] + SumFunction(g)
  <2>1. f \in [{a} \cup R -> Int]
    BY <1>1 DEF OfSix
  <2>2. Extends(f, a, g, R)
    BY <1>1, <1>3, <2>1 DEF Extends
  <2> HIDE DEF g
  <2>. QED  BY <2>2, SumWithFirst
<1>6. IsFiniteSet({a, b, c, d, e, p})
  <2>1. IsFiniteSet(R \cup {a})
    BY <1>3, FS_AddElement
  <2>. QED  BY <1>1, <2>1
<1> HIDE DEF g
<1>. QED  BY <1>2, <1>3, <1>4, <1>5, <1>6 DEF TotalSix, TotalFive

OfSeven(f, a, b, c, d, e, p, q) ==
  /\ a \notin {b, c, d, e, p, q}
  /\ b \notin {c, d, e, p, q}
  /\ c \notin {d, e, p, q}
  /\ d \notin {e, p, q}
  /\ e \notin {p, q}
  /\ p \notin {q}
  /\ f \in [{a, b, c, d, e, p, q} -> Int]
TotalSeven(s, f, a, b, c, d, e, p, q) == s = f[a] + f[b] + f[c] + f[d] + f[e] + f[p] + f[q]

LEMMA SumSeven ==
  ASSUME NEW f, NEW a, NEW b, NEW c, NEW d, NEW e, NEW p, NEW q, OfSeven(f, a, b, c, d, e, p, q)
  PROVE  TotalSeven(SumFunction(f), f, a, b, c, d, e, p, q) /\ IsFiniteSet({a, b, c, d, e, p, q})
<1> DEFINE R == {b, c, d, e, p, q}
           g == [y \in R |-> f[y]]
<1>1. {a} \cup R = {a, b, c, d, e, p, q} /\ R \cup {a} = {a, b, c, d, e, p, q} /\ a \notin R
  BY DEF OfSeven
<1>2. g[b] = f[b] /\ g[c] = f[c] /\ g[d] = f[d] /\ g[e] = f[e] /\ g[p] = f[p] /\ g[q] = f[q]
  OBVIOUS
<1>3. TotalSix(SumFunction(g), g, b, c, d, e, p, q) /\ IsFiniteSet(R)
  <2>1. OfSix(g, b, c, d, e, p, q)
    BY DEF OfSeven, OfSix
  <2> HIDE DEF g
  <2>. QED  BY <2>1, SumSix
<1>4. f[a] \in Int /\ f[b] \in Int /\ f[c] \in Int /\ f[d] \in Int /\ f[e] \in Int /\ f[p] \in Int /\ f[q] \in Int
  BY DEF OfSeven
<1> HIDE DEF R
<1>5. SumFunction(f) = f[a] + SumFunction(g)
  <2>1. f \in [{a} \cup R -> Int]
    BY <1>1 DEF OfSeven
  <2>2. Extends(f, a, g, R)
    BY <1>1, <1>3, <2>1 DEF Extends
  <2> HIDE DEF g
  <2>. QED  BY <2>2, SumWithFirst
<1>6. IsFiniteSet({a, b, c, d, e, p, q})
  <2>1. IsFiniteSet(R \cup {a})
    BY <1>3, FS_AddElement
  <2>. QED  BY <1>1, <2>1
<1> HIDE DEF g
<1>. QED  BY <1>2, <1>3, <1>4, <1>5, <1>6 DEF TotalSeven, TotalSix

---------------------------------------------------------------------------
(* A layer is in one column of each breakdown: the times of a list of layers. *)

(* h adds a and b, index by index.                                          *)
Adds(T, h, a, b) ==
  /\ IsFiniteSet(T) /\ h \in [T -> Int] /\ a \in [T -> Int] /\ b \in [T -> Int]
  /\ \A x \in T : h[x] = a[x] + b[x]

(* The sum of sums of two functions ...                                     *)
LEMMA SumOfTwo ==
  ASSUME NEW T, NEW h, NEW a, NEW b, Adds(T, h, a, b)
  PROVE  SumFunction(h) = SumFunction(a) + SumFunction(b)
BY SumOfSums DEF Adds

Adds3(T, h, a, b, c) ==
  /\ IsFiniteSet(T) /\ h \in [T -> Int] /\ a \in [T -> Int] /\ b \in [T -> Int] /\ c \in [T -> Int]
  /\ \A x \in T : h[x] = a[x] + b[x] + c[x]

(* ... of three ...                                                         *)
LEMMA SumOfThree ==
  ASSUME NEW T, NEW h, NEW a, NEW b, NEW c, Adds3(T, h, a, b, c)
  PROVE  SumFunction(h) = SumFunction(a) + SumFunction(b) + SumFunction(c)
<1> DEFINE ab == [x \in T |-> a[x] + b[x]]
<1>1. Adds(T, ab, a, b) /\ Adds(T, h, ab, c)
  BY DEF Adds3, Adds
<1> HIDE DEF ab
<1>2. SumFunction(ab) = SumFunction(a) + SumFunction(b)
  BY <1>1, SumOfTwo
<1>3. SumFunction(h) = SumFunction(ab) + SumFunction(c)
  BY <1>1, SumOfTwo
<1>. QED  BY <1>2, <1>3

Adds5(T, h, a, b, c, d, e) ==
  /\ IsFiniteSet(T) /\ h \in [T -> Int] /\ a \in [T -> Int] /\ b \in [T -> Int] /\ c \in [T -> Int]
  /\ d \in [T -> Int] /\ e \in [T -> Int]
  /\ \A x \in T : h[x] = a[x] + b[x] + c[x] + d[x] + e[x]

(* ... of five ...                                                          *)
LEMMA SumOfFive ==
  ASSUME NEW T, NEW h, NEW a, NEW b, NEW c, NEW d, NEW e, Adds5(T, h, a, b, c, d, e)
  PROVE  SumFunction(h) = SumFunction(a) + SumFunction(b) + SumFunction(c) + SumFunction(d)
                          + SumFunction(e)
<1> DEFINE abc == [x \in T |-> a[x] + b[x] + c[x]]
<1>1. Adds3(T, abc, a, b, c) /\ Adds3(T, h, abc, d, e)
  BY DEF Adds3, Adds5
<1> HIDE DEF abc
<1>2. SumFunction(abc) = SumFunction(a) + SumFunction(b) + SumFunction(c)
  BY <1>1, SumOfThree
<1>3. SumFunction(h) = SumFunction(abc) + SumFunction(d) + SumFunction(e)
  BY <1>1, SumOfThree
<1>. QED  BY <1>2, <1>3

Adds6(T, h, a, b, c, d, e, p) ==
  /\ IsFiniteSet(T) /\ h \in [T -> Int] /\ a \in [T -> Int] /\ b \in [T -> Int] /\ c \in [T -> Int]
  /\ d \in [T -> Int] /\ e \in [T -> Int] /\ p \in [T -> Int]
  /\ \A x \in T : h[x] = a[x] + b[x] + c[x] + d[x] + e[x] + p[x]

(* ... and of six.                                                          *)
LEMMA SumOfSix ==
  ASSUME NEW T, NEW h, NEW a, NEW b, NEW c, NEW d, NEW e, NEW p, Adds6(T, h, a, b, c, d, e, p)
  PROVE  SumFunction(h) = SumFunction(a) + SumFunction(b) + SumFunction(c) + SumFunction(d)
                          + SumFunction(e) + SumFunction(p)
<1> DEFINE ab == [x \in T |-> a[x] + b[x]]
<1>1. Adds(T, ab, a, b) /\ Adds5(T, h, ab, c, d, e, p)
  BY DEF Adds, Adds5, Adds6
<1> HIDE DEF ab
<1>2. SumFunction(ab) = SumFunction(a) + SumFunction(b)
  BY <1>1, SumOfTwo
<1>3. SumFunction(h) = SumFunction(ab) + SumFunction(c) + SumFunction(d) + SumFunction(e)
                       + SumFunction(p)
  BY <1>1, SumOfFive
<1>. QED  BY <1>2, <1>3

(* What the layers give to a column.                                        *)
SumPart(layers, key) ==
  [i \in DOMAIN layers |-> IF key \in SumColumns(layers[i]) THEN layers[i].time ELSE 0]
GenPart(layers, key) ==
  [i \in DOMAIN layers |-> IF key \in GenColumns(layers[i]) THEN layers[i].time ELSE 0]

(* The parts of the layers in a column are numbers.                         *)
LEMMA PartTypes ==
  ASSUME NEW layers \in Seq(LayerRec), NEW key
  PROVE  /\ IsFiniteSet(DOMAIN layers)
         /\ SumPart(layers, key) \in [DOMAIN layers -> Int]
         /\ GenPart(layers, key) \in [DOMAIN layers -> Int]
         /\ SumFunction(SumPart(layers, key)) \in Int /\ SumFunction(GenPart(layers, key)) \in Int
<1>1. IsFiniteSet(DOMAIN layers)
  <2>1. Len(layers) \in Nat /\ DOMAIN layers = 1..Len(layers)
    BY LenProperties
  <2>. QED  BY <2>1, 1 \in Int, Len(layers) \in Int, FS_Interval
<1>2. \A i \in DOMAIN layers : layers[i] \in LayerRec /\ layers[i].time \in Int
  BY LayerSizes, LenProperties, ElementOfSeq
<1>3. SumPart(layers, key) \in [DOMAIN layers -> Int] /\ GenPart(layers, key) \in [DOMAIN layers -> Int]
  BY <1>2 DEF SumPart, GenPart
<1>. QED  BY <1>1, <1>3, SumIsInt

(* Perf sums up these parts, column by column.                              *)
LEMMA PerfIsSum ==
  ASSUME NEW layers
  PROVE  /\ Perf(layers, SumKeys, SumColumns)
              = [i \in DOMAIN SumKeys |-> SumFunction(SumPart(layers, SumKeys[i]))]
         /\ Perf(layers, GenKeys, GenColumns)
              = [i \in DOMAIN GenKeys |-> SumFunction(GenPart(layers, GenKeys[i]))]
BY DEF Perf, SumOver, SumPart, GenPart

(* The times of a stage, summed up by type of layer.                         *)
LEMMA SumTimesSplit ==
  ASSUME NEW layers \in Seq(LayerRec)
  PROVE  LET T(key) == SumFunction(SumPart(layers, key))
         IN T("s_time") = T("s_matmul") + T("s_fc") + T("s_comm") + T("s_softmax") + T("s_act")
                          + T("s_lnorm")
<1> DEFINE P(key) == SumPart(layers, key)
<1>1. ASSUME NEW i \in DOMAIN layers
      PROVE  P("s_time")[i] = P("s_matmul")[i] + P("s_fc")[i] + P("s_comm")[i] + P("s_softmax")[i]
                              + P("s_act")[i] + P("s_lnorm")[i]
  <2> DEFINE l == layers[i]
             In(key) == IF key \in SumColumns(l) THEN l.time ELSE 0
  <2>1. l \in LayerRec /\ l.time \in Int /\ l.type \in LayerTypes
    BY LayerSizes, LenProperties, ElementOfSeq
  <2>2. /\ P("s_time")[i] = In("s_time") /\ P("s_matmul")[i] = In("s_matmul")
        /\ P("s_fc")[i] = In("s_fc") /\ P("s_comm")[i] = In("s_comm")
        /\ P("s_softmax")[i] = In("s_softmax") /\ P("s_act")[i] = In("s_act")
        /\ P("s_lnorm")[i] = In("s_lnorm")
    BY DEF SumPart
  <2> HIDE DEF l, P
  <2>3. In("s_time") = In("s_matmul") + In("s_fc") + In("s_comm") + In("s_softmax") + In("s_act")
                       + In("s_lnorm")
    BY <2>1 DEF SumColumns, LayerTypes
  <2> HIDE DEF On
  <2>. QED  BY <2>2, <2>3
<1>2. Adds6(DOMAIN layers, P("s_time"), P("s_matmul"), P("s_fc"), P("s_comm"), P("s_softmax"),
            P("s_act"), P("s_lnorm"))
  <2>1. \A key : P(key) \in [DOMAIN layers -> Int]
    BY PartTypes
  <2>2. IsFiniteSet(DOMAIN layers)
    BY PartTypes
  <2> HIDE DEF P
  <2>. QED  BY <1>1, <2>1, <2>2 DEF Adds6
<1> HIDE DEF P
<1>3. SumFunction(P("s_time"))
        = SumFunction(P("s_matmul")) + SumFunction(P("s_fc")) + SumFunction(P("s_comm"))
          + SumFunction(P("s_softmax")) + SumFunction(P("s_act")) + SumFunction(P("s_lnorm"))
  BY <1>2, SumOfSix
<1>. QED  BY <1>3 DEF P

(* The times of the generation, summed up by type of layer.                  *)
LEMMA GenTimesSplit ==
  ASSUME NEW layers \in Seq(LayerRec)
  PROVE  LET T(key) == SumFunction(GenPart(layers, key))
         IN /\ T("g_time") = T("g_matmul") + T("g_fc") + T("g_comm") + T("g_etc") + T("g_softmax")
            /\ T("g_fc") = T("g_qkv_time") + T("g_prj_time") + T("g_ff_time")
            /\ T("g_comm") = T("g2g_comm") + T("c2g_comm")
            /\ T("g_etc") = T("g_act") + T("g_lnorm")
<1> DEFINE P(key) == GenPart(layers, key)
<1>1. ASSUME NEW i \in DOMAIN layers
      PROVE  /\ P("g_time")[i] = P("g_matmul")[i] + P("g_fc")[i] + P("g_comm")[i] + P("g_etc")[i]
                                 + P("g_softmax")[i]
             /\ P("g_fc")[i] = P("g_qkv_time")[i] + P("g_prj_time")[i] + P("g_ff_time")[i]
             /\ P("g_comm")[i] = P("g2g_comm")[i] + P("c2g_comm")[i]
             /\ P("g_etc")[i] = P("g_act")[i] + P("g_lnorm")[i]
  <2> DEFINE l == layers[i]
             In(key) == IF key \in GenColumns(l) THEN l.time ELSE 0
  <2>1. l \in LayerRec /\ l.time \in Int /\ l.type \in LayerTypes
    BY LayerSizes, LenProperties, ElementOfSeq
  <2>2. \A key : P(key)[i] = In(key)
    BY DEF GenPart
  <2> HIDE DEF l, P
  <2>3. CASE l.type = "FC"
    <3>1. \E c \in {"g_ff_time", "g_qkv_time", "g_prj_time"} :
            GenColumns(l) = {"g_time", "g_fc", c}
      BY <2>3 DEF GenColumns
    <3>. QED  BY <2>1, <2>2, <3>1
  <2>4. CASE l.type # "FC"
    <3>1. GenColumns(l) \in {{"g_time", "g_matmul"}, {"g_time", "g_comm", "g2g_comm"},
                             {"g_time", "g_comm", "c2g_comm"}, {"g_time", "g_etc", "g_act"},
                             {"g_time", "g_etc", "g_lnorm"}, {"g_time", "g_softmax"}}
      BY <2>1, <2>4 DEF GenColumns, LayerTypes
    <3>. QED  BY <2>1, <2>2, <3>1
  <2>. QED  BY <2>3, <2>4
<1>2. (\A key : P(key) \in [DOMAIN layers -> Int]) /\ IsFiniteSet(DOMAIN layers)
  BY PartTypes
<1> HIDE DEF P
<1>3. /\ Adds5(DOMAIN layers, P("g_time"), P("g_matmul"), P("g_fc"), P("g_comm"), P("g_etc"),
               P("g_softmax"))
      /\ Adds3(DOMAIN layers, P("g_fc"), P("g_qkv_time"), P("g_prj_time"), P("g_ff_time"))
      /\ Adds(DOMAIN layers, P("g_comm"), P("g2g_comm"), P("c2g_comm"))
      /\ Adds(DOMAIN layers, P("g_etc"), P("g_act"), P("g_lnorm"))
  BY <1>1, <1>2 DEF Adds, Adds3, Adds5
<1>4. SumFunction(P("g_time"))
        = SumFunction(P("g_matmul")) + SumFunction(P("g_fc")) + SumFunction(P("g_comm"))
          + SumFunction(P("g_etc")) + SumFunction(P("g_softmax"))
  BY <1>3, SumOfFive
<1>5. SumFunction(P("g_fc")) = SumFunction(P("g_qkv_time")) + SumFunction(P("g_prj_time"))
                               + SumFunction(P("g_ff_time"))
  BY <1>3, SumOfThree
<1>6. /\ SumFunction(P("g_comm")) = SumFunction(P("g2g_comm")) + SumFunction(P("c2g_comm"))
      /\ SumFunction(P("g_etc")) = SumFunction(P("g_act")) + SumFunction(P("g_lnorm"))
  BY <1>3, SumOfTwo
<1>. QED  BY <1>4, <1>5, <1>6 DEF P

---------------------------------------------------------------------------
(* The energies that are added up while the layers are timed.               *)

(* The energies of all layers so far, split up in two ways.                  *)
Split == [mem : Int, comp : Int, comm : Int]
SplitOK(all, unit, byType) ==
  /\ all \in Int /\ unit \in [1..6 -> Int] /\ byType \in [LayerTypes -> Split]
  /\ all = unit[1] + unit[2] + unit[3] + unit[4] + unit[5] + unit[6]
  /\ unit[1] = byType["FC"].mem + byType["MATMUL"].mem + byType["SOFTMAX"].mem
               + byType["ACT"].mem + byType["NORM"].mem
  /\ unit[2] + unit[3] + unit[4] + unit[5]
       = byType["FC"].comp + byType["MATMUL"].comp + byType["SOFTMAX"].comp
         + byType["ACT"].comp + byType["NORM"].comp
  /\ unit[6] = byType["FC"].comm + byType["MATMUL"].comm + byType["ACT"].comm
               + byType["SOFTMAX"].comm + byType["NORM"].comm + byType["G2G"].comm
               + byType["X2G"].comm

(* The list of energies, place by place.                                    *)
LEMMA EnergiesAre ==
  ASSUME SplitOK(work.all, work.unit, work.byType)
  PROVE  LET s == Energies
             e(type) == work.byType[type]
         IN /\ IsList(s, 13)
            /\ s[1] = work.all
            /\ \A i \in 1..5 : s[i + 1] = work.unit[i]
            /\ s[7] = e("FC").mem /\ s[8] = e("FC").comp
            /\ s[9] = e("MATMUL").mem + e("SOFTMAX").mem
            /\ s[10] = e("MATMUL").comp + e("SOFTMAX").comp
            /\ s[11] = e("ACT").mem + e("NORM").mem
            /\ s[12] = e("ACT").comp + e("NORM").comp
            /\ s[13] = work.unit[6]
<1> DEFINE e(type) == work.byType[type]
           first == SubSeq(work.unit, 1, 5)
           rest == <<EnergyOf("mem", {"FC"}), EnergyOf("comp", {"FC"}),
                     EnergyOf("mem", AttentionTypes), EnergyOf("comp", AttentionTypes),
                     EnergyOf("mem", {"ACT", "NORM"}), EnergyOf("comp", {"ACT", "NORM"}),
                     EnergyOf("comm", LayerTypes)>>
<1>1. work.all \in Int /\ work.unit \in [1..6 -> Int] /\ work.byType \in [LayerTypes -> Split]
  BY DEF SplitOK
<1>2. \A type \in LayerTypes :
        /\ e(type)["mem"] = e(type).mem /\ e(type)["comp"] = e(type).comp
        /\ e(type)["comm"] = e(type).comm
        /\ e(type).mem \in Int /\ e(type).comp \in Int /\ e(type).comm \in Int
  BY <1>1 DEF Split
<1> DEFINE Of(part, types) == [t \in types |-> work.byType[t][part]]
<1>3. /\ EnergyOf("mem", {"FC"}) = e("FC").mem /\ EnergyOf("comp", {"FC"}) = e("FC").comp
  <2>1. OfOne(Of("mem", {"FC"}), "FC") /\ OfOne(Of("comp", {"FC"}), "FC")
    BY <1>2 DEF OfOne, LayerTypes
  <2>2. /\ SumFunction(Of("mem", {"FC"})) = Of("mem", {"FC"})["FC"]
        /\ SumFunction(Of("comp", {"FC"})) = Of("comp", {"FC"})["FC"]
    <3>1. /\ TotalOne(SumFunction(Of("mem", {"FC"})), Of("mem", {"FC"}), "FC")
          /\ TotalOne(SumFunction(Of("comp", {"FC"})), Of("comp", {"FC"}), "FC")
      <4> HIDE DEF Of
      <4>. QED  BY <2>1, SumOne
    <3>. QED  BY <3>1 DEF TotalOne
  <2>. QED  BY <1>2, <2>2 DEF EnergyOf, LayerTypes
<1>4. /\ EnergyOf("mem", AttentionTypes) = e("MATMUL").mem + e("SOFTMAX").mem
      /\ EnergyOf("comp", AttentionTypes) = e("MATMUL").comp + e("SOFTMAX").comp
  <2> DEFINE m == Of("mem", AttentionTypes)
             c == Of("comp", AttentionTypes)
  <2>1. OfTwo(m, "MATMUL", "SOFTMAX") /\ OfTwo(c, "MATMUL", "SOFTMAX")
    BY <1>2 DEF OfTwo, AttentionTypes, LayerTypes
  <2>2. SumFunction(m) = m["MATMUL"] + m["SOFTMAX"] /\ SumFunction(c) = c["MATMUL"] + c["SOFTMAX"]
    <3>1. TotalTwo(SumFunction(m), m, "MATMUL", "SOFTMAX") /\ TotalTwo(SumFunction(c), c, "MATMUL", "SOFTMAX")
      <4> HIDE DEF m, c
      <4>. QED  BY <2>1, SumTwo
    <3> HIDE DEF m, c
    <3>. QED  BY <3>1 DEF TotalTwo
  <2>. QED  BY <1>2, <2>2 DEF EnergyOf, AttentionTypes, LayerTypes
<1>5. /\ EnergyOf("mem", {"ACT", "NORM"}) = e("ACT").mem + e("NORM").mem
      /\ EnergyOf("comp", {"ACT", "NORM"}) = e("ACT").comp + e("NORM").comp
  <2> DEFINE m == Of("mem", {"ACT", "NORM"})
             c == Of("comp", {"ACT", "NORM"})
  <2>1. OfTwo(m, "ACT", "NORM") /\ OfTwo(c, "ACT", "NORM")
    BY <1>2 DEF OfTwo, LayerTypes
  <2>2. SumFunction(m) = m["ACT"] + m["NORM"] /\ SumFunction(c) = c["ACT"] + c["NORM"]
    <3>1. TotalTwo(SumFunction(m), m, "ACT", "NORM") /\ TotalTwo(SumFunction(c), c, "ACT", "NORM")
      <4> HIDE DEF m, c
      <4>. QED  BY <2>1, SumTwo
    <3> HIDE DEF m, c
    <3>. QED  BY <3>1 DEF TotalTwo
  <2>. QED  BY <1>2, <2>2 DEF EnergyOf, LayerTypes
<1>6. EnergyOf("comm", LayerTypes) = work.unit[6]
  <2> DEFINE g == Of("comm", LayerTypes)
  <2>1. OfSeven(g, "FC", "MATMUL", "ACT", "SOFTMAX", "NORM", "G2G", "X2G")
    BY <1>2 DEF OfSeven, LayerTypes
  <2>2. SumFunction(g) = g["FC"] + g["MATMUL"] + g["ACT"] + g["SOFTMAX"] + g["NORM"] + g["G2G"]
                         + g["X2G"]
    <3> HIDE DEF g
    <3>1. TotalSeven(SumFunction(g), g, "FC", "MATMUL", "ACT", "SOFTMAX", "NORM", "G2G", "X2G")
      BY <2>1, SumSeven
    <3>. QED  BY <3>1 DEF TotalSeven
  <2>3. SumFunction(g) = EnergyOf("comm", LayerTypes)
    BY DEF EnergyOf
  <2>4. \A type \in LayerTypes : g[type] = e(type).comm
    BY <1>2
  <2> HIDE DEF g
  <2>. QED  BY <2>2, <2>3, <2>4 DEF SplitOK, LayerTypes
<1>7. first \in Seq(Int) /\ Len(first) = 5 /\ \A i \in 1..5 : first[i] = work.unit[i]
  <2>1. \A i \in 1..5 : work.unit[i] \in Int
    BY <1>1
  <2>2. /\ first \in Seq(Int) /\ Len(first) = IF 1 <= 5 THEN 5 - 1 + 1 ELSE 0
        /\ \A i \in 1..(5 - 1 + 1) : first[i] = work.unit[1 + i - 1]
    BY <2>1, 1 \in Int, 5 \in Int, SubSeqProperties
  <2> HIDE DEF first
  <2>. QED  BY <2>2
<1>8. rest \in Seq(Int) /\ Len(rest) = 7
  <2>1. \A type \in {"FC", "MATMUL", "SOFTMAX", "ACT", "NORM"} :
          e(type).mem \in Int /\ e(type).comp \in Int
    BY <1>2 DEF LayerTypes
  <2>2. work.unit[6] \in Int
    BY <1>1
  <2>. QED  BY <2>1, <2>2, <1>3, <1>4, <1>5, <1>6
<1>9. Energies = <<work.all>> \o first \o rest
  BY DEF Energies
<1>10. rest = <<e("FC").mem, e("FC").comp, e("MATMUL").mem + e("SOFTMAX").mem,
               e("MATMUL").comp + e("SOFTMAX").comp, e("ACT").mem + e("NORM").mem,
               e("ACT").comp + e("NORM").comp, work.unit[6]>>
  BY <1>3, <1>4, <1>5, <1>6
<1>11. IsList(first, 5) /\ IsList(rest, 7) /\ IsList(<<work.all>>, 1)
  BY <1>1, <1>7, <1>8 DEF IsList
<1> HIDE DEF first, rest
<1> DEFINE one == <<work.all>>
           head == one \o first
           s == head \o rest
<1>12. Joins(head, 1 + 5, one, 1, first, 5)
  <2> HIDE DEF one
  <2>. QED  BY <1>11, JoinLists DEF one
<1>13. Joins(s, 6 + 7, head, 6, rest, 7)
  <2>1. IsList(head, 6)
    BY <1>12 DEF Joins
  <2> HIDE DEF head
  <2>. QED  BY <1>11, <2>1, JoinLists
<1>14. Energies = s /\ one[1] = work.all
  BY <1>9
<1> HIDE DEF s, head, one
<1>15. head[1] = work.all /\ \A i \in 1..5 : head[i + 1] = work.unit[i]
  <2>1. (\A i \in 1..1 : head[i] = one[i]) /\ \A i \in 1..5 : head[1 + i] = first[i]
    BY <1>12 DEF Joins, Begins
  <2>2. \A i \in 1..5 : head[i + 1] = head[1 + i]
    OBVIOUS
  <2>. QED  BY <1>7, <1>14, <2>1, <2>2
<1>16. (\A i \in 1..6 : s[i] = head[i]) /\ (\A i \in 1..7 : s[6 + i] = rest[i])
  BY <1>13 DEF Joins, Begins
<1>17. /\ s[1] = work.all /\ \A i \in 1..5 : s[i + 1] = work.unit[i]
  BY <1>15, <1>16
<1>18. /\ s[7] = rest[1] /\ s[8] = rest[2] /\ s[9] = rest[3] /\ s[10] = rest[4]
       /\ s[11] = rest[5] /\ s[12] = rest[6] /\ s[13] = rest[7]
  BY <1>16
<1>19. IsList(s, 13)
  BY <1>13 DEF Joins
<1>. QED  BY <1>10, <1>14, <1>17, <1>18, <1>19

---------------------------------------------------------------------------
(* The row that is reported, read by the names of its columns.              *)

RowTimes(row) ==
  LET Total(whole, parts) == Column(row, whole) = Columns(row, parts)
  IN /\ Total("s_time", {"s_matmul", "s_fc", "s_comm", "s_softmax", "s_act", "s_lnorm"})
     /\ Total("g_time", {"g_matmul", "g_fc", "g_comm", "g_etc", "g_softmax"})
     /\ Total("g_fc", {"g_qkv_time", "g_prj_time", "g_ff_time"})
     /\ Total("g_comm", {"g2g_comm", "c2g_comm"})
     /\ Total("g_etc", {"g_act", "g_lnorm"})

RowEnergies(row) ==
  LET Total(parts) == Column(row, "g_energy") = Columns(row, parts)
  IN /\ Total({"g_dram_energy", "g_l2_energy", "g_l1_energy", "g_reg_energy", "g_alu_energy",
               "g_comm_energy"})
     /\ Total({"g_fc_mem_energy", "g_fc_comp_energy", "g_attn_mem_energy", "g_attn_comp_energy",
               "g_etc_mem_energy", "g_etc_comp_energy", "g_comm_energy"})

(* The columns of a row that is reported now.                               *)
RowReads(row) ==
  LET n == model.infos.ndec
      e(type) == work.byType[type]
  IN /\ IsList(row, 51)
     /\ \A key \in SumNames : Column(row, key) = SumFunction(SumPart(work.sum, key)) * n
     /\ \A key \in GenNames :
          Column(row, key) = SumFunction(GenPart(FlattenSeq(work.gen), key)) * n
     /\ Column(row, "g_energy") = work.all * n
     /\ Column(row, "g_dram_energy") = work.unit[1] * n
     /\ Column(row, "g_l2_energy") = work.unit[2] * n
     /\ Column(row, "g_l1_energy") = work.unit[3] * n
     /\ Column(row, "g_reg_energy") = work.unit[4] * n
     /\ Column(row, "g_alu_energy") = work.unit[5] * n
     /\ Column(row, "g_fc_mem_energy") = e("FC").mem * n
     /\ Column(row, "g_fc_comp_energy") = e("FC").comp * n
     /\ Column(row, "g_attn_mem_energy") = (e("MATMUL").mem + e("SOFTMAX").mem) * n
     /\ Column(row, "g_attn_comp_energy") = (e("MATMUL").comp + e("SOFTMAX").comp) * n
     /\ Column(row, "g_etc_mem_energy") = (e("ACT").mem + e("NORM").mem) * n
     /\ Column(row, "g_etc_comp_energy") = (e("ACT").comp + e("NORM").comp) * n
     /\ Column(row, "g_comm_energy") = work.unit[6] * n

Scaled(figures) == [i \in DOMAIN figures |-> figures[i] * model.infos.ndec]

(* A list of which every value is multiplied by the number of decoders.     *)
LEMMA ScaledList ==
  ASSUME NEW s, NEW n \in Nat, IsList(s, n)
  PROVE  IsList(Scaled(s), n) /\ \A i \in 1..n : Scaled(s)[i] = s[i] * model.infos.ndec
<1>1. PICK S : s \in Seq(S) /\ Len(s) = n
  BY DEF IsList
<1>2. DOMAIN s = 1..n
  BY <1>1, LenProperties
<1> DEFINE R == {s[i] * model.infos.ndec : i \in 1..n}
<1>3. Scaled(s) \in [1..n -> R]
  BY <1>2 DEF Scaled
<1>4. Scaled(s) \in Seq(R) /\ Len(Scaled(s)) = n
  <2> HIDE DEF R
  <2>. QED  BY <1>3, SeqDef
<1>5. \A i \in 1..n : Scaled(s)[i] = s[i] * model.infos.ndec
  BY <1>2 DEF Scaled
<1>. QED  BY <1>4, <1>5 DEF IsList

(* The lists of times, place by place.                                      *)
LEMMA PerfLists ==
  /\ IsList(Perf(work.sum, SumKeys, SumColumns), 7)
  /\ \A i \in 1..7 : Perf(work.sum, SumKeys, SumColumns)[i]
                       = SumFunction(SumPart(work.sum, SumKeys[i]))
  /\ IsList(Perf(FlattenSeq(work.gen), GenKeys, GenColumns), 13)
  /\ \A i \in 1..13 : Perf(FlattenSeq(work.gen), GenKeys, GenColumns)[i]
                        = SumFunction(GenPart(FlattenSeq(work.gen), GenKeys[i]))
<1> DEFINE s == Perf(work.sum, SumKeys, SumColumns)
           g == Perf(FlattenSeq(work.gen), GenKeys, GenColumns)
           a(i) == SumFunction(SumPart(work.sum, SumKeys[i]))
           b(i) == SumFunction(GenPart(FlattenSeq(work.gen), GenKeys[i]))
           A == {a(i) : i \in 1..7}
           B == {b(i) : i \in 1..13}
<1>1. DOMAIN SumKeys = 1..7 /\ DOMAIN GenKeys = 1..13
  BY DEF SumKeys, GenKeys
<1>2. s = [i \in 1..7 |-> a(i)] /\ g = [i \in 1..13 |-> b(i)]
  <2>1. s = [i \in DOMAIN SumKeys |-> a(i)] /\ g = [i \in DOMAIN GenKeys |-> b(i)]
    BY PerfIsSum, Zenon
  <2> HIDE DEF s, g, a, b
  <2>. QED  BY <1>1, <2>1
<1> HIDE DEF s, g, a, b
<1>3. s \in [1..7 -> A] /\ g \in [1..13 -> B]
  BY <1>2
<1>4. IsList(s, 7) /\ IsList(g, 13)
  <2> HIDE DEF A, B
  <2>1. ASSUME NEW S, NEW n \in Nat, NEW f \in [1..n -> S]  PROVE  IsList(f, n)
    <3>1. f \in Seq(S) /\ Len(f) = n
      BY <2>1, SeqDef
    <3>. QED  BY <3>1 DEF IsList
  <2>2. 7 \in Nat /\ 13 \in Nat
    OBVIOUS
  <2>. QED  BY <1>3, <2>1, <2>2
<1>5. (\A i \in 1..7 : s[i] = a(i)) /\ \A i \in 1..13 : g[i] = b(i)
  BY <1>2
<1>. QED  BY <1>4, <1>5 DEF s, g, a, b

(* The columns before the times.                                            *)
LEMMA FrontList ==
  ASSUME NEW bs
  PROVE  IsList(Tag \o Config(bs), 18)
<1>1. IsList(Tag, 6)
  <2>1. ASSUME NEW a, NEW b, NEW c, NEW d, NEW e, NEW p PROVE IsList(<<a, b, c, d, e, p>>, 6)
    <3>1. <<a, b, c, d, e, p>> \in Seq({a, b, c, d, e, p}) /\ Len(<<a, b, c, d, e, p>>) = 6
      OBVIOUS
    <3>. QED  BY <3>1 DEF IsList
  <2>. QED  BY <2>1 DEF Tag
<1>2. IsList(Config(bs), 12)
  <2>1. ASSUME NEW a, NEW b, NEW c, NEW d, NEW e, NEW p, NEW q, NEW r, NEW s, NEW t, NEW u, NEW v
        PROVE  IsList(<<a, b, c, d, e, p, q, r, s, t, u, v>>, 12)
    <3> DEFINE S == {a, b, c, d, e, p, q, r, s, t, u, v}
               l == <<a, b, c, d, e, p, q, r, s, t, u, v>>
    <3>1. l \in Seq(S) /\ Len(l) = 12
      OBVIOUS
    <3>. QED  BY <3>1 DEF IsList
  <2>. QED  BY <2>1 DEF Config
<1>3. Joins(Tag \o Config(bs), 6 + 12, Tag, 6, Config(bs), 12)
  BY <1>1, <1>2, JoinLists
<1>. QED  BY <1>3 DEF Joins

(* Where a row is read by the name of a column, it has the value of that name. *)
LEMMA RowIsRead ==
  ASSUME NEW bs, SplitOK(work.all, work.unit, work.byType)
  PROVE  RowReads(Row(bs))
<1> DEFINE n == model.infos.ndec
           a == Tag \o Config(bs)
           ps == Perf(work.sum, SumKeys, SumColumns)
           pg == Perf(FlattenSeq(work.gen), GenKeys, GenColumns)
           s == Scaled(ps)
           g == Scaled(pg)
           e == Scaled(Energies)
           row == Row(bs)
<1>1. row = a \o s \o g \o e
  BY DEF Row, Scaled
<1>2. IsList(a, 18)
  BY FrontList
<1>3. IsList(s, 7) /\ \A i \in 1..7 : s[i] = SumFunction(SumPart(work.sum, SumKeys[i])) * n
  <2>1. IsList(ps, 7) /\ \A i \in 1..7 : ps[i] = SumFunction(SumPart(work.sum, SumKeys[i]))
    BY PerfLists
  <2> HIDE DEF ps
  <2>2. IsList(s, 7) /\ \A i \in 1..7 : s[i] = ps[i] * n
    BY <2>1, ScaledList
  <2>. QED  BY <2>1, <2>2
<1>4. /\ IsList(g, 13)
      /\ \A i \in 1..13 : g[i] = SumFunction(GenPart(FlattenSeq(work.gen), GenKeys[i])) * n
  <2>1. /\ IsList(pg, 13)
        /\ \A i \in 1..13 : pg[i] = SumFunction(GenPart(FlattenSeq(work.gen), GenKeys[i]))
    BY PerfLists
  <2> HIDE DEF pg
  <2>2. IsList(g, 13) /\ \A i \in 1..13 : g[i] = pg[i] * n
    BY <2>1, ScaledList
  <2>. QED  BY <2>1, <2>2
<1>5. IsList(e, 13) /\ \A i \in 1..13 : e[i] = Energies[i] * n
  BY EnergiesAre, ScaledList
<1>6. JoinsFour(row, a, 18, s, 7, g, 13, e, 13)
  <2> HIDE DEF a, s, g, e
  <2>. QED  BY <1>1, <1>2, <1>3, <1>4, <1>5, JoinFour
<1> HIDE DEF a, s, g, e, row, n, ps, pg
<1>7. /\ IsList(row, 51)
      /\ \A i \in 1..7 : row[18 + i] = s[i]
      /\ \A i \in 1..13 : row[25 + i] = g[i]
      /\ \A i \in 1..13 : row[38 + i] = e[i]
  <2>1. 18 + 7 + 13 + 13 = 51 /\ \A i \in 1..13 : 18 + 7 + i = 25 + i /\ 18 + 7 + 13 + i = 38 + i
    OBVIOUS
  <2>. QED  BY <1>6, <2>1 DEF JoinsFour
<1>8. /\ \A i \in 1..7 : Column(row, SumKeys[i]) = s[i]
      /\ \A i \in 1..13 : Column(row, GenKeys[i]) = g[i]
      /\ \A i \in 1..13 : Column(row, EnergyKeys[i]) = e[i]
  BY <1>7, ColumnPlaces
<1>9. \A key \in SumNames : Column(row, key) = SumFunction(SumPart(work.sum, key)) * n
  <2>1. \A key \in SumNames : \E i \in 1..7 : key = SumKeys[i]
    BY DEF SumNames, SumKeys
  <2>. QED  BY <1>3, <1>8, <2>1
<1>10. \A key \in GenNames :
         Column(row, key) = SumFunction(GenPart(FlattenSeq(work.gen), key)) * n
  <2>1. \A key \in GenNames : \E i \in 1..13 : key = GenKeys[i]
    BY DEF GenNames, GenKeys
  <2>. QED  BY <1>4, <1>8, <2>1
<1>11. \A i \in 1..13 : Column(row, EnergyKeys[i]) = Energies[i] * n
  BY <1>5, <1>8
<1> DEFINE K == EnergyKeys
<1>12. /\ Column(row, K[1]) = Energies[1] * n /\ Column(row, K[2]) = Energies[2] * n
       /\ Column(row, K[3]) = Energies[3] * n /\ Column(row, K[4]) = Energies[4] * n
       /\ Column(row, K[5]) = Energies[5] * n /\ Column(row, K[6]) = Energies[6] * n
       /\ Column(row, K[7]) = Energies[7] * n /\ Column(row, K[8]) = Energies[8] * n
       /\ Column(row, K[9]) = Energies[9] * n /\ Column(row, K[10]) = Energies[10] * n
       /\ Column(row, K[11]) = Energies[11] * n /\ Column(row, K[12]) = Energies[12] * n
       /\ Column(row, K[13]) = Energies[13] * n
  BY <1>11
<1>13. /\ K[1] = "g_energy" /\ K[2] = "g_dram_energy" /\ K[3] = "g_l2_energy"
       /\ K[4] = "g_l1_energy" /\ K[5] = "g_reg_energy" /\ K[6] = "g_alu_energy"
       /\ K[7] = "g_fc_mem_energy" /\ K[8] = "g_fc_comp_energy" /\ K[9] = "g_attn_mem_energy"
       /\ K[10] = "g_attn_comp_energy" /\ K[11] = "g_etc_mem_energy"
       /\ K[12] = "g_etc_comp_energy" /\ K[13] = "g_comm_energy"
  BY DEF EnergyKeys
<1> HIDE DEF K
<1>14. /\ Energies[1] = work.all
       /\ Energies[2] = work.unit[1] /\ Energies[3] = work.unit[2] /\ Energies[4] = work.unit[3]
       /\ Energies[5] = work.unit[4] /\ Energies[6] = work.unit[5]
       /\ Energies[7] = work.byType["FC"].mem /\ Energies[8] = work.byType["FC"].comp
       /\ Energies[9] = work.byType["MATMUL"].mem + work.byType["SOFTMAX"].mem
       /\ Energies[10] = work.byType["MATMUL"].comp + work.byType["SOFTMAX"].comp
       /\ Energies[11] = work.byType["ACT"].mem + work.byType["NORM"].mem
       /\ Energies[12] = work.byType["ACT"].comp + work.byType["NORM"].comp
       /\ Energies[13] = work.unit[6]
  BY EnergiesAre
<1>15. /\ Column(row, "g_energy") = work.all * n
       /\ Column(row, "g_dram_energy") = work.unit[1] * n
       /\ Column(row, "g_l2_energy") = work.unit[2] * n
       /\ Column(row, "g_l1_energy") = work.unit[3] * n
       /\ Column(row, "g_reg_energy") = work.unit[4] * n
       /\ Column(row, "g_alu_energy") = work.unit[5] * n
       /\ Column(row, "g_comm_energy") = work.unit[6] * n
  BY <1>12, <1>13, <1>14
<1>16. /\ Column(row, "g_fc_mem_energy") = work.byType["FC"].mem * n
       /\ Column(row, "g_fc_comp_energy") = work.byType["FC"].comp * n
       /\ Column(row, "g_attn_mem_energy")
            = (work.byType["MATMUL"].mem + work.byType["SOFTMAX"].mem) * n
       /\ Column(row, "g_attn_comp_energy")
            = (work.byType["MATMUL"].comp + work.byType["SOFTMAX"].comp) * n
       /\ Column(row, "g_etc_mem_energy") = (work.byType["ACT"].mem + work.byType["NORM"].mem) * n
       /\ Column(row, "g_etc_comp_energy") = (work.byType["ACT"].comp + work.byType["NORM"].comp) * n
  BY <1>12, <1>13, <1>14
<1>. QED  BY <1>7, <1>9, <1>10, <1>15, <1>16 DEF RowReads, row, n

---------------------------------------------------------------------------
(* Its columns add up.                                                      *)

(* The sum of two columns of a row.                                          *)
LEMMA ColumnsTwo ==
  ASSUME NEW row, NEW a, NEW b,
         a # b,
         \A x \in {a, b} : Column(row, x) \in Int
  PROVE  Columns(row, {a, b}) = Column(row, a) + Column(row, b)
<1> DEFINE f == [x \in {a, b} |-> Column(row, x)]
<1>1. OfTwo(f, a, b)
  BY DEF OfTwo
<1>2. TotalTwo(SumFunction(f), f, a, b)
  <2> HIDE DEF f
  <2>. QED  BY <1>1, SumTwo
<1>3. SumFunction(f) = f[a] + f[b]
  <2> HIDE DEF f
  <2>. QED  BY <1>2 DEF TotalTwo
<1>4. Columns(row, {a, b}) = SumFunction(f)
  BY DEF Columns
<1>5. /\ f[a] = Column(row, a)
      /\ f[b] = Column(row, b)
  OBVIOUS
<1> HIDE DEF f
<1>. QED  BY <1>3, <1>4, <1>5

(* The sum of three columns of a row.                                          *)
LEMMA ColumnsThree ==
  ASSUME NEW row, NEW a, NEW b, NEW c,
         a # b /\ a # c,
         b # c,
         \A x \in {a, b, c} : Column(row, x) \in Int
  PROVE  Columns(row, {a, b, c}) = Column(row, a) + Column(row, b) + Column(row, c)
<1> DEFINE f == [x \in {a, b, c} |-> Column(row, x)]
<1>1. OfThree(f, a, b, c)
  BY DEF OfThree
<1>2. TotalThree(SumFunction(f), f, a, b, c)
  <2> HIDE DEF f
  <2>. QED  BY <1>1, SumThree
<1>3. SumFunction(f) = f[a] + f[b] + f[c]
  <2> HIDE DEF f
  <2>. QED  BY <1>2 DEF TotalThree
<1>4. Columns(row, {a, b, c}) = SumFunction(f)
  BY DEF Columns
<1>5. /\ f[a] = Column(row, a)
      /\ f[b] = Column(row, b)
      /\ f[c] = Column(row, c)
  OBVIOUS
<1> HIDE DEF f
<1>. QED  BY <1>3, <1>4, <1>5

(* The sum of five columns of a row.                                          *)
LEMMA ColumnsFive ==
  ASSUME NEW row, NEW a, NEW b, NEW c, NEW d, NEW e,
         a # b /\ a # c /\ a # d /\ a # e,
         b # c /\ b # d /\ b # e,
         c # d /\ c # e,
         d # e,
         \A x \in {a, b, c, d, e} : Column(row, x) \in Int
  PROVE  Columns(row, {a, b, c, d, e})
           = Column(row, a) + Column(row, b) + Column(row, c) + Column(row, d)
             + Column(row, e)
<1> DEFINE f == [x \in {a, b, c, d, e} |-> Column(row, x)]
<1>1. OfFive(f, a, b, c, d, e)
  BY DEF OfFive
<1>2. TotalFive(SumFunction(f), f, a, b, c, d, e)
  <2> HIDE DEF f
  <2>. QED  BY <1>1, SumFive
<1>3. SumFunction(f) = f[a] + f[b] + f[c] + f[d] + f[e]
  <2> HIDE DEF f
  <2>. QED  BY <1>2 DEF TotalFive
<1>4. Columns(row, {a, b, c, d, e}) = SumFunction(f)
  BY DEF Columns
<1>5. /\ f[a] = Column(row, a)
      /\ f[b] = Column(row, b)
      /\ f[c] = Column(row, c)
      /\ f[d] = Column(row, d)
      /\ f[e] = Column(row, e)
  OBVIOUS
<1> HIDE DEF f
<1>. QED  BY <1>3, <1>4, <1>5

(* The sum of six columns of a row.                                          *)
LEMMA ColumnsSix ==
  ASSUME NEW row, NEW a, NEW b, NEW c, NEW d, NEW e, NEW p,
         a # b /\ a # c /\ a # d /\ a # e /\ a # p,
         b # c /\ b # d /\ b # e /\ b # p,
         c # d /\ c # e /\ c # p,
         d # e /\ d # p,
         e # p,
         \A x \in {a, b, c, d, e, p} : Column(row, x) \in Int
  PROVE  Columns(row, {a, b, c, d, e, p})
           = Column(row, a) + Column(row, b) + Column(row, c) + Column(row, d)
             + Column(row, e) + Column(row, p)
<1> DEFINE f == [x \in {a, b, c, d, e, p} |-> Column(row, x)]
<1>1. OfSix(f, a, b, c, d, e, p)
  BY DEF OfSix
<1>2. TotalSix(SumFunction(f), f, a, b, c, d, e, p)
  <2> HIDE DEF f
  <2>. QED  BY <1>1, SumSix
<1>3. SumFunction(f) = f[a] + f[b] + f[c] + f[d] + f[e] + f[p]
  <2> HIDE DEF f
  <2>. QED  BY <1>2 DEF TotalSix
<1>4. Columns(row, {a, b, c, d, e, p}) = SumFunction(f)
  BY DEF Columns
<1>5. /\ f[a] = Column(row, a)
      /\ f[b] = Column(row, b)
      /\ f[c] = Column(row, c)
      /\ f[d] = Column(row, d)
      /\ f[e] = Column(row, e)
      /\ f[p] = Column(row, p)
  OBVIOUS
<1> HIDE DEF f
<1>. QED  BY <1>3, <1>4, <1>5

(* The sum of seven columns of a row.                                          *)
LEMMA ColumnsSeven ==
  ASSUME NEW row, NEW a, NEW b, NEW c, NEW d, NEW e, NEW p, NEW q,
         a # b /\ a # c /\ a # d /\ a # e /\ a # p /\ a # q,
         b # c /\ b # d /\ b # e /\ b # p /\ b # q,
         c # d /\ c # e /\ c # p /\ c # q,
         d # e /\ d # p /\ d # q,
         e # p /\ e # q,
         p # q,
         \A x \in {a, b, c, d, e, p, q} : Column(row, x) \in Int
  PROVE  Columns(row, {a, b, c, d, e, p, q})
           = Column(row, a) + Column(row, b) + Column(row, c) + Column(row, d)
             + Column(row, e) + Column(row, p) + Column(row, q)
<1> DEFINE f == [x \in {a, b, c, d, e, p, q} |-> Column(row, x)]
<1>1. OfSeven(f, a, b, c, d, e, p, q)
  BY DEF OfSeven
<1>2. TotalSeven(SumFunction(f), f, a, b, c, d, e, p, q)
  <2> HIDE DEF f
  <2>. QED  BY <1>1, SumSeven
<1>3. SumFunction(f) = f[a] + f[b] + f[c] + f[d] + f[e] + f[p] + f[q]
  <2> HIDE DEF f
  <2>. QED  BY <1>2 DEF TotalSeven
<1>4. Columns(row, {a, b, c, d, e, p, q}) = SumFunction(f)
  BY DEF Columns
<1>5. /\ f[a] = Column(row, a)
      /\ f[b] = Column(row, b)
      /\ f[c] = Column(row, c)
      /\ f[d] = Column(row, d)
      /\ f[e] = Column(row, e)
      /\ f[p] = Column(row, p)
      /\ f[q] = Column(row, q)
  OBVIOUS
<1> HIDE DEF f
<1>. QED  BY <1>3, <1>4, <1>5

(* The layers whose times a row sums up.                                     *)
LayersOK == work.sum \in Seq(LayerRec) /\ FlattenSeq(work.gen) \in Seq(LayerRec)

(* The times of the row that is reported add up.                            *)
LEMMA RowTimesAddUp ==
  ASSUME NEW row, RowReads(row), model.infos.ndec \in Nat, LayersOK
  PROVE  RowTimes(row)
<1> DEFINE n == model.infos.ndec
           layers == FlattenSeq(work.gen)
           S(key) == SumFunction(SumPart(work.sum, key))
           G(key) == SumFunction(GenPart(layers, key))
           C(key) == Column(row, key)
<1>1. /\ n \in Int /\ \A key \in SumNames : C(key) = S(key) * n
      /\ \A key \in GenNames : C(key) = G(key) * n
  BY DEF RowReads
<1>2. (\A key : S(key) \in Int) /\ \A key : G(key) \in Int
  <2> HIDE DEF layers
  <2>. QED  BY PartTypes DEF layers, LayersOK
<1>3. /\ S("s_time") = S("s_matmul") + S("s_fc") + S("s_comm") + S("s_softmax") + S("s_act")
                         + S("s_lnorm")
  BY SumTimesSplit DEF LayersOK
<1>4. /\ G("g_time") = G("g_matmul") + G("g_fc") + G("g_comm") + G("g_etc") + G("g_softmax")
      /\ G("g_fc") = G("g_qkv_time") + G("g_prj_time") + G("g_ff_time")
      /\ G("g_comm") = G("g2g_comm") + G("c2g_comm")
      /\ G("g_etc") = G("g_act") + G("g_lnorm")
  <2> HIDE DEF layers
  <2>. QED  BY GenTimesSplit DEF layers, LayersOK
<1> HIDE DEF n, layers, S, G, C
<1>5. \A key \in SumNames \cup GenNames : C(key) \in Int
  BY <1>1, <1>2
<1>6. C("s_time") = C("s_matmul") + C("s_fc") + C("s_comm") + C("s_softmax") + C("s_act")
                    + C("s_lnorm")
  <2>1. /\ C("s_time") = S("s_time") * n /\ S("s_time") \in Int
        /\ C("s_matmul") = S("s_matmul") * n /\ S("s_matmul") \in Int
        /\ C("s_fc") = S("s_fc") * n /\ S("s_fc") \in Int
        /\ C("s_comm") = S("s_comm") * n /\ S("s_comm") \in Int
        /\ C("s_softmax") = S("s_softmax") * n /\ S("s_softmax") \in Int
        /\ C("s_act") = S("s_act") * n /\ S("s_act") \in Int
        /\ C("s_lnorm") = S("s_lnorm") * n /\ S("s_lnorm") \in Int
    BY <1>1, <1>2 DEF SumNames
  <2>. QED  BY <1>1, <1>3, <2>1
<1>7. /\ C("g_time") = C("g_matmul") + C("g_fc") + C("g_comm") + C("g_etc") + C("g_softmax")
      /\ C("g_fc") = C("g_qkv_time") + C("g_prj_time") + C("g_ff_time")
      /\ C("g_comm") = C("g2g_comm") + C("c2g_comm")
      /\ C("g_etc") = C("g_act") + C("g_lnorm")
  <2>1. /\ C("g_time") = G("g_time") * n /\ G("g_time") \in Int
        /\ C("g_matmul") = G("g_matmul") * n /\ G("g_matmul") \in Int
        /\ C("g_fc") = G("g_fc") * n /\ G("g_fc") \in Int
        /\ C("g_comm") = G("g_comm") * n /\ G("g_comm") \in Int
        /\ C("g_etc") = G("g_etc") * n /\ G("g_etc") \in Int
        /\ C("g_qkv_time") = G("g_qkv_time") * n /\ G("g_qkv_time") \in Int
        /\ C("g_prj_time") = G("g_prj_time") * n /\ G("g_prj_time") \in Int
        /\ C("g_ff_time") = G("g_ff_time") * n /\ G("g_ff_time") \in Int
        /\ C("g2g_comm") = G("g2g_comm") * n /\ G("g2g_comm") \in Int
        /\ C("c2g_comm") = G("c2g_comm") * n /\ G("c2g_comm") \in Int
        /\ C("g_softmax") = G("g_softmax") * n /\ G("g_softmax") \in Int
        /\ C("g_act") = G("g_act") * n /\ G("g_act") \in Int
        /\ C("g_lnorm") = G("g_lnorm") * n /\ G("g_lnorm") \in Int
    BY <1>1, <1>2 DEF GenNames
  <2>2. C("g_time") = C("g_matmul") + C("g_fc") + C("g_comm") + C("g_etc") + C("g_softmax")
    BY <1>1, <1>4, <2>1
  <2>3. C("g_fc") = C("g_qkv_time") + C("g_prj_time") + C("g_ff_time")
    BY <1>1, <1>4, <2>1
  <2>4. C("g_comm") = C("g2g_comm") + C("c2g_comm") /\ C("g_etc") = C("g_act") + C("g_lnorm")
    BY <1>1, <1>4, <2>1
  <2>. QED  BY <2>2, <2>3, <2>4
<1>8. Columns(row, {"s_matmul", "s_fc", "s_comm", "s_softmax", "s_act", "s_lnorm"})
        = C("s_matmul") + C("s_fc") + C("s_comm") + C("s_softmax") + C("s_act") + C("s_lnorm")
  <2>1. \A x \in {"s_matmul", "s_fc", "s_comm", "s_softmax", "s_act", "s_lnorm"} :
          Column(row, x) \in Int
    BY <1>5 DEF C, SumNames
  <2>. QED  BY <2>1, ColumnsSix DEF C
<1>9. Columns(row, {"g_matmul", "g_fc", "g_comm", "g_etc", "g_softmax"})
        = C("g_matmul") + C("g_fc") + C("g_comm") + C("g_etc") + C("g_softmax")
  <2>1. \A x \in {"g_matmul", "g_fc", "g_comm", "g_etc", "g_softmax"} : Column(row, x) \in Int
    BY <1>5 DEF C, GenNames
  <2>. QED  BY <2>1, ColumnsFive DEF C
<1>10. Columns(row, {"g_qkv_time", "g_prj_time", "g_ff_time"})
         = C("g_qkv_time") + C("g_prj_time") + C("g_ff_time")
  BY <1>5, ColumnsThree DEF C, GenNames
<1>11. /\ Columns(row, {"g2g_comm", "c2g_comm"}) = C("g2g_comm") + C("c2g_comm")
       /\ Columns(row, {"g_act", "g_lnorm"}) = C("g_act") + C("g_lnorm")
  BY <1>5, ColumnsTwo DEF C, GenNames
<1>. QED  BY <1>6, <1>7, <1>8, <1>9, <1>10, <1>11 DEF RowTimes, C

(* The energies of the row that is reported add up.                         *)
LEMMA RowEnergiesAddUp ==
  ASSUME NEW row, RowReads(row), model.infos.ndec \in Nat,
         SplitOK(work.all, work.unit, work.byType)
  PROVE  RowEnergies(row)
<1> DEFINE n == model.infos.ndec
           u(i) == work.unit[i]
           m(type) == work.byType[type].mem
           c(type) == work.byType[type].comp
           C(key) == Column(row, key)
<1>1. /\ C("g_energy") = work.all * n
      /\ C("g_dram_energy") = u(1) * n /\ C("g_l2_energy") = u(2) * n
      /\ C("g_l1_energy") = u(3) * n /\ C("g_reg_energy") = u(4) * n
      /\ C("g_alu_energy") = u(5) * n /\ C("g_comm_energy") = u(6) * n
      /\ C("g_fc_mem_energy") = m("FC") * n /\ C("g_fc_comp_energy") = c("FC") * n
      /\ C("g_attn_mem_energy") = (m("MATMUL") + m("SOFTMAX")) * n
      /\ C("g_attn_comp_energy") = (c("MATMUL") + c("SOFTMAX")) * n
      /\ C("g_etc_mem_energy") = (m("ACT") + m("NORM")) * n
      /\ C("g_etc_comp_energy") = (c("ACT") + c("NORM")) * n
  BY DEF RowReads
<1>2. \A i \in 1..6 : u(i) \in Int
  BY DEF SplitOK
<1>3. \A type \in LayerTypes : m(type) \in Int /\ c(type) \in Int
  BY DEF SplitOK, Split
<1>4. /\ work.all = u(1) + u(2) + u(3) + u(4) + u(5) + u(6)
      /\ u(1) = m("FC") + m("MATMUL") + m("SOFTMAX") + m("ACT") + m("NORM")
      /\ u(2) + u(3) + u(4) + u(5) = c("FC") + c("MATMUL") + c("SOFTMAX") + c("ACT") + c("NORM")
  BY DEF SplitOK
<1>5. n \in Int
  OBVIOUS
<1> HIDE DEF n, u, m, c, C
<1>6. /\ u(1) \in Int /\ u(2) \in Int /\ u(3) \in Int /\ u(4) \in Int /\ u(5) \in Int
      /\ u(6) \in Int
  BY <1>2
<1>7. /\ m("FC") \in Int /\ m("MATMUL") \in Int /\ m("SOFTMAX") \in Int /\ m("ACT") \in Int
      /\ m("NORM") \in Int
      /\ c("FC") \in Int /\ c("MATMUL") \in Int /\ c("SOFTMAX") \in Int /\ c("ACT") \in Int
      /\ c("NORM") \in Int
  BY <1>3 DEF LayerTypes
<1>8. \A key \in {"g_dram_energy", "g_l2_energy", "g_l1_energy", "g_reg_energy", "g_alu_energy",
                  "g_comm_energy", "g_fc_mem_energy", "g_fc_comp_energy", "g_attn_mem_energy",
                  "g_attn_comp_energy", "g_etc_mem_energy", "g_etc_comp_energy"} : C(key) \in Int
  BY <1>1, <1>5, <1>6, <1>7
<1>9. C("g_energy") = C("g_dram_energy") + C("g_l2_energy") + C("g_l1_energy") + C("g_reg_energy")
                      + C("g_alu_energy") + C("g_comm_energy")
  BY <1>1, <1>4, <1>5, <1>6
<1>10. C("g_energy") = C("g_fc_mem_energy") + C("g_fc_comp_energy") + C("g_attn_mem_energy")
                       + C("g_attn_comp_energy") + C("g_etc_mem_energy") + C("g_etc_comp_energy")
                       + C("g_comm_energy")
  <2>1. work.all = m("FC") + c("FC") + (m("MATMUL") + m("SOFTMAX")) + (c("MATMUL") + c("SOFTMAX"))
                   + (m("ACT") + m("NORM")) + (c("ACT") + c("NORM")) + u(6)
    BY <1>4, <1>6, <1>7
  <2>. QED  BY <1>1, <1>5, <1>6, <1>7, <2>1
<1>11. Columns(row, {"g_dram_energy", "g_l2_energy", "g_l1_energy", "g_reg_energy",
                     "g_alu_energy", "g_comm_energy"})
         = C("g_dram_energy") + C("g_l2_energy") + C("g_l1_energy") + C("g_reg_energy")
           + C("g_alu_energy") + C("g_comm_energy")
  BY <1>8, ColumnsSix DEF C
<1>12. Columns(row, {"g_fc_mem_energy", "g_fc_comp_energy", "g_attn_mem_energy",
                     "g_attn_comp_energy", "g_etc_mem_energy", "g_etc_comp_energy",
                     "g_comm_energy"})
         = C("g_fc_mem_energy") + C("g_fc_comp_energy") + C("g_attn_mem_energy")
           + C("g_attn_comp_energy") + C("g_etc_mem_energy") + C("g_etc_comp_energy")
           + C("g_comm_energy")
  BY <1>8, ColumnsSeven DEF C
<1>. QED  BY <1>9, <1>10, <1>11, <1>12 DEF RowEnergies, C

---------------------------------------------------------------------------
(* The lists of layers: joined, pipelined and shared out.                   *)

(* Joining lists is a recursive function: there is one (NaturalFacts), so the *)
(* one that is chosen gives lists, as each of its steps does.                *)
LEMMA FlattenType ==
  ASSUME NEW S, NEW s \in Seq(Seq(S))
  PROVE  FlattenSeq(s) \in Seq(S)
<1> DEFINE n == Len(s)
           T == Seq(S)
           Def(g) == [i \in 1..n |-> IF i = 1 THEN s[i] ELSE g[i - 1] \o s[i]]
           flat == CHOOSE g : g = Def(g)
<1>1. n \in Nat /\ \A i \in 1..n : s[i] \in T
  BY LenProperties, ElementOfSeq
<1>2. CASE n = 0
  <2>1. s = <<>>
    BY <1>2, EmptySeq
  <2>2. FlattenSeq(s) = s
    BY <1>2 DEF FlattenSeq
  <2>3. <<>> \in Seq(S)
    OBVIOUS
  <2>. QED  BY <2>1, <2>2, <2>3
<1>3. CASE n # 0
  <2> DEFINE step == [k \in Nat |-> [x \in T |-> IF k = 1 THEN s[1]
                                               ELSE IF k \in 1..n THEN x \o s[k] ELSE x]]
             none == <<>>
  <2>1. step \in StepsOf(T) /\ none \in T
    <3>1. \A x, y \in T : x \o y \in T
      BY ConcatProperties
    <3>2. <<>> \in T
      OBVIOUS
    <3> HIDE DEF T, n
    <3>3. \A k \in Nat, x \in T : (IF k = 1 THEN s[1] ELSE IF k \in 1..n THEN x \o s[k] ELSE x) \in T
      <4>1. 1 \in 1..n
        BY <1>1, <1>3
      <4>. QED  BY <1>1, <3>1, <4>1
    <3>. QED  BY <3>2, <3>3 DEF StepsOf
  <2>2. PICK f \in [Nat -> T] : Recurs(f, none, step)
    <3> HIDE DEF step, none, T
    <3>. QED  BY <2>1, RecursiveFunctionExists
  <2> DEFINE h == [i \in 1..n |-> f[i]]
  <2>3. ASSUME NEW i \in 1..n PROVE f[i] \in T /\ f[i] = IF i = 1 THEN s[i] ELSE f[i - 1] \o s[i]
    <3>1. i - 1 \in Nat /\ i \in Nat /\ (i - 1) + 1 = i
      BY <1>1
    <3> HIDE DEF T
    <3>2. f[i] = step[i][f[i - 1]]
      BY <2>2, <3>1 DEF Recurs
    <3>3. f[i - 1] \in T /\ f[i] \in T
      BY <3>1
    <3>. QED  BY <3>1, <3>2, <3>3
  <2> HIDE DEF T
  <2>4. h = Def(h)
    <3>1. \A i \in 1..n : h[i] = IF i = 1 THEN s[i] ELSE h[i - 1] \o s[i]
      <4>1. \A i \in 1..n : i # 1 => i - 1 \in 1..n
        BY <1>1
      <4> HIDE DEF n
      <4>. QED  BY <2>3, <4>1
    <3>. QED  BY <3>1
  <2>5. flat = Def(flat)
    <3> HIDE DEF Def
    <3>. QED  BY <2>4
  <2>6. FlattenSeq(s) = flat[n]
    BY <1>3 DEF FlattenSeq
  <2>7. \A i \in 1..n : flat[i] = IF i = 1 THEN s[i] ELSE flat[i - 1] \o s[i]
    BY <2>5
  <2> HIDE DEF flat, n
  <2> DEFINE Good == {i \in Nat : i \in 1..n => flat[i] \in T}
  <2>8. 0 \in Good
    OBVIOUS
  <2>9. ASSUME NEW i \in Nat, i \in Good PROVE i + 1 \in Good
    <3>1. CASE i + 1 \in 1..n /\ i # 0
      <4>1. i \in 1..n /\ (i + 1) - 1 = i /\ i + 1 # 1
        BY <1>1, <3>1
      <4>2. flat[i] \in T /\ flat[i + 1] = flat[i] \o s[i + 1] /\ s[i + 1] \in T
        BY <1>1, <2>7, <2>9, <3>1, <4>1
      <4>3. flat[i] \o s[i + 1] \in T
        BY <4>2, ConcatProperties DEF T
      <4>4. flat[i + 1] \in T
        BY <4>2, <4>3, Zenon
      <4>. QED  BY <4>4
    <3>2. CASE i + 1 \in 1..n /\ i = 0
      <4>1. i + 1 = 1 /\ 1 \in 1..n
        BY <3>2
      <4>2. flat[1] = s[1] /\ s[1] \in T
        BY <1>1, <2>7, <4>1
      <4>. QED  BY <4>1, <4>2
    <3>3. CASE i + 1 \notin 1..n
      BY <3>3
    <3>. QED  BY <3>1, <3>2, <3>3
  <2>10. Nat \subseteq Good
    <3> HIDE DEF Good
    <3>. QED  BY <2>8, <2>9, NatInductionSet
  <2>11. n \in Good /\ n \in 1..n
    BY <1>1, <1>3, <2>10 DEF n
  <2>. QED  BY <2>6, <2>11 DEF T
<1>. QED  BY <1>2, <1>3

---------------------------------------------------------------------------
(* What a stage does to its layers.                                         *)
LEMMA ListOfLayers ==
  ASSUME NEW block \in Seq(LayerRec), NEW F, F \in [DOMAIN block -> LayerRec]
  PROVE  F \in Seq(LayerRec) /\ Len(F) = Len(block)
<1>1. Len(block) \in Nat /\ DOMAIN block = 1..Len(block)
  BY LenProperties
<1> DEFINE n == Len(block)
<1>2. F \in [1..n -> LayerRec]
  BY <1>1
<1> HIDE DEF n
<1>3. F \in Seq(LayerRec) /\ Len(F) = n
  BY <1>1, <1>2, SeqDef DEF n
<1>. QED  BY <1>3 DEF n

(* A layer with another time is a layer.                                    *)
LEMMA NewTime ==
  ASSUME NEW l \in LayerRec, NEW t \in Int
  PROVE  [l EXCEPT !.time = t] \in LayerRec
BY DEF LayerRec

(* The time of the layers with these names.                                 *)
LEMMA TimeOfType ==
  ASSUME NEW block \in Seq(LayerRec), NEW names
  PROVE  TimeOf(block, names) \in Int
<1> DEFINE g == [i \in DOMAIN block |-> IF block[i].name \in names THEN block[i].time ELSE 0]
<1>1. \A i \in DOMAIN block : block[i].time \in Int
  BY LayerSizes, LenProperties, ElementOfSeq
<1>2. g \in [DOMAIN block -> Int]
  BY <1>1
<1>3. IsFiniteSet(DOMAIN block)
  BY PartTypes
<1>4. SumFunction(g) \in Int
  <2> HIDE DEF g
  <2>. QED  BY <1>2, <1>3, SumIsInt
<1>. QED  BY <1>4 DEF TimeOf, SumOver

(* Times that are shared out are numbers.                                   *)
HeadsOK == gpu.num \in Nat /\ model.infos.heads \in Nat \ {0}

(* The shares of a time that show and that are hidden.                      *)
LEMMA SharesAreNumbers ==
  ASSUME HeadsOK, NEW t \in Int
  PROVE  Short(t) \in Int /\ Hidden(t) \in Int
<1>1. t * gpu.num \in Int
  BY DEF HeadsOK
<1>2. \A a \in Int, b \in Nat \ {0} : a \div b \in Int
  OBVIOUS
<1>3. Short(t) \in Int
  BY <1>1, <1>2 DEF HeadsOK, Short
<1>. QED  BY <1>3 DEF Hidden

FourTimes == [qkv : Int, prj : Int, x2g : Int, attn : Int]

(* The times of a pipeline are numbers, be they negative.                   *)
LEMMA PipelinedType ==
  ASSUME HeadsOK, NEW t \in FourTimes, NEW level \in BOOLEAN
  PROVE  Pipelined(t, level) \in FourTimes
<1> DEFINE fc == t.qkv + t.prj
           bound == CASE t.attn > t.x2g /\ (level => t.attn > fc) -> "attn"
                      [] level /\ t.attn <= fc /\ fc > t.x2g -> "fc"
                      [] OTHER -> "x2g"
           x == IF bound = "x2g" THEN t.x2g - Hidden(t.attn) ELSE Short(t.x2g)
           q == CASE ~level -> t.qkv
                  [] bound = "fc" -> t.qkv - (3 * Hidden(t.attn)) \div 4
                  [] OTHER -> Short(t.qkv)
           p == CASE ~level -> t.prj
                  [] bound = "fc" -> t.prj - Hidden(t.attn) \div 4
                  [] OTHER -> Short(t.prj)
<1>1. t.qkv \in Int /\ t.prj \in Int /\ t.x2g \in Int /\ t.attn \in Int
  BY DEF FourTimes
<1>2. /\ Hidden(t.attn) \in Int /\ Short(t.x2g) \in Int /\ Short(t.qkv) \in Int
      /\ Short(t.prj) \in Int
  BY <1>1, SharesAreNumbers
<1>3. Pipelined(t, level) = [t EXCEPT !.x2g = x, !.qkv = q, !.prj = p]
  BY DEF Pipelined
<1>4. bound = "fc" => level
  OBVIOUS
<1>5. x \in Int /\ q \in Int /\ p \in Int
  <2> HIDE DEF bound
  <2>1. \A h \in Int : (3 * h) \div 4 \in Int /\ h \div 4 \in Int
    OBVIOUS
  <2>. QED  BY <1>1, <1>2, <1>4, <2>1
<1> HIDE DEF x, q, p
<1>. QED  BY <1>3, <1>5 DEF FourTimes

(* The layers that are pipelined are as many layers.                        *)
LEMMA PipelinedBlockType ==
  ASSUME HeadsOK, NEW block \in Seq(LayerRec), NEW level \in BOOLEAN
  PROVE  PipelinedBlock(block, level) \in Seq(LayerRec) /\ Len(PipelinedBlock(block, level)) = Len(block)
<1> DEFINE t == Pipelined(PipelineTimes(block), level)
           new(l) == CASE l.name = "qkv" -> t.qkv
                       [] l.name = "proj" -> t.prj
                       [] l.name = "comm_x2g" -> t.x2g \div 2
                       [] l.name = "softmax" -> 0
                       [] OTHER -> l.time
           g == [i \in DOMAIN block |-> [block[i] EXCEPT !.time = new(block[i])]]
<1>1. PipelineTimes(block) \in FourTimes
  BY TimeOfType DEF PipelineTimes, FourTimes
<1>2. t \in FourTimes
  BY <1>1, PipelinedType
<1> HIDE DEF t
<1>3. \A l \in LayerRec : new(l) \in Int
  <2>1. t.qkv \in Int /\ t.prj \in Int /\ t.x2g \in Int /\ t.x2g \div 2 \in Int
    BY <1>2 DEF FourTimes
  <2>. QED  BY <2>1, LayerSizes
<1>4. \A i \in DOMAIN block : block[i] \in LayerRec
  BY LenProperties, ElementOfSeq
<1>5. PipelinedBlock(block, level) = g
  BY DEF PipelinedBlock, t
<1> HIDE DEF new
<1>6. g \in [DOMAIN block -> LayerRec]
  BY <1>3, <1>4, NewTime
<1> HIDE DEF g
<1>. QED  BY <1>5, <1>6, ListOfLayers

(* The layers that are shared out are as many layers.                       *)
LEMMA ParallelBlockType ==
  ASSUME XpuOK(gpu), Acc.config.bw \in Positive, NEW block \in Seq(LayerRec), NEW bs \in Positive
  PROVE  ParallelBlock(block, bs) \in Seq(LayerRec) /\ Len(ParallelBlock(block, bs)) = Len(block)
<1> DEFINE new(l) == Parallel(gpu, Acc, l, bs)
           g == [i \in DOMAIN block |-> IF IsFF(block[i]) THEN [block[i] EXCEPT !.time = new(block[i])]
                                        ELSE block[i]]
<1>1. gpu.config.flops \in Positive /\ gpu.config.bw \in Positive
  BY ConfigTypes DEF XpuOK, Positive
<1>2. ASSUME NEW l \in LayerRec PROVE new(l) \in Int
  <2>1. l.time \in Int /\ l.dbyte \in Positive /\ Quantum \in Nat \ {0}
    BY LayerSizes, DeviceAssumption DEF Positive
  <2>2. ASSUME NEW a \in Positive, NEW b \in Positive
        PROVE  Quantum * CeilDiv((l.time \div Quantum) * a, a + b) \in Int
    <3>1. (l.time \div Quantum) * a \in Int /\ a + b \in Nat \ {0}
      BY <2>1 DEF Positive
    <3>2. ((l.time \div Quantum) * a + (a + b) - 1) \div (a + b) \in Int
      <4> DEFINE c == (l.time \div Quantum) * a
                 d == a + b
      <4>1. c \in Int /\ d \in Nat \ {0}
        BY <3>1
      <4> HIDE DEF c, d
      <4>2. (c + d - 1) \div d \in Int
        BY <4>1
      <4>. QED  BY <4>2 DEF c, d
    <3>. QED  BY <2>1, <3>2 DEF CeilDiv
  <2>3. /\ gpu.config.flops * l.dbyte \in Positive /\ 2 * Acc.config.bw \in Positive
        /\ gpu.config.bw * bs \in Positive /\ Acc.config.bw \in Positive
    <3>1. 2 \in Positive
      BY DEF Positive
    <3>. QED  BY <1>1, <2>1, <3>1, TimesType
  <2>. QED  BY <2>2, <2>3 DEF Parallel
<1>3. \A i \in DOMAIN block : block[i] \in LayerRec
  BY LenProperties, ElementOfSeq
<1>4. ParallelBlock(block, bs) = g
  BY DEF ParallelBlock
<1> HIDE DEF new
<1>5. g \in [DOMAIN block -> LayerRec]
  BY <1>2, <1>3, NewTime
<1> HIDE DEF g
<1>. QED  BY <1>4, <1>5, ListOfLayers

---------------------------------------------------------------------------
(* The inductive invariant: the types of everything simulate() works on, and that *)
(* the energies so far are split up in two ways without loss.               *)

(* A layer adds its energy to both ways to split energies up.                *)
LEMMA SplitKept ==
  ASSUME NEW all, NEW unit, NEW byType, SplitOK(all, unit, byType), NEW l \in LayerRec,
         NEW e \in [1..6 -> Nat], IsCommunication(l) => \A i \in 1..5 : e[i] = 0
  PROVE  SplitOK(all + TotalEnergy(e), PlusEnergy(unit, e), WithEnergy(byType, l, e))
<1> DEFINE old == byType[l.type]
           new == [mem |-> old.mem + e[1], comp |-> old.comp + e[2] + e[3] + e[4] + e[5],
                   comm |-> old.comm + e[6]]
           after == WithEnergy(byType, l, e)
           plus == PlusEnergy(unit, e)
<1>1. /\ all \in Int /\ unit \in [1..6 -> Int] /\ byType \in [LayerTypes -> Split]
      /\ l.type \in LayerTypes
  BY LayerSizes DEF SplitOK
<1>2. /\ e[1] \in Int /\ e[2] \in Int /\ e[3] \in Int /\ e[4] \in Int /\ e[5] \in Int /\ e[6] \in Int
      /\ unit[1] \in Int /\ unit[2] \in Int /\ unit[3] \in Int /\ unit[4] \in Int /\ unit[5] \in Int
      /\ unit[6] \in Int
  BY <1>1
<1>3. \A t \in LayerTypes : byType[t].mem \in Int /\ byType[t].comp \in Int /\ byType[t].comm \in Int
  BY <1>1 DEF Split
<1>4. new \in Split
  BY <1>1, <1>2, <1>3 DEF Split
<1>5. after = [byType EXCEPT ![l.type] = new]
  BY DEF WithEnergy
<1>6. /\ new.mem = old.mem + e[1] /\ new.comp = old.comp + e[2] + e[3] + e[4] + e[5]
      /\ new.comm = old.comm + e[6]
  OBVIOUS
<1> HIDE DEF new, after
<1>7. /\ after \in [LayerTypes -> Split]
      /\ \A t \in LayerTypes : after[t] = IF t = l.type THEN new ELSE byType[t]
  BY <1>1, <1>4, <1>5
<1>8. /\ plus \in [1..6 -> Int]
      /\ plus[1] = unit[1] + e[1] /\ plus[2] = unit[2] + e[2] /\ plus[3] = unit[3] + e[3]
      /\ plus[4] = unit[4] + e[4] /\ plus[5] = unit[5] + e[5] /\ plus[6] = unit[6] + e[6]
  BY <1>1 DEF PlusEnergy
<1> HIDE DEF plus
<1>9. TotalEnergy(e) = e[1] + e[2] + e[3] + e[4] + e[5] + e[6]
  BY DEF TotalEnergy
<1>10. l.type \in {"G2G", "X2G"} => e[1] = 0 /\ e[2] = 0 /\ e[3] = 0 /\ e[4] = 0 /\ e[5] = 0
  <2>1. l.type \in {"G2G", "X2G"} => IsCommunication(l)
    BY DEF IsCommunication
  <2>. QED  BY <2>1
<1> DEFINE comp == e[2] + e[3] + e[4] + e[5]
           m(t) == byType[t].mem
           c(t) == byType[t].comp
           x(t) == byType[t].comm
           M(t) == after[t].mem
           C(t) == after[t].comp
           X(t) == after[t].comm
<1>11. comp \in Int
  BY <1>2
<1>12. \A t \in LayerTypes :
         /\ M(t) = IF t = l.type THEN m(t) + e[1] ELSE m(t)
         /\ C(t) = IF t = l.type THEN c(t) + comp ELSE c(t)
         /\ X(t) = IF t = l.type THEN x(t) + e[6] ELSE x(t)
  <2>1. old.comp + e[2] + e[3] + e[4] + e[5] = old.comp + comp
    BY <1>1, <1>2, <1>3
  <2> HIDE DEF comp
  <2>. QED  BY <1>6, <1>7, <2>1
<1>13. \A t \in LayerTypes : m(t) \in Int /\ c(t) \in Int /\ x(t) \in Int
  BY <1>3
<1>14. /\ all = unit[1] + unit[2] + unit[3] + unit[4] + unit[5] + unit[6]
       /\ unit[1] = m("FC") + m("MATMUL") + m("SOFTMAX") + m("ACT") + m("NORM")
       /\ unit[2] + unit[3] + unit[4] + unit[5]
            = c("FC") + c("MATMUL") + c("SOFTMAX") + c("ACT") + c("NORM")
       /\ unit[6] = x("FC") + x("MATMUL") + x("ACT") + x("SOFTMAX") + x("NORM") + x("G2G") + x("X2G")
  BY DEF SplitOK
<1>15. l.type \in {"G2G", "X2G"} => comp = 0
  BY <1>10
<1>16. plus[2] + plus[3] + plus[4] + plus[5] = unit[2] + unit[3] + unit[4] + unit[5] + comp
  BY <1>2, <1>8
<1>17. all + TotalEnergy(e) = plus[1] + plus[2] + plus[3] + plus[4] + plus[5] + plus[6]
  BY <1>1, <1>2, <1>8, <1>9, <1>14
<1> HIDE DEF m, c, x, M, C, X, comp, old
<1>18. /\ unit[1] + e[1] = M("FC") + M("MATMUL") + M("SOFTMAX") + M("ACT") + M("NORM")
       /\ unit[2] + unit[3] + unit[4] + unit[5] + comp
            = C("FC") + C("MATMUL") + C("SOFTMAX") + C("ACT") + C("NORM")
       /\ unit[6] + e[6]
            = X("FC") + X("MATMUL") + X("ACT") + X("SOFTMAX") + X("NORM") + X("G2G") + X("X2G")
  <2>1. /\ m("FC") \in Int /\ c("FC") \in Int /\ x("FC") \in Int
        /\ m("MATMUL") \in Int /\ c("MATMUL") \in Int /\ x("MATMUL") \in Int
        /\ m("ACT") \in Int /\ c("ACT") \in Int /\ x("ACT") \in Int
        /\ m("SOFTMAX") \in Int /\ c("SOFTMAX") \in Int /\ x("SOFTMAX") \in Int
        /\ m("NORM") \in Int /\ c("NORM") \in Int /\ x("NORM") \in Int
        /\ m("G2G") \in Int /\ c("G2G") \in Int /\ x("G2G") \in Int
        /\ m("X2G") \in Int /\ c("X2G") \in Int /\ x("X2G") \in Int
    BY <1>13 DEF LayerTypes
  <2>2. CASE l.type = "FC"
    <3>1. /\ M("FC") = m("FC") + e[1] /\ C("FC") = c("FC") + comp /\ X("FC") = x("FC") + e[6]
          /\ M("MATMUL") = m("MATMUL") /\ C("MATMUL") = c("MATMUL") /\ X("MATMUL") = x("MATMUL")
          /\ M("ACT") = m("ACT") /\ C("ACT") = c("ACT") /\ X("ACT") = x("ACT")
          /\ M("SOFTMAX") = m("SOFTMAX") /\ C("SOFTMAX") = c("SOFTMAX") /\ X("SOFTMAX") = x("SOFTMAX")
          /\ M("NORM") = m("NORM") /\ C("NORM") = c("NORM") /\ X("NORM") = x("NORM")
          /\ M("G2G") = m("G2G") /\ C("G2G") = c("G2G") /\ X("G2G") = x("G2G")
          /\ M("X2G") = m("X2G") /\ C("X2G") = c("X2G") /\ X("X2G") = x("X2G")
      BY <1>12, <2>2 DEF LayerTypes
    <3>. QED  BY <1>2, <1>11, <1>14, <2>1, <2>2, <3>1
  <2>3. CASE l.type = "MATMUL"
    <3>1. /\ M("FC") = m("FC") /\ C("FC") = c("FC") /\ X("FC") = x("FC")
          /\ M("MATMUL") = m("MATMUL") + e[1] /\ C("MATMUL") = c("MATMUL") + comp /\ X("MATMUL") = x("MATMUL") + e[6]
          /\ M("ACT") = m("ACT") /\ C("ACT") = c("ACT") /\ X("ACT") = x("ACT")
          /\ M("SOFTMAX") = m("SOFTMAX") /\ C("SOFTMAX") = c("SOFTMAX") /\ X("SOFTMAX") = x("SOFTMAX")
          /\ M("NORM") = m("NORM") /\ C("NORM") = c("NORM") /\ X("NORM") = x("NORM")
          /\ M("G2G") = m("G2G") /\ C("G2G") = c("G2G") /\ X("G2G") = x("G2G")
          /\ M("X2G") = m("X2G") /\ C("X2G") = c("X2G") /\ X("X2G") = x("X2G")
      BY <1>12, <2>3 DEF LayerTypes
    <3>. QED  BY <1>2, <1>11, <1>14, <2>1, <2>3, <3>1
  <2>4. CASE l.type = "ACT"
    <3>1. /\ M("FC") = m("FC") /\ C("FC") = c("FC") /\ X("FC") = x("FC")
          /\ M("MATMUL") = m("MATMUL") /\ C("MATMUL") = c("MATMUL") /\ X("MATMUL") = x("MATMUL")
          /\ M("ACT") = m("ACT") + e[1] /\ C("ACT") = c("ACT") + comp /\ X("ACT") = x("ACT") + e[6]
          /\ M("SOFTMAX") = m("SOFTMAX") /\ C("SOFTMAX") = c("SOFTMAX") /\ X("SOFTMAX") = x("SOFTMAX")
          /\ M("NORM") = m("NORM") /\ C("NORM") = c("NORM") /\ X("NORM") = x("NORM")
          /\ M("G2G") = m("G2G") /\ C("G2G") = c("G2G") /\ X("G2G") = x("G2G")
          /\ M("X2G") = m("X2G") /\ C("X2G") = c("X2G") /\ X("X2G") = x("X2G")
      BY <1>12, <2>4 DEF LayerTypes
    <3>. QED  BY <1>2, <1>11, <1>14, <2>1, <2>4, <3>1
  <2>5. CASE l.type = "SOFTMAX"
    <3>1. /\ M("FC") = m("FC") /\ C("FC") = c("FC") /\ X("FC") = x("FC")
          /\ M("MATMUL") = m("MATMUL") /\ C("MATMUL") = c("MATMUL") /\ X("MATMUL") = x("MATMUL")
          /\ M("ACT") = m("ACT") /\ C("ACT") = c("ACT") /\ X("ACT") = x("ACT")
          /\ M("SOFTMAX") = m("SOFTMAX") + e[1] /\ C("SOFTMAX") = c("SOFTMAX") + comp /\ X("SOFTMAX") = x("SOFTMAX") + e[6]
          /\ M("NORM") = m("NORM") /\ C("NORM") = c("NORM") /\ X("NORM") = x("NORM")
          /\ M("G2G") = m("G2G") /\ C("G2G") = c("G2G") /\ X("G2G") = x("G2G")
          /\ M("X2G") = m("X2G") /\ C("X2G") = c("X2G") /\ X("X2G") = x("X2G")
      BY <1>12, <2>5 DEF LayerTypes
    <3>. QED  BY <1>2, <1>11, <1>14, <2>1, <2>5, <3>1
  <2>6. CASE l.type = "NORM"
    <3>1. /\ M("FC") = m("FC") /\ C("FC") = c("FC") /\ X("FC") = x("FC")
          /\ M("MATMUL") = m("MATMUL") /\ C("MATMUL") = c("MATMUL") /\ X("MATMUL") = x("MATMUL")
          /\ M("ACT") = m("ACT") /\ C("ACT") = c("ACT") /\ X("ACT") = x("ACT")
          /\ M("SOFTMAX") = m("SOFTMAX") /\ C("SOFTMAX") = c("SOFTMAX") /\ X("SOFTMAX") = x("SOFTMAX")
          /\ M("NORM") = m("NORM") + e[1] /\ C("NORM") = c("NORM") + comp /\ X("NORM") = x("NORM") + e[6]
          /\ M("G2G") = m("G2G") /\ C("G2G") = c("G2G") /\ X("G2G") = x("G2G")
          /\ M("X2G") = m("X2G") /\ C("X2G") = c("X2G") /\ X("X2G") = x("X2G")
      BY <1>12, <2>6 DEF LayerTypes
    <3>. QED  BY <1>2, <1>11, <1>14, <2>1, <2>6, <3>1
  <2>7. CASE l.type = "G2G"
    <3>1. /\ M("FC") = m("FC") /\ C("FC") = c("FC") /\ X("FC") = x("FC")
          /\ M("MATMUL") = m("MATMUL") /\ C("MATMUL") = c("MATMUL") /\ X("MATMUL") = x("MATMUL")
          /\ M("ACT") = m("ACT") /\ C("ACT") = c("ACT") /\ X("ACT") = x("ACT")
          /\ M("SOFTMAX") = m("SOFTMAX") /\ C("SOFTMAX") = c("SOFTMAX") /\ X("SOFTMAX") = x("SOFTMAX")
          /\ M("NORM") = m("NORM") /\ C("NORM") = c("NORM") /\ X("NORM") = x("NORM")
          /\ M("G2G") = m("G2G") + e[1] /\ C("G2G") = c("G2G") + comp /\ X("G2G") = x("G2G") + e[6]
          /\ M("X2G") = m("X2G") /\ C("X2G") = c("X2G") /\ X("X2G") = x("X2G")
      BY <1>12, <2>7 DEF LayerTypes
    <3>. QED  BY <1>2, <1>11, <1>14, <2>1, <2>7, <3>1, <1>10, <1>15
  <2>8. CASE l.type = "X2G"
    <3>1. /\ M("FC") = m("FC") /\ C("FC") = c("FC") /\ X("FC") = x("FC")
          /\ M("MATMUL") = m("MATMUL") /\ C("MATMUL") = c("MATMUL") /\ X("MATMUL") = x("MATMUL")
          /\ M("ACT") = m("ACT") /\ C("ACT") = c("ACT") /\ X("ACT") = x("ACT")
          /\ M("SOFTMAX") = m("SOFTMAX") /\ C("SOFTMAX") = c("SOFTMAX") /\ X("SOFTMAX") = x("SOFTMAX")
          /\ M("NORM") = m("NORM") /\ C("NORM") = c("NORM") /\ X("NORM") = x("NORM")
          /\ M("G2G") = m("G2G") /\ C("G2G") = c("G2G") /\ X("G2G") = x("G2G")
          /\ M("X2G") = m("X2G") + e[1] /\ C("X2G") = c("X2G") + comp /\ X("X2G") = x("X2G") + e[6]
      BY <1>12, <2>8 DEF LayerTypes
    <3>. QED  BY <1>2, <1>11, <1>14, <2>1, <2>8, <3>1, <1>10, <1>15
  <2>. QED  BY <1>1, <2>2, <2>3, <2>4, <2>5, <2>6, <2>7, <2>8 DEF LayerTypes
<1>19. all + TotalEnergy(e) \in Int
  BY <1>1, <1>2, <1>9
<1>. QED  BY <1>7, <1>8, <1>16, <1>17, <1>18, <1>19 DEF SplitOK, M, C, X, after, plus

(* The layers of a decoder, and the decoders of all stages.                   *)
Decoders == Seq(LayerRec)
Stages == Seq(Decoders)

WorkType ==
  [batches : Seq(Positive), itr : Nat, stage : Nat, at : Nat, sum : Decoders,
   gen : Stages, elapsed : Int, busy : Int, sFlops : Nat, gFlops : Nat,
   all : Int, unit : [1..6 -> Int], byType : [LayerTypes -> Split]]

(* There is a layer to be generated, and l is one with its energy.            *)
InStage(w) == w.stage <= Len(w.gen) /\ w.at <= Len(w.gen[w.stage])
EnergyOK(l) ==
  /\ l.energy \in [1..6 -> Nat]
  /\ IsCommunication(l) => \A i \in 1..5 : l.energy[i] = 0

(* The local variables of simulate() for the call c.                         *)
WorkOK(w, c) ==
  /\ w \in WorkType
  /\ w.batches = TargetBatches(c) /\ w.itr \in 1..Len(w.batches)
  /\ w.at \in Positive /\ w.stage \in 1..(Len(w.gen) + 1)
  /\ SplitOK(w.all, w.unit, w.byType)

(* The batches of a call: one or two, none larger than the one asked for.   *)
LEMMA BatchesType ==
  ASSUME NEW c \in Calls
  PROVE  /\ TargetBatches(c) \in Seq(Positive) /\ Len(TargetBatches(c)) \in 1..2
         /\ \A i \in 1..Len(TargetBatches(c)) : TargetBatches(c)[i] \in 1..c.batch
<1>1. c.batch \in Nat \ {0} /\ c.reqs \in Nat
  BY SimulationAssumption
<1>2. c.reqs % c.batch \in 0..(c.batch - 1)
  BY <1>1
<1> DEFINE r == c.reqs % c.batch
           b == c.batch
<1>3. b \in Positive /\ b \in 1..b /\ (r > 0 => r \in Positive /\ r \in 1..b)
  BY <1>1, <1>2 DEF Positive
<1>4. TargetBatches(c) = IF c.reqs > 0 /\ r > 0 THEN <<b, r>> ELSE <<b>>
  BY DEF TargetBatches
<1> HIDE DEF r, b
<1>5. CASE c.reqs > 0 /\ r > 0
  <2>1. <<b, r>> \in Seq(Positive) /\ Len(<<b, r>>) = 2 /\ <<b, r>>[1] = b /\ <<b, r>>[2] = r
    BY <1>3, <1>5
  <2>. QED  BY <1>3, <1>4, <1>5, <2>1 DEF b
<1>6. CASE ~(c.reqs > 0 /\ r > 0)
  <2>1. <<b>> \in Seq(Positive) /\ Len(<<b>>) = 1 /\ <<b>>[1] = b
    BY <1>3
  <2>. QED  BY <1>3, <1>4, <1>6, <2>1 DEF b
<1>. QED  BY <1>5, <1>6

(* No energy is split up into no energies.                                  *)
LEMMA NothingSplit == SplitOK(0, NoEnergy, [type \in LayerTypes |-> NoneOfIt])
<1> DEFINE b == [type \in LayerTypes |-> NoneOfIt]
<1>1. NoneOfIt \in Split /\ NoneOfIt.mem = 0 /\ NoneOfIt.comp = 0 /\ NoneOfIt.comm = 0
  BY DEF NoneOfIt, Split
<1>2. b \in [LayerTypes -> Split]
  BY <1>1
<1>3. \A t \in LayerTypes : b[t].mem = 0 /\ b[t].comp = 0 /\ b[t].comm = 0
  BY <1>1
<1>4. /\ NoEnergy \in [1..6 -> Int] /\ NoEnergy[1] = 0 /\ NoEnergy[2] = 0 /\ NoEnergy[3] = 0
      /\ NoEnergy[4] = 0 /\ NoEnergy[5] = 0 /\ NoEnergy[6] = 0
  BY DEF NoEnergy
<1> HIDE DEF b
<1>. QED  BY <1>2, <1>3, <1>4 DEF SplitOK, LayerTypes, b

(* The variables of simulate() at its start.                                *)
LEMMA StartedWork ==
  ASSUME NEW c \in Calls, NEW s \in Decoders, NEW g \in Stages
  PROVE  WorkOK([Idle EXCEPT !.batches = TargetBatches(c), !.itr = 1, !.stage = 1, !.at = 1,
                             !.sum = s, !.gen = g], c)
<1> DEFINE b == TargetBatches(c)
           t == [type \in LayerTypes |-> NoneOfIt]
           none == <<>>
           w == [Idle EXCEPT !.batches = b, !.itr = 1, !.stage = 1, !.at = 1, !.sum = s, !.gen = g]
<1>1. b \in Seq(Positive) /\ Len(b) \in 1..2
  BY BatchesType
<1>2. SplitOK(0, NoEnergy, t)
  BY NothingSplit
<1>0. Idle = [batches |-> none, itr |-> 0, stage |-> 0, at |-> 0, sum |-> none, gen |-> none,
              elapsed |-> 0, busy |-> 0, sFlops |-> 0, gFlops |-> 0, all |-> 0,
              unit |-> NoEnergy, byType |-> t]
  BY Zenon DEF Idle
<1> HIDE DEF b, t, none
<1>3. /\ Idle \in [batches : {none}, itr : {0}, stage : {0}, at : {0}, sum : {none}, gen : {none},
                  elapsed : {0}, busy : {0}, sFlops : {0}, gFlops : {0}, all : {0},
                  unit : {NoEnergy}, byType : {t}]
      /\ w \in [batches : {b}, itr : {1}, stage : {1}, at : {1}, sum : {s}, gen : {g},
               elapsed : {0}, busy : {0}, sFlops : {0}, gFlops : {0}, all : {0},
               unit : {NoEnergy}, byType : {t}]
  <2>1. Idle \in [batches : {none}, itr : {0}, stage : {0}, at : {0}, sum : {none}, gen : {none},
                 elapsed : {0}, busy : {0}, sFlops : {0}, gFlops : {0}, all : {0},
                 unit : {NoEnergy}, byType : {t}]
    BY <1>0
  <2>. QED  BY <2>1
<1> HIDE DEF w
<1>4. w \in WorkType
  <2>1. NoEnergy \in [1..6 -> Int] /\ t \in [LayerTypes -> Split]
    BY <1>2 DEF SplitOK
  <2>. QED  BY <1>1, <1>3, <2>1 DEF WorkType
<1>5. /\ w.batches = b /\ w.itr = 1 /\ w.at = 1 /\ w.stage = 1 /\ w.gen = g
      /\ w.all = 0 /\ w.unit = NoEnergy /\ w.byType = t
  BY <1>3
<1>6. Len(g) \in Nat
  BY LenProperties DEF Stages
<1>7. w.itr \in 1..Len(w.batches) /\ w.at \in Positive /\ w.stage \in 1..(Len(w.gen) + 1)
  <2>1. 1 \in 1..Len(b) /\ 1 \in Positive /\ 1 \in 1..(Len(g) + 1)
    BY <1>1, <1>6 DEF Positive
  <2>. QED  BY <1>5, <2>1
<1>8. SplitOK(w.all, w.unit, w.byType)
  BY <1>2, <1>5
<1>9. WorkOK(w, c)
  BY <1>4, <1>5, <1>7, <1>8 DEF WorkOK, b
<1>. QED  BY <1>9 DEF w, b

(* The time that a transfer waits.                                          *)
LEMMA WaitingType ==
  ASSUME NEW w \in WorkType, NEW l
  PROVE  Waiting(w, l) \in Int
<1>1. w.busy \in Int /\ w.elapsed \in Int
  BY DEF WorkType
<1>. QED  BY <1>1 DEF Waiting, Most2

(* A layer of the prompt was timed.                                         *)
LEMMA SummarizedOK ==
  ASSUME NEW c, NEW w, WorkOK(w, c), w.at <= Len(w.sum), NEW l \in LayerRec, gpu.num \in Nat
  PROVE  WorkOK(Summarized(w, l), c)
<1> DEFINE a == w.at + 1
           s == [w.sum EXCEPT ![w.at] = l]
           b == IF l.type = "X2G" THEN w.elapsed + l.time ELSE w.busy
           e == w.elapsed + l.time
           f == w.sFlops + Flops(l) * gpu.num
           v == [w EXCEPT !.at = a, !.sum = s, !.busy = b, !.elapsed = e, !.sFlops = f]
<1>1. Summarized(w, l) = v
  BY DEF Summarized, WorkOK, WorkType
<1>2. /\ w \in WorkType /\ w.sum \in Decoders /\ w.elapsed \in Int /\ w.busy \in Int
      /\ w.sFlops \in Nat /\ w.at \in Positive /\ w.at \in Nat
  BY DEF WorkOK, WorkType
<1>3. l.time \in Int /\ Flops(l) \in Nat
  BY LayerSizes, FlopsType
<1>4. a \in Nat /\ a \in Positive /\ b \in Int /\ e \in Int
  BY <1>2, <1>3 DEF Positive
<1>5. f \in Nat
  <2>1. Flops(l) * gpu.num \in Nat
    BY <1>3, TimesType
  <2>. QED  BY <1>2, <2>1
<1>6. s \in Decoders
  <2>1. w.at \in 1..Len(w.sum)
    <3>1. Len(w.sum) \in Nat
      BY <1>2, LenProperties DEF Decoders, Stages
    <3>. QED  BY <1>2, <3>1 DEF WorkOK, Positive
  <2>. QED  BY <1>2, <2>1, ExceptSeq DEF Decoders
<1> HIDE DEF a, s, b, e, f
<1>7. v \in WorkType
  BY <1>2, <1>4, <1>5, <1>6 DEF WorkType
<1>8. /\ v.batches = w.batches /\ v.itr = w.itr /\ v.at = a /\ v.stage = w.stage /\ v.gen = w.gen
      /\ v.all = w.all /\ v.unit = w.unit /\ v.byType = w.byType
  BY <1>2 DEF WorkType
<1> HIDE DEF v
<1>9. WorkOK(v, c)
  BY <1>4, <1>7, <1>8 DEF WorkOK
<1>. QED  BY <1>1, <1>9

(* A layer of the generation was timed, and its energy added.               *)
LEMMA GeneratedOK ==
  ASSUME NEW c, NEW w, WorkOK(w, c), InStage(w),
         NEW l \in LayerRec, EnergyOK(l), gpu.num \in Nat
  PROVE  WorkOK(Generated(w, l), c) /\ Len(Generated(w, l).gen) = Len(w.gen)
         /\ Generated(w, l).stage = w.stage
<1> DEFINE a == w.at + 1
           stage == [w.gen[w.stage] EXCEPT ![w.at] = l]
           g == [w.gen EXCEPT ![w.stage] = stage]
           e == w.elapsed + l.time
           f == w.gFlops + Flops(l) * gpu.num
           all == w.all + TotalEnergy(l.energy)
           unit == PlusEnergy(w.unit, l.energy)
           t == WithEnergy(w.byType, l, l.energy)
           v == [w EXCEPT !.at = a, !.gen = g, !.elapsed = e, !.gFlops = f, !.all = all,
                          !.unit = unit, !.byType = t]
<1>1. Generated(w, l) = v
  BY DEF Generated, WorkOK, WorkType
<1>2. /\ w \in WorkType /\ w.gen \in Stages /\ w.elapsed \in Int
      /\ w.gFlops \in Nat /\ w.at \in Positive /\ w.at \in Nat /\ w.stage \in Nat /\ w.stage >= 1
      /\ SplitOK(w.all, w.unit, w.byType)
  BY DEF WorkOK, WorkType
<1>3. l.time \in Int /\ Flops(l) \in Nat
  BY LayerSizes, FlopsType
<1>4. a \in Nat /\ a \in Positive /\ e \in Int
  <2>1. w.at \in Nat /\ w.at \in Positive /\ w.elapsed \in Int
    BY <1>2
  <2>. QED  BY <1>3, <2>1 DEF Positive
<1>5. f \in Nat
  <2>1. Flops(l) * gpu.num \in Nat
    BY <1>3, TimesType
  <2>2. w.gFlops \in Nat
    BY <1>2
  <2>. QED  BY <2>1, <2>2
<1>6. SplitOK(all, unit, t)
  BY <1>2, SplitKept DEF EnergyOK
<1>7. w.stage \in 1..Len(w.gen) /\ w.gen[w.stage] \in Decoders
  <2>1. Len(w.gen) \in Nat
    BY <1>2, LenProperties DEF Decoders, Stages
  <2>2. w.stage \in 1..Len(w.gen)
    BY <1>2, <2>1 DEF InStage
  <2>. QED  BY <1>2, <2>2, ElementOfSeq DEF Stages
<1>8. stage \in Decoders
  <2>1. w.at \in 1..Len(w.gen[w.stage])
    <3>1. Len(w.gen[w.stage]) \in Nat
      BY <1>7, LenProperties DEF Decoders
    <3>. QED  BY <1>2, <3>1 DEF Positive, InStage
  <2>. QED  BY <1>7, <2>1, ExceptSeq DEF Decoders
<1>9. g \in Stages /\ Len(g) = Len(w.gen)
  <2> HIDE DEF stage
  <2>. QED  BY <1>2, <1>7, <1>8, ExceptSeq DEF Stages
<1>10. all \in Int /\ unit \in [1..6 -> Int] /\ t \in [LayerTypes -> Split]
  BY <1>6 DEF SplitOK
<1> HIDE DEF a, g, e, f, all, unit, t
<1>11. v \in WorkType
  BY <1>2, <1>4, <1>5, <1>9, <1>10 DEF WorkType
<1>12. /\ v.batches = w.batches /\ v.itr = w.itr /\ v.at = a /\ v.stage = w.stage /\ v.gen = g
       /\ v.all = all /\ v.unit = unit /\ v.byType = t
  BY <1>2 DEF WorkType
<1> HIDE DEF v
<1>13. v.stage \in 1..(Len(v.gen) + 1) /\ v.itr \in 1..Len(v.batches) /\ v.batches = TargetBatches(c)
  BY <1>9, <1>12 DEF WorkOK
<1>14. WorkOK(v, c)
  BY <1>4, <1>6, <1>11, <1>12, <1>13 DEF WorkOK
<1>. QED  BY <1>1, <1>9, <1>12, <1>14

Calling == pc \in {"sum", "gen", "report"}

DevicesTyped ==
  /\ XpuOK(gpu) /\ gpu.config = GpuConfig /\ gpu.num \in GpuCounts
  /\ acc = SameAsGpu \/ (XpuOK(acc) /\ acc.config = CpuConfig) \/ PimOK(acc)
ModelTyped == model # NoModel => model \in [infos : Models, tp : GpuCounts]
CallTyped ==
  /\ pc \in {"none", "idle", "sum", "gen", "report"}
  /\ hetero \in {"NONE", "CPU", "PIM"} /\ call \in Calls /\ ops \in 0..MaxOps
WorkTyped ==
  /\ ~Calling => work = Idle
  /\ Calling => model # NoModel /\ WorkOK(work, call)
  /\ pc = "gen" => work.stage <= Len(work.gen)
RowOK(row) == IsList(row, 51) /\ RowTimes(row) /\ RowEnergies(row)
AnswersAddUp == \A a \in answer : RowOK(a.row)

TypedInv == DevicesTyped /\ ModelTyped /\ CallTyped /\ WorkTyped /\ AnswersAddUp

(* The devices that are made.                                               *)
LEMMA NewXpus ==
  ASSUME NEW n \in GpuCounts
  PROVE  /\ XpuOK(Gpu(n)) /\ Gpu(n).config = GpuConfig /\ Gpu(n).num = n
         /\ XpuOK(Cpu) /\ Cpu.config = CpuConfig
<1>1. n \in Positive /\ 2 \in Positive
  BY SimulationAssumption DEF Positive
<1>2. ASSUME NEW config \in XpuConfigs, NEW k \in Positive
      PROVE  XpuOK(XPU(config, k)) /\ XPU(config, k).config = config /\ XPU(config, k).num = k
  BY <1>2 DEF XpuOK, XPU, IsXPU
<1>3. GpuConfig \in XpuConfigs /\ CpuConfig \in XpuConfigs
  BY DEF XpuConfigs
<1>4. Gpu(n) = XPU(GpuConfig, n) /\ \E k \in Positive : Cpu = XPU(CpuConfig, k)
  BY <1>1 DEF Gpu, Cpu
<1>. QED  BY <1>1, <1>2, <1>3, <1>4

(* The GPUs are counted.                                                    *)
LEMMA GpuIsReady ==
  ASSUME DevicesTyped
  PROVE  gpu.num \in Nat /\ gpu.num \in Positive
BY SimulationAssumption DEF DevicesTyped, Positive

(* The model that is set is one of the models.                              *)
LEMMA ModelIsReady ==
  ASSUME ModelTyped, model # NoModel
  PROVE  /\ model.infos \in Models /\ model.tp \in GpuCounts /\ model.infos.ndec \in Nat
         /\ model.infos.heads \in Nat \ {0}
BY SimulationAssumption DEF ModelTyped, Infos

(* The invariant holds initially ...                                        *)
LEMMA InitTyped == Init => TypedInv
<1> SUFFICES ASSUME Init PROVE TypedInv
  OBVIOUS
<1>1. DevicesTyped
  BY NewXpus DEF Init, DevicesTyped
<1>2. ModelTyped /\ WorkTyped /\ AnswersAddUp
  BY DEF Init, ModelTyped, WorkTyped, Calling, AnswersAddUp
<1>3. CallTyped
  <2>1. NoCall \in Calls /\ MaxOps \in Nat
    BY SimulationAssumption DEF NoCall
  <2>. QED  BY <2>1 DEF Init, CallTyped
<1>. QED  BY <1>1, <1>2, <1>3 DEF TypedInv

(* Making and configuring the system, and calling it.                       *)
LEMMA NewTyped ==
  ASSUME TypedInv, NEW infos \in Models \cup {NoModel}, NEW name \in {"NONE", "CPU"}, New(infos, name)
  PROVE  TypedInv'
<1> USE DEF TypedInv
<1>1. /\ pc = "none" /\ pc' = "idle" /\ hetero' = name
      /\ acc' = IF name = "CPU" THEN Cpu ELSE SameAsGpu
      /\ model' = IF infos = NoModel THEN NoModel ELSE [infos |-> infos, tp |-> gpu.num]
      /\ gpu' = gpu /\ call' = call /\ work' = work /\ answer' = answer /\ ops' = ops
  BY DEF New
<1>2. DevicesTyped'
  BY <1>1, NewXpus DEF DevicesTyped
<1>3. ModelTyped'
  BY <1>1 DEF ModelTyped, DevicesTyped
<1>4. CallTyped'
  BY <1>1 DEF CallTyped
<1>5. WorkTyped' /\ AnswersAddUp'
  BY <1>1 DEF WorkTyped, Calling, AnswersAddUp
<1>. QED  BY <1>2, <1>3, <1>4, <1>5

(* ... and after every step: what the operations that configure have in common ... *)
LEMMA ConfiguredTyped ==
  ASSUME TypedInv, Configuring, DevicesTyped', ModelTyped', hetero' \in {"NONE", "CPU", "PIM"}
  PROVE  TypedInv'
<1> USE DEF TypedInv
<1>1. /\ pc = "idle" /\ pc' = "idle" /\ ops < MaxOps /\ ops' = ops + 1 /\ answer' = {}
      /\ call' = call /\ work' = work
  BY DEF Configuring
<1>2. CallTyped'
  BY <1>1, SimulationAssumption DEF CallTyped
<1>3. WorkTyped' /\ AnswersAddUp'
  BY <1>1 DEF WorkTyped, Calling, AnswersAddUp
<1>. QED  BY <1>2, <1>3

(* ... the operations that configure ...                                    *)
LEMMA SettingTyped ==
  ASSUME TypedInv,
         \/ \E infos \in Models : SetModel(infos) \/ \E config \in PimConfigs : SetPim(infos, config)
         \/ SetCpu \/ \E n \in GpuCounts : SetXpu(n)
  PROVE  TypedInv'
<1>1. DevicesTyped /\ ModelTyped /\ hetero \in {"NONE", "CPU", "PIM"}
  BY DEF TypedInv, CallTyped
<1>2. ASSUME NEW infos \in Models, SetModel(infos) PROVE TypedInv'
  <2>1. /\ Configuring /\ model' = [infos |-> infos, tp |-> gpu.num]
        /\ gpu' = gpu /\ acc' = acc /\ hetero' = hetero
    BY <1>2 DEF SetModel
  <2>2. DevicesTyped' /\ ModelTyped'
    BY <1>1, <2>1 DEF DevicesTyped, ModelTyped
  <2>. QED  BY <1>1, <2>1, <2>2, ConfiguredTyped
<1>3. ASSUME NEW infos \in Models, NEW config \in PimConfigs, SetPim(infos, config) PROVE TypedInv'
  <2>1. /\ Configuring /\ hetero' = "PIM" /\ acc' = PIM(config, infos.dhead, log)
        /\ gpu' = gpu /\ model' = model
    BY <1>3 DEF SetPim
  <2>2. infos.dhead \in Nat
    BY SimulationAssumption DEF Infos
  <2>3. PimOK(PIM(config, infos.dhead, log))
    BY <2>2 DEF PimOK, IsPIM, PIM
  <2>4. PimOK(acc')
    BY <2>1, <2>3
  <2>5. DevicesTyped' /\ ModelTyped'
    BY <1>1, <2>1, <2>4 DEF DevicesTyped, ModelTyped, XpuOK, PimOK, IsPIM, IsXPU
  <2>. QED  BY <2>1, <2>5, ConfiguredTyped
<1>4. CASE SetCpu
  <2>1. /\ Configuring /\ hetero' = "CPU" /\ acc' = Cpu /\ gpu' = gpu /\ model' = model
    BY <1>4 DEF SetCpu
  <2>2. DevicesTyped' /\ ModelTyped'
    BY <1>1, <2>1, NewXpus DEF DevicesTyped, ModelTyped
  <2>. QED  BY <2>1, <2>2, ConfiguredTyped
<1>5. ASSUME NEW n \in GpuCounts, SetXpu(n) PROVE TypedInv'
  <2>1. /\ Configuring /\ hetero' = "NONE" /\ gpu' = Gpu(n) /\ acc' = SameAsGpu
        /\ model' = IF model = NoModel THEN NoModel ELSE [model EXCEPT !.tp = n]
    BY <1>5 DEF SetXpu
  <2>2. DevicesTyped'
    BY <2>1, NewXpus DEF DevicesTyped
  <2>3. ModelTyped'
    BY <1>1, <2>1 DEF ModelTyped
  <2>. QED  BY <2>1, <2>2, <2>3, ConfiguredTyped
<1>. QED  BY <1>2, <1>3, <1>4, <1>5

(* ... a call ...                                                           *)
LEMMA SimulateTyped ==
  ASSUME TypedInv, NEW c \in Calls, Simulate(c)
  PROVE  TypedInv'
<1> USE DEF TypedInv
<1> DEFINE s == SumDecoder(model.infos, model.tp, c.batch, c.lin, Heterogeneous)
           g == GenDecoders(model.infos, model.tp, c.batch, c.lin, c.lout, Heterogeneous)
<1>1. /\ pc = "idle" /\ model # NoModel /\ ops < MaxOps /\ ops' = ops + 1 /\ pc' = "sum"
      /\ call' = c /\ answer' = {}
      /\ gpu' = gpu /\ acc' = acc /\ hetero' = hetero /\ model' = model
      /\ work' = [Idle EXCEPT !.batches = TargetBatches(c), !.itr = 1, !.stage = 1, !.at = 1,
                              !.sum = s, !.gen = g]
  BY DEF Simulate
<1>2. s \in Decoders /\ g \in Stages
  <2>1. Heterogeneous \in BOOLEAN
    BY DEF Heterogeneous
  <2>. QED  BY <1>1, <2>1, ModelIsReady, GpusShare, DecodersType DEF Decoders, Stages
<1> HIDE DEF s, g
<1>3. WorkOK(work', c)
  BY <1>1, <1>2, StartedWork
<1>4. WorkTyped' /\ AnswersAddUp'
  BY <1>1, <1>3 DEF WorkTyped, Calling, AnswersAddUp
<1>5. DevicesTyped' /\ ModelTyped'
  BY <1>1 DEF DevicesTyped, ModelTyped
<1>6. CallTyped'
  BY <1>1, SimulationAssumption DEF CallTyped
<1>. QED  BY <1>4, <1>5, <1>6

---------------------------------------------------------------------------
(* The steps of simulate().                                                 *)
LEMMA SumLayerTyped ==
  ASSUME SimulatorAnswers, TypedInv, SumLayer
  PROVE  TypedInv'
<1> USE DEF TypedInv
<1> DEFINE l == work.sum[work.at]
           device == AfterCost(gpu, l)
           timed == Timed(l, Cost(device, l))
           new == [timed EXCEPT !.time = @ + Waiting(work, l)]
<1>1. /\ pc = "sum" /\ work.at <= Len(work.sum) /\ gpu' = device
      /\ work' = Summarized(work, new)
      /\ pc' = pc /\ acc' = acc /\ hetero' = hetero /\ model' = model /\ call' = call
      /\ answer' = answer /\ ops' = ops
  BY DEF SumLayer
<1>2. model # NoModel /\ WorkOK(work, call)
  BY <1>1 DEF WorkTyped, Calling
<1>3. work \in WorkType /\ l \in LayerRec
  <2>1. work \in WorkType /\ work.sum \in Decoders /\ work.at \in Positive
    BY <1>2 DEF WorkOK, WorkType
  <2>2. Len(work.sum) \in Nat
    BY <2>1, LenProperties DEF Decoders
  <2>3. work.at \in 1..Len(work.sum)
    BY <1>1, <2>1, <2>2 DEF Positive
  <2>. QED  BY <2>1, <2>3, ElementOfSeq DEF Decoders
<1>4. /\ CostOK(Cost(device, l), l) /\ XpuOK(device)
      /\ device.config = gpu.config /\ device.num = gpu.num
  <2> HIDE DEF l
  <2>. QED  BY <1>3, CostType DEF DevicesTyped
<1>5. new \in LayerRec
  <2>1. timed \in LayerRec
    <3> HIDE DEF l, device
    <3>. QED  BY <1>3, <1>4, TimedType
  <2> HIDE DEF timed
  <2>2. timed.time + Waiting(work, l) \in Int
    BY <1>3, <2>1, WaitingType, LayerSizes
  <2>3. new = [timed EXCEPT !.time = timed.time + Waiting(work, l)]
    OBVIOUS
  <2>. QED  BY <2>1, <2>2, <2>3, NewTime
<1> HIDE DEF new, timed, device
<1>6. WorkOK(work', call)
  BY <1>1, <1>2, <1>5, GpuIsReady, SummarizedOK
<1>7. WorkTyped'
  BY <1>1, <1>2, <1>6 DEF WorkTyped, Calling
<1>8. DevicesTyped'
  BY <1>1, <1>4 DEF DevicesTyped
<1>9. ModelTyped' /\ CallTyped' /\ AnswersAddUp'
  BY <1>1 DEF ModelTyped, CallTyped, AnswersAddUp
<1>. QED  BY <1>7, <1>8, <1>9

(* The layers of the generation, on the GPUs or on the attention device.    *)
LEMMA GenLayerTyped ==
  ASSUME SimulatorAnswers, TypedInv, GenLayer
  PROVE  TypedInv'
<1> USE DEF TypedInv
<1> DEFINE l == work.gen[work.stage][work.at]
           onGpu == ~OnAcc(l) \/ acc = SameAsGpu
           d == IF onGpu THEN gpu ELSE acc
           device == AfterCost(d, l)
           new == Timed(l, Cost(device, l))
<1>1. /\ pc = "gen" /\ work.at <= Len(work.gen[work.stage])
      /\ gpu' = (IF onGpu THEN device ELSE gpu) /\ acc' = (IF onGpu THEN acc ELSE device)
      /\ work' = Generated(work, new)
      /\ pc' = pc /\ hetero' = hetero /\ model' = model /\ call' = call
      /\ answer' = answer /\ ops' = ops
  BY DEF GenLayer
<1>2. /\ model # NoModel /\ WorkOK(work, call) /\ work.stage <= Len(work.gen)
  BY <1>1 DEF WorkTyped, Calling
<1>3. InStage(work)
  BY <1>1, <1>2 DEF InStage
<1>4. l \in LayerRec
  <2>1. work.gen \in Stages /\ work.stage \in Nat /\ work.stage >= 1 /\ work.at \in Positive
    BY <1>2 DEF WorkOK, WorkType
  <2>2. Len(work.gen) \in Nat
    BY <2>1, LenProperties DEF Stages
  <2>3. work.stage \in 1..Len(work.gen)
    BY <1>2, <2>1, <2>2
  <2>4. work.gen[work.stage] \in Decoders
    BY <2>1, <2>3, ElementOfSeq DEF Stages
  <2>5. Len(work.gen[work.stage]) \in Nat
    BY <2>4, LenProperties DEF Decoders
  <2>6. work.at \in 1..Len(work.gen[work.stage])
    BY <1>1, <2>1, <2>5 DEF Positive
  <2>. QED  BY <2>4, <2>6, ElementOfSeq DEF Decoders
<1>5. XpuOK(d) \/ (PimOK(d) /\ OnAcc(l))
  BY DEF DevicesTyped
<1>6. /\ CostOK(Cost(device, l), l)
      /\ XpuOK(d) => XpuOK(device)
      /\ PimOK(d) => PimOK(device)
      /\ device.config = d.config /\ device.num = d.num
  <2> HIDE DEF l, d
  <2>. QED  BY <1>4, <1>5, CostType
<1>7. DevicesTyped'
  <2> HIDE DEF device, l, onGpu
  <2>1. CASE onGpu
    <3>1. d = gpu /\ gpu' = device /\ acc' = acc
      BY <1>1, <2>1
    <3> HIDE DEF d
    <3>. QED  BY <1>6, <3>1 DEF DevicesTyped
  <2>2. CASE ~onGpu
    <3>1. d = acc /\ gpu' = gpu /\ acc' = device /\ acc # SameAsGpu
      BY <1>1, <2>2 DEF onGpu
    <3> HIDE DEF d
    <3>. QED  BY <1>6, <3>1 DEF DevicesTyped
  <2>. QED  BY <2>1, <2>2
<1>8. new \in LayerRec /\ EnergyOK(new)
  <2> HIDE DEF l, device
  <2>1. /\ new \in LayerRec /\ new.energy = Cost(device, l).energy /\ new.type = l.type
    BY <1>4, <1>6, TimedType
  <2> HIDE DEF new
  <2>. QED  BY <1>6, <2>1 DEF EnergyOK, CostOK, IsCommunication
<1> HIDE DEF new, device, l, onGpu, d
<1>9. /\ WorkOK(work', call) /\ Len(work'.gen) = Len(work.gen) /\ work'.stage = work.stage
  BY <1>1, <1>2, <1>3, <1>8, GpuIsReady, GeneratedOK
<1>10. WorkTyped'
  BY <1>1, <1>2, <1>9 DEF WorkTyped, Calling
<1>11. ModelTyped' /\ CallTyped' /\ AnswersAddUp'
  BY <1>1 DEF ModelTyped, CallTyped, AnswersAddUp
<1>. QED  BY <1>7, <1>10, <1>11

(* The variables of simulate() at the start of a stage or a stage.           *)
LEMMA RestartedOK ==
  ASSUME NEW c, NEW w, WorkOK(w, c)
  PROVE  /\ WorkOK([w EXCEPT !.at = 1, !.stage = 1], c)
         /\ [w EXCEPT !.at = 1, !.stage = 1].stage = 1
         /\ [w EXCEPT !.at = 1, !.stage = 1].gen = w.gen
<1> DEFINE v == [w EXCEPT !.at = 1, !.stage = 1]
<1>1. /\ w \in WorkType /\ w.gen \in Stages
  BY DEF WorkOK, WorkType
<1>2. Len(w.gen) \in Nat
  BY <1>1, LenProperties DEF Stages
<1>3. v \in WorkType
  BY <1>1 DEF WorkType
<1>4. /\ v.batches = w.batches /\ v.itr = w.itr /\ v.at = 1 /\ v.stage = 1 /\ v.gen = w.gen
      /\ v.all = w.all /\ v.unit = w.unit /\ v.byType = w.byType
  BY <1>1 DEF WorkType
<1>5. 1 \in Positive /\ 1 \in 1..(Len(w.gen) + 1)
  BY <1>2 DEF Positive
<1> HIDE DEF v
<1>6. WorkOK(v, c)
  BY <1>3, <1>4, <1>5 DEF WorkOK
<1>. QED  BY <1>4, <1>6 DEF v

(* The variables of simulate() at the start of another batch.               *)
LEMMA NextBatchType ==
  ASSUME NEW w \in WorkType, NEW i \in Nat
  PROVE  [w EXCEPT !.itr = i, !.at = 1, !.stage = 1, !.elapsed = 0, !.busy = 0] \in WorkType
<1> DEFINE one == 1
           none == 0
<1>1. one \in Nat /\ none \in Int
  OBVIOUS
<1> HIDE DEF one, none
<1>2. [w EXCEPT !.itr = i, !.at = one, !.stage = one, !.elapsed = none, !.busy = none] \in WorkType
  BY <1>1 DEF WorkType
<1>. QED  BY <1>2 DEF one, none

(* They still are as they should.                                           *)
LEMMA NextBatchOK ==
  ASSUME NEW c, NEW w, WorkOK(w, c), w.itr < Len(w.batches)
  PROVE  WorkOK([w EXCEPT !.itr = @ + 1, !.at = 1, !.stage = 1, !.elapsed = 0, !.busy = 0], c)
<1> DEFINE i == w.itr + 1
           v == [w EXCEPT !.itr = i, !.at = 1, !.stage = 1, !.elapsed = 0, !.busy = 0]
<1>1. /\ w \in WorkType /\ w.gen \in Stages /\ w.batches \in Seq(Positive) /\ w.itr \in Nat
  BY DEF WorkOK, WorkType
<1>2. Len(w.gen) \in Nat /\ Len(w.batches) \in Nat
  BY <1>1, LenProperties DEF Stages
<1>3. i \in Nat /\ i \in 1..Len(w.batches)
  <2>1. w.itr \in Nat /\ w.itr >= 1
    BY <1>1 DEF WorkOK
  <2>. QED  BY <1>2, <2>1
<1> HIDE DEF i
<1>4. v \in WorkType
  <2>1. w \in WorkType /\ i \in Nat
    BY <1>1, <1>3
  <2>. QED  BY <2>1, NextBatchType
<1>5. /\ v.batches = w.batches /\ v.itr = i /\ v.at = 1 /\ v.stage = 1 /\ v.gen = w.gen
      /\ v.all = w.all /\ v.unit = w.unit /\ v.byType = w.byType
  BY <1>1 DEF WorkType
<1>6. 1 \in Positive /\ 1 \in 1..(Len(w.gen) + 1)
  BY <1>2 DEF Positive
<1> HIDE DEF v
<1>7. WorkOK(v, c)
  BY <1>3, <1>4, <1>5, <1>6 DEF WorkOK
<1>8. v = [w EXCEPT !.itr = @ + 1, !.at = 1, !.stage = 1, !.elapsed = 0, !.busy = 0]
  BY DEF v, i
<1>. QED  BY <1>7, <1>8

(* The variables of simulate() at the end of a stage.                       *)
LEMMA EndedStageOK ==
  ASSUME NEW c, NEW w, WorkOK(w, c), w.stage <= Len(w.gen), NEW done \in Decoders
  PROVE  LET v == [w EXCEPT !.gen[w.stage] = done, !.stage = @ + 1, !.at = 1]
         IN WorkOK(v, c) /\ v.stage = w.stage + 1 /\ Len(v.gen) = Len(w.gen)
<1> DEFINE g == [w.gen EXCEPT ![w.stage] = done]
           s == w.stage + 1
           v == [w EXCEPT !.gen = g, !.stage = s, !.at = 1]
<1>1. /\ w \in WorkType /\ w.gen \in Stages /\ w.stage \in Nat /\ w.stage >= 1
  BY DEF WorkOK, WorkType
<1>2. Len(w.gen) \in Nat
  BY <1>1, LenProperties DEF Stages
<1>3. s \in Nat /\ s \in 1..(Len(w.gen) + 1) /\ w.stage \in 1..Len(w.gen)
  BY <1>1, <1>2
<1>4. g \in Stages /\ Len(g) = Len(w.gen)
  BY <1>1, <1>3, ExceptSeq DEF Stages
<1>5. [w EXCEPT !.gen[w.stage] = done, !.stage = @ + 1, !.at = 1] = v
  BY <1>1 DEF WorkType
<1> HIDE DEF g, s
<1>6. v \in WorkType
  BY <1>1, <1>3, <1>4 DEF WorkType
<1>7. /\ v.batches = w.batches /\ v.itr = w.itr /\ v.at = 1 /\ v.stage = s /\ v.gen = g
      /\ v.all = w.all /\ v.unit = w.unit /\ v.byType = w.byType
  BY <1>1 DEF WorkType
<1>8. 1 \in Positive
  BY DEF Positive
<1> HIDE DEF v
<1>9. v.stage \in 1..(Len(v.gen) + 1)
  BY <1>3, <1>4, <1>7
<1>10. WorkOK(v, c)
  BY <1>6, <1>7, <1>8, <1>9 DEF WorkOK
<1>. QED  BY <1>4, <1>5, <1>7, <1>10 DEF s

(* Who is named by hetero_name takes part in the pipeline.                   *)
LEMMA PimTakesPart ==
  ASSUME DevicesTyped, Consistent, hetero = "PIM"
  PROVE  Acc.config.bw \in Positive
<1>1. acc.config.kind = "PIM"
  BY DEF Consistent
<1>2. acc # SameAsGpu
  BY <1>1 DEF SameAsGpu
<1>3. ~XpuOK(acc)
  BY <1>1, XpuIsNoPim
<1>4. PimOK(acc)
  BY <1>2, <1>3 DEF DevicesTyped
<1>. QED  BY <1>2, <1>4, PimKind DEF Acc

(* The layers of a stage, after they were pipelined and shared out.         *)
LEMMA StageDone ==
  ASSUME DevicesTyped, Consistent, HeadsOK, NEW block \in Decoders, NEW level \in BOOLEAN,
         NEW par, NEW bs \in Positive
  PROVE  (IF hetero # "PIM" THEN block
          ELSE IF par THEN ParallelBlock(PipelinedBlock(block, level), bs)
          ELSE PipelinedBlock(block, level)) \in Decoders
<1> DEFINE piped == PipelinedBlock(block, level)
<1>1. piped \in Decoders
  BY PipelinedBlockType DEF Decoders
<1> HIDE DEF piped
<1>2. hetero = "PIM" => ParallelBlock(piped, bs) \in Decoders
  <2>1. XpuOK(gpu)
    BY DEF DevicesTyped
  <2>2. ASSUME hetero = "PIM" PROVE ParallelBlock(piped, bs) \in Decoders
    <3>1. Acc.config.bw \in Positive
      BY <2>2, PimTakesPart
    <3>. QED  BY <1>1, <2>1, <3>1, ParallelBlockType DEF Decoders
  <2>. QED  BY <2>2
<1>. QED  BY <1>1, <1>2 DEF piped

(* The end of the prompt.                                                   *)
LEMMA EndOfSumTyped ==
  ASSUME TypedInv, EndOfSum
  PROVE  TypedInv'
<1> USE DEF TypedInv
<1>1. /\ pc = "sum" /\ pc' = (IF work.gen = <<>> THEN "report" ELSE "gen")
      /\ work' = [work EXCEPT !.at = 1, !.stage = 1]
      /\ gpu' = gpu /\ acc' = acc /\ hetero' = hetero /\ model' = model /\ call' = call
      /\ answer' = answer /\ ops' = ops
  BY DEF EndOfSum
<1>2. model # NoModel /\ WorkOK(work, call)
  BY <1>1 DEF WorkTyped, Calling
<1>3. WorkOK(work', call) /\ work'.stage = 1 /\ work'.gen = work.gen
  BY <1>1, <1>2, RestartedOK
<1>4. work.gen # <<>> => 1 <= Len(work.gen)
  <2>1. work.gen \in Stages
    BY <1>2 DEF WorkOK, WorkType
  <2>2. Len(work.gen) \in Nat /\ (work.gen # <<>> => Len(work.gen) # 0)
    BY <2>1, LenProperties, EmptySeq DEF Stages
  <2>. QED  BY <2>2
<1>5. pc' \in {"gen", "report"} /\ (pc' = "gen" => work.gen # <<>>)
  BY <1>1
<1>6. WorkTyped'
  BY <1>1, <1>2, <1>3, <1>4, <1>5 DEF WorkTyped, Calling
<1>7. DevicesTyped' /\ ModelTyped' /\ CallTyped' /\ AnswersAddUp'
  BY <1>1, <1>5 DEF DevicesTyped, ModelTyped, CallTyped, AnswersAddUp
<1>. QED  BY <1>6, <1>7

(* The end of a stage.                                                      *)
LEMMA EndOfStageTyped ==
  ASSUME TypedInv, Consistent, EndOfStage
  PROVE  TypedInv'
<1> USE DEF TypedInv
<1> DEFINE block == work.gen[work.stage]
           piped == PipelinedBlock(block, call.pipe)
           bs == work.batches[work.itr]
           done == IF hetero # "PIM" THEN block
                   ELSE IF call.par THEN ParallelBlock(piped, bs) ELSE piped
<1>1. /\ pc = "gen" /\ pc' = (IF work.stage = Len(work.gen) THEN "report" ELSE "gen")
      /\ work' = [work EXCEPT !.gen[work.stage] = done, !.stage = @ + 1, !.at = 1]
      /\ gpu' = gpu /\ acc' = acc /\ hetero' = hetero /\ model' = model /\ call' = call
      /\ answer' = answer /\ ops' = ops
  BY DEF EndOfStage
<1>2. /\ model # NoModel /\ WorkOK(work, call) /\ work.stage <= Len(work.gen)
  BY <1>1 DEF WorkTyped, Calling
<1>3. /\ work.gen \in Stages /\ work.stage \in Nat /\ work.stage >= 1
      /\ work.batches \in Seq(Positive) /\ work.itr \in 1..Len(work.batches)
  BY <1>2 DEF WorkOK, WorkType
<1>4. Len(work.gen) \in Nat
  BY <1>3, LenProperties DEF Stages
<1>5. block \in Decoders
  <2>1. work.stage \in 1..Len(work.gen)
    BY <1>2, <1>3, <1>4
  <2>. QED  BY <1>3, <2>1, ElementOfSeq DEF Stages
<1>6. bs \in Positive
  BY <1>3, ElementOfSeq
<1>7. HeadsOK /\ call.pipe \in BOOLEAN
  <2>1. call \in Calls
    BY DEF CallTyped
  <2>2. call.pipe \in BOOLEAN
    BY <2>1, SimulationAssumption
  <2>. QED  BY <1>2, <2>2, GpuIsReady, ModelIsReady DEF HeadsOK
<1> HIDE DEF block, bs
<1>8. done \in Decoders
  BY <1>5, <1>6, <1>7, StageDone
<1> HIDE DEF done
<1>9. WorkOK(work', call) /\ work'.stage = work.stage + 1 /\ Len(work'.gen) = Len(work.gen)
  BY <1>1, <1>2, <1>8, EndedStageOK
<1>10. pc' \in {"gen", "report"} /\ (pc' = "gen" => work.stage + 1 <= Len(work.gen))
  BY <1>1, <1>2, <1>3, <1>4
<1>11. WorkTyped'
  BY <1>1, <1>2, <1>9, <1>10 DEF WorkTyped, Calling
<1>12. DevicesTyped' /\ ModelTyped' /\ CallTyped' /\ AnswersAddUp'
  BY <1>1, <1>10 DEF DevicesTyped, ModelTyped, CallTyped, AnswersAddUp
<1>. QED  BY <1>11, <1>12

(* Another batch.                                                           *)
LEMMA NextBatchTyped ==
  ASSUME TypedInv, NextBatch
  PROVE  TypedInv'
<1> USE DEF TypedInv
<1>1. /\ pc = "report" /\ pc' = "sum" /\ work.itr < Len(work.batches)
      /\ work' = [work EXCEPT !.itr = @ + 1, !.at = 1, !.stage = 1, !.elapsed = 0, !.busy = 0]
      /\ gpu' = gpu /\ acc' = acc /\ hetero' = hetero /\ model' = model /\ call' = call
      /\ answer' = answer /\ ops' = ops
  BY DEF NextBatch
<1>2. model # NoModel /\ WorkOK(work, call)
  BY <1>1 DEF WorkTyped, Calling
<1>3. WorkOK(work', call)
  BY <1>1, <1>2, NextBatchOK
<1>4. WorkTyped'
  BY <1>1, <1>2, <1>3 DEF WorkTyped, Calling
<1>5. DevicesTyped' /\ ModelTyped' /\ CallTyped' /\ AnswersAddUp'
  BY <1>1 DEF DevicesTyped, ModelTyped, CallTyped, AnswersAddUp
<1>. QED  BY <1>4, <1>5

(* The row that is reported adds up.                                        *)
LEMMA RowAddsUp ==
  ASSUME WorkOK(work, call), ModelTyped, model # NoModel, NEW bs
  PROVE  RowOK(Row(bs))
<1> DEFINE row == Row(bs)
<1>1. SplitOK(work.all, work.unit, work.byType) /\ work.sum \in Decoders /\ work.gen \in Stages
  BY DEF WorkOK, WorkType
<1>2. RowReads(row)
  BY <1>1, RowIsRead
<1>3. LayersOK
  BY <1>1, FlattenType DEF LayersOK, Decoders, Stages
<1>4. model.infos.ndec \in Nat
  BY ModelIsReady
<1> HIDE DEF row
<1>5. RowTimes(row) /\ RowEnergies(row)
  BY <1>1, <1>2, <1>3, <1>4, RowTimesAddUp, RowEnergiesAddUp
<1>6. IsList(row, 51)
  BY <1>2 DEF RowReads
<1>. QED  BY <1>5, <1>6 DEF RowOK, row

(* The answer, or none.                                                     *)
LEMMA AnsweredTyped ==
  ASSUME TypedInv, Fail \/ Report
  PROVE  TypedInv'
<1> USE DEF TypedInv
<1>1. /\ pc = "report" /\ pc' = "idle" /\ work' = Idle
      /\ gpu' = gpu /\ acc' = acc /\ hetero' = hetero /\ model' = model /\ call' = call
      /\ ops' = ops
  BY DEF Fail, Report
<1>2. model # NoModel /\ WorkOK(work, call)
  BY <1>1 DEF WorkTyped, Calling
<1>3. AnswersAddUp'
  <2>1. CASE Fail
    BY <2>1 DEF Fail, AnswersAddUp
  <2>2. CASE Report
    <3> DEFINE row == Row(work.batches[1])
    <3>1. answer' = {[call |-> call, row |-> row]}
      BY <2>2 DEF Report
    <3>2. RowOK(row)
      BY <1>2, RowAddsUp
    <3> HIDE DEF row
    <3>. QED  BY <3>1, <3>2 DEF AnswersAddUp
  <2>. QED  BY <2>1, <2>2
<1>4. WorkTyped'
  BY <1>1 DEF WorkTyped, Calling
<1>5. DevicesTyped' /\ ModelTyped' /\ CallTyped'
  BY <1>1 DEF DevicesTyped, ModelTyped, CallTyped
<1>. QED  BY <1>3, <1>4, <1>5

(* Every step keeps the invariant.                                          *)
LEMMA StepsKeepTyped ==
  ASSUME SimulatorAnswers
  PROVE  TypedInv /\ Consistent /\ [Next]_vars => TypedInv'
<1> SUFFICES ASSUME TypedInv, Consistent, [Next]_vars PROVE TypedInv'
  OBVIOUS
<1>1. ASSUME NEW infos \in Models \cup {NoModel}, NEW name \in {"NONE", "CPU"}, New(infos, name)
      PROVE  TypedInv'
  BY <1>1, NewTyped
<1>2. CASE \/ \E infos \in Models : SetModel(infos) \/ \E config \in PimConfigs : SetPim(infos, config)
           \/ SetCpu \/ \E n \in GpuCounts : SetXpu(n)
  BY <1>2, SettingTyped
<1>3. ASSUME NEW c \in Calls, Simulate(c) PROVE TypedInv'
  BY <1>3, SimulateTyped
<1>4. CASE SumLayer
  BY <1>4, SumLayerTyped
<1>5. CASE EndOfSum
  BY <1>5, EndOfSumTyped
<1>6. CASE GenLayer
  BY <1>6, GenLayerTyped
<1>7. CASE EndOfStage
  BY <1>7, EndOfStageTyped
<1>8. CASE NextBatch
  BY <1>8, NextBatchTyped
<1>9. CASE Fail \/ Report
  BY <1>9, AnsweredTyped
<1>10. CASE UNCHANGED vars
  BY <1>10 DEF vars, TypedInv, DevicesTyped, ModelTyped, CallTyped, WorkTyped, Calling, AnswersAddUp
<1>. QED
  BY <1>1, <1>2, <1>3, <1>4, <1>5, <1>6, <1>7, <1>8, <1>9, <1>10 DEF Next

(* What is an invariant, whatever the simulator answers as long as it answers *)
(* numbers.                                                                 *)
LEMMA TypedInvHolds ==
  ASSUME SimulatorAnswers
  PROVE  Spec => []TypedInv
<1>1. Init => TypedInv
  BY InitTyped
<1>2. TypedInv /\ Consistent /\ [Next]_vars => TypedInv'
  BY StepsKeepTyped
<1>. QED  BY <1>1, <1>2, SimulationConsistent, PTL DEF Spec

(* The variables of simulate() have the types that TypeOK asks for.         *)
LEMMA WorkFitsType ==
  ASSUME NEW w, NEW c \in Calls, WorkOK(w, c)
  PROVE  /\ \A i \in DOMAIN w.batches : w.batches[i] \in 1..c.batch
         /\ w.itr \in 0..Len(w.batches) /\ w.stage \in 0..(Len(w.gen) + 1)
         /\ \A i \in DOMAIN w.sum : IsLayer(w.sum[i])
         /\ \A s \in DOMAIN w.gen : \A i \in DOMAIN w.gen[s] : IsLayer(w.gen[s][i])
<1>1. /\ w.sum \in Decoders /\ w.gen \in Stages /\ w.batches = TargetBatches(c)
      /\ w.itr \in 1..Len(w.batches) /\ w.stage \in 1..(Len(w.gen) + 1)
  BY DEF WorkOK, WorkType
<1>2. \A i \in DOMAIN w.batches : w.batches[i] \in 1..c.batch
  <2>1. /\ TargetBatches(c) \in Seq(Positive)
        /\ \A i \in 1..Len(TargetBatches(c)) : TargetBatches(c)[i] \in 1..c.batch
    BY BatchesType
  <2>2. DOMAIN TargetBatches(c) = 1..Len(TargetBatches(c))
    BY <2>1, LenProperties
  <2>. QED  BY <1>1, <2>1, <2>2
<1>3. w.itr \in 0..Len(w.batches) /\ w.stage \in 0..(Len(w.gen) + 1)
  <2>1. \A n : \A i \in 1..n : i \in 0..n
    OBVIOUS
  <2>. QED  BY <1>1, <2>1
<1>4. ASSUME NEW l \in LayerRec PROVE IsLayer(l)
  BY LayerSizes, TimesType DEF IsLayer, LayerRec
<1>5. ASSUME NEW d \in Decoders PROVE \A i \in DOMAIN d : IsLayer(d[i])
  BY <1>4, LenProperties, ElementOfSeq DEF Decoders
<1>6. \A s \in DOMAIN w.gen : w.gen[s] \in Decoders
  BY <1>1, LenProperties, ElementOfSeq DEF Stages
<1>. QED  BY <1>1, <1>2, <1>3, <1>5, <1>6

(* The invariant says more than TypeOK.                                     *)
LEMMA TypedInvTypes == TypedInv => TypeOK
<1> SUFFICES ASSUME TypedInv PROVE TypeOK
  OBVIOUS
<1>1. DevicesTyped /\ ModelTyped /\ CallTyped /\ WorkTyped /\ AnswersAddUp
  BY DEF TypedInv
<1>2. acc = SameAsGpu \/ acc.config \in {CpuConfig} \cup PimConfigs
  BY <1>1, PimKind DEF DevicesTyped
<1>3. model # NoModel => model.infos \in Models
  BY <1>1 DEF ModelTyped
<1>4. \A a \in answer : Len(a.row) = Len(Header)
  BY <1>1, HeaderKeys DEF AnswersAddUp, RowOK, IsList
<1>5. CASE ~Calling
  <2>1. work = Idle
    BY <1>1, <1>5 DEF WorkTyped
  <2>2. /\ work.batches = <<>> /\ work.itr = 0 /\ work.stage = 0 /\ work.sum = <<>>
        /\ work.gen = <<>>
    BY <2>1 DEF Idle
  <2>3. Len(<<>>) = 0 /\ DOMAIN <<>> = {}
    OBVIOUS
  <2>. QED  BY <1>1, <1>2, <1>3, <1>4, <2>2, <2>3 DEF TypeOK, DevicesTyped, CallTyped
<1>6. CASE Calling
  <2>1. call \in Calls /\ WorkOK(work, call)
    BY <1>1, <1>6 DEF WorkTyped, CallTyped
  <2>. QED  BY <1>1, <1>2, <1>3, <1>4, <2>1, WorkFitsType DEF TypeOK, DevicesTyped, CallTyped
<1>. QED  BY <1>5, <1>6

(* Of the answers, it says what the two properties say.                     *)
LEMMA TypedInvAddsUp == TypedInv => TimesAddUp /\ EnergiesAddUp
BY DEF TypedInv, AnswersAddUp, RowOK, RowTimes, RowEnergies, TimesAddUp, EnergiesAddUp

---------------------------------------------------------------------------
(* Times that stay. The time of a layer on a device depends on what it computes *)
(* and, for XPUs, on the tile that the table has for it.                      *)

(* What the time of a layer depends on.                                      *)
Bare(l) ==
  [name |-> l.name, type |-> l.type, m |-> l.m, n |-> l.n, k |-> l.k, numOp |-> l.numOp,
   dbyte |-> l.dbyte]

(* The device need not compute a tile for the layer any more.                 *)
Known(d, l) ==
  d.config.kind = "PIM" \/ IsCommunication(l) \/ TileKey(l) \in DOMAIN d.tiles

(* The simulator of the device was made for heads of another width, so it takes *)
(* one time for the score when it simulates and another when it looks it up.   *)
Odd(d, l) == d.config.kind = "PIM" /\ IsScore(l) /\ l.k # d.dhead

(* The same figures, so the same operations, data and tiles.                 *)
LEMMA BareFigures ==
  ASSUME NEW l, NEW b, Bare(l) = Bare(b)
  PROVE  /\ l.name = b.name /\ l.type = b.type /\ l.m = b.m /\ l.n = b.n /\ l.k = b.k
         /\ l.numOp = b.numOp /\ l.dbyte = b.dbyte
         /\ Flops(l) = Flops(b) /\ Size(l) = Size(b) /\ OnAcc(l) = OnAcc(b)
         /\ IsCommunication(l) = IsCommunication(b) /\ TileKey(l) = TileKey(b)
         /\ Asked(l) = Asked(b) /\ IsScore(l) = IsScore(b)
         /\ \A t : Traffic(l, t) = Traffic(b, t) /\ ThreadBlocks(l, t) = ThreadBlocks(b, t)
<1>1. /\ l.name = b.name /\ l.type = b.type /\ l.m = b.m /\ l.n = b.n /\ l.k = b.k
      /\ l.numOp = b.numOp /\ l.dbyte = b.dbyte
  <2>1. /\ Bare(l).name = Bare(b).name /\ Bare(l).type = Bare(b).type
        /\ Bare(l).m = Bare(b).m /\ Bare(l).n = Bare(b).n /\ Bare(l).k = Bare(b).k
        /\ Bare(l).numOp = Bare(b).numOp /\ Bare(l).dbyte = Bare(b).dbyte
    OBVIOUS
  <2>. QED  BY <2>1 DEF Bare
<1>2. Flops(l) = Flops(b) /\ Size(l) = Size(b)
  BY <1>1 DEF Flops, Size
<1>3. /\ OnAcc(l) = OnAcc(b) /\ IsCommunication(l) = IsCommunication(b)
      /\ TileKey(l) = TileKey(b) /\ Asked(l) = Asked(b) /\ IsScore(l) = IsScore(b)
  BY <1>1 DEF OnAcc, IsCommunication, TileKey, Asked, IsScore
<1>4. \A t : Traffic(l, t) = Traffic(b, t) /\ ThreadBlocks(l, t) = ThreadBlocks(b, t)
  BY <1>1 DEF Traffic, ThreadBlocks
<1>. QED  BY <1>1, <1>2, <1>3, <1>4

(* Two devices of the same kind with the same tile for a layer take the same   *)
(* time for it.                                                             *)
LEMMA SameTime ==
  ASSUME NEW d, NEW e, NEW l, NEW b, Bare(l) = Bare(b),
         d.config = e.config, d.num = e.num, d.config.kind # "PIM",
         IsCommunication(l) \/ TileOf(d, l) = TileOf(e, b)
  PROVE  TimeOn(d, l) = TimeOn(e, b)
<1>1. /\ l.name = b.name /\ l.type = b.type /\ l.m = b.m /\ l.n = b.n /\ l.k = b.k
      /\ l.numOp = b.numOp /\ l.dbyte = b.dbyte
      /\ Flops(l) = Flops(b) /\ Size(l) = Size(b)
      /\ IsCommunication(l) = IsCommunication(b)
      /\ \A t : Traffic(l, t) = Traffic(b, t) /\ ThreadBlocks(l, t) = ThreadBlocks(b, t)
  BY BareFigures
<1>2. XpuIo(d, l).time = XpuIo(e, b).time
  BY <1>1 DEF XpuIo
<1>3. CASE IsCommunication(l)
  BY <1>1, <1>2, <1>3 DEF TimeOn, Cost, XpuCost
<1>4. CASE ~IsCommunication(l)
  <2>1. TileOf(d, l) = TileOf(e, b)
    BY <1>4
  <2>2. Levels(d, l) = Levels(e, b)
    BY <1>1, <2>1 DEF Levels
  <2>3. \A t : Waves(d, l, t) = Waves(e, b, t)
    BY <1>1 DEF Waves
  <2>4. Utilization(d, l) = Utilization(e, b)
    BY <1>1, <2>1, <2>3 DEF Utilization
  <2>5. ComputeTime(d, l) = ComputeTime(e, b)
    BY <1>1, <2>4 DEF ComputeTime
  <2>6. MemTime(d, l) = MemTime(e, b)
    BY <1>1, <2>2, <2>4 DEF MemTime
  <2>7. TimeOn(d, l) = Most2(ComputeTime(d, l), MemTime(d, l))
    BY <1>4 DEF TimeOn, Cost, XpuCost
  <2>8. TimeOn(e, b) = Most2(ComputeTime(e, b), MemTime(e, b))
    BY <1>1, <1>4 DEF TimeOn, Cost, XpuCost
  <2>. QED  BY <2>5, <2>6, <2>7, <2>8
<1>. QED  BY <1>3, <1>4

(* A layer takes as long whatever time it was given before.                  *)
LEMMA TimeOfBare ==
  ASSUME NEW d, NEW l, NEW b, Bare(l) = Bare(b)
  PROVE  /\ OnAcc(l) \/ d.config.kind # "PIM" => TimeOn(d, l) = TimeOn(d, b)
         /\ Known(d, l) = Known(d, b) /\ Odd(d, l) = Odd(d, b)
<1>1. /\ l.name = b.name /\ l.type = b.type /\ l.m = b.m /\ l.n = b.n /\ l.k = b.k
      /\ l.numOp = b.numOp /\ l.dbyte = b.dbyte
      /\ Flops(l) = Flops(b) /\ Size(l) = Size(b) /\ Asked(l) = Asked(b)
      /\ IsCommunication(l) = IsCommunication(b) /\ TileKey(l) = TileKey(b)
      /\ IsScore(l) = IsScore(b)
  BY BareFigures
<1>2. Known(d, l) = Known(d, b) /\ Odd(d, l) = Odd(d, b)
  BY <1>1 DEF Known, Odd
<1>3. CASE d.config.kind # "PIM"
  BY <1>1, <1>2, <1>3, SameTime DEF TileOf
<1>4. CASE d.config.kind = "PIM"
  <2>3. SUFFICES ASSUME OnAcc(l) PROVE TimeOn(d, l) = TimeOn(d, b)
    BY <1>2, <1>4
  <2>1. TimeOn(d, l) = PimCost(d, l).time /\ TimeOn(d, b) = PimCost(d, b).time
    BY <1>4 DEF TimeOn, Cost
  <2>2. PimCost(d, l).time = PimCost(d, b).time
    <3>1. CASE l.type = "X2G"
      BY <1>1, <3>1 DEF PimCost, IsScore
    <3>2. CASE l.type = "MATMUL"
      <4>1. Answered(d, l) = Answered(d, b)
        BY <1>1 DEF Answered
      <4>. QED  BY <1>1, <3>2, <4>1 DEF PimCost
    <3>3. CASE l.type = "SOFTMAX"
      BY <1>1, <3>3 DEF PimCost
    <3>. QED  BY <2>3, <3>1, <3>2, <3>3 DEF OnAcc
  <2>. QED  BY <1>2, <2>1, <2>2
<1>. QED  BY <1>3, <1>4

(* A PIM device takes the same time for a layer whatever its simulator has     *)
(* seen, up to the scores that are odd.                                     *)
LEMMA PimTimeKept ==
  ASSUME NEW d, NEW e, d.config = e.config, d.num = e.num, d.dhead = e.dhead,
         d.config.kind = "PIM", NEW l, OnAcc(l), ~Odd(d, l)
  PROVE  TimeOn(e, l) = TimeOn(d, l)
<1>1. TimeOn(d, l) = PimCost(d, l).time /\ TimeOn(e, l) = PimCost(e, l).time
  BY DEF TimeOn, Cost
<1>2. CASE l.type = "X2G"
  BY <1>1, <1>2 DEF PimCost
<1>3. CASE l.type = "MATMUL" /\ IsScore(l)
  <2>1. l.k = d.dhead
    BY <1>3 DEF Odd
  <2> DEFINE ram == Simulated(d.config, l.k, Asked(l))
             x == IF d.config.type = "BUFFER" /\ ~d.fresh THEN 2 * ram.accesses ELSE ram.accesses
             y == IF d.config.type = "BUFFER" /\ ~e.fresh THEN 2 * ram.accesses ELSE ram.accesses
  <2>2. Answered(d, l) = [ram EXCEPT !.accesses = x] /\ Answered(e, l) = [ram EXCEPT !.accesses = y]
    BY <2>1 DEF Answered
  <2>3. Answered(d, l).time = Answered(e, l).time
    <3> HIDE DEF ram, x, y
    <3>. QED  BY <2>2
  <2>4. PimCost(d, l).time = Answered(d, l).time /\ PimCost(e, l).time = Answered(e, l).time
    BY <1>3 DEF PimCost
  <2>. QED  BY <1>1, <2>3, <2>4
<1>4. CASE l.type = "MATMUL" /\ ~IsScore(l)
  BY <1>1, <1>4 DEF PimCost
<1>5. CASE l.type = "SOFTMAX"
  BY <1>1, <1>5 DEF PimCost
<1>. QED  BY <1>2, <1>3, <1>4, <1>5 DEF OnAcc

(* A device that was consulted for a layer knows it, and goes on knowing what   *)
(* it knew, with the same times.                                            *)
LEMMA TimeKept ==
  ASSUME NEW d, XpuOK(d) \/ PimOK(d), NEW l, NEW other, Known(d, l)
  PROVE  /\ Known(AfterCost(d, other), l) /\ (Odd(AfterCost(d, other), l) <=> Odd(d, l))
         /\ OnAcc(l) \/ d.config.kind # "PIM" =>
              Odd(d, l) \/ TimeOn(AfterCost(d, other), l) = TimeOn(d, l)
<1>1. CASE PimOK(d)
  <2> DEFINE e == AfterCost(d, other)
  <2>1. /\ d.config.kind = "PIM"
        /\ e.config = d.config /\ e.num = d.num /\ e.dhead = d.dhead
    BY <1>1, PimKind, AfterCostKeepsPim DEF PimOK
  <2> HIDE DEF e
  <2>2. Known(e, l) /\ (Odd(e, l) <=> Odd(d, l))
    BY <2>1 DEF Known, Odd
  <2>3. OnAcc(l) /\ ~Odd(d, l) => TimeOn(e, l) = TimeOn(d, l)
    BY <2>1, PimTimeKept
  <2>. QED  BY <2>1, <2>2, <2>3 DEF e
<1>2. CASE XpuOK(d)
  <2> DEFINE e == AfterCost(d, other)
  <2>1. d.config.kind # "PIM"
    BY <1>2, XpuIsNoPim
  <2>2. e = WithTile(d, other)
    BY <2>1 DEF AfterCost
  <2>3. CASE IsCommunication(other) \/ TileKey(other) \in DOMAIN d.tiles
    <3>1. e = d
      BY <2>2, <2>3 DEF WithTile
    <3>. QED  BY <3>1
  <2>4. CASE ~(IsCommunication(other) \/ TileKey(other) \in DOMAIN d.tiles)
    <3> DEFINE key0 == TileKey(other)
               opt == OptimalTile(d, other)
               table == [key \in DOMAIN d.tiles \cup {key0} |->
                           IF key \in DOMAIN d.tiles THEN d.tiles[key] ELSE opt]
    <3>1. e = [config |-> d.config, num |-> d.num, tiles |-> table]
      BY <1>2, <2>2, <2>4 DEF WithTile, XpuOK, IsXPU
    <3>2. /\ \A key \in DOMAIN d.tiles : key \in DOMAIN table /\ table[key] = d.tiles[key]
      <4> HIDE DEF key0, opt
      <4>. QED  OBVIOUS
    <3>3. e.config = d.config /\ e.num = d.num /\ e.tiles = table
      <4> HIDE DEF table
      <4>. QED  BY <3>1
    <3> HIDE DEF table, e
    <3>4. Known(e, l) /\ (Odd(e, l) <=> Odd(d, l))
      BY <2>1, <3>2, <3>3 DEF Known, Odd
    <3>5. IsCommunication(l) \/ TileOf(e, l) = TileOf(d, l)
      BY <2>1, <3>2, <3>3 DEF Known, TileOf
    <3>6. TimeOn(e, l) = TimeOn(d, l)
      BY <2>1, <3>3, <3>5, SameTime
    <3>. QED  BY <3>4, <3>6 DEF e
  <2>. QED  BY <2>3, <2>4
<1>. QED  BY <1>1, <1>2

(* What a device knows costs some time, and need not be looked for.           *)
LEMMA KnownTime ==
  ASSUME SimulatorAnswers, NEW d, NEW l \in LayerRec, XpuOK(d) \/ (PimOK(d) /\ OnAcc(l)),
         Known(d, l)
  PROVE  TimeOn(d, l) \in Nat
<1>1. CASE XpuOK(d)
  <2>1. AfterCost(d, l) = d
    BY <1>1, XpuIsNoPim DEF AfterCost, WithTile, Known
  <2>. QED  BY <2>1, CostType DEF CostOK, TimeOn
<1>2. CASE PimOK(d) /\ OnAcc(l)
  <2>1. TimeOn(d, l) = PimCost(d, l).time
    BY <1>2, PimKind DEF TimeOn, Cost
  <2>. QED  BY <1>2, <2>1, PimCostType DEF CostOK
<1>. QED  BY <1>1, <1>2

(* A device knows what it was consulted for.                                *)
LEMMA Consulted ==
  ASSUME NEW d, XpuOK(d) \/ PimOK(d), NEW l
  PROVE  Known(AfterCost(d, l), l)
<1>1. CASE PimOK(d)
  <2>1. AfterCost(d, l).config = d.config
    BY <1>1, PimKind, AfterCostKeepsPim DEF PimOK
  <2>. QED  BY <1>1, <2>1, PimKind DEF Known
<1>2. CASE XpuOK(d)
  <2>1. d.config.kind # "PIM"
    BY <1>2, XpuIsNoPim
  <2>2. AfterCost(d, l) = WithTile(d, l)
    BY <2>1 DEF AfterCost
  <2>3. CASE IsCommunication(l) \/ TileKey(l) \in DOMAIN d.tiles
    BY <2>2, <2>3 DEF WithTile, Known
  <2>4. CASE ~(IsCommunication(l) \/ TileKey(l) \in DOMAIN d.tiles)
    BY <1>2, <2>2, <2>4 DEF WithTile, XpuOK, IsXPU, Known
  <2>. QED  BY <2>3, <2>4
<1>. QED  BY <1>1, <1>2

---------------------------------------------------------------------------
(* The layers of a decoder, by their names.                                  *)

(* No layer of the name, and only one, of the type.                           *)
NoneNamed(block, name) == \A i \in DOMAIN block : block[i].name # name
OneNamed(block, name, type) ==
  \E i \in DOMAIN block :
    /\ block[i].name = name /\ block[i].type = type
    /\ \A j \in DOMAIN block : block[j].name = name => j = i

(* A name stays the only one in a list that is joined to one without it.    *)
LEMMA JoinNames ==
  ASSUME NEW s \in Seq(LayerRec), NEW t \in Seq(LayerRec), NEW name, NEW type
  PROVE  /\ s \o t \in Seq(LayerRec)
         /\ NoneNamed(s, name) /\ NoneNamed(t, name) => NoneNamed(s \o t, name)
         /\ NoneNamed(s, name) /\ OneNamed(t, name, type) => OneNamed(s \o t, name, type)
         /\ OneNamed(s, name, type) /\ NoneNamed(t, name) => OneNamed(s \o t, name, type)
<1> DEFINE u == s \o t
           m == Len(s)
           n == Len(t)
<1>1. /\ u \in Seq(LayerRec) /\ m \in Nat /\ n \in Nat /\ Len(u) = m + n
      /\ DOMAIN s = 1..m /\ DOMAIN t = 1..n /\ DOMAIN u = 1..(m + n)
  BY ConcatProperties, LenProperties
<1>2. \A i \in 1..m : u[i] = s[i]
  BY ConcatProperties, LenProperties
<1>3. \A i \in 1..n : u[m + i] = t[i]
  BY <1>1, ConcatProperties
<1>4. \A i \in DOMAIN u : i \in DOMAIN s \/ i - m \in DOMAIN t
  BY <1>1
<1>5. \A i \in DOMAIN u : i \notin DOMAIN s => i - m \in DOMAIN t /\ u[i] = t[i - m]
  <2>1. ASSUME NEW i \in DOMAIN u, i \notin DOMAIN s PROVE i - m \in 1..n /\ m + (i - m) = i
    BY <1>1, <2>1
  <2>. QED  BY <1>1, <1>3, <2>1
<1> HIDE DEF u, m, n
<1>6. ASSUME NoneNamed(s, name), NoneNamed(t, name) PROVE NoneNamed(u, name)
  BY <1>1, <1>2, <1>5, <1>6 DEF NoneNamed
<1>7. ASSUME NoneNamed(s, name), OneNamed(t, name, type) PROVE OneNamed(u, name, type)
  <2>1. PICK i \in DOMAIN t : /\ t[i].name = name /\ t[i].type = type
                              /\ \A j \in DOMAIN t : t[j].name = name => j = i
    BY <1>7 DEF OneNamed
  <2>2. m + i \in DOMAIN u /\ u[m + i] = t[i]
    BY <1>1, <1>3
  <2>3. ASSUME NEW j \in DOMAIN u, u[j].name = name PROVE j = m + i
    <3>1. j \notin DOMAIN s
      BY <1>1, <1>2, <1>7, <2>3 DEF NoneNamed
    <3>2. j - m = i
      BY <1>5, <2>1, <2>3, <3>1
    <3>. QED  BY <1>1, <3>2
  <2>. QED  BY <2>1, <2>2, <2>3 DEF OneNamed
<1>8. ASSUME OneNamed(s, name, type), NoneNamed(t, name) PROVE OneNamed(u, name, type)
  <2>1. PICK i \in DOMAIN s : /\ s[i].name = name /\ s[i].type = type
                              /\ \A j \in DOMAIN s : s[j].name = name => j = i
    BY <1>8 DEF OneNamed
  <2>2. i \in DOMAIN u /\ u[i] = s[i]
    BY <1>1, <1>2
  <2>3. ASSUME NEW j \in DOMAIN u, u[j].name = name PROVE j = i
    <3>1. j \in DOMAIN s
      BY <1>5, <1>8, <2>3 DEF NoneNamed
    <3>. QED  BY <1>1, <1>2, <2>1, <2>3, <3>1
  <2>. QED  BY <2>1, <2>2, <2>3 DEF OneNamed
<1>. QED  BY <1>1, <1>6, <1>7, <1>8 DEF u

(* The fields of a layer that is built.                                     *)
LEMMA FieldsOfLayer ==
  ASSUME NEW infos, NEW name, NEW type, NEW m, NEW n, NEW k, NEW numOp
  PROVE  /\ Layer(infos, name, type, m, n, k, numOp).name = name
         /\ Layer(infos, name, type, m, n, k, numOp).type = type
         /\ Layer(infos, name, type, m, n, k, numOp).m = m
         /\ Layer(infos, name, type, m, n, k, numOp).n = n
         /\ Layer(infos, name, type, m, n, k, numOp).k = k
         /\ Layer(infos, name, type, m, n, k, numOp).numOp = numOp
         /\ Layer(infos, name, type, m, n, k, numOp).dbyte = infos.dbyte
BY DEF Layer

(* The lists that a decoder is made of.                                     *)
Projection(infos, tp, rows) == <<Layer(infos, "qkv", "FC", rows, 3 * PerGpu(infos, tp), infos.hdim, 1)>>
Attention(infos, q, kv, heads) ==
  <<Layer(infos, "score", "MATMUL", q, kv, HeadDim(infos), heads),
    Layer(infos, "softmax", "SOFTMAX", q, kv, 1, heads),
    Layer(infos, "context", "MATMUL", q, HeadDim(infos), kv, heads)>>
Output(infos, tp, rows) ==
  <<Layer(infos, "proj", "FC", rows, infos.hdim, PerGpu(infos, tp), 1),
    Layer(infos, "comm_g2g", "G2G", rows, infos.hdim, 1, 1),
    Layer(infos, "norm1", "NORM", rows, infos.hdim, 1, 1)>>
Closing(infos, rows) ==
  <<Layer(infos, "comm_g2g", "G2G", rows, infos.hdim, 1, 1),
    Layer(infos, "norm2", "NORM", rows, infos.hdim, 1, 1)>>

(* They are lists of layers.                                                *)
LEMMA DecoderParts ==
  ASSUME NEW infos \in Models, NEW tp \in Shares(infos), NEW batch \in Positive, NEW rows \in Positive,
         NEW q \in Positive, NEW kv \in Positive
  PROVE  /\ Projection(infos, tp, rows) \in Seq(LayerRec)
         /\ Attention(infos, q, kv, HeadsPerGpu(infos, tp) * batch) \in Seq(LayerRec)
         /\ Output(infos, tp, rows) \in Seq(LayerRec)
         /\ FeedForward(infos, tp, rows) \in Seq(LayerRec)
         /\ Closing(infos, rows) \in Seq(LayerRec)
<1> DEFINE heads == HeadsPerGpu(infos, tp) * batch
           qkv == Layer(infos, "qkv", "FC", rows, 3 * PerGpu(infos, tp), infos.hdim, 1)
           score == Layer(infos, "score", "MATMUL", q, kv, HeadDim(infos), heads)
           softmax == Layer(infos, "softmax", "SOFTMAX", q, kv, 1, heads)
           context == Layer(infos, "context", "MATMUL", q, HeadDim(infos), kv, heads)
           proj == Layer(infos, "proj", "FC", rows, infos.hdim, PerGpu(infos, tp), 1)
           comm == Layer(infos, "comm_g2g", "G2G", rows, infos.hdim, 1, 1)
           norm1 == Layer(infos, "norm1", "NORM", rows, infos.hdim, 1, 1)
           norm2 == Layer(infos, "norm2", "NORM", rows, infos.hdim, 1, 1)
<1>1. /\ heads \in Positive /\ 1 \in Positive /\ 3 * PerGpu(infos, tp) \in Positive
      /\ HeadDim(infos) \in Positive /\ infos.hdim \in Positive /\ PerGpu(infos, tp) \in Positive
  <2>1. 3 \in Positive /\ 1 \in Positive
    BY DEF Positive
  <2>. QED  BY <2>1, Widths, TimesType
<1>2. /\ qkv \in LayerRec /\ score \in LayerRec /\ softmax \in LayerRec /\ context \in LayerRec
      /\ proj \in LayerRec /\ comm \in LayerRec /\ norm1 \in LayerRec /\ norm2 \in LayerRec
  <2>1. /\ "FC" \in LayerTypes /\ "MATMUL" \in LayerTypes /\ "SOFTMAX" \in LayerTypes
        /\ "G2G" \in LayerTypes /\ "NORM" \in LayerTypes
        /\ "qkv" \in LayerNames /\ "score" \in LayerNames /\ "softmax" \in LayerNames
        /\ "context" \in LayerNames /\ "proj" \in LayerNames /\ "comm_g2g" \in LayerNames
        /\ "norm1" \in LayerNames /\ "norm2" \in LayerNames
    BY DEF LayerTypes, LayerNames
  <2> HIDE DEF heads
  <2>2. qkv \in LayerRec /\ proj \in LayerRec
    BY <1>1, <2>1, LayerType
  <2>3. score \in LayerRec /\ context \in LayerRec
    BY <1>1, <2>1, LayerType
  <2>4. softmax \in LayerRec
    BY <1>1, <2>1, LayerType
  <2>5. comm \in LayerRec
    BY <1>1, <2>1, LayerType
  <2>6. norm1 \in LayerRec /\ norm2 \in LayerRec
    BY <1>1, <2>1, LayerType
  <2>. QED  BY <2>2, <2>3, <2>4, <2>5, <2>6
<1>4. /\ Projection(infos, tp, rows) = <<qkv>> /\ Attention(infos, q, kv, heads) = <<score, softmax, context>>
      /\ Output(infos, tp, rows) = <<proj, comm, norm1>> /\ Closing(infos, rows) = <<comm, norm2>>
  BY DEF Projection, Attention, Output, Closing
<1> HIDE DEF qkv, score, softmax, context, proj, comm, norm1, norm2
<1>5. /\ <<qkv>> \in Seq(LayerRec) /\ <<score, softmax, context>> \in Seq(LayerRec)
      /\ <<proj, comm, norm1>> \in Seq(LayerRec) /\ <<comm, norm2>> \in Seq(LayerRec)
  BY <1>2
<1>. QED  BY <1>4, <1>5, FeedForwardType

(* Only the first has a layer qkv, and only the third a layer proj.         *)
LEMMA PartNames ==
  ASSUME NEW infos, NEW tp, NEW rows, NEW q, NEW kv, NEW heads
  PROVE  /\ OneNamed(Projection(infos, tp, rows), "qkv", "FC")
         /\ NoneNamed(Projection(infos, tp, rows), "proj")
         /\ NoneNamed(Attention(infos, q, kv, heads), "qkv")
         /\ NoneNamed(Attention(infos, q, kv, heads), "proj")
         /\ NoneNamed(Output(infos, tp, rows), "qkv")
         /\ OneNamed(Output(infos, tp, rows), "proj", "FC")
         /\ NoneNamed(FeedForward(infos, tp, rows), "qkv")
         /\ NoneNamed(FeedForward(infos, tp, rows), "proj")
         /\ NoneNamed(Closing(infos, rows), "qkv")
         /\ NoneNamed(Closing(infos, rows), "proj")
<1>1. /\ OneNamed(Projection(infos, tp, rows), "qkv", "FC")
      /\ NoneNamed(Projection(infos, tp, rows), "proj")
  BY DEF Projection, OneNamed, NoneNamed, Layer
<1>2. /\ NoneNamed(Attention(infos, q, kv, heads), "qkv")
      /\ NoneNamed(Attention(infos, q, kv, heads), "proj")
  BY DEF Attention, NoneNamed, Layer
<1>3. NoneNamed(Output(infos, tp, rows), "qkv")
  BY DEF Output, NoneNamed, Layer
<1>4. OneNamed(Output(infos, tp, rows), "proj", "FC")
  <2> DEFINE s == Output(infos, tp, rows)
  <2>1. /\ DOMAIN s = 1..3 /\ s[1].name = "proj" /\ s[1].type = "FC"
        /\ s[2].name # "proj" /\ s[3].name # "proj"
    BY DEF Output, Layer
  <2> HIDE DEF s
  <2>2. OneNamed(s, "proj", "FC")
    BY <2>1 DEF OneNamed
  <2>. QED  BY <2>2 DEF s
<1>5. /\ NoneNamed(Closing(infos, rows), "qkv")
      /\ NoneNamed(Closing(infos, rows), "proj")
  BY DEF Closing, NoneNamed, Layer
<1>6. /\ NoneNamed(FeedForward(infos, tp, rows), "qkv")
      /\ NoneNamed(FeedForward(infos, tp, rows), "proj")
  BY DEF FeedForward, NoneNamed, Layer
<1>. QED  BY <1>1, <1>2, <1>3, <1>4, <1>5, <1>6

(* A decoder has one layer qkv and one layer proj.                           *)
LEMMA DecoderNames ==
  ASSUME NEW infos \in Models, NEW tp \in Shares(infos), NEW batch \in Positive, NEW rows \in Positive,
         NEW q \in Positive, NEW kv \in Positive,
         NEW before \in Seq(LayerRec), NEW after \in Seq(LayerRec),
         NoneNamed(before, "qkv"), NoneNamed(before, "proj"),
         NoneNamed(after, "qkv"), NoneNamed(after, "proj")
  PROVE  /\ OneNamed(Decoder(infos, tp, batch, rows, q, kv, before, after), "qkv", "FC")
         /\ OneNamed(Decoder(infos, tp, batch, rows, q, kv, before, after), "proj", "FC")
<1> DEFINE a == Projection(infos, tp, rows)
           b == Attention(infos, q, kv, HeadsPerGpu(infos, tp) * batch)
           c == Output(infos, tp, rows)
           d == FeedForward(infos, tp, rows)
           e == Closing(infos, rows)
<1>1. /\ Decoder(infos, tp, batch, rows, q, kv, before, after)
           = a \o before \o b \o after \o c \o d \o e
      /\ a \in Seq(LayerRec) /\ b \in Seq(LayerRec) /\ c \in Seq(LayerRec) /\ d \in Seq(LayerRec)
      /\ e \in Seq(LayerRec)
  <2>1. Decoder(infos, tp, batch, rows, q, kv, before, after)
             = Projection(infos, tp, rows) \o before
                \o Attention(infos, q, kv, HeadsPerGpu(infos, tp) * batch) \o after
                \o Output(infos, tp, rows) \o FeedForward(infos, tp, rows) \o Closing(infos, rows)
    BY DEF Decoder, Projection, Attention, Output, Closing
  <2>2. /\ Projection(infos, tp, rows) \in Seq(LayerRec)
        /\ Attention(infos, q, kv, HeadsPerGpu(infos, tp) * batch) \in Seq(LayerRec)
        /\ Output(infos, tp, rows) \in Seq(LayerRec)
        /\ FeedForward(infos, tp, rows) \in Seq(LayerRec)
        /\ Closing(infos, rows) \in Seq(LayerRec)
    BY DecoderParts, Zenon
  <2>. QED  BY <2>1, <2>2, Zenon
<1>2. /\ OneNamed(a, "qkv", "FC") /\ NoneNamed(a, "proj")
      /\ NoneNamed(b, "qkv") /\ NoneNamed(b, "proj")
      /\ NoneNamed(c, "qkv") /\ OneNamed(c, "proj", "FC")
      /\ NoneNamed(d, "qkv") /\ NoneNamed(d, "proj")
      /\ NoneNamed(e, "qkv") /\ NoneNamed(e, "proj")
  BY PartNames
<1> HIDE DEF a, b, c, d, e
<1> DEFINE s1 == a \o before
           s2 == s1 \o b
           s3 == s2 \o after
           s4 == s3 \o c
           s5 == s4 \o d
           s6 == s5 \o e
<1>3. s1 \in Seq(LayerRec) /\ OneNamed(s1, "qkv", "FC") /\ NoneNamed(s1, "proj")
  BY <1>1, <1>2, JoinNames
<1> HIDE DEF s1
<1>4. s2 \in Seq(LayerRec) /\ OneNamed(s2, "qkv", "FC") /\ NoneNamed(s2, "proj")
  BY <1>1, <1>2, <1>3, JoinNames
<1> HIDE DEF s2
<1>5. s3 \in Seq(LayerRec) /\ OneNamed(s3, "qkv", "FC") /\ NoneNamed(s3, "proj")
  BY <1>4, JoinNames
<1> HIDE DEF s3
<1>6. s4 \in Seq(LayerRec) /\ OneNamed(s4, "qkv", "FC") /\ OneNamed(s4, "proj", "FC")
  BY <1>1, <1>2, <1>5, JoinNames
<1> HIDE DEF s4
<1>7. s5 \in Seq(LayerRec) /\ OneNamed(s5, "qkv", "FC") /\ OneNamed(s5, "proj", "FC")
  BY <1>1, <1>2, <1>6, JoinNames
<1> HIDE DEF s5
<1>8. s6 \in Seq(LayerRec) /\ OneNamed(s6, "qkv", "FC") /\ OneNamed(s6, "proj", "FC")
  BY <1>1, <1>2, <1>7, JoinNames
<1>. QED  BY <1>1, <1>8 DEF s1, s2, s3, s4, s5

(* So have the decoders of the generated tokens.                             *)
LEMMA GenDecoderNames ==
  ASSUME NEW infos \in Models, NEW tp \in Shares(infos), NEW c \in Calls, NEW hetero0 \in BOOLEAN,
         NEW stage \in Nat
  PROVE  LET d == GenDecoder(infos, tp, c.batch, c.lin, stage, hetero0)
         IN OneNamed(d, "qkv", "FC") /\ OneNamed(d, "proj", "FC")
<1>1. /\ c.batch \in Positive /\ c.lin \in Positive /\ 1 \in Positive
  BY SimulationAssumption DEF Positive
<1> DEFINE x == X2G(infos, c.batch, 3 * PerGpu(infos, tp), 1)
           y == X2G(infos, 1, HeadDim(infos), HeadsPerGpu(infos, tp) * c.batch)
           before == IF hetero0 THEN <<x>> ELSE <<>>
           after == IF hetero0 THEN <<y>> ELSE <<>>
           kv == c.lin + stage
           one == 1
<1>2. x \in LayerRec /\ y \in LayerRec
  <2>1. ASSUME NEW m \in Positive, NEW n \in Positive, NEW k \in Positive
        PROVE X2G(infos, m, n, k) \in LayerRec
    <3>1. "X2G" \in LayerTypes /\ "comm_x2g" \in LayerNames
      BY DEF LayerTypes, LayerNames
    <3>. QED  BY <1>1, <3>1, LayerType DEF X2G
  <2>2. /\ 3 * PerGpu(infos, tp) \in Positive
        /\ HeadDim(infos) \in Positive /\ HeadsPerGpu(infos, tp) * c.batch \in Positive
    <3>1. 3 \in Positive
      BY DEF Positive
    <3>. QED  BY <1>1, <3>1, Widths, TimesType
  <2>. QED  BY <1>1, <2>1, <2>2
<1>3. x.name = "comm_x2g" /\ y.name = "comm_x2g"
  BY FieldsOfLayer DEF X2G
<1>4. before \in Seq(LayerRec) /\ after \in Seq(LayerRec)
  <2> HIDE DEF x, y
  <2>. QED  BY <1>2
<1>5. /\ NoneNamed(before, "qkv") /\ NoneNamed(before, "proj")
      /\ NoneNamed(after, "qkv") /\ NoneNamed(after, "proj")
  <2> HIDE DEF x, y
  <2>. QED  BY <1>3 DEF NoneNamed
<1>6. kv \in Positive /\ one \in Positive
  BY <1>1 DEF Positive
<1>7. GenDecoder(infos, tp, c.batch, c.lin, stage, hetero0)
        = Decoder(infos, tp, c.batch, c.batch, one, kv, before, after)
  BY DEF GenDecoder
<1> HIDE DEF before, after, kv, one
<1>. QED  BY <1>1, <1>4, <1>5, <1>6, <1>7, DecoderNames

---------------------------------------------------------------------------
(* Decoders that are shortened.                                              *)

(* Sums of natural numbers, and of one number among zeros.                   *)
LEMMA SumIsNat ==
  ASSUME NEW T, IsFiniteSet(T), NEW f \in [T -> Nat]
  PROVE  SumFunction(f) \in Nat
<1>1. f \in [T -> Int]
  OBVIOUS
<1>2. PICK F : SumsOf(F, f, T) /\ SumFunction(f) = F[T]
  BY <1>1, SumIsSums
<1> DEFINE A == {s \in SUBSET T : F[s] \in Nat}
<1>3. ASSUME NEW s \in SUBSET T, \A x \in s : \A t \in SUBSET (s \ {x}) : t \in A PROVE s \in A
  <2>1. CASE s = {}
    <3>1. F[s] = 0
      BY <2>1, <1>2 DEF SumsOf, TakesOne
    <3>. QED  BY <3>1
  <2>2. CASE s # {}
    <3>1. PICK p \in s : p = Some(s)
      BY <2>2, SomeIn
    <3> DEFINE r == s \ {p}
    <3>2. F[r] \in Nat
      BY <1>3
    <3>3. F[s] = f[p] + F[r]
      BY <1>2, <2>2, <3>1 DEF SumsOf, TakesOne
    <3>4. f[p] \in Nat
      OBVIOUS
    <3> HIDE DEF r
    <3>. QED  BY <3>2, <3>3, <3>4
  <2>. QED  BY <2>1, <2>2
<1>4. SUBSET T \subseteq A
  <2> HIDE DEF A
  <2>1. Hereditary(A, T)
    BY <1>3 DEF Hereditary
  <2>. QED  BY <2>1, SubsetInduction
<1>. QED  BY <1>2, <1>4

(* One number among zeros is their sum.                                     *)
LEMMA SumOfOnly ==
  ASSUME NEW T, IsFiniteSet(T), NEW f \in [T -> Int], NEW x \in T,
         \A y \in T \ {x} : f[y] = 0
  PROVE  SumFunction(f) = f[x]
<1> DEFINE R == T \ {x}
           g == [y \in R |-> f[y]]
<1>1. SumFunction(f) = f[x] + SumFunction(g)
  BY SumWithout
<1>2. IsFiniteSet(R)
  BY FS_Subset
<1>3. g \in [R -> Int] /\ \A y \in R : g[y] = g[y] + g[y]
  OBVIOUS
<1>4. SumFunction(g) \in Int
  <2> HIDE DEF g, R
  <2>. QED  BY <1>2, <1>3, SumIsInt
<1>5. SumFunction(g) = SumFunction(g) + SumFunction(g)
  <2> HIDE DEF g, R
  <2>1. /\ IsFiniteSet(R) /\ g \in [R -> Int]
        /\ \A y \in R : g[y] = g[y] + g[y]
    BY <1>2, <1>3
  <2>. QED  BY <2>1, SumOfSums
<1> HIDE DEF g
<1>6. f[x] \in Int
  OBVIOUS
<1> DEFINE rest == SumFunction(g)
<1>7. rest \in Int /\ rest = rest + rest /\ SumFunction(f) = f[x] + rest
  BY <1>1, <1>4, <1>5
<1> HIDE DEF rest
<1>8. rest = 0
  BY <1>7
<1>. QED  BY <1>6, <1>7, <1>8

(* The time of the layers of some names, when none of theirs is negative.   *)
LEMMA TimeOfNat ==
  ASSUME NEW block \in Seq(LayerRec), NEW names, \A i \in DOMAIN block : block[i].time \in Nat
  PROVE  TimeOf(block, names) \in Nat
<1> DEFINE g == [i \in DOMAIN block |-> IF block[i].name \in names THEN block[i].time ELSE 0]
<1>1. g \in [DOMAIN block -> Nat]
  OBVIOUS
<1>2. IsFiniteSet(DOMAIN block)
  BY PartTypes
<1>3. SumFunction(g) \in Nat
  <2> HIDE DEF g
  <2>. QED  BY <1>1, <1>2, SumIsNat
<1>. QED  BY <1>3 DEF TimeOf, SumOver

(* The time of the only layer of a name.                                    *)
LEMMA TimeOfOne ==
  ASSUME NEW block \in Seq(LayerRec), NEW name, NEW x \in DOMAIN block, block[x].name = name,
         \A j \in DOMAIN block : block[j].name = name => j = x
  PROVE  TimeOf(block, {name}) = block[x].time
<1> DEFINE g == [i \in DOMAIN block |-> IF block[i].name \in {name} THEN block[i].time ELSE 0]
<1>1. \A i \in DOMAIN block : block[i].time \in Int
  BY LayerSizes, LenProperties, ElementOfSeq
<1>2. g \in [DOMAIN block -> Int] /\ g[x] = block[x].time
  BY <1>1
<1>3. \A y \in DOMAIN block \ {x} : g[y] = 0
  OBVIOUS
<1>4. IsFiniteSet(DOMAIN block)
  BY PartTypes
<1>5. SumFunction(g) = g[x]
  <2> HIDE DEF g
  <2>. QED  BY <1>2, <1>3, <1>4, SumOfOnly
<1>. QED  BY <1>2, <1>5 DEF TimeOf, SumOver

(* The only layer of a name is the one that is looked up.                   *)
LEMMA NamedLayer ==
  ASSUME NEW block, NEW name, NEW type, OneNamed(block, name, type)
  PROVE  \E i \in DOMAIN block :
           /\ LayerNamed(block, name) = block[i]
           /\ block[i].name = name /\ block[i].type = type
           /\ \A j \in DOMAIN block : block[j].name = name => j = i
<1>1. PICK i \in DOMAIN block : /\ block[i].name = name /\ block[i].type = type
                                /\ \A j \in DOMAIN block : block[j].name = name => j = i
  BY DEF OneNamed
<1>2. (CHOOSE k \in DOMAIN block : block[k].name = name) = i
  BY <1>1
<1>. QED  BY <1>1, <1>2 DEF LayerNamed

---------------------------------------------------------------------------
(* The device for a layer, and what is known of a layer that was timed by it.   *)
Device(own, other, l) == IF OnAcc(l) THEN other ELSE own
OnTime(own, other, l) ==
  LET d == Device(own, other, l)
  IN Known(d, l) /\ l.time \in Nat /\ (l.time = TimeOn(d, l) \/ Odd(d, l))

(* A decoder after its stage.                                               *)
Shortened(own, other, block) ==
  LET qkv == TimeOn(own, LayerNamed(block, "qkv"))
      prj == TimeOn(own, LayerNamed(block, "proj"))
  IN \A i \in DOMAIN block :
       LET l == block[i]
           d == Device(own, other, l)
       IN /\ Known(d, l)
          /\ l.time <= TimeOn(d, l) \/ l.name = "comm_x2g" \/ Odd(d, l)
          /\ \/ l.time >= 0
             \/ l.name = "proj" /\ qkv > 3 * prj
             \/ l.name = "qkv" /\ qkv < 3 * prj

(* Projections are named as the decoder has them.                            *)
Projected(block) == OneNamed(block, "qkv", "FC") /\ OneNamed(block, "proj", "FC")

(* A device that knows at least as much.                                     *)
Grown(d, e) ==
  \A l : Known(d, l) =>
    /\ Known(e, l) /\ (Odd(e, l) <=> Odd(d, l))
    /\ OnAcc(l) \/ d.config.kind # "PIM" => Odd(d, l) \/ TimeOn(e, l) = TimeOn(d, l)

(* A device that is consulted knows as much, and maybe more.                *)
LEMMA ConsultedGrows ==
  ASSUME NEW d, XpuOK(d) \/ PimOK(d), NEW l
  PROVE  Grown(d, d) /\ Grown(d, AfterCost(d, l))
BY TimeKept DEF Grown

(* So a layer that has the time of its device goes on having it ...         *)
LEMMA OnTimeKept ==
  ASSUME NEW own, NEW other, NEW own2, NEW other2, Grown(own, own2), Grown(other, other2),
         own.config.kind # "PIM", NEW l, OnTime(own, other, l)
  PROVE  OnTime(own2, other2, l)
BY DEF OnTime, Grown, Device

(* ... and a decoder that is shortened goes on being so.                    *)
LEMMA ShortenedKept ==
  ASSUME NEW own, NEW other, NEW own2, NEW other2, Grown(own, own2), Grown(other, other2),
         own.config.kind # "PIM", NEW block, Projected(block), Shortened(own, other, block)
  PROVE  Shortened(own2, other2, block)
<1>1. PICK q \in DOMAIN block : LayerNamed(block, "qkv") = block[q] /\ block[q].type = "FC"
  BY NamedLayer DEF Projected
<1>2. PICK p \in DOMAIN block : LayerNamed(block, "proj") = block[p] /\ block[p].type = "FC"
  BY NamedLayer DEF Projected
<1>3. \A i \in DOMAIN block : Known(Device(own, other, block[i]), block[i])
  BY DEF Shortened
<1>4. Device(own, other, block[q]) = own /\ Device(own, other, block[p]) = own
  BY <1>1, <1>2 DEF Device, OnAcc
<1>5. /\ TimeOn(own2, LayerNamed(block, "qkv")) = TimeOn(own, LayerNamed(block, "qkv"))
      /\ TimeOn(own2, LayerNamed(block, "proj")) = TimeOn(own, LayerNamed(block, "proj"))
  BY <1>1, <1>2, <1>3, <1>4 DEF Grown, Odd
<1>6. ASSUME NEW i \in DOMAIN block
      PROVE  /\ Known(Device(own2, other2, block[i]), block[i])
             /\ Odd(Device(own2, other2, block[i]), block[i])
                  <=> Odd(Device(own, other, block[i]), block[i])
             /\ \/ Odd(Device(own, other, block[i]), block[i])
                \/ TimeOn(Device(own2, other2, block[i]), block[i])
                     = TimeOn(Device(own, other, block[i]), block[i])
  BY <1>3 DEF Device, Grown
<1>. QED  BY <1>5, <1>6 DEF Shortened

(* Before the pipeline: the layers have the times of their devices.           *)
DevicesReady(own, other) == XpuOK(own) /\ (XpuOK(other) \/ PimOK(other))

(* These times are natural numbers.                                         *)
LEMMA OnTimeNat ==
  ASSUME NEW own, NEW other, NEW l, OnTime(own, other, l)
  PROVE  l.time \in Nat
BY DEF OnTime

(* A decoder that is not pipelined is as it should be, too.                 *)
LEMMA UnpipedShort ==
  ASSUME SimulatorAnswers, NEW own, NEW other, DevicesReady(own, other),
         NEW block \in Seq(LayerRec), \A i \in DOMAIN block : OnTime(own, other, block[i])
  PROVE  Shortened(own, other, block)
<1>1. \A i \in DOMAIN block : block[i] \in LayerRec
  BY LenProperties, ElementOfSeq
<1>2. \A i \in DOMAIN block : block[i].time \in Nat
  BY <1>1, OnTimeNat
<1>3. \A i \in DOMAIN block : /\ Known(Device(own, other, block[i]), block[i])
                              /\ \/ block[i].time = TimeOn(Device(own, other, block[i]), block[i])
                                 \/ Odd(Device(own, other, block[i]), block[i])
  BY DEF OnTime
<1>4. \A i \in DOMAIN block : block[i].time >= 0 /\ block[i].time <= block[i].time
  BY <1>2
<1>. QED  BY <1>3, <1>4 DEF Shortened

(* The pipeline shortens a decoder whose layers have the times of their devices. *)
LEMMA PipelinedShort ==
  ASSUME SimulatorAnswers, HeadsOfGpus, NEW own, NEW other, DevicesReady(own, other),
         NEW block \in Seq(LayerRec), NEW level \in BOOLEAN, Projected(block),
         \A i \in DOMAIN block : OnTime(own, other, block[i])
  PROVE  Shortened(own, other, PipelinedBlock(block, level))
<1> DEFINE t0 == PipelineTimes(block)
           t == Pipelined(t0, level)
           new(l) == CASE l.name = "qkv" -> t.qkv
                       [] l.name = "proj" -> t.prj
                       [] l.name = "comm_x2g" -> t.x2g \div 2
                       [] l.name = "softmax" -> 0
                       [] OTHER -> l.time
           g == [i \in DOMAIN block |-> [block[i] EXCEPT !.time = new(block[i])]]
           cost(i) == TimeOn(Device(own, other, block[i]), block[i])
<1>1. \A i \in DOMAIN block : block[i] \in LayerRec
  BY LenProperties, ElementOfSeq
<1>2. \A i \in DOMAIN block : block[i].time \in Nat
  BY <1>1, OnTimeNat
<1>3. PICK q \in DOMAIN block : /\ LayerNamed(block, "qkv") = block[q]
                                /\ block[q].name = "qkv" /\ block[q].type = "FC"
                                /\ \A j \in DOMAIN block : block[j].name = "qkv" => j = q
  BY NamedLayer DEF Projected
<1>4. PICK p \in DOMAIN block : /\ LayerNamed(block, "proj") = block[p]
                                /\ block[p].name = "proj" /\ block[p].type = "FC"
                                /\ \A j \in DOMAIN block : block[j].name = "proj" => j = p
  BY NamedLayer DEF Projected
<1>5. /\ t0 \in Times /\ t0.qkv = block[q].time /\ t0.prj = block[p].time
  <2>1. t0.qkv = TimeOf(block, {"qkv"}) /\ t0.prj = TimeOf(block, {"proj"})
    BY DEF PipelineTimes
  <2>2. t0 \in Times
    BY <1>2, TimeOfNat DEF PipelineTimes, Times
  <2>3. TimeOf(block, {"qkv"}) = block[q].time
    BY <1>3, TimeOfOne
  <2>4. TimeOf(block, {"proj"}) = block[p].time
    BY <1>4, TimeOfOne
  <2>. QED  BY <2>1, <2>2, <2>3, <2>4
<1> HIDE DEF t0
<1>6. /\ t.qkv <= t0.qkv /\ t.prj <= t0.prj /\ t.x2g \in 0..t0.x2g
      /\ t.qkv < 0 => t0.qkv < 3 * t0.prj
      /\ t.prj < 0 => t0.qkv > 3 * t0.prj
  BY <1>5, PipelineShortensTimes
<1>7. t.qkv \in Int /\ t.prj \in Int /\ t.x2g \in Nat /\ t.x2g \div 2 \in Nat
  <2>1. t0 \in FourTimes /\ HeadsOK
    BY <1>5 DEF FourTimes, Times, HeadsOK, HeadsOfGpus
  <2>2. t \in FourTimes
    BY <2>1, PipelinedType
  <2>3. t.x2g \in Nat
    BY <1>5, <1>6 DEF Times
  <2>4. \A x \in Nat : x \div 2 \in Nat
    OBVIOUS
  <2>. QED  BY <2>2, <2>3, <2>4 DEF FourTimes
<1> HIDE DEF t
<1>8. PipelinedBlock(block, level) = g
  BY DEF PipelinedBlock, t, t0
<1>9. \A l \in LayerRec : new(l) \in Int
  BY <1>7, LayerSizes
<1>10. ASSUME NEW i \in DOMAIN block
       PROVE  /\ g[i].time = new(block[i])
              /\ Bare(g[i]) = Bare(block[i])
              /\ g[i].name = block[i].name /\ g[i].type = block[i].type
  <2> DEFINE l == block[i]
             n == new(l)
             m == [l EXCEPT !.time = n]
  <2>1. l \in LayerRec
    BY <1>1
  <2>2. g[i] = m
    OBVIOUS
  <2> HIDE DEF n, l, g
  <2>3. m.time = n /\ Bare(m) = Bare(l) /\ m.name = l.name /\ m.type = l.type
    BY <2>1 DEF LayerRec, Bare
  <2>. QED  BY <2>2, <2>3 DEF n, l
<1>11. DOMAIN g = DOMAIN block
  OBVIOUS
<1> HIDE DEF g
<1>12. \A i \in DOMAIN block :
         /\ cost(i) = block[i].time \/ Odd(Device(own, other, g[i]), g[i])
         /\ TimeOn(Device(own, other, g[i]), g[i]) = cost(i)
         /\ Known(Device(own, other, g[i]), g[i])
  <2>1. ASSUME NEW i \in DOMAIN block
        PROVE  /\ TimeOn(Device(own, other, g[i]), g[i]) = cost(i)
               /\ Known(Device(own, other, g[i]), g[i])
               /\ Odd(Device(own, other, g[i]), g[i])
                    <=> Odd(Device(own, other, block[i]), block[i])
    <3>1. /\ OnAcc(g[i]) = OnAcc(block[i])
          /\ Device(own, other, g[i]) = Device(own, other, block[i])
      BY <1>10 DEF OnAcc, Device
    <3>2. OnAcc(g[i]) \/ Device(own, other, g[i]).config.kind # "PIM"
      BY XpuIsNoPim DEF Device, DevicesReady
    <3>3. Known(Device(own, other, block[i]), block[i])
      BY DEF OnTime
    <3>. QED  BY <1>10, <3>1, <3>2, <3>3, TimeOfBare
  <2>. QED  BY <2>1 DEF OnTime
<1>13. /\ LayerNamed(g, "qkv") = g[q] /\ LayerNamed(g, "proj") = g[p]
  <2>1. (CHOOSE k \in DOMAIN g : g[k].name = "qkv") = q
    BY <1>3, <1>10, <1>11
  <2>2. (CHOOSE k \in DOMAIN g : g[k].name = "proj") = p
    BY <1>4, <1>10, <1>11
  <2>. QED  BY <2>1, <2>2 DEF LayerNamed
<1>14. /\ TimeOn(own, LayerNamed(g, "qkv")) = t0.qkv
       /\ TimeOn(own, LayerNamed(g, "proj")) = t0.prj
  <2>1. Device(own, other, g[q]) = own /\ Device(own, other, g[p]) = own
    BY <1>3, <1>4, <1>10 DEF Device, OnAcc
  <2>2. ~Odd(own, g[q]) /\ ~Odd(own, g[p])
    BY <1>3, <1>4, <1>10 DEF Odd, IsScore
  <2>. QED  BY <1>3, <1>4, <1>5, <1>12, <1>13, <2>1, <2>2
<1>15. ASSUME NEW i \in DOMAIN g
       PROVE  /\ Known(Device(own, other, g[i]), g[i])
              /\ \/ g[i].time <= TimeOn(Device(own, other, g[i]), g[i])
                 \/ g[i].name = "comm_x2g" \/ Odd(Device(own, other, g[i]), g[i])
              /\ \/ g[i].time >= 0
                 \/ g[i].name = "proj" /\ t0.qkv > 3 * t0.prj
                 \/ g[i].name = "qkv" /\ t0.qkv < 3 * t0.prj
  <2>1. /\ i \in DOMAIN block /\ g[i].time = new(block[i]) /\ g[i].name = block[i].name
        /\ Known(Device(own, other, g[i]), g[i])
        /\ \/ TimeOn(Device(own, other, g[i]), g[i]) = block[i].time
           \/ Odd(Device(own, other, g[i]), g[i])
        /\ block[i].time \in Nat
    BY <1>2, <1>10, <1>11, <1>12
  <2>2. CASE block[i].name = "qkv"
    <3>1. g[i].time = t.qkv /\ block[i].time = t0.qkv
      BY <1>3, <1>5, <2>1, <2>2
    <3>. QED  BY <1>6, <1>7, <2>1, <2>2, <3>1
  <2>3. CASE block[i].name = "proj"
    <3>1. g[i].time = t.prj /\ block[i].time = t0.prj
      BY <1>4, <1>5, <2>1, <2>3
    <3>. QED  BY <1>6, <1>7, <2>1, <2>3, <3>1
  <2>4. CASE block[i].name = "comm_x2g"
    <3>1. g[i].time = t.x2g \div 2
      BY <2>1, <2>4
    <3>. QED  BY <1>7, <2>1, <2>4, <3>1
  <2>5. CASE block[i].name \notin {"qkv", "proj", "comm_x2g"}
    <3>1. g[i].time \in {0, block[i].time}
      BY <2>1, <2>5
    <3>. QED  BY <2>1, <3>1
  <2>. QED  BY <2>2, <2>3, <2>4, <2>5
<1>. QED  BY <1>8, <1>14, <1>15 DEF Shortened

(* A share of a time is not longer.                                         *)
LEMMA SharedTime ==
  ASSUME NEW x \in Nat, NEW a \in Positive, NEW b \in Positive
  PROVE  Quantum * CeilDiv((x \div Quantum) * a, a + b) \in 0..x
<1>1. Quantum \in Nat \ {0}
  BY DeviceAssumption
<1> DEFINE y == x \div Quantum
           c == a + b
           e == (y * a + c - 1) \div c
<1>2. y \in Nat /\ Quantum * y <= x
  BY <1>1
<1>3. c \in Nat \ {0} /\ a <= c
  BY DEF Positive
<1> HIDE DEF y, c
<1>4. y * a \in Nat /\ y * c \in Nat /\ y * a <= y * c
  BY <1>2, <1>3 DEF Positive
<1>5. e \in Nat /\ c * e <= y * a + c - 1
  <2> DEFINE n == y * a + c - 1
  <2>1. n \in Nat
    BY <1>3, <1>4
  <2> HIDE DEF n
  <2>2. n \div c \in Nat /\ c * (n \div c) <= n
    BY <1>3, <2>1
  <2>. QED  BY <2>2 DEF n
<1> HIDE DEF e
<1>6. e <= y
  <2> SUFFICES ASSUME y + 1 <= e PROVE FALSE
    BY <1>2, <1>5
  <2>1. c * (y + 1) <= c * e
    BY <1>2, <1>3, <1>5
  <2>2. c * (y + 1) = y * c + c
    BY <1>2, <1>3
  <2>3. c * e \in Nat
    BY <1>3, <1>5
  <2>. QED  BY <1>3, <1>4, <1>5, <2>1, <2>2, <2>3
<1>7. Quantum * e \in Nat /\ Quantum * e <= Quantum * y /\ Quantum * y \in Nat
  BY <1>1, <1>2, <1>5, <1>6
<1>8. CeilDiv(y * a, c) = e
  BY DEF CeilDiv, e
<1>. QED  BY <1>2, <1>7, <1>8 DEF y, c

(* ... and sharing out shortens it further.                                  *)
LEMMA ParallelShort ==
  ASSUME SimulatorAnswers, XpuOK(gpu), Acc.config.bw \in Positive, NEW own, NEW other, DevicesReady(own, other),
         NEW block \in Seq(LayerRec), NEW bs \in Positive, Projected(block),
         Shortened(own, other, block)
  PROVE  Shortened(own, other, ParallelBlock(block, bs))
<1> DEFINE new(l) == Parallel(gpu, Acc, l, bs)
           g == [i \in DOMAIN block |-> IF IsFF(block[i]) THEN [block[i] EXCEPT !.time = new(block[i])]
                                        ELSE block[i]]
           qkv == TimeOn(own, LayerNamed(block, "qkv"))
           prj == TimeOn(own, LayerNamed(block, "proj"))
<1>1. \A i \in DOMAIN block : block[i] \in LayerRec
  BY LenProperties, ElementOfSeq
<1>2. PICK q \in DOMAIN block : /\ LayerNamed(block, "qkv") = block[q]
                                /\ block[q].name = "qkv" /\ block[q].type = "FC"
                                /\ \A j \in DOMAIN block : block[j].name = "qkv" => j = q
  BY NamedLayer DEF Projected
<1>3. PICK p \in DOMAIN block : /\ LayerNamed(block, "proj") = block[p]
                                /\ block[p].name = "proj" /\ block[p].type = "FC"
                                /\ \A j \in DOMAIN block : block[j].name = "proj" => j = p
  BY NamedLayer DEF Projected
<1>4. ASSUME NEW l \in LayerRec, l.time \in Nat PROVE new(l) \in 0..l.time
  <2>1. gpu.config.flops \in Positive /\ gpu.config.bw \in Positive /\ l.dbyte \in Positive
    BY ConfigTypes, LayerSizes DEF XpuOK
  <2>2. /\ gpu.config.flops * l.dbyte \in Positive /\ 2 * Acc.config.bw \in Positive
        /\ gpu.config.bw * bs \in Positive
    <3>1. 2 \in Positive
      BY DEF Positive
    <3>. QED  BY <2>1, <3>1, TimesType
  <2>3. ASSUME NEW a \in Positive, NEW b \in Positive
        PROVE  Quantum * CeilDiv((l.time \div Quantum) * a, a + b) \in 0..l.time
    BY <1>4, SharedTime
  <2>. QED  BY <2>2, <2>3 DEF Parallel
<1>5. ParallelBlock(block, bs) = g
  BY DEF ParallelBlock
<1> HIDE DEF new
<1>6. ASSUME NEW i \in DOMAIN block
      PROVE  /\ Bare(g[i]) = Bare(block[i]) /\ g[i].name = block[i].name /\ g[i].type = block[i].type
             /\ IF IsFF(block[i]) THEN g[i].time = new(block[i]) ELSE g[i] = block[i]
  <2>1. CASE ~IsFF(block[i])
    BY <2>1
  <2>2. CASE IsFF(block[i])
    <3> DEFINE l == block[i]
               n == new(l)
               m == [l EXCEPT !.time = n]
    <3>1. l \in LayerRec
      BY <1>1
    <3>2. g[i] = m
      BY <2>2
    <3> HIDE DEF n, l, g
    <3>3. m.time = n /\ Bare(m) = Bare(l) /\ m.name = l.name /\ m.type = l.type
      BY <3>1 DEF LayerRec, Bare
    <3>. QED  BY <2>2, <3>2, <3>3 DEF n, l
  <2>. QED  BY <2>1, <2>2
<1>7. DOMAIN g = DOMAIN block
  OBVIOUS
<1> HIDE DEF g
<1>8. \A i \in DOMAIN block : /\ Known(Device(own, other, block[i]), block[i])
                              /\ \/ block[i].time <= TimeOn(Device(own, other, block[i]), block[i])
                                 \/ block[i].name = "comm_x2g"
                                 \/ Odd(Device(own, other, block[i]), block[i])
                              /\ \/ block[i].time >= 0
                                 \/ block[i].name = "proj" /\ qkv > 3 * prj
                                 \/ block[i].name = "qkv" /\ qkv < 3 * prj
  BY DEF Shortened
<1>9. \A i \in DOMAIN block :
        /\ TimeOn(Device(own, other, g[i]), g[i]) = TimeOn(Device(own, other, block[i]), block[i])
        /\ Known(Device(own, other, g[i]), g[i])
        /\ Odd(Device(own, other, g[i]), g[i]) <=> Odd(Device(own, other, block[i]), block[i])
  <2>1. ASSUME NEW i \in DOMAIN block
        PROVE  /\ TimeOn(Device(own, other, g[i]), g[i])
                    = TimeOn(Device(own, other, block[i]), block[i])
               /\ Known(Device(own, other, g[i]), g[i])
               /\ Odd(Device(own, other, g[i]), g[i]) <=> Odd(Device(own, other, block[i]), block[i])
    <3>1. /\ OnAcc(g[i]) = OnAcc(block[i])
          /\ Device(own, other, g[i]) = Device(own, other, block[i])
      BY <1>6 DEF OnAcc, Device
    <3>2. OnAcc(g[i]) \/ Device(own, other, g[i]).config.kind # "PIM"
      BY XpuIsNoPim DEF Device, DevicesReady
    <3>3. Known(Device(own, other, block[i]), block[i])
      BY <1>8
    <3>4. Bare(g[i]) = Bare(block[i])
      BY <1>6
    <3>. QED  BY <3>1, <3>2, <3>3, <3>4, TimeOfBare
  <2>. QED  BY <2>1
<1>10. LayerNamed(g, "qkv") = block[q] /\ LayerNamed(g, "proj") = block[p]
  <2>1. (CHOOSE k \in DOMAIN g : g[k].name = "qkv") = q
    BY <1>2, <1>6, <1>7
  <2>2. (CHOOSE k \in DOMAIN g : g[k].name = "proj") = p
    BY <1>3, <1>6, <1>7
  <2>3. g[q] = block[q] /\ g[p] = block[p]
    BY <1>2, <1>3, <1>6 DEF IsFF
  <2>. QED  BY <2>1, <2>2, <2>3 DEF LayerNamed
<1>11. TimeOn(own, LayerNamed(g, "qkv")) = qkv /\ TimeOn(own, LayerNamed(g, "proj")) = prj
  BY <1>2, <1>3, <1>10
<1> HIDE DEF qkv, prj
<1>12. ASSUME NEW i \in DOMAIN g
       PROVE  /\ \/ g[i].time <= TimeOn(Device(own, other, g[i]), g[i])
                 \/ g[i].name = "comm_x2g" \/ Odd(Device(own, other, g[i]), g[i])
              /\ \/ g[i].time >= 0
                 \/ g[i].name = "proj" /\ qkv > 3 * prj
                 \/ g[i].name = "qkv" /\ qkv < 3 * prj
  <2>1. CASE ~IsFF(block[i])
    BY <1>6, <1>7, <1>8, <1>9, <2>1
  <2>2. CASE IsFF(block[i])
    <3>1. /\ block[i].name \notin {"qkv", "proj", "comm_x2g"} /\ i \in DOMAIN block
          /\ ~Odd(Device(own, other, block[i]), block[i])
      BY <1>7, <2>2 DEF IsFF, Odd, IsScore
    <3>2. block[i].time >= 0 /\ block[i].time \in Int
      BY <1>1, <1>8, <3>1, LayerSizes
    <3>3. block[i].time \in Nat
      BY <3>2
    <3>4. g[i].time \in 0..block[i].time
      BY <1>1, <1>4, <1>6, <2>2, <3>1, <3>3
    <3>5. block[i].time <= TimeOn(Device(own, other, g[i]), g[i])
      BY <1>8, <1>9, <3>1
    <3>6. TimeOn(Device(own, other, block[i]), block[i]) \in Nat
      BY <1>1, <1>8, <3>1, KnownTime DEF Device, DevicesReady
    <3>7. TimeOn(Device(own, other, g[i]), g[i]) \in Nat
      BY <1>9, <3>1, <3>6
    <3>. QED  BY <3>3, <3>4, <3>5, <3>7
  <2>. QED  BY <2>1, <2>2
<1>. QED  BY <1>5, <1>7, <1>9, <1>11, <1>12 DEF Shortened

---------------------------------------------------------------------------
(* The invariant of the times of the generation: every decoder has its two     *)
(* projections, those of the stages that have ended are shortened, and of the   *)
(* stage that is being timed the layers before work.at have their times.       *)
ProjectedInv == Calling => \A s \in 1..Len(work.gen) : Projected(work.gen[s])
StagesEnded ==
  pc \in {"gen", "report"} => \A s \in 1..(work.stage - 1) : Shortened(gpu, Acc, work.gen[s])
StageBegun ==
  pc = "gen" => \A i \in 1..(work.at - 1) : OnTime(gpu, Acc, work.gen[work.stage][i])
TimesInv == ProjectedInv /\ StagesEnded /\ StageBegun

(* A list of layers with the same names and types has the same projections.   *)
LEMMA SameProjections ==
  ASSUME NEW b, NEW d, DOMAIN b = DOMAIN d, Projected(b),
         \A i \in DOMAIN b : d[i].name = b[i].name /\ d[i].type = b[i].type
  PROVE  Projected(d)
BY DEF Projected, OneNamed

(* The devices of a configuration.                                           *)
LEMMA DevicesAreReady ==
  ASSUME DevicesTyped
  PROVE  DevicesReady(gpu, Acc)
BY DEF DevicesTyped, DevicesReady, Acc

(* A pipelined decoder has the projections it had ...                        *)
LEMMA PipelinedNames ==
  ASSUME NEW block \in Decoders, Projected(block), NEW level
  PROVE  Projected(PipelinedBlock(block, level))
<1> DEFINE t == Pipelined(PipelineTimes(block), level)
           new(l) == CASE l.name = "qkv" -> t.qkv
                       [] l.name = "proj" -> t.prj
                       [] l.name = "comm_x2g" -> t.x2g \div 2
                       [] l.name = "softmax" -> 0
                       [] OTHER -> l.time
           g == [i \in DOMAIN block |-> [block[i] EXCEPT !.time = new(block[i])]]
<1>1. PipelinedBlock(block, level) = g
  BY DEF PipelinedBlock
<1>2. \A i \in DOMAIN block : block[i] \in LayerRec
  BY LenProperties, ElementOfSeq DEF Decoders
<1> HIDE DEF new
<1>3. ASSUME NEW l \in LayerRec, NEW n
      PROVE  [l EXCEPT !.time = n].name = l.name /\ [l EXCEPT !.time = n].type = l.type
  BY DEF LayerRec
<1>4. DOMAIN g = DOMAIN block
  OBVIOUS
<1>5. \A i \in DOMAIN block : g[i].name = block[i].name /\ g[i].type = block[i].type
  BY <1>2, <1>3
<1> HIDE DEF g
<1>. QED  BY <1>1, <1>4, <1>5, SameProjections

(* ... and so does one that is shared out.                                  *)
LEMMA ParallelNames ==
  ASSUME NEW block \in Decoders, Projected(block), NEW bs
  PROVE  Projected(ParallelBlock(block, bs))
<1> DEFINE new(l) == Parallel(gpu, Acc, l, bs)
           g == [i \in DOMAIN block |-> IF IsFF(block[i]) THEN [block[i] EXCEPT !.time = new(block[i])]
                                        ELSE block[i]]
<1>1. ParallelBlock(block, bs) = g
  BY DEF ParallelBlock
<1>2. \A i \in DOMAIN block : block[i] \in LayerRec
  BY LenProperties, ElementOfSeq DEF Decoders
<1> HIDE DEF new
<1>3. ASSUME NEW l \in LayerRec, NEW n
      PROVE  [l EXCEPT !.time = n].name = l.name /\ [l EXCEPT !.time = n].type = l.type
  BY DEF LayerRec
<1>4. DOMAIN g = DOMAIN block
  OBVIOUS
<1>5. \A i \in DOMAIN block : g[i].name = block[i].name /\ g[i].type = block[i].type
  BY <1>2, <1>3
<1> HIDE DEF g
<1>. QED  BY <1>1, <1>4, <1>5, SameProjections

(* At the end of a stage it is shortened, and keeps its layers.              *)
LEMMA StageShortened ==
  ASSUME SimulatorAnswers, DevicesTyped, Consistent, HeadsOfGpus,
         NEW block \in Decoders, NEW level \in BOOLEAN, NEW par, NEW bs \in Positive,
         Projected(block), \A i \in DOMAIN block : OnTime(gpu, Acc, block[i])
  PROVE  LET done == IF hetero # "PIM" THEN block
                     ELSE IF par THEN ParallelBlock(PipelinedBlock(block, level), bs)
                     ELSE PipelinedBlock(block, level)
         IN Projected(done) /\ Shortened(gpu, Acc, done)
<1> DEFINE piped == PipelinedBlock(block, level)
<1>1. DevicesReady(gpu, Acc) /\ XpuOK(gpu)
  BY DevicesAreReady DEF DevicesTyped
<1>2. block \in Seq(LayerRec)
  BY DEF Decoders
<1>3. Shortened(gpu, Acc, block)
  BY <1>1, <1>2, UnpipedShort
<1>4. Projected(piped) /\ Shortened(gpu, Acc, piped)
  BY <1>1, <1>2, PipelinedShort, PipelinedNames
<1>5. piped \in Seq(LayerRec) /\ piped \in Decoders
  <2>1. HeadsOK
    BY DEF HeadsOK, HeadsOfGpus
  <2>. QED  BY <2>1, <1>2, PipelinedBlockType DEF Decoders
<1> HIDE DEF piped
<1>6. ASSUME hetero = "PIM"
      PROVE  Projected(ParallelBlock(piped, bs)) /\ Shortened(gpu, Acc, ParallelBlock(piped, bs))
  <2>1. Acc.config.bw \in Positive
    BY <1>6, PimTakesPart
  <2>. QED  BY <1>1, <1>4, <1>5, <2>1, ParallelShort, ParallelNames
<1>. QED  BY <1>3, <1>4, <1>6 DEF piped

(* The device that a layer of the generation is timed on knows more from then  *)
(* on, and the other device stays as it was.                                 *)
LEMMA GenDevices ==
  ASSUME DevicesTyped, GenLayer
  PROVE  LET l == work.gen[work.stage][work.at]
             d == AfterCost(Device(gpu, Acc, l), l)
         IN /\ Grown(gpu, gpu') /\ Grown(Acc, Acc')
            /\ Device(gpu', Acc', l) = d
            /\ work' = Generated(work, Timed(l, Cost(d, l)))
            /\ XpuOK(Device(gpu, Acc, l)) \/ (PimOK(Device(gpu, Acc, l)) /\ OnAcc(l))
<1> DEFINE l == work.gen[work.stage][work.at]
           onGpu == ~OnAcc(l) \/ acc = SameAsGpu
           own == IF onGpu THEN gpu ELSE acc
           device == AfterCost(own, l)
<1>1. /\ gpu' = (IF onGpu THEN device ELSE gpu) /\ acc' = (IF onGpu THEN acc ELSE device)
      /\ work' = Generated(work, Timed(l, Cost(device, l)))
  BY DEF GenLayer
<1> HIDE DEF l
<1>2. own = Device(gpu, Acc, l)
  BY DEF Device, Acc
<1>3. XpuOK(gpu) /\ (acc # SameAsGpu => XpuOK(acc) \/ PimOK(acc))
  BY DEF DevicesTyped
<1>4. XpuOK(own) \/ (PimOK(own) /\ OnAcc(l))
  BY <1>3
<1>5. Grown(gpu, gpu) /\ Grown(own, device)
  BY <1>3, <1>4, ConsultedGrows
<1>6. CASE onGpu
  <2>1. own = gpu /\ gpu' = device /\ acc' = acc
    BY <1>1, <1>6
  <2>2. Acc' = (IF acc = SameAsGpu THEN device ELSE acc)
    BY <2>1 DEF Acc
  <2>3. Grown(gpu, gpu')
    BY <1>5, <2>1
  <2>4. Grown(Acc, Acc')
    <3>1. CASE acc = SameAsGpu
      BY <1>5, <2>1, <2>2, <3>1 DEF Acc
    <3>2. CASE acc # SameAsGpu
      <4>1. Acc' = acc /\ Acc = acc
        BY <2>2, <3>2 DEF Acc
      <4>2. Grown(acc, acc)
        BY <1>3, <3>2, ConsultedGrows
      <4>. QED  BY <4>1, <4>2
    <3>. QED  BY <3>1, <3>2
  <2>5. Device(gpu', Acc', l) = device
    <3>1. OnAcc(l) => acc = SameAsGpu
      BY <1>6
    <3>. QED  BY <2>1, <2>2, <3>1 DEF Device
  <2> HIDE DEF own, device
  <2>. QED  BY <1>1, <1>2, <1>4, <2>3, <2>4, <2>5 DEF device, l
<1>7. CASE ~onGpu
  <2>1. own = acc /\ gpu' = gpu /\ acc' = device /\ acc # SameAsGpu /\ OnAcc(l)
    BY <1>1, <1>7
  <2>2. device # SameAsGpu
    <3>1. XpuOK(acc) \/ PimOK(acc)
      BY <1>3, <2>1
    <3>2. acc.config.kind # "NONE"
      <4>1. XpuOK(acc) => acc.config \in {GpuConfig, CpuConfig}
        BY DEF XpuOK, XpuConfigs
      <4>2. GpuConfig.kind # "NONE" /\ CpuConfig.kind # "NONE"
        BY SimulationAssumption
      <4>. QED  BY <3>1, <4>1, <4>2, PimKind
    <3>3. device.config = acc.config
      <4>1. CASE PimOK(acc)
        BY <2>1, <4>1, PimKind, AfterCostKeepsPim DEF PimOK
      <4>2. CASE XpuOK(acc)
        BY <2>1, <4>2, XpuIsNoPim DEF AfterCost, WithTile, XpuOK, IsXPU
      <4>. QED  BY <3>1, <4>1, <4>2
    <3>4. SameAsGpu.config.kind = "NONE"
      BY DEF SameAsGpu
    <3> HIDE DEF device
    <3>. QED  BY <3>2, <3>3, <3>4
  <2>3. Acc = acc /\ Acc' = device
    BY <2>1, <2>2 DEF Acc
  <2>4. Device(gpu', Acc', l) = device
    BY <2>1, <2>3 DEF Device
  <2> HIDE DEF own, device
  <2>. QED  BY <1>1, <1>2, <1>4, <1>5, <2>1, <2>3, <2>4 DEF device, l
<1>. QED  BY <1>6, <1>7

(* The layer that is timed has its time.                                     *)
LEMMA GenOnTime ==
  ASSUME SimulatorAnswers, NEW own, NEW other, NEW own2, NEW other2, NEW l \in LayerRec,
         XpuOK(Device(own, other, l)) \/ (PimOK(Device(own, other, l)) /\ OnAcc(l)),
         Device(own2, other2, l) = AfterCost(Device(own, other, l), l)
  PROVE  LET new == Timed(l, Cost(AfterCost(Device(own, other, l), l), l))
         IN /\ OnTime(own2, other2, new)
            /\ new.name = l.name /\ new.type = l.type
<1> DEFINE d == Device(own, other, l)
           e == AfterCost(d, l)
           cost == Cost(e, l)
           new == Timed(l, cost)
<1>1. Known(e, l)
  BY Consulted
<1>2. CostOK(cost, l) /\ e.config = d.config
  BY CostType
<1>3. OnAcc(l) \/ e.config.kind # "PIM"
  BY <1>2, XpuIsNoPim
<1>4. cost.time = TimeOn(e, l)
  BY DEF TimeOn
<1> HIDE DEF d, e, cost
<1>5. /\ new.time = cost.time /\ Bare(new) = Bare(l) /\ new.name = l.name /\ new.type = l.type
  BY DEF LayerRec, Timed, Bare
<1> HIDE DEF new
<1>6. TimeOn(e, new) = TimeOn(e, l) /\ Known(e, new) = Known(e, l) /\ OnAcc(new) = OnAcc(l)
  <2>1. OnAcc(new) = OnAcc(l)
    BY <1>5 DEF OnAcc
  <2>. QED  BY <1>3, <1>5, <2>1, TimeOfBare
<1>7. Device(own2, other2, new) = e
  <2>1. Device(own2, other2, l) = e
    BY DEF d, e
  <2>. QED  BY <1>6, <2>1 DEF Device
<1>8. OnTime(own2, other2, new)
  <2>1. cost.time \in Nat
    BY <1>2 DEF CostOK
  <2>. QED  BY <1>1, <1>4, <1>5, <1>6, <1>7, <2>1 DEF OnTime
<1>. QED  BY <1>5, <1>8 DEF new, cost, e, d

(* Where a layer is put.                                                     *)
LEMMA GeneratedAt ==
  ASSUME NEW w \in WorkType, NEW l
  PROVE  /\ Generated(w, l).at = w.at + 1 /\ Generated(w, l).stage = w.stage
         /\ Generated(w, l).gen
              = [w.gen EXCEPT ![w.stage] = [w.gen[w.stage] EXCEPT ![w.at] = l]]
BY DEF Generated, WorkType

(* The stages of a call, and the one it is at.                               *)
LEMMA StagesReady ==
  ASSUME WorkTyped, Calling
  PROVE  /\ work \in WorkType /\ WorkOK(work, call) /\ model # NoModel
         /\ work.gen \in Stages /\ Len(work.gen) \in Nat /\ DOMAIN work.gen = 1..Len(work.gen)
         /\ work.stage \in Nat /\ work.stage >= 1 /\ work.at \in Nat /\ work.at >= 1
         /\ work.stage <= Len(work.gen) + 1
         /\ \A s \in 1..Len(work.gen) :
              /\ work.gen[s] \in Decoders /\ Len(work.gen[s]) \in Nat
              /\ DOMAIN work.gen[s] = 1..Len(work.gen[s])
              /\ \A i \in 1..Len(work.gen[s]) : work.gen[s][i] \in LayerRec
<1>1. WorkOK(work, call) /\ model # NoModel
  BY DEF WorkTyped
<1>2. /\ work \in WorkType /\ work.gen \in Stages
      /\ work.stage \in 1..(Len(work.gen) + 1) /\ work.at \in Positive
  BY <1>1 DEF WorkOK, WorkType
<1>3. Len(work.gen) \in Nat /\ DOMAIN work.gen = 1..Len(work.gen)
  BY <1>2, LenProperties DEF Stages
<1>4. work.stage \in Nat /\ work.stage >= 1 /\ work.at \in Nat /\ work.at >= 1
      /\ work.stage <= Len(work.gen) + 1
  BY <1>2, <1>3 DEF Positive
<1>5. ASSUME NEW s \in 1..Len(work.gen)
      PROVE  /\ work.gen[s] \in Decoders /\ Len(work.gen[s]) \in Nat
             /\ DOMAIN work.gen[s] = 1..Len(work.gen[s])
             /\ \A i \in 1..Len(work.gen[s]) : work.gen[s][i] \in LayerRec
  <2>1. work.gen[s] \in Decoders
    BY <1>2, ElementOfSeq DEF Stages
  <2>. QED  BY <2>1, LenProperties, ElementOfSeq DEF Decoders
<1>. QED  BY <1>1, <1>2, <1>3, <1>4, <1>5

(* A layer of the generation is timed.                                       *)
LEMMA GenLayerTimes ==
  ASSUME SimulatorAnswers, TypedInv, TimesInv, GenLayer
  PROVE  TimesInv'
<1> DEFINE block == work.gen[work.stage]
           l == block[work.at]
           d == AfterCost(Device(gpu, Acc, l), l)
           new == Timed(l, Cost(d, l))
<1>1. /\ pc = "gen" /\ pc' = "gen" /\ work.at <= Len(block) /\ Calling
      /\ DevicesTyped /\ WorkTyped
  BY DEF GenLayer, Calling, TypedInv
<1>2. /\ work \in WorkType /\ Len(work.gen) \in Nat /\ DOMAIN work.gen = 1..Len(work.gen)
      /\ work.stage \in 1..Len(work.gen) /\ work.at \in Nat
      /\ block \in Decoders /\ Len(block) \in Nat /\ DOMAIN block = 1..Len(block)
      /\ work.at \in 1..Len(block) /\ l \in LayerRec
  <2>1. work.stage \in 1..Len(work.gen)
    BY <1>1, StagesReady DEF WorkTyped
  <2>2. work.at \in 1..Len(block)
    BY <1>1, <2>1, StagesReady
  <2>. QED  BY <1>1, <2>1, <2>2, StagesReady
<1>3. /\ Grown(gpu, gpu') /\ Grown(Acc, Acc') /\ Device(gpu', Acc', l) = d
      /\ work' = Generated(work, new)
      /\ XpuOK(Device(gpu, Acc, l)) \/ (PimOK(Device(gpu, Acc, l)) /\ OnAcc(l))
  BY <1>1, GenDevices
<1>4. OnTime(gpu', Acc', new) /\ new.name = l.name /\ new.type = l.type
  <2>1. l \in LayerRec
    BY <1>2
  <2> HIDE DEF l
  <2>. QED  BY <1>3, <2>1, GenOnTime
<1> HIDE DEF new
<1> DEFINE next == [block EXCEPT ![work.at] = new]
<1>5. /\ work'.at = work.at + 1 /\ work'.stage = work.stage
      /\ work'.gen = [work.gen EXCEPT ![work.stage] = next]
  BY <1>2, <1>3, GeneratedAt
<1>6. /\ DOMAIN next = DOMAIN block /\ next[work.at] = new
      /\ \A i \in DOMAIN block : i # work.at => next[i] = block[i]
      /\ \A i \in DOMAIN block : next[i].name = block[i].name /\ next[i].type = block[i].type
  BY <1>2, <1>4
<1> HIDE DEF next
<1>7. /\ work'.gen[work.stage] = next
      /\ \A s \in DOMAIN work.gen : s # work.stage => work'.gen[s] = work.gen[s]
  BY <1>2, <1>5
<1>8. Len(work'.gen) = Len(work.gen)
  <2>1. work.gen \in Stages
    BY <1>1, StagesReady
  <2>2. work'.gen \in [1..Len(work.gen) -> {work'.gen[s] : s \in 1..Len(work.gen)}]
    BY <1>2, <1>5
  <2>. QED  BY <1>2, <2>2, LenProperties
<1>9. ProjectedInv'
  <2>1. \A s \in 1..Len(work.gen) : Projected(work.gen[s])
    BY <1>1 DEF TimesInv, ProjectedInv
  <2>2. Projected(next)
    <3>1. Projected(block)
      BY <1>2, <2>1
    <3>. QED  BY <1>2, <1>6, <3>1, SameProjections
  <2>. QED  BY <1>2, <1>7, <1>8, <2>1, <2>2 DEF ProjectedInv
<1>10. gpu.config.kind # "PIM"
  BY <1>1, XpuIsNoPim DEF DevicesTyped
<1>11. StagesEnded'
  <2>1. SUFFICES ASSUME NEW s \in 1..(work.stage - 1) PROVE Shortened(gpu', Acc', work'.gen[s])
    BY <1>5 DEF StagesEnded
  <2>2. s \in 1..Len(work.gen) /\ s # work.stage
    BY <1>2
  <2>3. Shortened(gpu, Acc, work.gen[s]) /\ Projected(work.gen[s])
    BY <1>1, <2>2 DEF TimesInv, StagesEnded, ProjectedInv
  <2>4. work'.gen[s] = work.gen[s]
    BY <1>2, <1>7, <2>2
  <2>. QED  BY <1>3, <1>10, <2>3, <2>4, ShortenedKept
<1>12. StageBegun'
  <2>1. SUFFICES ASSUME NEW i \in 1..work.at PROVE OnTime(gpu', Acc', next[i])
    BY <1>2, <1>5, <1>7 DEF StageBegun
  <2>2. CASE i = work.at
    BY <1>4, <1>6, <2>2
  <2>3. CASE i # work.at
    <3>1. i \in 1..(work.at - 1) /\ i \in DOMAIN block
      BY <1>2, <2>3
    <3>2. OnTime(gpu, Acc, block[i])
      BY <1>1, <3>1 DEF TimesInv, StageBegun
    <3>3. next[i] = block[i]
      BY <1>6, <2>3, <3>1
    <3>. QED  BY <1>3, <1>10, <3>2, <3>3, OnTimeKept
  <2>. QED  BY <2>2, <2>3
<1>. QED  BY <1>9, <1>11, <1>12 DEF TimesInv

(* The end of a stage.                                                      *)
LEMMA EndOfStageTimes ==
  ASSUME SimulatorAnswers, TypedInv, Consistent, TimesInv, EndOfStage
  PROVE  TimesInv'
<1> DEFINE block == work.gen[work.stage]
           piped == PipelinedBlock(block, call.pipe)
           bs == work.batches[work.itr]
           done == IF hetero # "PIM" THEN block
                   ELSE IF call.par THEN ParallelBlock(piped, bs) ELSE piped
<1>1. /\ pc = "gen" /\ pc' \in {"gen", "report"} /\ work.at > Len(block) /\ Calling
      /\ work' = [work EXCEPT !.gen[work.stage] = done, !.stage = @ + 1, !.at = 1]
      /\ gpu' = gpu /\ acc' = acc /\ DevicesTyped /\ WorkTyped /\ ModelTyped /\ CallTyped
  BY DEF EndOfStage, Calling, TypedInv
<1>2. /\ work \in WorkType /\ Len(work.gen) \in Nat /\ DOMAIN work.gen = 1..Len(work.gen)
      /\ work.stage \in 1..Len(work.gen) /\ work.stage \in Nat /\ work.at \in Nat
      /\ block \in Decoders /\ Len(block) \in Nat /\ DOMAIN block = 1..Len(block)
  <2>1. work.stage \in 1..Len(work.gen)
    BY <1>1, StagesReady DEF WorkTyped
  <2>. QED  BY <1>1, <2>1, StagesReady
<1>3. Acc' = Acc
  BY <1>1 DEF Acc
<1>4. bs \in Positive /\ call.pipe \in BOOLEAN
  <2>1. WorkOK(work, call) /\ call \in Calls
    BY <1>1, StagesReady DEF CallTyped
  <2>2. work.batches \in Seq(Positive) /\ work.itr \in 1..Len(work.batches)
    BY <2>1 DEF WorkOK, WorkType
  <2>3. bs \in Positive
    BY <2>2, ElementOfSeq
  <2>4. call.pipe \in BOOLEAN
    BY <2>1, SimulationAssumption
  <2>. QED  BY <2>3, <2>4
<1>5. HeadsOfGpus
  <2>1. model # NoModel /\ gpu.num \in GpuCounts
    BY <1>1, StagesReady DEF DevicesTyped
  <2>2. model.infos \in Models /\ model.infos.heads \in Nat \ {0}
    BY <1>1, <2>1, ModelIsReady
  <2>. QED  BY <2>1, <2>2, SimulationAssumption DEF HeadsOfGpus
<1>6. Projected(block) /\ \A i \in DOMAIN block : OnTime(gpu, Acc, block[i])
  <2>1. Projected(block)
    BY <1>1, <1>2 DEF TimesInv, ProjectedInv
  <2>2. \A i \in DOMAIN block : i \in 1..(work.at - 1)
    BY <1>1, <1>2
  <2>. QED  BY <1>1, <2>1, <2>2 DEF TimesInv, StageBegun
<1> HIDE DEF block, bs
<1>7. Projected(done) /\ Shortened(gpu, Acc, done)
  BY <1>1, <1>2, <1>4, <1>5, <1>6, StageShortened
<1> HIDE DEF done
<1>8. /\ work'.at = 1 /\ work'.stage = work.stage + 1
      /\ work'.gen = [work.gen EXCEPT ![work.stage] = done]
  BY <1>1, <1>2 DEF WorkType
<1>9. /\ work'.gen[work.stage] = done
      /\ \A s \in DOMAIN work.gen : s # work.stage => work'.gen[s] = work.gen[s]
  BY <1>2, <1>8
<1>10. Len(work'.gen) = Len(work.gen)
  <2>1. work.gen \in Stages
    BY <1>1, StagesReady
  <2>2. work'.gen \in [1..Len(work.gen) -> {work'.gen[s] : s \in 1..Len(work.gen)}]
    BY <1>2, <1>8
  <2>. QED  BY <1>2, <2>2, LenProperties
<1>11. ProjectedInv'
  <2>1. \A s \in 1..Len(work.gen) : Projected(work.gen[s])
    BY <1>1 DEF TimesInv, ProjectedInv
  <2>. QED  BY <1>2, <1>7, <1>9, <1>10, <2>1 DEF ProjectedInv
<1>12. StagesEnded'
  <2>1. SUFFICES ASSUME NEW s \in 1..work.stage PROVE Shortened(gpu, Acc, work'.gen[s])
    BY <1>1, <1>2, <1>3, <1>8 DEF StagesEnded
  <2>2. CASE s = work.stage
    BY <1>7, <1>9, <2>2
  <2>3. CASE s # work.stage
    <3>1. s \in 1..(work.stage - 1) /\ s \in DOMAIN work.gen
      BY <1>2, <2>3
    <3>2. Shortened(gpu, Acc, work.gen[s])
      BY <1>1, <3>1 DEF TimesInv, StagesEnded
    <3>. QED  BY <1>9, <2>3, <3>1, <3>2
  <2>. QED  BY <2>2, <2>3
<1>13. StageBegun'
  BY <1>8 DEF StageBegun
<1>. QED  BY <1>11, <1>12, <1>13 DEF TimesInv

(* The decoders that are built have both projections.                        *)
LEMMA SimulateTimes ==
  ASSUME TypedInv, NEW c \in Calls, Simulate(c)
  PROVE  TimesInv'
<1> DEFINE g == GenDecoders(model.infos, model.tp, c.batch, c.lin, c.lout, Heterogeneous)
           s0 == SumDecoder(model.infos, model.tp, c.batch, c.lin, Heterogeneous)
<1>1. /\ model # NoModel /\ pc' = "sum" /\ ModelTyped
      /\ work' = [Idle EXCEPT !.batches = TargetBatches(c), !.itr = 1, !.stage = 1, !.at = 1,
                              !.sum = s0, !.gen = g]
  BY DEF Simulate, TypedInv
<1> HIDE DEF s0
<1>2. work'.gen = g
  <2> HIDE DEF g
  <2>. QED  BY <1>1 DEF Idle
<1>3. c.lout \in Nat
  BY SimulationAssumption
<1>4. DOMAIN g = 1..(c.lout - 1)
  BY DEF GenDecoders
<1>5. Heterogeneous \in BOOLEAN /\ model.infos \in Models /\ model.tp \in GpuCounts
  BY <1>1, ModelIsReady DEF Heterogeneous
<1>6. ASSUME NEW s \in 1..(c.lout - 1) PROVE Projected(g[s])
  <2>1. g[s] = GenDecoder(model.infos, model.tp, c.batch, c.lin, s, Heterogeneous)
    BY DEF GenDecoders
  <2>2. s \in Nat
    OBVIOUS
  <2> HIDE DEF g
  <2>. QED  BY <1>5, <2>1, <2>2, GpusShare, GenDecoderNames DEF Projected
<1>7. g \in Stages
  BY <1>5, GpusShare, DecodersType DEF Decoders, Stages
<1>8. DOMAIN g = 1..Len(g)
  <2> HIDE DEF g
  <2>. QED  BY <1>7, LenProperties DEF Stages
<1> HIDE DEF g
<1>9. ProjectedInv'
  BY <1>2, <1>4, <1>6, <1>8 DEF ProjectedInv
<1>10. StagesEnded' /\ StageBegun'
  BY <1>1 DEF StagesEnded, StageBegun
<1>. QED  BY <1>9, <1>10 DEF TimesInv

(* Before the generation is timed, again or for the first time, nothing is said *)
(* of times.                                                                *)
LEMMA PromptTimes ==
  ASSUME TypedInv, TimesInv, SumLayer \/ EndOfSum \/ NextBatch
  PROVE  TimesInv'
<1>1. Calling /\ WorkTyped
  BY DEF SumLayer, EndOfSum, NextBatch, Calling, TypedInv
<1>2. work \in WorkType
  BY <1>1, StagesReady
<1>3. work'.gen = work.gen
  <2>1. CASE SumLayer
    <3>1. PICK l : work' = Summarized(work, l)
      BY <2>1 DEF SumLayer
    <3>. QED  BY <1>2, <3>1 DEF Summarized, WorkType
  <2>2. CASE EndOfSum
    BY <1>2, <2>2 DEF EndOfSum, WorkType
  <2>3. CASE NextBatch
    BY <1>2, <2>3 DEF NextBatch, WorkType
  <2>. QED  BY <2>1, <2>2, <2>3
<1>4. pc' = "sum" \/ (work'.stage = 1 /\ work'.at = 1)
  <2>1. CASE SumLayer \/ NextBatch
    BY <2>1 DEF SumLayer, NextBatch
  <2>2. CASE EndOfSum
    BY <1>2, <2>2 DEF EndOfSum, WorkType
  <2>. QED  BY <2>1, <2>2
<1>5. ProjectedInv'
  BY <1>1, <1>3 DEF TimesInv, ProjectedInv
<1>6. StagesEnded' /\ StageBegun'
  BY <1>4 DEF StagesEnded, StageBegun
<1>. QED  BY <1>5, <1>6 DEF TimesInv

(* Between two calls there is nothing to be shown.                          *)
LEMMA NotCallingTimes == ~Calling => TimesInv
BY DEF Calling, TimesInv, ProjectedInv, StagesEnded, StageBegun

(* Every step keeps the invariant.                                          *)
LEMMA StepsKeepTimes ==
  ASSUME SimulatorAnswers
  PROVE  TimesInv /\ TypedInv /\ Consistent /\ [Next]_vars => TimesInv'
<1> SUFFICES ASSUME TimesInv, TypedInv, Consistent, [Next]_vars PROVE TimesInv'
  OBVIOUS
<1>1. ASSUME ~Calling' PROVE TimesInv'
  BY <1>1 DEF Calling, TimesInv, ProjectedInv, StagesEnded, StageBegun
<1>2. CASE \/ \E infos \in Models \cup {NoModel}, name \in {"NONE", "CPU"} : New(infos, name)
           \/ \E infos \in Models : SetModel(infos) \/ \E config \in PimConfigs : SetPim(infos, config)
           \/ SetCpu \/ (\E n \in GpuCounts : SetXpu(n)) \/ Fail \/ Report
  <2>1. pc' = "idle"
    BY <1>2 DEF New, SetModel, SetPim, SetCpu, SetXpu, Configuring, Fail, Report
  <2>. QED  BY <1>1, <2>1 DEF Calling
<1>3. ASSUME NEW c \in Calls, Simulate(c) PROVE TimesInv'
  BY <1>3, SimulateTimes
<1>4. CASE SumLayer \/ EndOfSum \/ NextBatch
  BY <1>4, PromptTimes
<1>5. CASE GenLayer
  BY <1>5, GenLayerTimes
<1>6. CASE EndOfStage
  BY <1>6, EndOfStageTimes
<1>7. CASE UNCHANGED vars
  BY <1>7 DEF vars, TimesInv, ProjectedInv, StagesEnded, StageBegun, Calling, Acc
<1>. QED  BY <1>2, <1>3, <1>4, <1>5, <1>6, <1>7 DEF Next

(* An ended stage is as PipelineShortens says.                               *)
LEMMA TimesInvShortens == TimesInv /\ TypedInv /\ Consistent => PipelineShortens
<1> SUFFICES ASSUME TimesInv, TypedInv, Consistent, pc \in {"gen", "report"}, NEW s \in 1..(work.stage - 1)
             PROVE  LET block == work.gen[s]
                        qkv == TimeOn(gpu, LayerNamed(block, "qkv"))
                        prj == TimeOn(gpu, LayerNamed(block, "proj"))
                    IN \A i \in DOMAIN block :
                         LET l == block[i] IN
                         /\ \/ l.time <= TimeOn(IF OnAcc(l) THEN Acc ELSE gpu, l)
                            \/ l.name = "comm_x2g" \/ (IsScore(l) /\ ~OfOneWidth(l))
                         /\ \/ l.time >= 0
                            \/ l.name = "proj" /\ qkv > 3 * prj
                            \/ l.name = "qkv" /\ qkv < 3 * prj
  BY DEF PipelineShortens
<1>1. ASSUME NEW l, Odd(Device(gpu, Acc, l), l) PROVE IsScore(l) /\ ~OfOneWidth(l)
  <2>1. gpu.config.kind # "PIM"
    BY XpuIsNoPim DEF TypedInv, DevicesTyped
  <2>2. acc.config.kind = "PIM" /\ l.k # acc.dhead /\ IsScore(l)
    BY <1>1, <2>1 DEF Odd, Device, Acc
  <2>. QED  BY <2>2 DEF OfOneWidth, Consistent
<1>2. Shortened(gpu, Acc, work.gen[s])
  BY DEF TimesInv, StagesEnded
<1>. QED  BY <1>1, <1>2 DEF Shortened, Device

(* What a list of layers comes to, when each layer counts as the function says. *)
Worths == [LayerRec -> Int]
Total(f, layers) == SumFunction([i \in DOMAIN layers |-> f[layers[i]]])
UpTo(f, layers, k) == SumFunction([i \in 1..k |-> f[layers[i]]])

(* The sum of the first k numbers of a list.                                 *)
LEMMA OneNumberMore ==
  ASSUME NEW n \in Nat, NEW g \in [1..n -> Int]
  PROVE  LET Sum(k) == SumFunction([i \in 1..k |-> g[i]])
         IN /\ \A k \in 0..n : Sum(k) \in Int
            /\ Sum(0) = 0
            /\ Sum(n) = SumFunction(g)
            /\ \A k \in 0..(n - 1) : g[k + 1] \in Int /\ Sum(k + 1) = Sum(k) + g[k + 1]
<1> DEFINE part(k) == [i \in 1..k |-> g[i]]
<1>1. ASSUME NEW k \in 0..n
      PROVE  part(k) \in [1..k -> Int] /\ IsFiniteSet(1..k) /\ SumFunction(part(k)) \in Int
  <2>1. part(k) \in [1..k -> Int]
    OBVIOUS
  <2>2. IsFiniteSet(1..k)
    BY 1 \in Int, k \in Int, FS_Interval
  <2> HIDE DEF part
  <2>. QED  BY <2>1, <2>2, SumIsInt
<1>2. SumFunction(part(0)) = 0
  <2>1. part(0) \in [{} -> Int]
    OBVIOUS
  <2> HIDE DEF part
  <2>. QED  BY <2>1, SumOfNone
<1>3. ASSUME NEW k \in 0..(n - 1)
      PROVE  g[k + 1] \in Int /\ SumFunction(part(k + 1)) = SumFunction(part(k)) + g[k + 1]
  <2>1. k + 1 \in 1..n /\ k + 1 \in 0..n /\ k \in 0..n
    OBVIOUS
  <2>2. (1..(k + 1)) \ {k + 1} = 1..k /\ k + 1 \in 1..(k + 1)
    OBVIOUS
  <2> DEFINE T == 1..(k + 1)
             h == part(k + 1)
             R == [y \in T \ {k + 1} |-> h[y]]
  <2>3. R = part(k)
    BY <2>2
  <2>4. h[k + 1] = g[k + 1]
    BY <2>2
  <2>5. h \in [T -> Int] /\ IsFiniteSet(T) /\ SumFunction(part(k)) \in Int /\ k + 1 \in T
    BY <1>1, <2>1, <2>2
  <2>6. g[k + 1] \in Int
    BY <2>1
  <2>7. SumFunction(h) = SumFunction(part(k + 1))
    OBVIOUS
  <2>8. SumFunction(h) = h[k + 1] + SumFunction(R)
    <3> DEFINE x == k + 1
    <3>1. x \in T /\ h \in [T -> Int] /\ IsFiniteSet(T)
      BY <2>5
    <3>2. R = Rest(h, x)
      <4>1. DOMAIN h = T
        BY <3>1
      <4> HIDE DEF h, T
      <4>. QED  BY <4>1 DEF Rest
    <3> HIDE DEF h, T, R, x
    <3>3. SumFunction(h) = h[x] + SumFunction(R)
      BY <3>1, <3>2, SumAndRest
    <3>. QED  BY <3>3 DEF x
  <2> HIDE DEF part, h, R, T
  <2>. QED  BY <2>3, <2>4, <2>5, <2>6, <2>7, <2>8
<1>4. part(n) = g
  OBVIOUS
<1>. QED  BY <1>1, <1>2, <1>3, <1>4

(* One layer more.                                                           *)
LEMMA OneMore ==
  ASSUME NEW f \in Worths, NEW s \in Seq(LayerRec)
  PROVE  /\ \A k \in 0..Len(s) : UpTo(f, s, k) \in Int
         /\ UpTo(f, s, 0) = 0
         /\ UpTo(f, s, Len(s)) = Total(f, s)
         /\ Total(f, s) \in Int
         /\ \A k \in 0..(Len(s) - 1) : /\ f[s[k + 1]] \in Int
                                       /\ UpTo(f, s, k + 1) = UpTo(f, s, k) + f[s[k + 1]]
<1> DEFINE n == Len(s)
           g == [i \in 1..n |-> f[s[i]]]
           Sum(k) == SumFunction([i \in 1..k |-> g[i]])
<1>1. n \in Nat /\ DOMAIN s = 1..n /\ \A i \in 1..n : s[i] \in LayerRec
  BY LenProperties, ElementOfSeq
<1> HIDE DEF n
<1>2. g \in [1..n -> Int] /\ \A i \in 1..n : g[i] = f[s[i]]
  BY <1>1 DEF Worths
<1>3. \A k \in 0..n : UpTo(f, s, k) = Sum(k)
  <2>1. ASSUME NEW k \in 0..n PROVE [i \in 1..k |-> f[s[i]]] = [i \in 1..k |-> g[i]]
    BY <1>1
  <2>. QED  BY <2>1 DEF UpTo
<1>4. Total(f, s) = SumFunction(g)
  BY <1>1 DEF Total
<1> HIDE DEF g
<1>5. /\ \A k \in 0..n : Sum(k) \in Int
      /\ Sum(0) = 0
      /\ Sum(n) = SumFunction(g)
      /\ \A k \in 0..(n - 1) : g[k + 1] \in Int /\ Sum(k + 1) = Sum(k) + g[k + 1]
  BY <1>1, <1>2, OneNumberMore
<1>6. 0 \in 0..n /\ n \in 0..n /\ \A k \in 0..(n - 1) : k \in 0..n /\ k + 1 \in 0..n /\ k + 1 \in 1..n
  BY <1>1
<1> HIDE DEF Sum
<1>7. \A k \in 0..(n - 1) : f[s[k + 1]] \in Int /\ UpTo(f, s, k + 1) = UpTo(f, s, k) + f[s[k + 1]]
  BY <1>2, <1>3, <1>5, <1>6
<1>. QED  BY <1>3, <1>4, <1>5, <1>6, <1>7 DEF n

(* Lists that are joined.                                                    *)
LEMMA TotalJoin ==
  ASSUME NEW f \in Worths, NEW s \in Seq(LayerRec), NEW t \in Seq(LayerRec)
  PROVE  s \o t \in Seq(LayerRec) /\ Total(f, s \o t) = Total(f, s) + Total(f, t)
<1> DEFINE u == s \o t
           m == Len(s)
           n == Len(t)
<1>1. /\ u \in Seq(LayerRec) /\ m \in Nat /\ n \in Nat /\ Len(u) = m + n
      /\ DOMAIN s = 1..m /\ DOMAIN t = 1..n /\ DOMAIN u = 1..(m + n)
  BY ConcatProperties, LenProperties
<1>2. \A i \in 1..m : u[i] = s[i]
  BY ConcatProperties, LenProperties
<1>3. \A i \in 1..n : u[m + i] = t[i]
  BY <1>1, ConcatProperties
<1> DEFINE Good == {k \in Nat : k <= n => UpTo(f, u, m + k) = UpTo(f, s, m) + UpTo(f, t, k)}
<1>4. UpTo(f, u, m) = UpTo(f, s, m)
  <2>1. [i \in 1..m |-> f[u[i]]] = [i \in 1..m |-> f[s[i]]]
    BY <1>2
  <2>. QED  BY <2>1 DEF UpTo
<1> HIDE DEF u, m, n
<1>5. 0 \in Good
  <2>1. UpTo(f, t, 0) = 0 /\ UpTo(f, s, m) \in Int
    BY <1>1, OneMore DEF m
  <2>. QED  BY <1>1, <1>4, <2>1
<1>6. ASSUME NEW k \in Nat, k \in Good PROVE k + 1 \in Good
  <2> SUFFICES ASSUME k + 1 <= n PROVE UpTo(f, u, m + (k + 1)) = UpTo(f, s, m) + UpTo(f, t, k + 1)
    OBVIOUS
  <2>1. k \in 0..(n - 1) /\ m + k \in 0..((m + n) - 1) /\ (m + k) + 1 = m + (k + 1) /\ k + 1 \in 1..n
        /\ k \in 0..n /\ m \in 0..m
    BY <1>1
  <2>2. UpTo(f, u, m + k) = UpTo(f, s, m) + UpTo(f, t, k)
    BY <1>6, <2>1
  <2>3. f[u[m + (k + 1)]] \in Int /\ UpTo(f, u, m + (k + 1)) = UpTo(f, u, m + k) + f[u[m + (k + 1)]]
    BY <1>1, <2>1, OneMore
  <2>4. f[t[k + 1]] \in Int /\ UpTo(f, t, k + 1) = UpTo(f, t, k) + f[t[k + 1]] /\ UpTo(f, t, k) \in Int
    BY <1>1, <2>1, OneMore DEF n
  <2>5. u[m + (k + 1)] = t[k + 1]
    BY <1>3, <2>1
  <2>6. UpTo(f, s, m) \in Int
    BY <2>1, OneMore DEF m
  <2>. QED  BY <2>2, <2>3, <2>4, <2>5, <2>6
<1>7. n \in Good
  <2> HIDE DEF Good
  <2>1. Nat \subseteq Good
    BY <1>5, <1>6, NatInductionSet
  <2>. QED  BY <1>1, <2>1
<1>8. /\ UpTo(f, u, m + n) = Total(f, u) /\ UpTo(f, s, m) = Total(f, s) /\ UpTo(f, t, n) = Total(f, t)
  BY <1>1, OneMore DEF m, n
<1>. QED  BY <1>1, <1>7, <1>8 DEF u

(* Lists of a few layers.                                                    *)
LEMMA TotalOfFew ==
  ASSUME NEW f \in Worths
  PROVE  /\ Total(f, <<>>) = 0
         /\ \A a \in LayerRec : Total(f, <<a>>) = f[a]
         /\ \A a, b \in LayerRec : Total(f, <<a, b>>) = f[a] + f[b]
         /\ \A a, b, c \in LayerRec : Total(f, <<a, b, c>>) = f[a] + f[b] + f[c]
         /\ \A a, b, c, d \in LayerRec : Total(f, <<a, b, c, d>>) = f[a] + f[b] + f[c] + f[d]
<1>1. Total(f, <<>>) = 0
  <2>1. <<>> \in Seq(LayerRec) /\ Len(<<>>) = 0
    OBVIOUS
  <2>. QED  BY <2>1, OneMore
<1>2. \A a \in LayerRec : f[a] \in Int
  BY DEF Worths
<1>3. ASSUME NEW s \in Seq(LayerRec), NEW k \in Nat, k < Len(s)
      PROVE  UpTo(f, s, k) \in Int /\ UpTo(f, s, k + 1) = UpTo(f, s, k) + f[s[k + 1]]
  <2>1. Len(s) \in Nat
    BY LenProperties
  <2>2. k \in 0..(Len(s) - 1) /\ k \in 0..Len(s)
    BY <1>3, <2>1
  <2>. QED  BY <2>2, OneMore
<1>4. ASSUME NEW s \in Seq(LayerRec)
      PROVE  /\ Len(s) = 1 => Total(f, s) = f[s[1]]
             /\ Len(s) = 2 => Total(f, s) = f[s[1]] + f[s[2]]
             /\ Len(s) = 3 => Total(f, s) = f[s[1]] + f[s[2]] + f[s[3]]
             /\ Len(s) = 4 => Total(f, s) = f[s[1]] + f[s[2]] + f[s[3]] + f[s[4]]
  <2>0. UpTo(f, s, 0) = 0 /\ UpTo(f, s, Len(s)) = Total(f, s)
    BY OneMore
  <2>1. Len(s) > 0 => UpTo(f, s, 1) = f[s[1]] /\ f[s[1]] \in Int
    <3>1. ASSUME Len(s) > 0 PROVE f[s[1]] \in Int /\ UpTo(f, s, 1) = UpTo(f, s, 0) + f[s[1]]
      <4>1. s[1] \in LayerRec
        BY <3>1, LenProperties, ElementOfSeq
      <4>2. 0 < Len(s) /\ 0 \in Nat /\ 0 + 1 = 1
        BY <3>1, LenProperties
      <4>. QED  BY <1>2, <1>3, <4>1, <4>2
    <3>. QED  BY <2>0, <3>1
  <2>2. Len(s) > 1 => UpTo(f, s, 2) = UpTo(f, s, 1) + f[s[2]]
    <3>1. ASSUME Len(s) > 1 PROVE 1 < Len(s) /\ 1 \in Nat /\ 1 + 1 = 2
      BY <3>1, LenProperties
    <3>. QED  BY <1>3, <3>1
  <2>3. Len(s) > 2 => UpTo(f, s, 3) = UpTo(f, s, 2) + f[s[3]]
    <3>1. ASSUME Len(s) > 2 PROVE 2 < Len(s) /\ 2 \in Nat /\ 2 + 1 = 3
      BY <3>1, LenProperties
    <3>. QED  BY <1>3, <3>1
  <2>4. Len(s) > 3 => UpTo(f, s, 4) = UpTo(f, s, 3) + f[s[4]]
    <3>1. ASSUME Len(s) > 3 PROVE 3 < Len(s) /\ 3 \in Nat /\ 3 + 1 = 4
      BY <3>1, LenProperties
    <3>. QED  BY <1>3, <3>1
  <2>5. Len(s) = 1 => Total(f, s) = f[s[1]]
    BY <2>0, <2>1
  <2>6. Len(s) = 2 => Total(f, s) = f[s[1]] + f[s[2]]
    BY <2>0, <2>1, <2>2
  <2>7. Len(s) = 3 => Total(f, s) = f[s[1]] + f[s[2]] + f[s[3]]
    BY <2>0, <2>1, <2>2, <2>3
  <2>8. Len(s) = 4 => Total(f, s) = f[s[1]] + f[s[2]] + f[s[3]] + f[s[4]]
    BY <2>0, <2>1, <2>2, <2>3, <2>4
  <2>. QED  BY <2>5, <2>6, <2>7, <2>8
<1>5. ASSUME NEW a \in LayerRec
      PROVE  Total(f, <<a>>) = f[a]
  <2> DEFINE s == <<a>>
  <2>1. s \in Seq(LayerRec) /\ Len(s) = 1 /\ s[1] = a
    OBVIOUS
  <2> HIDE DEF s
  <2>2. Total(f, s) = f[s[1]]
    BY <1>4, <2>1
  <2>. QED  BY <2>1, <2>2 DEF s
<1>6. ASSUME NEW a \in LayerRec, NEW b \in LayerRec
      PROVE  Total(f, <<a, b>>) = f[a] + f[b]
  <2> DEFINE s == <<a, b>>
  <2>1. s \in Seq(LayerRec) /\ Len(s) = 2 /\ s[1] = a /\ s[2] = b
    OBVIOUS
  <2> HIDE DEF s
  <2>2. Total(f, s) = f[s[1]] + f[s[2]]
    BY <1>4, <2>1
  <2>. QED  BY <2>1, <2>2 DEF s
<1>7. ASSUME NEW a \in LayerRec, NEW b \in LayerRec, NEW c \in LayerRec
      PROVE  Total(f, <<a, b, c>>) = f[a] + f[b] + f[c]
  <2> DEFINE s == <<a, b, c>>
  <2>1. s \in Seq(LayerRec) /\ Len(s) = 3 /\ s[1] = a /\ s[2] = b /\ s[3] = c
    OBVIOUS
  <2> HIDE DEF s
  <2>2. Total(f, s) = f[s[1]] + f[s[2]] + f[s[3]]
    BY <1>4, <2>1
  <2>. QED  BY <2>1, <2>2 DEF s
<1>8. ASSUME NEW a \in LayerRec, NEW b \in LayerRec, NEW c \in LayerRec, NEW d \in LayerRec
      PROVE  Total(f, <<a, b, c, d>>) = f[a] + f[b] + f[c] + f[d]
  <2> DEFINE s == <<a, b, c, d>>
  <2>1. s \in Seq(LayerRec) /\ Len(s) = 4 /\ s[1] = a /\ s[2] = b /\ s[3] = c /\ s[4] = d
    OBVIOUS
  <2> HIDE DEF s
  <2>2. Total(f, s) = f[s[1]] + f[s[2]] + f[s[3]] + f[s[4]]
    BY <1>4, <2>1
  <2>. QED  BY <2>1, <2>2 DEF s
<1>. QED  BY <1>1, <1>5, <1>6, <1>7, <1>8

(* Joining lists of lists is a loop.                                         *)
LEMMA FlattenSteps ==
  ASSUME NEW S, NEW s \in Seq(Seq(S)), Len(s) # 0
  PROVE  \E flat : /\ FlattenSeq(s) = flat[Len(s)]
                   /\ \A i \in 1..Len(s) : flat[i] = IF i = 1 THEN s[i] ELSE flat[i - 1] \o s[i]
<1> DEFINE n == Len(s)
           T == Seq(S)
           Def(g) == [i \in 1..n |-> IF i = 1 THEN s[i] ELSE g[i - 1] \o s[i]]
           flat == CHOOSE g : g = Def(g)
<1>1. n \in Nat /\ \A i \in 1..n : s[i] \in T
  BY LenProperties, ElementOfSeq
<1> DEFINE step == [k \in Nat |-> [x \in T |-> IF k = 1 THEN s[1]
                                             ELSE IF k \in 1..n THEN x \o s[k] ELSE x]]
           none == <<>>
<1>2. step \in StepsOf(T) /\ none \in T
  <2>1. \A x, y \in T : x \o y \in T
    BY ConcatProperties
  <2>2. <<>> \in T
    OBVIOUS
  <2> HIDE DEF T, n
  <2>3. \A k \in Nat, x \in T : (IF k = 1 THEN s[1] ELSE IF k \in 1..n THEN x \o s[k] ELSE x) \in T
    <3>1. 1 \in 1..n
      BY <1>1 DEF n
    <3>. QED  BY <1>1, <2>1, <3>1
  <2>. QED  BY <2>2, <2>3 DEF StepsOf
<1>3. PICK f \in [Nat -> T] : Recurs(f, none, step)
  <2> HIDE DEF step, none, T
  <2>. QED  BY <1>2, RecursiveFunctionExists
<1> DEFINE h == [i \in 1..n |-> f[i]]
<1>4. ASSUME NEW i \in 1..n PROVE f[i] \in T /\ f[i] = IF i = 1 THEN s[i] ELSE f[i - 1] \o s[i]
  <2>1. i - 1 \in Nat /\ i \in Nat /\ (i - 1) + 1 = i
    BY <1>1
  <2> HIDE DEF T
  <2>2. f[i] = step[i][f[i - 1]]
    BY <1>3, <2>1 DEF Recurs
  <2>3. f[i - 1] \in T /\ f[i] \in T
    BY <2>1
  <2>. QED  BY <2>1, <2>2, <2>3
<1> HIDE DEF T
<1>5. h = Def(h)
  <2>1. \A i \in 1..n : h[i] = IF i = 1 THEN s[i] ELSE h[i - 1] \o s[i]
    <3>1. \A i \in 1..n : i # 1 => i - 1 \in 1..n
      BY <1>1
    <3> HIDE DEF n
    <3>. QED  BY <1>4, <3>1
  <2>. QED  BY <2>1
<1>6. flat = Def(flat)
  <2> HIDE DEF Def
  <2>. QED  BY <1>5
<1>7. FlattenSeq(s) = flat[n]
  BY DEF FlattenSeq
<1>8. \A i \in 1..n : flat[i] = IF i = 1 THEN s[i] ELSE flat[i - 1] \o s[i]
  BY <1>6
<1> HIDE DEF flat
<1>. QED  BY <1>7, <1>8

(* So the layers of all stages come to what the stages come to.              *)
LEMMA TotalOfStages ==
  ASSUME NEW f \in Worths, NEW s \in Seq(Seq(LayerRec))
  PROVE  Total(f, FlattenSeq(s)) = SumFunction([i \in 1..Len(s) |-> Total(f, s[i])])
<1> DEFINE n == Len(s)
           g == [i \in 1..n |-> Total(f, s[i])]
           Sum(k) == SumFunction([i \in 1..k |-> g[i]])
<1>1. n \in Nat /\ \A i \in 1..n : s[i] \in Seq(LayerRec)
  BY LenProperties, ElementOfSeq
<1>2. g \in [1..n -> Int]
  BY <1>1, OneMore
<1>3. CASE n = 0
  <2>1. s = <<>>
    BY <1>3, EmptySeq
  <2>2. FlattenSeq(s) = <<>>
    BY <1>3, <2>1 DEF FlattenSeq
  <2>3. g \in [{} -> Int]
    BY <1>2, <1>3
  <2> HIDE DEF g
  <2>. QED  BY <2>2, <2>3, TotalOfFew, SumOfNone DEF g
<1>4. CASE n # 0
  <2>1. PICK flat : /\ FlattenSeq(s) = flat[n]
                    /\ \A i \in 1..n : flat[i] = IF i = 1 THEN s[i] ELSE flat[i - 1] \o s[i]
    BY <1>4, FlattenSteps
  <2> HIDE DEF g, n
  <2>2. /\ Sum(0) = 0 /\ Sum(n) = SumFunction(g)
        /\ \A k \in 0..(n - 1) : g[k + 1] \in Int /\ Sum(k + 1) = Sum(k) + g[k + 1]
    BY <1>1, <1>2, OneNumberMore
  <2> HIDE DEF Sum
  <2>3. \A k \in 1..n : g[k] = Total(f, s[k])
    BY DEF g
  <2> DEFINE Good == {k \in Nat : k \in 1..n => flat[k] \in Seq(LayerRec) /\ Total(f, flat[k]) = Sum(k)}
  <2>4. 0 \in Good
    OBVIOUS
  <2>5. ASSUME NEW k \in Nat, k \in Good PROVE k + 1 \in Good
    <3> SUFFICES ASSUME k + 1 \in 1..n
                 PROVE  flat[k + 1] \in Seq(LayerRec) /\ Total(f, flat[k + 1]) = Sum(k + 1)
      OBVIOUS
    <3>0. k \in 0..(n - 1)
      BY <1>1
    <3>1. s[k + 1] \in Seq(LayerRec) /\ g[k + 1] = Total(f, s[k + 1])
          /\ Sum(k + 1) = Sum(k) + g[k + 1] /\ g[k + 1] \in Int
      BY <1>1, <2>2, <2>3, <3>0
    <3>2. CASE k = 0
      <4>1. k + 1 = 1 /\ flat[1] = s[1]
        BY <2>1, <3>2
      <4>. QED  BY <2>2, <3>1, <3>2, <4>1
    <3>3. CASE k # 0
      <4>1. k \in 1..n /\ k + 1 # 1 /\ (k + 1) - 1 = k
        BY <1>1, <3>3
      <4>2. flat[k + 1] = flat[k] \o s[k + 1]
        BY <2>1, <4>1
      <4>3. flat[k] \in Seq(LayerRec) /\ Total(f, flat[k]) = Sum(k)
        BY <2>5, <4>1
      <4>. QED  BY <3>1, <4>2, <4>3, TotalJoin
    <3>. QED  BY <3>2, <3>3
  <2>6. n \in Good /\ n \in 1..n
    <3>1. n \in 1..n
      BY <1>1, <1>4
    <3> HIDE DEF Good
    <3>2. Nat \subseteq Good
      BY <2>4, <2>5, NatInductionSet
    <3>. QED  BY <1>1, <3>1, <3>2
  <2>. QED  BY <2>1, <2>2, <2>6 DEF g, n
<1>. QED  BY <1>3, <1>4

---------------------------------------------------------------------------
(* The operations of a decoder, by the number of GPUs it is shared out to.    *)

FlopsOf == [l \in LayerRec |-> Flops(l)]
NormsOf == [l \in LayerRec |-> IF l.type = "NORM" THEN Flops(l) ELSE 0]
WeightsOf == [l \in LayerRec |-> IF l.type = "FC" THEN l.n * l.k * l.dbyte ELSE 0]

(* What n GPUs compute of s is what one computes of t, and n - 1 times its norms. *)
InProportion(n, s, t) ==
  /\ s \in Seq(LayerRec) /\ t \in Seq(LayerRec)
  /\ n * Total(FlopsOf, s) = Total(FlopsOf, t) + (n - 1) * Total(NormsOf, t)

(* The same of one layer.                                                    *)
LayerInProportion(n, l, k) ==
  /\ l \in LayerRec /\ k \in LayerRec
  /\ n * FlopsOf[l] = FlopsOf[k] + (n - 1) * NormsOf[k]

(* Layers are worth numbers.                                                 *)
LEMMA WorthOfLayers ==
  /\ FlopsOf \in Worths /\ NormsOf \in Worths /\ WeightsOf \in Worths
  /\ \A l \in LayerRec : FlopsOf[l] \in Nat /\ NormsOf[l] \in Nat /\ WeightsOf[l] \in Nat
<1>1. \A l \in LayerRec : Flops(l) \in Nat
  BY FlopsType
<1>2. \A l \in LayerRec : l.n * l.k * l.dbyte \in Nat
  <2>1. ASSUME NEW l \in LayerRec PROVE l.n * l.k * l.dbyte \in Nat
    <3>1. l.n \in Nat /\ l.k \in Nat /\ l.dbyte \in Nat
      BY LayerSizes DEF Positive
    <3>. QED  BY <3>1, TimesType
  <2>. QED  BY <2>1
<1>3. \A l \in LayerRec : FlopsOf[l] \in Nat /\ NormsOf[l] \in Nat /\ WeightsOf[l] \in Nat
  BY <1>1, <1>2 DEF FlopsOf, NormsOf, WeightsOf
<1>4. FlopsOf \in [LayerRec -> Nat] /\ NormsOf \in [LayerRec -> Nat] /\ WeightsOf \in [LayerRec -> Nat]
  BY <1>1, <1>2 DEF FlopsOf, NormsOf, WeightsOf
<1>. QED  BY <1>3, <1>4 DEF Worths

(* Proportions add up.                                                       *)
Proportion(n, a, b, c) == a \in Int /\ b \in Int /\ c \in Int /\ n * a = b + (n - 1) * c

(* Joined proportions, in numbers.                                           *)
LEMMA AddProportions ==
  ASSUME NEW n \in Nat, NEW a, NEW b, NEW c, NEW d, NEW e, NEW f,
         Proportion(n, a, c, e), Proportion(n, b, d, f)
  PROVE  Proportion(n, a + b, c + d, e + f)
<1> USE DEF Proportion
<1>1. \A x, y \in Int : n * (x + y) = n * x + n * y /\ (n - 1) * (x + y) = (n - 1) * x + (n - 1) * y
                        /\ n * x \in Int /\ (n - 1) * x \in Int
  OBVIOUS
<1>2. n * (a + b) = n * a + n * b /\ (n - 1) * (e + f) = (n - 1) * e + (n - 1) * f
  BY <1>1
<1>3. (n - 1) * e \in Int /\ (n - 1) * f \in Int
  BY <1>1
<1>. QED  BY <1>2, <1>3

(* Lists in proportion stay so when they are joined.                         *)
LEMMA JoinInProportion ==
  ASSUME NEW n \in Nat, NEW s, NEW t, NEW u, NEW v, InProportion(n, s, t), InProportion(n, u, v)
  PROVE  InProportion(n, s \o u, t \o v)
<1>1. s \in Seq(LayerRec) /\ t \in Seq(LayerRec) /\ u \in Seq(LayerRec) /\ v \in Seq(LayerRec)
  BY DEF InProportion
<1> DEFINE a == Total(FlopsOf, s)
           b == Total(FlopsOf, u)
           c == Total(FlopsOf, t)
           d == Total(FlopsOf, v)
           e == Total(NormsOf, t)
           f == Total(NormsOf, v)
<1>2. n * a = c + (n - 1) * e /\ n * b = d + (n - 1) * f
  BY DEF InProportion
<1>3. a \in Int /\ b \in Int /\ c \in Int /\ d \in Int /\ e \in Int /\ f \in Int
  BY <1>1, WorthOfLayers, OneMore
<1>4. /\ s \o u \in Seq(LayerRec) /\ t \o v \in Seq(LayerRec)
      /\ Total(FlopsOf, s \o u) = a + b /\ Total(FlopsOf, t \o v) = c + d
      /\ Total(NormsOf, t \o v) = e + f
  BY <1>1, WorthOfLayers, TotalJoin
<1> HIDE DEF a, b, c, d, e, f
<1>5. n * (a + b) = (c + d) + (n - 1) * (e + f)
  BY <1>2, <1>3, AddProportions DEF Proportion
<1>. QED  BY <1>4, <1>5 DEF InProportion

(* A list of one layer, and the empty one.                                   *)
LEMMA FewInProportion ==
  ASSUME NEW n \in Nat
  PROVE  /\ InProportion(n, <<>>, <<>>)
         /\ \A a, b : LayerInProportion(n, a, b) => InProportion(n, <<a>>, <<b>>)
<1>1. InProportion(n, <<>>, <<>>)
  <2>1. Total(FlopsOf, <<>>) = 0 /\ Total(NormsOf, <<>>) = 0
    BY WorthOfLayers, TotalOfFew
  <2>2. <<>> \in Seq(LayerRec)
    OBVIOUS
  <2>. QED  BY <2>1, <2>2 DEF InProportion
<1>2. ASSUME NEW a, NEW b, LayerInProportion(n, a, b) PROVE InProportion(n, <<a>>, <<b>>)
  <2>1. a \in LayerRec /\ b \in LayerRec /\ n * FlopsOf[a] = FlopsOf[b] + (n - 1) * NormsOf[b]
    BY <1>2 DEF LayerInProportion
  <2>2. Total(FlopsOf, <<a>>) = FlopsOf[a] /\ Total(FlopsOf, <<b>>) = FlopsOf[b]
        /\ Total(NormsOf, <<b>>) = NormsOf[b]
    BY <2>1, WorthOfLayers, TotalOfFew
  <2>3. <<a>> \in Seq(LayerRec) /\ <<b>> \in Seq(LayerRec)
    BY <2>1
  <2>. QED  BY <2>1, <2>2, <2>3 DEF InProportion
<1>. QED  BY <1>1, <1>2

(* Lists of two, three and four.                                             *)
LEMMA ListsInProportion ==
  ASSUME NEW n \in Nat, NEW a, NEW b, NEW c, NEW d, NEW e, NEW f, NEW g, NEW h,
         LayerInProportion(n, a, b), LayerInProportion(n, c, d)
  PROVE  /\ InProportion(n, <<a, c>>, <<b, d>>)
         /\ LayerInProportion(n, e, f) => InProportion(n, <<a, c, e>>, <<b, d, f>>)
         /\ LayerInProportion(n, e, f) /\ LayerInProportion(n, g, h) =>
              InProportion(n, <<a, c, e, g>>, <<b, d, f, h>>)
<1>1. LayerInProportion(n, a, b) /\ LayerInProportion(n, c, d)
  OBVIOUS
<1>2. n \in Int /\ n - 1 \in Int
  OBVIOUS
<1>3. InProportion(n, <<a, c>>, <<b, d>>)
  <2>1. a \in LayerRec /\ c \in LayerRec /\ b \in LayerRec /\ d \in LayerRec
    BY <1>1 DEF LayerInProportion
  <2>2. /\ Total(FlopsOf, <<a, c>>) = FlopsOf[a] + FlopsOf[c]
        /\ Total(FlopsOf, <<b, d>>) = FlopsOf[b] + FlopsOf[d]
        /\ Total(NormsOf, <<b, d>>) = NormsOf[b] + NormsOf[d]
    BY <2>1, WorthOfLayers, TotalOfFew
  <2>3. <<a, c>> \in Seq(LayerRec) /\ <<b, d>> \in Seq(LayerRec)
    BY <2>1
  <2>4. /\ Proportion(n, FlopsOf[a], FlopsOf[b], NormsOf[b])
        /\ Proportion(n, FlopsOf[c], FlopsOf[d], NormsOf[d])
    BY <1>1, <2>1, WorthOfLayers DEF LayerInProportion, Proportion
  <2>5. Proportion(n, FlopsOf[a] + FlopsOf[c], FlopsOf[b] + FlopsOf[d], NormsOf[b] + NormsOf[d])
    BY <2>4, AddProportions
  <2>. QED  BY <2>2, <2>3, <2>5 DEF InProportion, Proportion
<1>4. ASSUME LayerInProportion(n, e, f)
      PROVE  InProportion(n, <<a, c, e>>, <<b, d, f>>)
  <2>1. a \in LayerRec /\ c \in LayerRec /\ e \in LayerRec /\ b \in LayerRec /\ d \in LayerRec /\ f \in LayerRec
    BY <1>1, <1>4 DEF LayerInProportion
  <2>2. /\ Total(FlopsOf, <<a, c, e>>) = FlopsOf[a] + FlopsOf[c] + FlopsOf[e]
        /\ Total(FlopsOf, <<b, d, f>>) = FlopsOf[b] + FlopsOf[d] + FlopsOf[f]
        /\ Total(NormsOf, <<b, d, f>>) = NormsOf[b] + NormsOf[d] + NormsOf[f]
    <3>1. /\ \A x, y, z \in LayerRec : Total(FlopsOf, <<x, y, z>>) = FlopsOf[x] + FlopsOf[y] + FlopsOf[z]
          /\ \A x, y, z \in LayerRec : Total(NormsOf, <<x, y, z>>) = NormsOf[x] + NormsOf[y] + NormsOf[z]
      BY WorthOfLayers, TotalOfFew
    <3>. QED  BY <2>1, <3>1
  <2>3. <<a, c, e>> \in Seq(LayerRec) /\ <<b, d, f>> \in Seq(LayerRec)
    BY <2>1
  <2>4. /\ Proportion(n, FlopsOf[a], FlopsOf[b], NormsOf[b])
        /\ Proportion(n, FlopsOf[c], FlopsOf[d], NormsOf[d])
        /\ Proportion(n, FlopsOf[e], FlopsOf[f], NormsOf[f])
    BY <1>1, <1>4, <2>1, WorthOfLayers DEF LayerInProportion, Proportion
  <2>5. Proportion(n, FlopsOf[a] + FlopsOf[c], FlopsOf[b] + FlopsOf[d], NormsOf[b] + NormsOf[d])
    BY <2>4, AddProportions
  <2>6. Proportion(n, FlopsOf[a] + FlopsOf[c] + FlopsOf[e], FlopsOf[b] + FlopsOf[d] + FlopsOf[f], NormsOf[b] + NormsOf[d] + NormsOf[f])
    BY <2>4, <2>5, AddProportions
  <2>. QED  BY <2>2, <2>3, <2>6 DEF InProportion, Proportion
<1>5. ASSUME LayerInProportion(n, e, f), LayerInProportion(n, g, h)
      PROVE  InProportion(n, <<a, c, e, g>>, <<b, d, f, h>>)
  <2>1. a \in LayerRec /\ c \in LayerRec /\ e \in LayerRec /\ g \in LayerRec /\ b \in LayerRec /\ d \in LayerRec /\ f \in LayerRec /\ h \in LayerRec
    BY <1>1, <1>5 DEF LayerInProportion
  <2>2. /\ Total(FlopsOf, <<a, c, e, g>>) = FlopsOf[a] + FlopsOf[c] + FlopsOf[e] + FlopsOf[g]
        /\ Total(FlopsOf, <<b, d, f, h>>) = FlopsOf[b] + FlopsOf[d] + FlopsOf[f] + FlopsOf[h]
        /\ Total(NormsOf, <<b, d, f, h>>) = NormsOf[b] + NormsOf[d] + NormsOf[f] + NormsOf[h]
    BY <2>1, WorthOfLayers, TotalOfFew
  <2>3. <<a, c, e, g>> \in Seq(LayerRec) /\ <<b, d, f, h>> \in Seq(LayerRec)
    BY <2>1
  <2>4. /\ Proportion(n, FlopsOf[a], FlopsOf[b], NormsOf[b])
        /\ Proportion(n, FlopsOf[c], FlopsOf[d], NormsOf[d])
        /\ Proportion(n, FlopsOf[e], FlopsOf[f], NormsOf[f])
        /\ Proportion(n, FlopsOf[g], FlopsOf[h], NormsOf[h])
    BY <1>1, <1>5, <2>1, WorthOfLayers DEF LayerInProportion, Proportion
  <2>5. Proportion(n, FlopsOf[a] + FlopsOf[c], FlopsOf[b] + FlopsOf[d], NormsOf[b] + NormsOf[d])
    BY <2>4, AddProportions
  <2>6. Proportion(n, FlopsOf[a] + FlopsOf[c] + FlopsOf[e], FlopsOf[b] + FlopsOf[d] + FlopsOf[f], NormsOf[b] + NormsOf[d] + NormsOf[f])
    BY <2>4, <2>5, AddProportions
  <2>7. Proportion(n, FlopsOf[a] + FlopsOf[c] + FlopsOf[e] + FlopsOf[g], FlopsOf[b] + FlopsOf[d] + FlopsOf[f] + FlopsOf[h], NormsOf[b] + NormsOf[d] + NormsOf[f] + NormsOf[h])
    BY <2>4, <2>6, AddProportions
  <2>. QED  BY <2>2, <2>3, <2>7 DEF InProportion, Proportion
<1>. QED  BY <1>3, <1>4, <1>5

(* So do the layers of all stages.                                           *)
LEMMA FlattenInProportion ==
  ASSUME NEW n \in Nat, NEW s \in Seq(Seq(LayerRec)), NEW t \in Seq(Seq(LayerRec)), Len(s) = Len(t),
         \A i \in 1..Len(s) : InProportion(n, s[i], t[i])
  PROVE  InProportion(n, FlattenSeq(s), FlattenSeq(t))
<1> DEFINE m == Len(s)
<1>1. m \in Nat
  BY LenProperties
<1>2. CASE m = 0
  <2>1. s = <<>> /\ t = <<>>
    BY <1>2, EmptySeq
  <2>2. FlattenSeq(s) = <<>> /\ FlattenSeq(t) = <<>>
    BY <1>2, <2>1 DEF FlattenSeq
  <2>. QED  BY <2>2, FewInProportion
<1>3. CASE m # 0
  <2>1. PICK f : /\ FlattenSeq(s) = f[m]
                 /\ \A i \in 1..m : f[i] = IF i = 1 THEN s[i] ELSE f[i - 1] \o s[i]
    BY <1>3, FlattenSteps
  <2>2. PICK g : /\ FlattenSeq(t) = g[m]
                 /\ \A i \in 1..m : g[i] = IF i = 1 THEN t[i] ELSE g[i - 1] \o t[i]
    <3>1. Len(t) # 0 /\ Len(t) = m
      BY <1>3
    <3> HIDE DEF m
    <3>2. \E g : /\ FlattenSeq(t) = g[Len(t)]
                 /\ \A i \in 1..Len(t) : g[i] = IF i = 1 THEN t[i] ELSE g[i - 1] \o t[i]
      BY <3>1, FlattenSteps
    <3>. QED  BY <3>1, <3>2
  <2> HIDE DEF m
  <2> DEFINE Good == {k \in Nat : k \in 1..m => InProportion(n, f[k], g[k])}
  <2>3. 0 \in Good
    OBVIOUS
  <2>4. ASSUME NEW k \in Nat, k \in Good PROVE k + 1 \in Good
    <3> SUFFICES ASSUME k + 1 \in 1..m PROVE InProportion(n, f[k + 1], g[k + 1])
      OBVIOUS
    <3>1. InProportion(n, s[k + 1], t[k + 1])
      BY DEF m
    <3>2. CASE k = 0
      <4>1. k + 1 = 1
        BY <3>2
      <4>2. f[k + 1] = s[k + 1] /\ g[k + 1] = t[k + 1]
        BY <2>1, <2>2, <4>1, Zenon
      <4>. QED  BY <3>1, <4>2
    <3>3. CASE k # 0
      <4>1. k \in 1..m /\ k + 1 # 1 /\ (k + 1) - 1 = k
        BY <1>1, <3>3
      <4>2. f[k + 1] = f[k] \o s[k + 1] /\ g[k + 1] = g[k] \o t[k + 1]
        BY <2>1, <2>2, <4>1
      <4>3. InProportion(n, f[k], g[k])
        BY <2>4, <4>1
      <4>. QED  BY <3>1, <4>2, <4>3, JoinInProportion
    <3>. QED  BY <3>2, <3>3
  <2>5. m \in Good /\ m \in 1..m
    <3>1. m \in 1..m
      BY <1>1, <1>3
    <3> HIDE DEF Good
    <3>2. Nat \subseteq Good
      BY <2>3, <2>4, NatInductionSet
    <3>. QED  BY <1>1, <3>1, <3>2
  <2>. QED  BY <2>1, <2>2, <2>5
<1>. QED  BY <1>2, <1>3

(* What the GPUs share without a rest.                                       *)
LEMMA SharedWhole ==
  ASSUME NEW infos \in Models, NEW n \in Shares(infos), infos.heads % n = 0, infos.hdim % n = 0
  PROVE  /\ PerGpu(infos, n) \in Positive /\ HeadsPerGpu(infos, n) \in Positive
         /\ n * PerGpu(infos, n) = infos.hdim /\ n * HeadsPerGpu(infos, n) = infos.heads
         /\ PerGpu(infos, 1) = infos.hdim /\ HeadsPerGpu(infos, 1) = infos.heads
<1>1. n \in Nat \ {0} /\ infos.heads \in Nat /\ infos.hdim \in Nat
  BY Widths DEF Shares, Positive
<1>2. infos.heads = n * (infos.heads \div n) + 0 /\ infos.hdim = n * (infos.hdim \div n) + 0
  BY <1>1, Remainder
<1>3. infos.heads \div n \in Nat /\ infos.hdim \div n \in Nat
  BY <1>1
<1>4. infos.heads \div 1 = infos.heads /\ infos.hdim \div 1 = infos.hdim
  BY <1>1
<1>5. n * (infos.heads \div n) \in Nat /\ n * (infos.hdim \div n) \in Nat
  BY <1>1, <1>3
<1>. QED  BY <1>1, <1>2, <1>4, <1>5, Widths DEF PerGpu, HeadsPerGpu

(* Products of matrices that are shared out.                                 *)
LEMMA ProductsInProportion ==
  ASSUME NEW n \in Nat, NEW infos \in Models, NEW name \in LayerNames, NEW type \in {"FC", "MATMUL"},
         NEW m \in Positive, NEW a \in Positive, NEW b \in Positive, NEW c \in Positive,
         NEW d \in Positive, NEW e \in Positive, NEW f \in Positive,
         n * (a * b * c) = d * e * f
  PROVE  LayerInProportion(n, Layer(infos, name, type, m, a, b, c), Layer(infos, name, type, m, d, e, f))
<1> DEFINE l == Layer(infos, name, type, m, a, b, c)
           k == Layer(infos, name, type, m, d, e, f)
<1>1. l \in LayerRec /\ k \in LayerRec
  BY LayerType DEF LayerTypes
<1>2. /\ l.type = type /\ l.m = m /\ l.n = a /\ l.k = b /\ l.numOp = c
      /\ k.type = type /\ k.m = m /\ k.n = d /\ k.k = e /\ k.numOp = f
  BY FieldsOfLayer
<1> HIDE DEF l, k
<1>3. Flops(l) = 2 * (m * a * c) * b /\ Flops(k) = 2 * (m * d * f) * e
  BY <1>2 DEF Flops
<1>4. FlopsOf[l] = Flops(l) /\ FlopsOf[k] = Flops(k) /\ NormsOf[k] = 0
  BY <1>1, <1>2 DEF FlopsOf, NormsOf
<1>5. n * (2 * (m * a * c) * b) = 2 * (m * d * f) * e
  <2>1. \A x, y, z, u, v \in Int : u * (2 * (v * x * z) * y) = (2 * v) * (u * (x * y * z))
    OBVIOUS
  <2>2. \A x, y, z, v \in Int : 2 * (v * x * z) * y = (2 * v) * (x * y * z)
    OBVIOUS
  <2>3. n * (2 * (m * a * c) * b) = (2 * m) * (n * (a * b * c))
    BY <2>1 DEF Positive
  <2>4. 2 * (m * d * f) * e = (2 * m) * (d * e * f)
    BY <2>2 DEF Positive
  <2>. QED  BY <2>3, <2>4
<1>6. FlopsOf[k] \in Nat /\ (n - 1) * 0 = 0
  BY <1>1, WorthOfLayers
<1>. QED  BY <1>1, <1>3, <1>4, <1>5, <1>6 DEF LayerInProportion, l, k

(* Softmax and activations, element by element.                              *)
LEMMA ElementsInProportion ==
  ASSUME NEW n \in Nat, NEW infos \in Models, NEW name \in LayerNames, NEW type \in {"SOFTMAX", "ACT"},
         NEW m \in Positive, NEW a \in Positive, NEW c \in Positive, NEW d \in Positive, NEW f \in Positive,
         n * (a * c) = d * f
  PROVE  LayerInProportion(n, Layer(infos, name, type, m, a, 1, c), Layer(infos, name, type, m, d, 1, f))
<1> DEFINE l == Layer(infos, name, type, m, a, 1, c)
           k == Layer(infos, name, type, m, d, 1, f)
<1>0. 1 \in Positive
  BY DEF Positive
<1>1. l \in LayerRec /\ k \in LayerRec
  BY <1>0, LayerType DEF LayerTypes
<1>2. /\ l.name = name /\ l.type = type /\ l.m = m /\ l.n = a /\ l.numOp = c
      /\ k.name = name /\ k.type = type /\ k.m = m /\ k.n = d /\ k.numOp = f
  BY FieldsOfLayer
<1> HIDE DEF l, k
<1>3. \E q \in {1, 5, 8, 9} : Flops(l) = q * (m * a * c) /\ Flops(k) = q * (m * d * f)
  <2>1. m * a * c \in Nat /\ m * d * f \in Nat
    BY TimesType DEF Positive
  <2>2. CASE type = "SOFTMAX"
    BY <1>2, <2>2 DEF Flops
  <2>3. CASE type = "ACT"
    <3> DEFINE q == CASE name = "relu" -> 1 [] name = "glu" -> 9 [] OTHER -> 8
    <3>1. Flops(l) = (m * a * c) * q /\ Flops(k) = (m * d * f) * q
      BY <1>2, <2>3 DEF Flops
    <3>2. q \in {1, 5, 8, 9}
      OBVIOUS
    <3> HIDE DEF q
    <3>3. (m * a * c) * q = q * (m * a * c) /\ (m * d * f) * q = q * (m * d * f)
      BY <2>1, <3>2
    <3>. QED  BY <3>1, <3>2, <3>3
  <2>. QED  BY <2>2, <2>3
<1>4. PICK q \in {1, 5, 8, 9} : Flops(l) = q * (m * a * c) /\ Flops(k) = q * (m * d * f)
  BY <1>3
<1>5. FlopsOf[l] = Flops(l) /\ FlopsOf[k] = Flops(k) /\ NormsOf[k] = 0
  BY <1>1, <1>2 DEF FlopsOf, NormsOf
<1>6. n * (q * (m * a * c)) = q * (m * d * f)
  <2>1. \A x, z, u, v, w \in Int : u * (w * (v * x * z)) = (w * v) * (u * (x * z))
    OBVIOUS
  <2>2. \A x, z, v, w \in Int : w * (v * x * z) = (w * v) * (x * z)
    OBVIOUS
  <2>3. n * (q * (m * a * c)) = (q * m) * (n * (a * c))
    BY <2>1 DEF Positive
  <2>4. q * (m * d * f) = (q * m) * (d * f)
    BY <2>2 DEF Positive
  <2>. QED  BY <2>3, <2>4
<1>7. FlopsOf[k] \in Nat /\ (n - 1) * 0 = 0
  BY <1>1, WorthOfLayers
<1>. QED  BY <1>1, <1>4, <1>5, <1>6, <1>7 DEF LayerInProportion, l, k

(* Transfers compute nothing, and every GPU computes the norms.              *)
LEMMA OthersInProportion ==
  ASSUME NEW n \in Nat, NEW l \in LayerRec, NEW k \in LayerRec
  PROVE  /\ IsCommunication(l) /\ IsCommunication(k) => LayerInProportion(n, l, k)
         /\ l.type = "NORM" => LayerInProportion(n, l, l)
<1>1. \A x \in Int : n * x = x + (n - 1) * x
  OBVIOUS
<1>2. FlopsOf[l] = Flops(l) /\ FlopsOf[k] = Flops(k)
  BY DEF FlopsOf
<1>3. ASSUME IsCommunication(l), IsCommunication(k) PROVE LayerInProportion(n, l, k)
  <2>1. Flops(l) = 0 /\ Flops(k) = 0
    BY <1>3 DEF IsCommunication, Flops
  <2>2. NormsOf[k] = 0
    BY <1>3 DEF NormsOf, IsCommunication
  <2>. QED  BY <1>1, <1>2, <2>1, <2>2 DEF LayerInProportion
<1>4. ASSUME l.type = "NORM" PROVE LayerInProportion(n, l, l)
  <2>1. NormsOf[l] = FlopsOf[l] /\ FlopsOf[l] \in Nat
    BY <1>2, <1>4, WorthOfLayers DEF NormsOf
  <2>2. n * FlopsOf[l] = FlopsOf[l] + (n - 1) * FlopsOf[l]
    BY <1>1, <2>1
  <2>. QED  BY <2>1, <2>2 DEF LayerInProportion
<1>. QED  BY <1>3, <1>4

(* The lists that a decoder is made of.                                      *)
LEMMA PartsInProportion ==
  ASSUME NEW infos \in Models, NEW n \in Shares(infos), infos.heads % n = 0, infos.hdim % n = 0,
         NEW batch \in Positive, NEW rows \in Positive, NEW q \in Positive, NEW kv \in Positive
  PROVE  /\ InProportion(n, Projection(infos, n, rows), Projection(infos, 1, rows))
         /\ InProportion(n, Attention(infos, q, kv, HeadsPerGpu(infos, n) * batch),
                            Attention(infos, q, kv, HeadsPerGpu(infos, 1) * batch))
         /\ InProportion(n, Output(infos, n, rows), Output(infos, 1, rows))
         /\ InProportion(n, FeedForward(infos, n, rows), FeedForward(infos, 1, rows))
         /\ InProportion(n, Closing(infos, rows), Closing(infos, rows))
<1> DEFINE P == PerGpu(infos, n)
           H == HeadsPerGpu(infos, n)
           w == infos.hdim
           h == infos.heads
           x == HeadDim(infos)
           ff == infos.ff
<1>1. /\ P \in Positive /\ H \in Positive /\ n * P = w /\ n * H = h
      /\ PerGpu(infos, 1) = w /\ HeadsPerGpu(infos, 1) = h
      /\ w \in Positive /\ h \in Positive /\ x \in Positive /\ ff \in Positive
      /\ n \in Nat /\ 1 \in Positive /\ 3 \in Positive
  BY SharedWhole, Widths DEF Shares, Positive
<1>2. /\ "FC" \in {"FC", "MATMUL"} /\ "MATMUL" \in {"FC", "MATMUL"} /\ "ACT" \in {"SOFTMAX", "ACT"}
      /\ "SOFTMAX" \in {"SOFTMAX", "ACT"}
      /\ "qkv" \in LayerNames /\ "score" \in LayerNames /\ "softmax" \in LayerNames
      /\ "context" \in LayerNames /\ "proj" \in LayerNames /\ "comm_g2g" \in LayerNames
      /\ "norm1" \in LayerNames /\ "norm2" \in LayerNames
      /\ "ff1" \in LayerNames /\ "ff2" \in LayerNames /\ "ff3" \in LayerNames
      /\ "glu" \in LayerNames /\ "relu" \in LayerNames /\ "gelu" \in LayerNames
      /\ "G2G" \in LayerTypes /\ "NORM" \in LayerTypes
  BY DEF LayerNames, LayerTypes
<1> HIDE DEF P, H, w, h, x, ff
<1>3. /\ P \in Nat /\ H \in Nat /\ w \in Nat /\ h \in Nat /\ x \in Nat /\ ff \in Nat /\ batch \in Nat
      /\ kv \in Nat /\ q \in Nat
  BY <1>1 DEF Positive
<1>4. /\ 3 * P \in Positive /\ 3 * w \in Positive /\ H * batch \in Positive /\ h * batch \in Positive
      /\ ff * P \in Positive /\ ff * w \in Positive
  BY <1>1, TimesType
<1>5. InProportion(n, Projection(infos, n, rows), Projection(infos, 1, rows))
  <2>1. n * (3 * P * w * 1) = 3 * w * w * 1
    <3>1. \A a, b, c \in Int : a * (3 * b * c * 1) = 3 * (a * b) * c * 1
      OBVIOUS
    <3>. QED  BY <1>1, <1>3, <3>1
  <2>2. LayerInProportion(n, Layer(infos, "qkv", "FC", rows, 3 * P, w, 1),
                             Layer(infos, "qkv", "FC", rows, 3 * w, w, 1))
    BY <1>1, <1>2, <1>4, <2>1, ProductsInProportion
  <2>3. /\ Projection(infos, n, rows) = <<Layer(infos, "qkv", "FC", rows, 3 * P, w, 1)>>
        /\ Projection(infos, 1, rows) = <<Layer(infos, "qkv", "FC", rows, 3 * w, w, 1)>>
    BY <1>1 DEF Projection, P, w
  <2>. QED  BY <1>1, <2>2, <2>3, FewInProportion
<1>6. InProportion(n, Attention(infos, q, kv, H * batch), Attention(infos, q, kv, h * batch))
  <2> DEFINE score(o) == Layer(infos, "score", "MATMUL", q, kv, x, o)
             softmax(o) == Layer(infos, "softmax", "SOFTMAX", q, kv, 1, o)
             context(o) == Layer(infos, "context", "MATMUL", q, x, kv, o)
             A == H * batch
             B == h * batch
  <2>1. n * (kv * x * A) = kv * x * B /\ n * (kv * A) = kv * B /\ n * (x * kv * A) = x * kv * B
    <3>1. \A a, b, c, d, e \in Int :
            /\ a * (d * e * (b * c)) = d * e * ((a * b) * c)
            /\ a * (d * (b * c)) = d * ((a * b) * c)
      OBVIOUS
    <3>2. kv \in Int /\ x \in Int /\ H \in Int /\ batch \in Int /\ n \in Int
      BY <1>1, <1>3
    <3>3. /\ n * (kv * x * (H * batch)) = kv * x * ((n * H) * batch)
          /\ n * (kv * (H * batch)) = kv * ((n * H) * batch)
          /\ n * (x * kv * (H * batch)) = x * kv * ((n * H) * batch)
      BY <3>1, <3>2
    <3>. QED  BY <1>1, <3>3
  <2>2. A \in Positive /\ B \in Positive
    BY <1>4
  <2> HIDE DEF A, B
  <2>3. LayerInProportion(n, score(A), score(B))
    BY <1>1, <1>2, <2>1, <2>2, ProductsInProportion
  <2>4. LayerInProportion(n, softmax(A), softmax(B))
    BY <1>1, <1>2, <2>1, <2>2, ElementsInProportion
  <2>5. LayerInProportion(n, context(A), context(B))
    BY <1>1, <1>2, <2>1, <2>2, ProductsInProportion
  <2>6. /\ Attention(infos, q, kv, A) = <<score(A), softmax(A), context(A)>>
        /\ Attention(infos, q, kv, B) = <<score(B), softmax(B), context(B)>>
    BY DEF Attention, x
  <2> HIDE DEF score, softmax, context
  <2>7. InProportion(n, Attention(infos, q, kv, A), Attention(infos, q, kv, B))
    BY <1>1, <2>3, <2>4, <2>5, <2>6, ListsInProportion
  <2>. QED  BY <2>7 DEF A, B
<1> DEFINE comm == Layer(infos, "comm_g2g", "G2G", rows, w, 1, 1)
           norm1 == Layer(infos, "norm1", "NORM", rows, w, 1, 1)
           norm2 == Layer(infos, "norm2", "NORM", rows, w, 1, 1)
<1>7. /\ LayerInProportion(n, comm, comm) /\ LayerInProportion(n, norm1, norm1)
      /\ LayerInProportion(n, norm2, norm2)
  <2>1. comm \in LayerRec /\ norm1 \in LayerRec /\ norm2 \in LayerRec
    BY <1>1, <1>2, LayerType
  <2>2. IsCommunication(comm) /\ norm1.type = "NORM" /\ norm2.type = "NORM"
    BY FieldsOfLayer DEF IsCommunication
  <2> HIDE DEF comm, norm1, norm2
  <2>. QED  BY <1>1, <2>1, <2>2, OthersInProportion
<1>8. InProportion(n, Output(infos, n, rows), Output(infos, 1, rows))
  <2> DEFINE proj(k) == Layer(infos, "proj", "FC", rows, w, k, 1)
  <2>1. n * (w * P * 1) = w * w * 1
    <3>1. \A a, b, c \in Int : a * (c * b * 1) = c * (a * b) * 1
      OBVIOUS
    <3>. QED  BY <1>1, <1>3, <3>1
  <2>2. LayerInProportion(n, proj(P), proj(w))
    BY <1>1, <1>2, <2>1, ProductsInProportion
  <2>3. /\ Output(infos, n, rows) = <<proj(P), comm, norm1>>
        /\ Output(infos, 1, rows) = <<proj(w), comm, norm1>>
    BY <1>1 DEF Output, P, w
  <2> HIDE DEF proj, comm, norm1
  <2>. QED  BY <1>1, <1>7, <2>2, <2>3, ListsInProportion
<1>9. InProportion(n, Closing(infos, rows), Closing(infos, rows))
  <2>1. Closing(infos, rows) = <<comm, norm2>>
    BY DEF Closing, w
  <2> HIDE DEF comm, norm2
  <2>. QED  BY <1>1, <1>7, <2>1, ListsInProportion
<1>10. InProportion(n, FeedForward(infos, n, rows), FeedForward(infos, 1, rows))
  <2> DEFINE up(name, k) == Layer(infos, name, "FC", rows, k, w, 1)
             act(name, k) == Layer(infos, name, "ACT", rows, k, 1, 1)
             down(name, k) == Layer(infos, name, "FC", rows, w, k, 1)
             A == ff * P
             B == ff * w
  <2>1. /\ n * (A * w * 1) = B * w * 1 /\ n * (A * 1) = B * 1 /\ n * (w * A * 1) = w * B * 1
    <3>1. \A a, b, c, d \in Int : /\ a * ((c * b) * d * 1) = (c * (a * b)) * d * 1
                                  /\ a * ((c * b) * 1) = (c * (a * b)) * 1
                                  /\ a * (d * (c * b) * 1) = d * (c * (a * b)) * 1
      OBVIOUS
    <3>2. n \in Int /\ ff \in Int /\ P \in Int /\ w \in Int
      BY <1>1, <1>3
    <3>3. /\ n * ((ff * P) * w * 1) = (ff * (n * P)) * w * 1
          /\ n * ((ff * P) * 1) = (ff * (n * P)) * 1
          /\ n * (w * (ff * P) * 1) = w * (ff * (n * P)) * 1
      BY <3>1, <3>2
    <3>. QED  BY <1>1, <3>3
  <2>2. A \in Positive /\ B \in Positive
    BY <1>4
  <2>3. /\ FeedForward(infos, n, rows) =
             CASE infos.kind = "LLAMA" -> <<up("ff1", A), up("ff2", A), act("glu", A), down("ff3", A)>>
               [] infos.kind = "OPT" -> <<up("ff1", A), act("relu", A), down("ff2", A)>>
               [] OTHER -> <<up("ff1", A), act("gelu", A), down("ff2", A)>>
        /\ FeedForward(infos, 1, rows) =
             CASE infos.kind = "LLAMA" -> <<up("ff1", B), up("ff2", B), act("glu", B), down("ff3", B)>>
               [] infos.kind = "OPT" -> <<up("ff1", B), act("relu", B), down("ff2", B)>>
               [] OTHER -> <<up("ff1", B), act("gelu", B), down("ff2", B)>>
    BY <1>1 DEF FeedForward, P, w, ff
  <2> HIDE DEF A, B
  <2>4. \A name \in LayerNames : LayerInProportion(n, up(name, A), up(name, B))
    BY <1>1, <1>2, <2>1, <2>2, ProductsInProportion
  <2>5. \A name \in LayerNames : LayerInProportion(n, down(name, A), down(name, B))
    BY <1>1, <1>2, <2>1, <2>2, ProductsInProportion
  <2>6. \A name \in LayerNames : LayerInProportion(n, act(name, A), act(name, B))
    BY <1>1, <1>2, <2>1, <2>2, ElementsInProportion
  <2> HIDE DEF up, act, down
  <2>7. InProportion(n, <<up("ff1", A), up("ff2", A), act("glu", A), down("ff3", A)>>,
                        <<up("ff1", B), up("ff2", B), act("glu", B), down("ff3", B)>>)
    BY <1>1, <1>2, <2>4, <2>5, <2>6, ListsInProportion
  <2>8. InProportion(n, <<up("ff1", A), act("relu", A), down("ff2", A)>>,
                        <<up("ff1", B), act("relu", B), down("ff2", B)>>)
    BY <1>1, <1>2, <2>4, <2>5, <2>6, ListsInProportion
  <2>9. InProportion(n, <<up("ff1", A), act("gelu", A), down("ff2", A)>>,
                        <<up("ff1", B), act("gelu", B), down("ff2", B)>>)
    BY <1>1, <1>2, <2>4, <2>5, <2>6, ListsInProportion
  <2>10. CASE infos.kind = "LLAMA"
    BY <2>3, <2>7, <2>10
  <2>11. CASE infos.kind = "OPT"
    BY <2>3, <2>8, <2>11
  <2>12. CASE infos.kind # "LLAMA" /\ infos.kind # "OPT"
    BY <2>3, <2>9, <2>12
  <2>. QED  BY <2>10, <2>11, <2>12
<1>. QED  BY <1>1, <1>5, <1>6, <1>8, <1>9, <1>10 DEF H

(* Whole decoders, with the transfers between their parts.                    *)
LEMMA DecoderInProportion ==
  ASSUME NEW infos \in Models, NEW n \in Shares(infos), infos.heads % n = 0, infos.hdim % n = 0,
         NEW batch \in Positive, NEW rows \in Positive, NEW q \in Positive, NEW kv \in Positive,
         NEW s, NEW t, NEW u, NEW v, InProportion(n, s, t), InProportion(n, u, v)
  PROVE  InProportion(n, Decoder(infos, n, batch, rows, q, kv, s, u),
                         Decoder(infos, 1, batch, rows, q, kv, t, v))
<1> DEFINE a(p) == Projection(infos, p, rows)
           b(p) == Attention(infos, q, kv, HeadsPerGpu(infos, p) * batch)
           c(p) == Output(infos, p, rows)
           d(p) == FeedForward(infos, p, rows)
           e == Closing(infos, rows)
<1>1. /\ Decoder(infos, n, batch, rows, q, kv, s, u) = a(n) \o s \o b(n) \o u \o c(n) \o d(n) \o e
      /\ Decoder(infos, 1, batch, rows, q, kv, t, v) = a(1) \o t \o b(1) \o v \o c(1) \o d(1) \o e
  BY DEF Decoder, Projection, Attention, Output, Closing
<1>2. /\ InProportion(n, a(n), a(1)) /\ InProportion(n, b(n), b(1)) /\ InProportion(n, c(n), c(1))
      /\ InProportion(n, d(n), d(1)) /\ InProportion(n, e, e)
  BY PartsInProportion
<1>3. n \in Nat
  BY DEF Shares, Positive
<1> HIDE DEF a, b, c, d, e
<1>4. InProportion(n, a(n) \o s, a(1) \o t)
  BY <1>2, <1>3, JoinInProportion
<1>5. InProportion(n, a(n) \o s \o b(n), a(1) \o t \o b(1))
  BY <1>2, <1>3, <1>4, JoinInProportion
<1>6. InProportion(n, a(n) \o s \o b(n) \o u, a(1) \o t \o b(1) \o v)
  BY <1>3, <1>5, JoinInProportion
<1>7. InProportion(n, a(n) \o s \o b(n) \o u \o c(n), a(1) \o t \o b(1) \o v \o c(1))
  BY <1>2, <1>3, <1>6, JoinInProportion
<1>8. InProportion(n, a(n) \o s \o b(n) \o u \o c(n) \o d(n), a(1) \o t \o b(1) \o v \o c(1) \o d(1))
  BY <1>2, <1>3, <1>7, JoinInProportion
<1>9. InProportion(n, a(n) \o s \o b(n) \o u \o c(n) \o d(n) \o e,
                      a(1) \o t \o b(1) \o v \o c(1) \o d(1) \o e)
  BY <1>2, <1>3, <1>8, JoinInProportion
<1>. QED  BY <1>1, <1>9

(* The decoder of the prompt and those of the generated tokens.              *)
LEMMA DecodersInProportion ==
  ASSUME NEW infos \in Models, NEW n \in Shares(infos), infos.heads % n = 0, infos.hdim % n = 0,
         NEW c \in Calls, NEW remote \in BOOLEAN
  PROVE  /\ InProportion(n, SumDecoder(infos, n, c.batch, c.lin, remote),
                            SumDecoder(infos, 1, c.batch, c.lin, remote))
         /\ InProportion(n, FlattenSeq(GenDecoders(infos, n, c.batch, c.lin, c.lout, remote)),
                            FlattenSeq(GenDecoders(infos, 1, c.batch, c.lin, c.lout, remote)))
<1>1. /\ c.batch \in Positive /\ c.lin \in Positive /\ c.lout \in Nat /\ c.batch * c.lin \in Positive
      /\ 1 \in Positive
  BY SimulationAssumption, TimesType DEF Positive
<1>2. n \in Nat /\ n \in Shares(infos) /\ 1 \in Shares(infos)
  BY GpusShare DEF Shares, Positive
<1>3. ASSUME NEW m \in Positive, NEW w \in Positive, NEW x \in Positive,
             NEW y \in Positive, NEW z \in Positive
      PROVE  InProportion(n, IF remote THEN <<X2G(infos, m, w, x)>> ELSE <<>>,
                             IF remote THEN <<X2G(infos, m, y, z)>> ELSE <<>>)
  <2>1. X2G(infos, m, w, x) \in LayerRec /\ X2G(infos, m, y, z) \in LayerRec
    <3>1. "X2G" \in LayerTypes /\ "comm_x2g" \in LayerNames
      BY DEF LayerTypes, LayerNames
    <3>. QED  BY <1>1, <3>1, LayerType DEF X2G
  <2>2. IsCommunication(X2G(infos, m, w, x)) /\ IsCommunication(X2G(infos, m, y, z))
    BY FieldsOfLayer DEF X2G, IsCommunication
  <2>3. LayerInProportion(n, X2G(infos, m, w, x), X2G(infos, m, y, z))
    BY <1>2, <2>1, <2>2, OthersInProportion
  <2>4. /\ InProportion(n, <<>>, <<>>)
        /\ InProportion(n, <<X2G(infos, m, w, x)>>, <<X2G(infos, m, y, z)>>)
    BY <1>2, <2>3, FewInProportion
  <2>. QED  BY <2>4
<1>4. ASSUME NEW p \in Shares(infos)
      PROVE  /\ 2 * PerGpu(infos, p) \in Positive /\ 3 * PerGpu(infos, p) \in Positive
             /\ HeadDim(infos) \in Positive /\ HeadsPerGpu(infos, p) * c.batch \in Positive
  <2>1. 2 \in Positive /\ 3 \in Positive
    BY DEF Positive
  <2>. QED  BY <1>1, <2>1, Widths, TimesType
<1> DEFINE first(p, m, w) == IF remote THEN <<X2G(infos, m, w * PerGpu(infos, p), 1)>> ELSE <<>>
           last(p) == IF remote THEN <<X2G(infos, 1, HeadDim(infos), HeadsPerGpu(infos, p) * c.batch)>>
                      ELSE <<>>
           none == <<>>
<1>5. /\ InProportion(n, first(n, c.batch * c.lin, 2), first(1, c.batch * c.lin, 2))
      /\ InProportion(n, first(n, c.batch, 3), first(1, c.batch, 3))
      /\ InProportion(n, last(n), last(1)) /\ InProportion(n, none, none)
  <2>1. InProportion(n, none, none)
    BY <1>2, FewInProportion
  <2>2. InProportion(n, last(n), last(1))
    BY <1>1, <1>2, <1>3, <1>4
  <2>3. InProportion(n, first(n, c.batch * c.lin, 2), first(1, c.batch * c.lin, 2))
    BY <1>1, <1>2, <1>3, <1>4
  <2>4. InProportion(n, first(n, c.batch, 3), first(1, c.batch, 3))
    BY <1>1, <1>2, <1>3, <1>4
  <2>. QED  BY <2>1, <2>2, <2>3, <2>4
<1>6. \A p : /\ SumDecoder(infos, p, c.batch, c.lin, remote)
                  = Decoder(infos, p, c.batch, c.batch * c.lin, c.lin, c.lin,
                            first(p, c.batch * c.lin, 2), none)
             /\ \A stage : GenDecoder(infos, p, c.batch, c.lin, stage, remote)
                  = Decoder(infos, p, c.batch, c.batch, 1, c.lin + stage, first(p, c.batch, 3), last(p))
  BY DEF SumDecoder, GenDecoder
<1> HIDE DEF first, last, none
<1>7. InProportion(n, SumDecoder(infos, n, c.batch, c.lin, remote),
                      SumDecoder(infos, 1, c.batch, c.lin, remote))
  BY <1>1, <1>5, <1>6, DecoderInProportion
<1> DEFINE g(p) == GenDecoders(infos, p, c.batch, c.lin, c.lout, remote)
<1>8. ASSUME NEW stage \in 1..(c.lout - 1) PROVE InProportion(n, g(n)[stage], g(1)[stage])
  <2>1. /\ g(n)[stage] = GenDecoder(infos, n, c.batch, c.lin, stage, remote)
        /\ g(1)[stage] = GenDecoder(infos, 1, c.batch, c.lin, stage, remote)
    BY DEF GenDecoders
  <2>2. c.lin + stage \in Positive
    BY <1>1 DEF Positive
  <2>3. InProportion(n, GenDecoder(infos, n, c.batch, c.lin, stage, remote),
                        GenDecoder(infos, 1, c.batch, c.lin, stage, remote))
    BY <1>1, <1>5, <1>6, <2>2, DecoderInProportion
  <2> HIDE DEF g
  <2>. QED  BY <2>1, <2>3
<1>9. /\ g(n) \in Seq(Seq(LayerRec)) /\ g(1) \in Seq(Seq(LayerRec))
      /\ Len(g(n)) = Len(g(1)) /\ 1..Len(g(n)) = 1..(c.lout - 1)
  <2>1. g(n) \in Seq(Seq(LayerRec)) /\ g(1) \in Seq(Seq(LayerRec))
    BY <1>2, DecodersType
  <2>2. DOMAIN g(n) = 1..(c.lout - 1) /\ DOMAIN g(1) = 1..(c.lout - 1)
    BY DEF GenDecoders
  <2> HIDE DEF g
  <2>3. DOMAIN g(n) = 1..Len(g(n)) /\ DOMAIN g(1) = 1..Len(g(1)) /\ Len(g(n)) \in Nat /\ Len(g(1)) \in Nat
    BY <2>1, LenProperties
  <2>4. \A a, b \in Nat : 1..a = 1..b => a = b
    OBVIOUS
  <2>. QED  BY <2>1, <2>2, <2>3, <2>4
<1>10. InProportion(n, FlattenSeq(g(n)), FlattenSeq(g(1)))
  <2> HIDE DEF g
  <2>. QED  BY <1>2, <1>8, <1>9, FlattenInProportion
<1>. QED  BY <1>7, <1>10

---------------------------------------------------------------------------
(* The weights of the layers of a decoder, and its attention score.           *)

(* The weights of one layer.                                                 *)
LEMMA WeightOfLayer ==
  ASSUME NEW infos \in Models, NEW name \in LayerNames, NEW type \in LayerTypes,
         NEW m \in Positive, NEW a \in Positive, NEW b \in Positive, NEW numOp \in Positive
  PROVE  /\ Layer(infos, name, type, m, a, b, numOp) \in LayerRec
         /\ type = "FC" => WeightsOf[Layer(infos, name, type, m, a, b, numOp)] = a * b * infos.dbyte
         /\ type # "FC" => WeightsOf[Layer(infos, name, type, m, a, b, numOp)] = 0
<1> DEFINE l == Layer(infos, name, type, m, a, b, numOp)
<1>1. l \in LayerRec
  BY LayerType
<1>2. l.type = type /\ l.n = a /\ l.k = b /\ l.dbyte = infos.dbyte
  BY FieldsOfLayer
<1> HIDE DEF l
<1>3. WeightsOf[l] = IF l.type = "FC" THEN l.n * l.k * l.dbyte ELSE 0
  BY <1>1 DEF WeightsOf
<1>4. l \in LayerRec /\ (type = "FC" => WeightsOf[l] = a * b * infos.dbyte) /\ (type # "FC" => WeightsOf[l] = 0)
  BY <1>1, <1>2, <1>3
<1>. QED  BY <1>4 DEF l

(* The weights of the parts.                                                 *)
LEMMA WeightsOfParts ==
  ASSUME NEW infos \in Models, NEW n \in Shares(infos),
         NEW batch \in Positive, NEW rows \in Positive, NEW q \in Positive, NEW kv \in Positive
  PROVE  LET P == PerGpu(infos, n)
             w == infos.hdim
             d == infos.dbyte
         IN /\ Total(WeightsOf, Projection(infos, n, rows)) = 3 * P * w * d
            /\ Total(WeightsOf, Attention(infos, q, kv, HeadsPerGpu(infos, n) * batch)) = 0
            /\ Total(WeightsOf, Output(infos, n, rows)) = w * P * d
            /\ Total(WeightsOf, FeedForward(infos, n, rows))
                 = (IF infos.kind = "LLAMA" THEN 3 ELSE 2) * (infos.ff * P * w * d)
            /\ Total(WeightsOf, Closing(infos, rows)) = 0
<1> DEFINE P == PerGpu(infos, n)
           H == HeadsPerGpu(infos, n)
           w == infos.hdim
           x == HeadDim(infos)
           ff == infos.ff
           dd == infos.dbyte
<1>1. /\ P \in Positive /\ H \in Positive /\ w \in Positive /\ x \in Positive /\ ff \in Positive
      /\ dd \in {1, 2} /\ 1 \in Positive /\ 3 \in Positive
  BY Widths DEF Positive
<1>2. /\ "qkv" \in LayerNames /\ "score" \in LayerNames /\ "softmax" \in LayerNames
      /\ "context" \in LayerNames /\ "proj" \in LayerNames /\ "comm_g2g" \in LayerNames
      /\ "norm1" \in LayerNames /\ "norm2" \in LayerNames
      /\ "ff1" \in LayerNames /\ "ff2" \in LayerNames /\ "ff3" \in LayerNames
      /\ "glu" \in LayerNames /\ "relu" \in LayerNames /\ "gelu" \in LayerNames
      /\ "G2G" \in LayerTypes /\ "NORM" \in LayerTypes /\ "FC" \in LayerTypes /\ "MATMUL" \in LayerTypes
      /\ "ACT" \in LayerTypes /\ "SOFTMAX" \in LayerTypes
  BY DEF LayerNames, LayerTypes
<1> HIDE DEF P, H, w, x, ff, dd
<1>3. 3 * P \in Positive /\ H * batch \in Positive /\ ff * P \in Positive
  BY <1>1, TimesType
<1>4. ASSUME NEW name \in LayerNames, NEW m \in Positive, NEW a \in Positive,
             NEW b \in Positive, NEW c \in Positive
      PROVE  /\ Layer(infos, name, "FC", m, a, b, c) \in LayerRec
             /\ WeightsOf[Layer(infos, name, "FC", m, a, b, c)] = a * b * dd
  <2> DEFINE type == "FC"
  <2>1. type \in LayerTypes /\ type = "FC"
    BY <1>2
  <2> HIDE DEF type
  <2>2. /\ Layer(infos, name, type, m, a, b, c) \in LayerRec
        /\ WeightsOf[Layer(infos, name, type, m, a, b, c)] = a * b * infos.dbyte
    BY <2>1, WeightOfLayer
  <2>. QED  BY <2>1, <2>2 DEF dd
<1>5. ASSUME NEW name \in LayerNames, NEW type \in LayerTypes \ {"FC"}, NEW m \in Positive,
              NEW a \in Positive, NEW b \in Positive, NEW c \in Positive
       PROVE  /\ Layer(infos, name, type, m, a, b, c) \in LayerRec
              /\ WeightsOf[Layer(infos, name, type, m, a, b, c)] = 0
  BY WeightOfLayer
<1>6. {"MATMUL", "SOFTMAX", "G2G", "NORM", "ACT"} \subseteq LayerTypes \ {"FC"}
  BY DEF LayerTypes
<1>7. "G2G" \in LayerTypes \ {"FC"} /\ "NORM" \in LayerTypes \ {"FC"} /\ "ACT" \in LayerTypes \ {"FC"}
  BY <1>6
<1>8. "MATMUL" \in LayerTypes \ {"FC"} /\ "SOFTMAX" \in LayerTypes \ {"FC"}
  BY <1>6
<1>9. P \in Positive /\ H \in Positive /\ w \in Positive /\ x \in Positive /\ 1 \in Positive
  BY <1>1
<1>10. ASSUME NEW name \in LayerNames, NEW type \in LayerTypes \ {"FC"}, NEW a \in Positive
       PROVE  /\ Layer(infos, name, type, rows, a, 1, 1) \in LayerRec
              /\ WeightsOf[Layer(infos, name, type, rows, a, 1, 1)] = 0
  <2>1. 1 \in Positive /\ rows \in Positive
    BY <1>9
  <2> DEFINE one == 1
  <2>2. one \in Positive
    BY <2>1
  <2> HIDE DEF one
  <2>3. /\ Layer(infos, name, type, rows, a, one, one) \in LayerRec
        /\ WeightsOf[Layer(infos, name, type, rows, a, one, one)] = 0
    BY <2>1, <2>2, <1>5
  <2>. QED  BY <2>3 DEF one
<1>11. ASSUME NEW name \in LayerNames, NEW a \in Positive, NEW b \in Positive
       PROVE  /\ Layer(infos, name, "FC", rows, a, b, 1) \in LayerRec
              /\ WeightsOf[Layer(infos, name, "FC", rows, a, b, 1)] = a * b * dd
  BY <1>9, <1>4
<1>12. Total(WeightsOf, Projection(infos, n, rows)) = 3 * P * w * dd
  <2> DEFINE l == Layer(infos, "qkv", "FC", rows, 3 * P, w, 1)
  <2>1. l \in LayerRec /\ WeightsOf[l] = (3 * P) * w * dd
    <3>1. "qkv" \in LayerNames /\ rows \in Positive /\ 3 * P \in Positive /\ w \in Positive /\ 1 \in Positive
      BY <1>1, <1>2, <1>3
    <3> HIDE DEF l
    <3>2. Layer(infos, "qkv", "FC", rows, 3 * P, w, 1) \in LayerRec
          /\ WeightsOf[Layer(infos, "qkv", "FC", rows, 3 * P, w, 1)] = (3 * P) * w * dd
      BY <3>1, <1>4
    <3>. QED  BY <3>2 DEF l
  <2>2. Projection(infos, n, rows) = <<l>>
    BY DEF Projection, P, w
  <2> HIDE DEF l
  <2>. QED  BY <2>1, <2>2, WorthOfLayers, TotalOfFew
<1>13. Total(WeightsOf, Attention(infos, q, kv, H * batch)) = 0
  <2> DEFINE o == H * batch
             a == Layer(infos, "score", "MATMUL", q, kv, x, o)
             b == Layer(infos, "softmax", "SOFTMAX", q, kv, 1, o)
             c == Layer(infos, "context", "MATMUL", q, x, kv, o)
  <2>1. o \in Positive
    BY <1>3
  <2> HIDE DEF o
  <2>2. a \in LayerRec /\ b \in LayerRec /\ c \in LayerRec
        /\ WeightsOf[a] = 0 /\ WeightsOf[b] = 0 /\ WeightsOf[c] = 0
    <3> DEFINE matmul == "MATMUL"
               softmax == "SOFTMAX"
               one == 1
               score == "score"
               smax == "softmax"
               context == "context"
    <3>1. /\ matmul \in LayerTypes \ {"FC"} /\ softmax \in LayerTypes \ {"FC"} /\ one \in Positive
          /\ score \in LayerNames /\ smax \in LayerNames /\ context \in LayerNames /\ x \in Positive
      BY <1>2, <1>8, <1>9
    <3> HIDE DEF matmul, softmax, one, score, smax, context
    <3>2. /\ Layer(infos, score, matmul, q, kv, x, o) \in LayerRec
          /\ WeightsOf[Layer(infos, score, matmul, q, kv, x, o)] = 0
      BY <3>1, <2>1, <1>5
    <3>3. /\ Layer(infos, smax, softmax, q, kv, one, o) \in LayerRec
          /\ WeightsOf[Layer(infos, smax, softmax, q, kv, one, o)] = 0
      BY <3>1, <2>1, <1>5
    <3>4. /\ Layer(infos, context, matmul, q, x, kv, o) \in LayerRec
          /\ WeightsOf[Layer(infos, context, matmul, q, x, kv, o)] = 0
      BY <3>1, <2>1, <1>5
    <3>. QED  BY <3>2, <3>3, <3>4 DEF matmul, softmax, one, score, smax, context
  <2>3. Attention(infos, q, kv, o) = <<a, b, c>>
    BY DEF Attention, x
  <2> HIDE DEF a, b, c
  <2>4. Total(WeightsOf, Attention(infos, q, kv, o)) = 0
    BY <2>2, <2>3, WorthOfLayers, TotalOfFew
  <2>. QED  BY <2>4 DEF o
<1> DEFINE comm == Layer(infos, "comm_g2g", "G2G", rows, w, 1, 1)
           norm1 == Layer(infos, "norm1", "NORM", rows, w, 1, 1)
           norm2 == Layer(infos, "norm2", "NORM", rows, w, 1, 1)
           proj == Layer(infos, "proj", "FC", rows, w, P, 1)
<1>14. /\ comm \in LayerRec /\ norm1 \in LayerRec /\ norm2 \in LayerRec /\ proj \in LayerRec
      /\ WeightsOf[comm] = 0 /\ WeightsOf[norm1] = 0 /\ WeightsOf[norm2] = 0
      /\ WeightsOf[proj] = w * P * dd
  <2>1. comm \in LayerRec /\ WeightsOf[comm] = 0
    BY <1>9, <1>2, <1>7, <1>10, Zenon
  <2>2. norm1 \in LayerRec /\ WeightsOf[norm1] = 0
    BY <1>9, <1>2, <1>7, <1>10, Zenon
  <2>3. norm2 \in LayerRec /\ WeightsOf[norm2] = 0
    BY <1>9, <1>2, <1>7, <1>10, Zenon
  <2>4. proj \in LayerRec /\ WeightsOf[proj] = w * P * dd
    <3>1. "proj" \in LayerNames /\ w \in Positive /\ P \in Positive
      BY <1>9, <1>2
    <3>2. /\ Layer(infos, "proj", "FC", rows, w, P, 1) \in LayerRec
          /\ WeightsOf[Layer(infos, "proj", "FC", rows, w, P, 1)] = w * P * dd
      BY <3>1, <1>11
    <3> HIDE DEF proj
    <3>. QED  BY <3>2 DEF proj
  <2>. QED  BY <2>1, <2>2, <2>3, <2>4
<1>15. /\ Output(infos, n, rows) = <<proj, comm, norm1>> /\ Closing(infos, rows) = <<comm, norm2>>
  BY DEF Output, Closing, P, w
<1> HIDE DEF comm, norm1, norm2, proj
<1>16. /\ Total(WeightsOf, Output(infos, n, rows)) = w * P * dd
      /\ Total(WeightsOf, Closing(infos, rows)) = 0
  <2>1. w * P * dd \in Int
    BY <1>1 DEF Positive
  <2>. QED  BY <1>14, <1>15, <2>1, WorthOfLayers, TotalOfFew
<1>17. Total(WeightsOf, FeedForward(infos, n, rows))
         = (IF infos.kind = "LLAMA" THEN 3 ELSE 2) * (ff * P * w * dd)
  <2> DEFINE A == ff * P
             up(name) == Layer(infos, name, "FC", rows, A, w, 1)
             act(name) == Layer(infos, name, "ACT", rows, A, 1, 1)
             down(name) == Layer(infos, name, "FC", rows, w, A, 1)
             W == A * w * dd
  <2>1. FeedForward(infos, n, rows) =
          CASE infos.kind = "LLAMA" -> <<up("ff1"), up("ff2"), act("glu"), down("ff3")>>
            [] infos.kind = "OPT" -> <<up("ff1"), act("relu"), down("ff2")>>
            [] OTHER -> <<up("ff1"), act("gelu"), down("ff2")>>
    BY DEF FeedForward, P, w, ff
  <2>2. A \in Positive
    BY <1>3
  <2> HIDE DEF A
  <2>3. w * A * dd = A * w * dd /\ W \in Int
    <3>1. \A a, b, c \in Int : b * a * c = a * b * c
      OBVIOUS
    <3>2. A * w * dd \in Int
      BY <1>1, <2>2 DEF Positive
    <3>. QED  BY <1>1, <2>2, <3>1, <3>2 DEF Positive
  <2>4. \A name \in LayerNames : /\ up(name) \in LayerRec /\ act(name) \in LayerRec /\ down(name) \in LayerRec
                                 /\ WeightsOf[up(name)] = W /\ WeightsOf[act(name)] = 0
                                 /\ WeightsOf[down(name)] = W
    <3> SUFFICES ASSUME NEW name \in LayerNames
                 PROVE  /\ up(name) \in LayerRec /\ act(name) \in LayerRec /\ down(name) \in LayerRec
                        /\ WeightsOf[up(name)] = W /\ WeightsOf[act(name)] = 0
                        /\ WeightsOf[down(name)] = W
      OBVIOUS
    <3>1. up(name) \in LayerRec /\ WeightsOf[up(name)] = W
      BY <1>1, <2>2, <1>4
    <3>2. act(name) \in LayerRec /\ WeightsOf[act(name)] = 0
      BY <2>2, <1>7, <1>10, Zenon
    <3>3. down(name) \in LayerRec /\ WeightsOf[down(name)] = w * A * dd
      BY <1>1, <2>2, <1>4
    <3> HIDE DEF up, act, down, W
    <3>. QED  BY <3>1, <3>2, <3>3, <2>3 DEF W
  <2> HIDE DEF up, act, down, W
  <2>5. Total(WeightsOf, <<up("ff1"), up("ff2"), act("glu"), down("ff3")>>) = 3 * W
    <3>1. /\ up("ff1") \in LayerRec /\ up("ff2") \in LayerRec /\ act("glu") \in LayerRec
          /\ down("ff3") \in LayerRec
          /\ WeightsOf[up("ff1")] = W /\ WeightsOf[up("ff2")] = W /\ WeightsOf[act("glu")] = 0
          /\ WeightsOf[down("ff3")] = W
      BY <1>2, <2>4
    <3>. QED  BY <2>3, <3>1, WorthOfLayers, TotalOfFew
  <2>6. Total(WeightsOf, <<up("ff1"), act("relu"), down("ff2")>>) = 2 * W
    <3>1. /\ up("ff1") \in LayerRec /\ act("relu") \in LayerRec /\ down("ff2") \in LayerRec
          /\ WeightsOf[up("ff1")] = W /\ WeightsOf[act("relu")] = 0 /\ WeightsOf[down("ff2")] = W
      BY <1>2, <2>4
    <3>. QED  BY <2>3, <3>1, WorthOfLayers, TotalOfFew
  <2>7. Total(WeightsOf, <<up("ff1"), act("gelu"), down("ff2")>>) = 2 * W
    <3>1. /\ up("ff1") \in LayerRec /\ act("gelu") \in LayerRec /\ down("ff2") \in LayerRec
          /\ WeightsOf[up("ff1")] = W /\ WeightsOf[act("gelu")] = 0 /\ WeightsOf[down("ff2")] = W
      BY <1>2, <2>4
    <3>. QED  BY <2>3, <3>1, WorthOfLayers, TotalOfFew
  <2>8. Total(WeightsOf, FeedForward(infos, n, rows)) = (IF infos.kind = "LLAMA" THEN 3 ELSE 2) * W
    <3>1. CASE infos.kind = "LLAMA"
      BY <2>1, <2>5, <3>1
    <3>2. CASE infos.kind = "OPT"
      BY <2>1, <2>6, <3>2
    <3>3. CASE infos.kind # "LLAMA" /\ infos.kind # "OPT"
      BY <2>1, <2>7, <3>3
    <3>. QED  BY <3>1, <3>2, <3>3
  <2>. QED  BY <2>8 DEF W, A
<1>. QED  BY <1>12, <1>13, <1>16, <1>17 DEF P, H, w, ff, dd

(* Joined, they are those that get_required_mem_capacity() counts.           *)
LEMMA WeightsOfDecoder ==
  ASSUME NEW infos \in Models, NEW n \in Shares(infos), infos.heads % n = 0, infos.hdim % n = 0,
         NEW batch \in Positive, NEW rows \in Positive, NEW q \in Positive, NEW kv \in Positive,
         NEW s \in Seq(LayerRec), NEW t \in Seq(LayerRec),
         Total(WeightsOf, s) = 0, Total(WeightsOf, t) = 0
  PROVE  WeightBytes(infos)
           = n * infos.ndec * Total(WeightsOf, Decoder(infos, n, batch, rows, q, kv, s, t))
<1> DEFINE a == Projection(infos, n, rows)
           b == Attention(infos, q, kv, HeadsPerGpu(infos, n) * batch)
           c == Output(infos, n, rows)
           d == FeedForward(infos, n, rows)
           e == Closing(infos, rows)
           T(l) == Total(WeightsOf, l)
           P == PerGpu(infos, n)
           w == infos.hdim
           dd == infos.dbyte
           ff == infos.ff
           k == IF infos.kind = "LLAMA" THEN 3 ELSE 2
           all == T(Decoder(infos, n, batch, rows, q, kv, s, t))
<1>1. Decoder(infos, n, batch, rows, q, kv, s, t) = a \o s \o b \o t \o c \o d \o e
  BY DEF Decoder, Projection, Attention, Output, Closing
<1>2. /\ a \in Seq(LayerRec) /\ b \in Seq(LayerRec) /\ c \in Seq(LayerRec) /\ d \in Seq(LayerRec)
      /\ e \in Seq(LayerRec)
  BY DecoderParts
<1>3. T(a) = 3 * P * w * dd /\ T(b) = 0 /\ T(c) = w * P * dd /\ T(d) = k * (ff * P * w * dd) /\ T(e) = 0
  BY WeightsOfParts
<1>4. /\ P \in Int /\ w \in Int /\ dd \in Int /\ ff \in Int /\ k \in Int /\ n \in Int /\ n * P = w
      /\ infos.ndec \in Int
  <2>1. P \in Positive /\ n * P = w
    BY SharedWhole
  <2>2. /\ w \in Positive /\ ff \in Positive /\ dd \in {1, 2} /\ infos.ndec \in Nat /\ n \in Positive
    BY Widths
  <2> HIDE DEF P, w, dd, ff
  <2>3. k \in Int
    OBVIOUS
  <2> HIDE DEF k
  <2>. QED  BY <2>1, <2>2, <2>3 DEF Positive
<1>5. WeightBytes(infos) = infos.ndec * w * dd * (4 * w + k * ff * w)
  BY DEF WeightBytes
<1> HIDE DEF a, b, c, d, e, P, w, dd, ff, k
<1>6. all = T(a) + T(s) + T(b) + T(t) + T(c) + T(d) + T(e)
  <2>1. T(a) \in Int /\ T(b) \in Int /\ T(c) \in Int /\ T(d) \in Int /\ T(e) \in Int
        /\ T(s) \in Int /\ T(t) \in Int
    BY <1>2, WorthOfLayers, OneMore
  <2>2. ASSUME NEW x \in Seq(LayerRec), NEW y \in Seq(LayerRec)
        PROVE  x \o y \in Seq(LayerRec) /\ T(x \o y) = T(x) + T(y)
    BY WorthOfLayers, TotalJoin
  <2> DEFINE as == a \o s
             asb == as \o b
             asbt == asb \o t
             asbtc == asbt \o c
             asbtcd == asbtc \o d
  <2> HIDE DEF T
  <2>3. as \in Seq(LayerRec) /\ T(as) = T(a) + T(s)
    BY <1>2, <2>2
  <2> HIDE DEF as
  <2>4. asb \in Seq(LayerRec) /\ T(asb) = T(as) + T(b)
    BY <1>2, <2>2, <2>3
  <2> HIDE DEF asb
  <2>5. asbt \in Seq(LayerRec) /\ T(asbt) = T(asb) + T(t)
    BY <2>2, <2>4
  <2> HIDE DEF asbt
  <2>6. asbtc \in Seq(LayerRec) /\ T(asbtc) = T(asbt) + T(c)
    BY <1>2, <2>2, <2>5
  <2> HIDE DEF asbtc
  <2>7. asbtcd \in Seq(LayerRec) /\ T(asbtcd) = T(asbtc) + T(d)
    BY <1>2, <2>2, <2>6
  <2> HIDE DEF asbtcd
  <2>8. T(asbtcd \o e) = T(asbtcd) + T(e)
    BY <1>2, <2>2, <2>7
  <2>9. all = T(asbtcd \o e)
    BY <1>1, Zenon DEF as, asb, asbt, asbtc, asbtcd, T
  <2> HIDE DEF all
  <2>. QED  BY <2>1, <2>3, <2>4, <2>5, <2>6, <2>7, <2>8, <2>9
<1>7. 3 * P * w * dd + 0 + 0 + 0 + w * P * dd + k * (ff * P * w * dd) + 0
        = P * (w * dd * (4 + k * ff))
  BY <1>4
<1>8. all = P * (w * dd * (4 + k * ff))
  BY <1>3, <1>6, <1>7
<1>9. n * infos.ndec * (P * (w * dd * (4 + k * ff))) = infos.ndec * w * dd * (4 * w + k * ff * w)
  <2>1. \A u, v, x, y, z, f, g \in Int : u * v * (x * (y * z * (4 + f * g)))
                                          = v * y * z * (4 * (u * x) + f * g * (u * x))
    OBVIOUS
  <2>2. n * infos.ndec * (P * (w * dd * (4 + k * ff)))
          = infos.ndec * w * dd * (4 * (n * P) + k * ff * (n * P))
    BY <1>4, <2>1
  <2>. QED  BY <1>4, <2>2
<1>. QED  BY <1>5, <1>8, <1>9

(* The decoder of the prompt.                                                *)
LEMMA WeightsOfSum ==
  ASSUME NEW infos \in Models, NEW n \in Shares(infos), infos.heads % n = 0, infos.hdim % n = 0,
         NEW c \in Calls, NEW remote \in BOOLEAN
  PROVE  WeightBytes(infos)
           = n * infos.ndec * Total(WeightsOf, SumDecoder(infos, n, c.batch, c.lin, remote))
<1>1. /\ c.batch \in Positive /\ c.lin \in Positive /\ c.batch * c.lin \in Positive /\ 1 \in Positive
      /\ 2 * PerGpu(infos, n) \in Positive
  <2>1. c.batch \in Positive /\ c.lin \in Positive /\ 1 \in Positive /\ 2 \in Positive
    BY SimulationAssumption DEF Positive
  <2>. QED  BY <2>1, Widths, TimesType
<1> DEFINE x == X2G(infos, c.batch * c.lin, 2 * PerGpu(infos, n), 1)
           first == IF remote THEN <<x>> ELSE <<>>
           none == <<>>
<1>2. x \in LayerRec /\ x.type = "X2G"
  <2>1. "X2G" \in LayerTypes /\ "comm_x2g" \in LayerNames
    BY DEF LayerTypes, LayerNames
  <2>. QED  BY <1>1, <2>1, LayerType, FieldsOfLayer DEF X2G
<1>3. SumDecoder(infos, n, c.batch, c.lin, remote)
        = Decoder(infos, n, c.batch, c.batch * c.lin, c.lin, c.lin, first, none)
  BY DEF SumDecoder
<1> HIDE DEF x
<1>4. none \in Seq(LayerRec) /\ Total(WeightsOf, none) = 0
  BY WorthOfLayers, TotalOfFew
<1>5. <<x>> \in Seq(LayerRec) /\ Total(WeightsOf, <<x>>) = 0
  <2>1. WeightsOf[x] = 0
    BY <1>2 DEF WeightsOf
  <2>. QED  BY <1>2, <2>1, WorthOfLayers, TotalOfFew
<1>6. first \in Seq(LayerRec) /\ Total(WeightsOf, first) = 0
  BY <1>4, <1>5
<1> HIDE DEF first, none
<1> DEFINE rows == c.batch * c.lin
           batch == c.batch
           lin == c.lin
<1>7. batch \in Positive /\ rows \in Positive /\ lin \in Positive
  BY <1>1
<1>8. SumDecoder(infos, n, c.batch, c.lin, remote) = Decoder(infos, n, batch, rows, lin, lin, first, none)
  BY <1>3
<1> HIDE DEF rows, batch, lin
<1>. QED  BY <1>7, <1>8, <1>4, <1>6, WeightsOfDecoder

---------------------------------------------------------------------------
(* The layers that are timed are those that were built.                       *)

BuiltSum == SumDecoder(model.infos, model.tp, call.batch, call.lin, Heterogeneous)
BuiltGen == GenDecoders(model.infos, model.tp, call.batch, call.lin, call.lout, Heterogeneous)

(* All but the times, energies and bounds of two lists of layers is the same.  *)
SameFigures(s, t) == Len(s) = Len(t) /\ \A i \in 1..Len(s) : Bare(s[i]) = Bare(t[i])

BuiltInv == Calling =>
  /\ SameFigures(work.sum, BuiltSum)
  /\ Len(work.gen) = Len(BuiltGen)
  /\ \A s \in 1..Len(work.gen) : SameFigures(work.gen[s], BuiltGen[s])

(* Timing a layer does not change them ...                                    *)
LEMMA TimedFigures ==
  ASSUME NEW l \in LayerRec, NEW cost, NEW n
  PROVE  /\ Bare(Timed(l, cost)) = Bare(l)
         /\ Bare([l EXCEPT !.time = n]) = Bare(l)
         /\ Bare([Timed(l, cost) EXCEPT !.time = n]) = Bare(l)
BY DEF Timed, Bare, LayerRec

(* ... nor does it change the list that it is put back into ...               *)
LEMMA PutFigures ==
  ASSUME NEW s \in Decoders, NEW t, SameFigures(s, t), NEW j \in 1..Len(s), NEW l,
         Bare(l) = Bare(s[j])
  PROVE  SameFigures([s EXCEPT ![j] = l], t)
<1> DEFINE r == [s EXCEPT ![j] = l]
<1>1. Len(s) \in Nat /\ DOMAIN s = 1..Len(s)
  BY LenProperties DEF Decoders
<1>2. DOMAIN r = DOMAIN s
  OBVIOUS
<1>3. Len(r) = Len(s)
  <2>1. r \in [1..Len(s) -> {r[i] : i \in 1..Len(s)}]
    BY <1>1
  <2> HIDE DEF r
  <2>. QED  BY <1>1, <2>1, LenProperties
<1>4. \A i \in 1..Len(s) : r[i] = IF i = j THEN l ELSE s[i]
  BY <1>1
<1> HIDE DEF r
<1>5. \A i \in 1..Len(s) : Bare(r[i]) = Bare(t[i])
  BY <1>4 DEF SameFigures
<1>. QED  BY <1>3, <1>5 DEF SameFigures, r

(* ... and a stage that is pipelined ...                                     *)
LEMMA PipelinedFigures ==
  ASSUME NEW block \in Decoders, NEW t, SameFigures(block, t), NEW level
  PROVE  SameFigures(PipelinedBlock(block, level), t)
<1> DEFINE p == Pipelined(PipelineTimes(block), level)
           new(l) == CASE l.name = "qkv" -> p.qkv
                       [] l.name = "proj" -> p.prj
                       [] l.name = "comm_x2g" -> p.x2g \div 2
                       [] l.name = "softmax" -> 0
                       [] OTHER -> l.time
           g == [i \in DOMAIN block |-> [block[i] EXCEPT !.time = new(block[i])]]
<1>1. PipelinedBlock(block, level) = g
  BY DEF PipelinedBlock
<1>2. Len(block) \in Nat /\ DOMAIN block = 1..Len(block) /\ \A i \in 1..Len(block) : block[i] \in LayerRec
  BY LenProperties, ElementOfSeq DEF Decoders
<1> HIDE DEF new
<1>3. \A i \in 1..Len(block) : Bare(g[i]) = Bare(block[i])
  BY <1>2, TimedFigures
<1>4. Len(g) = Len(block)
  <2>1. g \in [1..Len(block) -> {g[i] : i \in 1..Len(block)}]
    BY <1>2
  <2> HIDE DEF g
  <2>. QED  BY <1>2, <2>1, LenProperties
<1> HIDE DEF g
<1>. QED  BY <1>1, <1>3, <1>4 DEF SameFigures

(* ... or shared out.                                                       *)
LEMMA ParallelFigures ==
  ASSUME NEW block \in Decoders, NEW t, SameFigures(block, t), NEW bs
  PROVE  SameFigures(ParallelBlock(block, bs), t)
<1> DEFINE new(l) == Parallel(gpu, Acc, l, bs)
           g == [i \in DOMAIN block |-> IF IsFF(block[i]) THEN [block[i] EXCEPT !.time = new(block[i])]
                                        ELSE block[i]]
<1>1. ParallelBlock(block, bs) = g
  BY DEF ParallelBlock
<1>2. Len(block) \in Nat /\ DOMAIN block = 1..Len(block) /\ \A i \in 1..Len(block) : block[i] \in LayerRec
  BY LenProperties, ElementOfSeq DEF Decoders
<1> HIDE DEF new
<1>3. \A i \in 1..Len(block) : Bare(g[i]) = Bare(block[i])
  BY <1>2, TimedFigures
<1>4. Len(g) = Len(block)
  <2>1. g \in [1..Len(block) -> {g[i] : i \in 1..Len(block)}]
    BY <1>2
  <2> HIDE DEF g
  <2>. QED  BY <1>2, <2>1, LenProperties
<1> HIDE DEF g
<1>. QED  BY <1>1, <1>3, <1>4 DEF SameFigures

(* The same figures, so the same operations and weights.                     *)
LEMMA SameTotals ==
  ASSUME NEW s \in Decoders, NEW t \in Decoders, SameFigures(s, t)
  PROVE  /\ Total(FlopsOf, s) = Total(FlopsOf, t)
         /\ Total(WeightsOf, s) = Total(WeightsOf, t)
<1>1. /\ Len(s) = Len(t) /\ DOMAIN s = 1..Len(s) /\ DOMAIN t = 1..Len(s)
      /\ \A i \in 1..Len(s) : s[i] \in LayerRec /\ t[i] \in LayerRec
  BY LenProperties, ElementOfSeq DEF Decoders, SameFigures
<1>2. ASSUME NEW i \in 1..Len(s)
      PROVE  FlopsOf[s[i]] = FlopsOf[t[i]] /\ WeightsOf[s[i]] = WeightsOf[t[i]]
  <2>1. /\ s[i] \in LayerRec /\ t[i] \in LayerRec /\ Bare(s[i]) = Bare(t[i])
    BY <1>1 DEF SameFigures
  <2>. QED  BY <2>1, BareFigures DEF FlopsOf, WeightsOf
<1>3. [i \in DOMAIN s |-> FlopsOf[s[i]]] = [i \in DOMAIN t |-> FlopsOf[t[i]]]
  BY <1>1, <1>2
<1>4. [i \in DOMAIN s |-> WeightsOf[s[i]]] = [i \in DOMAIN t |-> WeightsOf[t[i]]]
  BY <1>1, <1>2
<1>. QED  BY <1>3, <1>4 DEF Total

(* The lists that are built, and what they depend on.                        *)
LEMMA BuiltTypes ==
  ASSUME ModelTyped, CallTyped, model # NoModel
  PROVE  /\ BuiltSum \in Decoders /\ BuiltGen \in Stages
         /\ \A s \in 1..Len(BuiltGen) : BuiltGen[s] \in Decoders
         /\ Len(BuiltGen) \in Nat
<1>1. Heterogeneous \in BOOLEAN /\ call \in Calls /\ model.infos \in Models /\ model.tp \in GpuCounts
  BY ModelIsReady DEF Heterogeneous, CallTyped
<1>2. BuiltSum \in Decoders /\ BuiltGen \in Stages
  BY <1>1, GpusShare, DecodersType DEF Decoders, Stages, BuiltSum, BuiltGen
<1>. QED  BY <1>2, LenProperties, ElementOfSeq DEF Stages

(* Where a layer is put, and what it is counted as.                          *)
LEMMA SummarizedAt ==
  ASSUME NEW w \in WorkType, NEW l
  PROVE  /\ Summarized(w, l).at = w.at + 1 /\ Summarized(w, l).itr = w.itr
         /\ Summarized(w, l).stage = w.stage /\ Summarized(w, l).gen = w.gen
         /\ Summarized(w, l).sum = [w.sum EXCEPT ![w.at] = l]
         /\ Summarized(w, l).sFlops = w.sFlops + Flops(l) * gpu.num
         /\ Summarized(w, l).gFlops = w.gFlops
BY DEF Summarized, WorkType

(* What timing a layer of the generation counts.                             *)
LEMMA GeneratedCounts ==
  ASSUME NEW w \in WorkType, NEW l
  PROVE  /\ Generated(w, l).itr = w.itr /\ Generated(w, l).sum = w.sum
         /\ Generated(w, l).sFlops = w.sFlops
         /\ Generated(w, l).gFlops = w.gFlops + Flops(l) * gpu.num
BY DEF Generated, WorkType

---------------------------------------------------------------------------
(* The operations that were counted so far.                                   *)

StageTotals(g, k) == SumFunction([i \in 1..k |-> Total(FlopsOf, g[i])])

SumCount ==
  IF pc = "sum" THEN UpTo(FlopsOf, BuiltSum, work.at - 1) ELSE Total(FlopsOf, BuiltSum)
GenCount ==
  CASE pc = "sum" -> 0
    [] pc = "gen" -> StageTotals(BuiltGen, work.stage - 1)
                       + UpTo(FlopsOf, BuiltGen[work.stage], work.at - 1)
    [] OTHER -> StageTotals(BuiltGen, Len(BuiltGen))

CountedInv == Calling =>
  /\ work.sFlops = gpu.num * ((work.itr - 1) * Total(FlopsOf, BuiltSum) + SumCount)
  /\ work.gFlops = gpu.num * ((work.itr - 1) * StageTotals(BuiltGen, Len(BuiltGen)) + GenCount)
  /\ pc = "sum" => work.at <= Len(BuiltSum) + 1
  /\ pc = "gen" => work.at <= Len(BuiltGen[work.stage]) + 1

CountInv == BuiltInv /\ CountedInv

(* One stage more.                                                           *)
LEMMA StageMore ==
  ASSUME NEW g \in Stages
  PROVE  /\ \A k \in 0..Len(g) : StageTotals(g, k) \in Int
         /\ StageTotals(g, 0) = 0
         /\ \A k \in 1..Len(g) : /\ Total(FlopsOf, g[k]) \in Int
                                 /\ StageTotals(g, k) = StageTotals(g, k - 1) + Total(FlopsOf, g[k])
<1> DEFINE n == Len(g)
           h == [i \in 1..n |-> Total(FlopsOf, g[i])]
           Sum(k) == SumFunction([i \in 1..k |-> h[i]])
<1>1. n \in Nat /\ \A i \in 1..n : g[i] \in Seq(LayerRec)
  BY LenProperties, ElementOfSeq DEF Stages, Decoders
<1>2. h \in [1..n -> Int]
  BY <1>1, WorthOfLayers, OneMore
<1>3. \A k \in 0..n : StageTotals(g, k) = Sum(k)
  <2>1. ASSUME NEW k \in 0..n PROVE [i \in 1..k |-> Total(FlopsOf, g[i])] = [i \in 1..k |-> h[i]]
    BY <1>1
  <2>. QED  BY <2>1 DEF StageTotals
<1>4. \A i \in 1..n : h[i] = Total(FlopsOf, g[i])
  OBVIOUS
<1> HIDE DEF h, n
<1>5. /\ \A k \in 0..n : Sum(k) \in Int
      /\ Sum(0) = 0
      /\ \A k \in 0..(n - 1) : h[k + 1] \in Int /\ Sum(k + 1) = Sum(k) + h[k + 1]
  BY <1>1, <1>2, OneNumberMore
<1> HIDE DEF Sum
<1>6. ASSUME NEW k \in 1..n
      PROVE  Total(FlopsOf, g[k]) \in Int /\ StageTotals(g, k) = StageTotals(g, k - 1) + Total(FlopsOf, g[k])
  <2>1. k - 1 \in 0..(n - 1) /\ (k - 1) + 1 = k /\ k \in 0..n /\ k - 1 \in 0..n
    BY <1>1
  <2>. QED  BY <1>3, <1>4, <1>5, <2>1
<1>7. 0 \in 0..n
  BY <1>1
<1>. QED  BY <1>3, <1>5, <1>6, <1>7 DEF n

(* What is built stays so while the configuration and the call do.            *)
LEMMA BuiltKept ==
  ASSUME model' = model, call' = call, hetero' = hetero
  PROVE  BuiltSum' = BuiltSum /\ BuiltGen' = BuiltGen
BY DEF BuiltSum, BuiltGen, Heterogeneous

(* The figures of a layer say what it computes.                              *)
LEMMA FlopsOfBare ==
  ASSUME NEW l, NEW b \in LayerRec, Bare(l) = Bare(b)
  PROVE  Flops(l) = FlopsOf[b] /\ FlopsOf[b] \in Nat
BY BareFigures, WorthOfLayers DEF FlopsOf

(* A layer of the prompt.                                                    *)
LEMMA SumLayerCounts ==
  ASSUME SimulatorAnswers, TypedInv, CountInv, SumLayer
  PROVE  CountInv'
<1> DEFINE l == work.sum[work.at]
           device == AfterCost(gpu, l)
           timed == Timed(l, Cost(device, l))
           new == [timed EXCEPT !.time = @ + Waiting(work, l)]
           S == BuiltSum
           G == BuiltGen
           num == gpu.num
<1>1. /\ pc = "sum" /\ pc' = "sum" /\ work.at <= Len(work.sum) /\ gpu' = device
      /\ work' = Summarized(work, new) /\ hetero' = hetero /\ model' = model /\ call' = call
      /\ Calling /\ Calling' /\ WorkTyped /\ DevicesTyped /\ ModelTyped /\ CallTyped
      /\ BuiltInv /\ CountedInv
  BY DEF SumLayer, Calling, TypedInv, CountInv
<1>2. /\ model # NoModel /\ WorkOK(work, call) /\ work \in WorkType /\ work.at \in Nat /\ work.at >= 1
      /\ work.sum \in Decoders /\ work.itr \in Nat
  <2>1. /\ WorkOK(work, call) /\ model # NoModel /\ work \in WorkType
        /\ work.at \in Nat /\ work.at >= 1
    BY <1>1, StagesReady
  <2>2. work.sum \in Decoders /\ work.itr \in Nat
    BY <2>1 DEF WorkType
  <2>. QED  BY <2>1, <2>2
<1>3. /\ Len(work.sum) \in Nat /\ work.at \in 1..Len(work.sum) /\ l \in LayerRec
  <2>1. Len(work.sum) \in Nat
    BY <1>2, LenProperties DEF Decoders
  <2>2. work.at \in 1..Len(work.sum)
    BY <1>1, <1>2, <2>1
  <2>. QED  BY <1>2, <2>1, <2>2, ElementOfSeq DEF Decoders
<1>4. gpu'.num = gpu.num /\ gpu.num \in Nat
  <2>1. XpuOK(gpu)
    BY <1>1 DEF DevicesTyped
  <2> HIDE DEF l
  <2>. QED  BY <1>1, <1>3, <2>1, CostType, GpuIsReady
<1>5. Bare(new) = Bare(l)
  <2> HIDE DEF l, device
  <2>. QED  BY <1>3, TimedFigures
<1> HIDE DEF new, timed, device
<1>6. /\ work'.at = work.at + 1 /\ work'.itr = work.itr /\ work'.gen = work.gen
      /\ work'.sum = [work.sum EXCEPT ![work.at] = new]
      /\ work'.sFlops = work.sFlops + Flops(new) * num /\ work'.gFlops = work.gFlops
  BY <1>1, <1>2, SummarizedAt
<1>7. BuiltSum' = S /\ BuiltGen' = G /\ S \in Decoders /\ Len(G) \in Nat
  BY <1>1, <1>2, BuiltKept, BuiltTypes
<1>8. SameFigures(work.sum, S) /\ Len(S) = Len(work.sum)
  BY <1>1 DEF BuiltInv, SameFigures
<1>9. SameFigures(work'.sum, S)
  BY <1>2, <1>3, <1>5, <1>6, <1>8, PutFigures
<1>10. BuiltInv'
  BY <1>1, <1>6, <1>7, <1>9 DEF BuiltInv
<1>11. Flops(new) = FlopsOf[S[work.at]] /\ FlopsOf[S[work.at]] \in Nat
  <2>1. Bare(new) = Bare(S[work.at])
    BY <1>3, <1>5, <1>8 DEF SameFigures
  <2>2. S[work.at] \in LayerRec
    BY <1>3, <1>7, <1>8, ElementOfSeq DEF Decoders
  <2>. QED  BY <2>1, <2>2, FlopsOfBare
<1> HIDE DEF S, G, l
<1>12. /\ UpTo(FlopsOf, S, work.at) = UpTo(FlopsOf, S, work.at - 1) + FlopsOf[S[work.at]]
       /\ UpTo(FlopsOf, S, work.at - 1) \in Int /\ Total(FlopsOf, S) \in Int
  <2>1. work.at - 1 \in 0..(Len(S) - 1) /\ work.at - 1 \in 0..Len(S) /\ (work.at - 1) + 1 = work.at
    BY <1>2, <1>3, <1>8
  <2>. QED  BY <1>7, <2>1, WorthOfLayers, OneMore DEF Decoders
<1> DEFINE a == (work.itr - 1) * Total(FlopsOf, S)
           b == UpTo(FlopsOf, S, work.at - 1)
<1>13. work.sFlops = num * (a + b) /\ a \in Int /\ b \in Int /\ work.sFlops \in Int
  <2>1. work.sFlops = num * (a + b)
    BY <1>1 DEF CountedInv, SumCount, S
  <2>2. a \in Int
    BY <1>2, <1>12
  <2>3. work.sFlops \in Int
    BY <1>2 DEF WorkType
  <2>. QED  BY <1>12, <2>1, <2>2, <2>3
<1>14. work'.sFlops = num * (a + UpTo(FlopsOf, S, work.at))
  <2> HIDE DEF a, b
  <2>1. work.sFlops + FlopsOf[S[work.at]] * num = num * (a + (b + FlopsOf[S[work.at]]))
    BY <1>4, <1>11, <1>13, OneCounted
  <2>. QED  BY <1>6, <1>11, <1>12, <2>1 DEF b
<1>15. (work.at + 1) - 1 = work.at
  BY <1>2
<1>16. SumCount' = UpTo(FlopsOf, S, work.at) /\ GenCount' = 0 /\ GenCount = 0
  BY <1>1, <1>6, <1>7, <1>15 DEF SumCount, GenCount
<1>17. work'.gFlops = gpu'.num * ((work'.itr - 1) * StageTotals(BuiltGen, Len(BuiltGen))' + GenCount')
  <2>1. work.gFlops = gpu.num * ((work.itr - 1) * StageTotals(G, Len(G)) + 0)
    BY <1>1, <1>16 DEF CountedInv, G
  <2>2. StageTotals(BuiltGen, Len(BuiltGen))' = StageTotals(G, Len(G))
    BY <1>7 DEF StageTotals
  <2>. QED  BY <1>4, <1>6, <1>16, <2>1, <2>2
<1>18. work'.sFlops = gpu'.num * ((work'.itr - 1) * Total(FlopsOf, BuiltSum)' + SumCount')
  <2>1. Total(FlopsOf, BuiltSum)' = Total(FlopsOf, S)
    BY <1>7 DEF Total, FlopsOf
  <2>. QED  BY <1>4, <1>6, <1>14, <1>16, <2>1
<1>19. work'.at <= Len(BuiltSum)' + 1
  BY <1>1, <1>2, <1>3, <1>6, <1>7, <1>8
<1>20. CountedInv'
  BY <1>1, <1>17, <1>18, <1>19 DEF CountedInv
<1>. QED  BY <1>10, <1>20 DEF CountInv

(* A layer of the generation.                                                *)
LEMMA GenLayerCounts ==
  ASSUME SimulatorAnswers, TypedInv, CountInv, GenLayer
  PROVE  CountInv'
<1> DEFINE block == work.gen[work.stage]
           l == block[work.at]
           d == AfterCost(Device(gpu, Acc, l), l)
           new == Timed(l, Cost(d, l))
           S == BuiltSum
           G == BuiltGen
           g == G[work.stage]
           num == gpu.num
<1>1. /\ pc = "gen" /\ pc' = "gen" /\ work.at <= Len(block)
      /\ hetero' = hetero /\ model' = model /\ call' = call
      /\ Calling /\ Calling' /\ WorkTyped /\ DevicesTyped /\ ModelTyped /\ CallTyped
      /\ BuiltInv /\ CountedInv
  BY DEF GenLayer, Calling, TypedInv, CountInv
<1>2. /\ work \in WorkType /\ Len(work.gen) \in Nat /\ DOMAIN work.gen = 1..Len(work.gen)
      /\ work.gen \in Stages /\ work.stage \in 1..Len(work.gen) /\ work.at \in Nat
      /\ block \in Decoders /\ Len(block) \in Nat /\ DOMAIN block = 1..Len(block)
      /\ work.at \in 1..Len(block) /\ l \in LayerRec /\ model # NoModel
      /\ work.itr \in Nat /\ work.gFlops \in Int
  <2>1. work.stage \in 1..Len(work.gen)
    BY <1>1, StagesReady DEF WorkTyped
  <2>2. work.at \in 1..Len(block)
    BY <1>1, <2>1, StagesReady
  <2>3. work \in WorkType
    BY <1>1, StagesReady
  <2>4. work.itr \in Nat /\ work.gFlops \in Int
    BY <2>3 DEF WorkType
  <2>. QED  BY <1>1, <2>1, <2>2, <2>4, StagesReady
<1>3. work' = Generated(work, new)
  BY <1>1, GenDevices
<1>4. gpu'.num = gpu.num /\ gpu.num \in Nat
  <2>1. gpu' = gpu \/ gpu' = AfterCost(gpu, l)
    BY DEF GenLayer
  <2>2. XpuOK(gpu)
    BY <1>1 DEF DevicesTyped
  <2> HIDE DEF l
  <2>. QED  BY <1>1, <1>2, <2>1, <2>2, CostType, GpuIsReady
<1>5. Bare(new) = Bare(l)
  <2> HIDE DEF l, d
  <2>. QED  BY <1>2, TimedFigures
<1> HIDE DEF new, d, l
<1> DEFINE next == [block EXCEPT ![work.at] = new]
<1>6. /\ work'.at = work.at + 1 /\ work'.itr = work.itr /\ work'.stage = work.stage
      /\ work'.sum = work.sum /\ work'.gen = [work.gen EXCEPT ![work.stage] = next]
      /\ work'.gFlops = work.gFlops + Flops(new) * num /\ work'.sFlops = work.sFlops
  BY <1>2, <1>3, GeneratedAt, GeneratedCounts
<1>7. /\ BuiltSum' = S /\ BuiltGen' = G /\ G \in Stages /\ Len(G) \in Nat
      /\ \A s \in 1..Len(G) : G[s] \in Decoders
  BY <1>1, <1>2, BuiltKept, BuiltTypes
<1>8. /\ SameFigures(work.sum, S) /\ Len(work.gen) = Len(G)
      /\ \A s \in 1..Len(work.gen) : SameFigures(work.gen[s], G[s])
  BY <1>1 DEF BuiltInv
<1>9. SameFigures(block, g) /\ g \in Decoders /\ Len(g) = Len(block)
  BY <1>2, <1>7, <1>8 DEF SameFigures
<1>10. SameFigures(next, g)
  <2> HIDE DEF block, g
  <2>1. Bare(new) = Bare(block[work.at])
    BY <1>5 DEF l
  <2>. QED  BY <1>2, <1>9, <2>1, PutFigures
<1> HIDE DEF next
<1>11. /\ work'.gen[work.stage] = next /\ Len(work'.gen) = Len(work.gen)
       /\ \A s \in 1..Len(work.gen) : s # work.stage => work'.gen[s] = work.gen[s]
  <2>1. work'.gen \in [1..Len(work.gen) -> {work'.gen[s] : s \in 1..Len(work.gen)}]
    BY <1>2, <1>6
  <2>2. Len(work'.gen) = Len(work.gen)
    BY <1>2, <2>1, LenProperties
  <2>. QED  BY <1>2, <1>6, <2>2
<1>12. BuiltInv'
  <2>1. \A s \in 1..Len(work.gen) : SameFigures(work'.gen[s], G[s])
    BY <1>8, <1>10, <1>11
  <2>. QED  BY <1>6, <1>7, <1>8, <1>11, <2>1 DEF BuiltInv
<1>13. Flops(new) = FlopsOf[g[work.at]] /\ FlopsOf[g[work.at]] \in Nat
  <2>1. Bare(new) = Bare(g[work.at])
    BY <1>2, <1>5, <1>9 DEF SameFigures, l
  <2>2. g[work.at] \in LayerRec
    BY <1>2, <1>9, ElementOfSeq DEF Decoders
  <2>. QED  BY <2>1, <2>2, FlopsOfBare
<1> HIDE DEF S, G, g, block
<1>14. /\ UpTo(FlopsOf, g, work.at) = UpTo(FlopsOf, g, work.at - 1) + FlopsOf[g[work.at]]
       /\ UpTo(FlopsOf, g, work.at - 1) \in Int
  <2>1. work.at - 1 \in 0..(Len(g) - 1) /\ work.at - 1 \in 0..Len(g) /\ (work.at - 1) + 1 = work.at
    BY <1>2, <1>9
  <2>. QED  BY <1>9, <2>1, WorthOfLayers, OneMore DEF Decoders
<1>15. StageTotals(G, work.stage - 1) \in Int /\ StageTotals(G, Len(G)) \in Int
  <2>1. work.stage - 1 \in 0..Len(G) /\ Len(G) \in 0..Len(G)
    BY <1>2, <1>8
  <2>. QED  BY <1>7, <2>1, StageMore
<1> DEFINE a == (work.itr - 1) * StageTotals(G, Len(G))
           c == StageTotals(G, work.stage - 1)
           b == UpTo(FlopsOf, g, work.at - 1)
<1>16. work.gFlops = num * ((a + c) + b) /\ a \in Int /\ b \in Int /\ c \in Int
  <2>1. GenCount = c + b
    BY <1>1 DEF GenCount, G, g
  <2>2. work.gFlops = num * (a + (c + b))
    BY <1>1, <2>1 DEF CountedInv, G
  <2>3. a \in Int
    BY <1>2, <1>15
  <2>4. a + (c + b) = (a + c) + b
    BY <1>14, <1>15, <2>3
  <2>. QED  BY <1>14, <1>15, <2>2, <2>3, <2>4
<1>17. work'.gFlops = num * (a + (c + UpTo(FlopsOf, g, work.at)))
  <2> HIDE DEF a, b, c
  <2> DEFINE f == FlopsOf[g[work.at]]
             e == a + c
  <2>1. f \in Int /\ e \in Int /\ num \in Int
    BY <1>4, <1>13, <1>16
  <2>2. e + (b + f) = a + (c + (b + f))
    BY <1>16, <2>1
  <2>3. work.gFlops = num * (e + b) /\ work.gFlops \in Int
    BY <1>2, <1>16
  <2> HIDE DEF f, e
  <2>4. work.gFlops + f * num = num * (e + (b + f))
    BY <1>16, <2>1, <2>3, OneCounted
  <2>. QED  BY <1>6, <1>13, <1>14, <2>2, <2>4 DEF b, f
<1>18. (work.at + 1) - 1 = work.at
  BY <1>2
<1>19. GenCount' = c + UpTo(FlopsOf, g, work.at)
  <2>1. GenCount' = StageTotals(BuiltGen', work'.stage - 1) + UpTo(FlopsOf, BuiltGen'[work'.stage], work'.at - 1)
    BY <1>1 DEF GenCount, StageTotals, UpTo, Total, FlopsOf
  <2>. QED  BY <1>6, <1>7, <1>18, <2>1 DEF g
<1>20. SumCount' = Total(FlopsOf, S) /\ SumCount = Total(FlopsOf, S)
  <2>1. Total(FlopsOf, BuiltSum)' = Total(FlopsOf, S)
    BY <1>7 DEF Total, FlopsOf
  <2>. QED  BY <1>1, <2>1 DEF SumCount, S
<1>21. work'.gFlops = gpu'.num * ((work'.itr - 1) * StageTotals(BuiltGen, Len(BuiltGen))' + GenCount')
  <2>1. StageTotals(BuiltGen, Len(BuiltGen))' = StageTotals(G, Len(G))
    BY <1>7 DEF StageTotals
  <2>. QED  BY <1>4, <1>6, <1>17, <1>19, <2>1
<1>22. work'.sFlops = gpu'.num * ((work'.itr - 1) * Total(FlopsOf, BuiltSum)' + SumCount')
  <2>1. Total(FlopsOf, BuiltSum)' = Total(FlopsOf, S)
    BY <1>7 DEF Total, FlopsOf
  <2>2. work.sFlops = gpu.num * ((work.itr - 1) * Total(FlopsOf, S) + SumCount)
    BY <1>1 DEF CountedInv, S
  <2>. QED  BY <1>4, <1>6, <1>20, <2>1, <2>2
<1>23. work'.at <= Len(BuiltGen'[work'.stage]) + 1
  BY <1>2, <1>6, <1>7, <1>9 DEF g
<1>24. CountedInv'
  BY <1>1, <1>21, <1>22, <1>23 DEF CountedInv
<1>. QED  BY <1>12, <1>24 DEF CountInv

(* What was counted, between the parts.                                      *)
LEMMA CountsKept ==
  ASSUME BuiltSum' = BuiltSum, BuiltGen' = BuiltGen
  PROVE  /\ Total(FlopsOf, BuiltSum)' = Total(FlopsOf, BuiltSum)
         /\ StageTotals(BuiltGen, Len(BuiltGen))' = StageTotals(BuiltGen, Len(BuiltGen))
         /\ pc' = "sum" => SumCount' = UpTo(FlopsOf, BuiltSum, work'.at - 1) /\ GenCount' = 0
         /\ pc' # "sum" => SumCount' = Total(FlopsOf, BuiltSum)
         /\ pc' = "gen" => GenCount' = StageTotals(BuiltGen, work'.stage - 1)
                                         + UpTo(FlopsOf, BuiltGen[work'.stage], work'.at - 1)
         /\ pc' = "report" => GenCount' = StageTotals(BuiltGen, Len(BuiltGen))
BY DEF SumCount, GenCount, Total, UpTo, StageTotals, FlopsOf

(* The end of the prompt.                                                    *)
LEMMA EndOfSumCounts ==
  ASSUME TypedInv, CountInv, EndOfSum
  PROVE  CountInv'
<1> DEFINE S == BuiltSum
           G == BuiltGen
<1>1. /\ pc = "sum" /\ pc' = (IF work.gen = <<>> THEN "report" ELSE "gen") /\ work.at > Len(work.sum)
      /\ work' = [work EXCEPT !.at = 1, !.stage = 1]
      /\ gpu' = gpu /\ hetero' = hetero /\ model' = model /\ call' = call
      /\ Calling /\ Calling' /\ WorkTyped /\ ModelTyped /\ CallTyped /\ BuiltInv /\ CountedInv
  BY DEF EndOfSum, Calling, TypedInv, CountInv
<1>2. /\ work \in WorkType /\ work.at \in Nat /\ model # NoModel /\ work.gen \in Stages
      /\ Len(work.gen) \in Nat
  BY <1>1, StagesReady
<1>3. /\ work'.at = 1 /\ work'.stage = 1 /\ work'.itr = work.itr /\ work'.sum = work.sum
      /\ work'.gen = work.gen /\ work'.sFlops = work.sFlops /\ work'.gFlops = work.gFlops
  BY <1>1, <1>2 DEF WorkType
<1>4. /\ BuiltSum' = S /\ BuiltGen' = G /\ S \in Decoders /\ G \in Stages /\ Len(G) \in Nat
      /\ \A s \in 1..Len(G) : G[s] \in Decoders
  BY <1>1, <1>2, BuiltKept, BuiltTypes
<1>5. /\ Len(work.sum) = Len(S) /\ Len(work.gen) = Len(G)
  BY <1>1 DEF BuiltInv, SameFigures
<1>6. BuiltInv'
  BY <1>1, <1>3, <1>4 DEF BuiltInv
<1>7. /\ work.sFlops = gpu.num * ((work.itr - 1) * Total(FlopsOf, S) + UpTo(FlopsOf, S, work.at - 1))
      /\ work.gFlops = gpu.num * ((work.itr - 1) * StageTotals(G, Len(G)) + 0)
      /\ work.at <= Len(S) + 1
  BY <1>1 DEF CountedInv, SumCount, GenCount
<1>8. UpTo(FlopsOf, S, work.at - 1) = Total(FlopsOf, S)
  <2>1. Len(S) \in Nat
    BY <1>4, LenProperties DEF Decoders
  <2>2. work.at - 1 = Len(S)
    BY <1>1, <1>2, <1>5, <1>7, <2>1
  <2>. QED  BY <1>4, <2>2, WorthOfLayers, OneMore DEF Decoders
<1>9. G # <<>> => Len(G) \in Nat \ {0}
  <2>1. G # <<>> => Len(G) # 0
    BY <1>4, EmptySeq DEF Stages
  <2>. QED  BY <1>4, <2>1
<1>10. work.gen = <<>> <=> Len(G) = 0
  <2>1. work.gen = <<>> <=> Len(work.gen) = 0
    BY <1>2, EmptySeq DEF Stages
  <2>. QED  BY <1>5, <2>1
<1>11. SumCount' = Total(FlopsOf, S)
  <2>1. pc' # "sum"
    BY <1>1
  <2>. QED  BY <1>4, <2>1, CountsKept
<1>12. GenCount' = 0
  <2>1. CASE work.gen = <<>>
    <3>1. pc' = "report" /\ Len(G) = 0
      BY <1>1, <1>10, <2>1
    <3>2. StageTotals(G, 0) = 0
      BY <1>4, StageMore
    <3>. QED  BY <1>4, <3>1, <3>2, CountsKept
  <2>2. CASE work.gen # <<>>
    <3>1. pc' = "gen" /\ 1 \in 1..Len(G)
      BY <1>1, <1>4, <1>10, <2>2
    <3>2. StageTotals(G, 0) = 0 /\ UpTo(FlopsOf, G[1], 0) = 0
      BY <1>4, <3>1, StageMore, WorthOfLayers, OneMore DEF Decoders
    <3>3. work'.stage - 1 = 0 /\ work'.at - 1 = 0 /\ work'.stage = 1
      BY <1>3
    <3> HIDE DEF G
    <3>4. GenCount' = StageTotals(G, 0) + UpTo(FlopsOf, G[1], 0)
      BY <1>4, <3>1, <3>3, CountsKept DEF G
    <3>. QED  BY <3>2, <3>4
  <2>. QED  BY <2>1, <2>2
<1>13. CountedInv'
  <2>1. pc' = "gen" => 1 <= Len(G[1]) + 1
    <3>1. pc' = "gen" => Len(G) # 0
      BY <1>1, <1>10
    <3>2. ASSUME pc' = "gen" PROVE Len(G[1]) \in Nat
      <4>1. 1 \in 1..Len(G)
        BY <1>4, <3>1, <3>2
      <4>. QED  BY <1>4, <4>1, LenProperties DEF Decoders
    <3>. QED  BY <3>2
  <2>2. pc' # "sum"
    BY <1>1
  <2>3. pc' = "gen" => work'.at <= Len(BuiltGen'[work'.stage]) + 1
    BY <1>3, <1>4, <2>1
  <2>4. /\ Total(FlopsOf, BuiltSum)' = Total(FlopsOf, S)
        /\ StageTotals(BuiltGen, Len(BuiltGen))' = StageTotals(G, Len(G))
    BY <1>4, CountsKept
  <2> HIDE DEF S, G
  <2>. QED  BY <1>1, <1>3, <1>7, <1>8, <1>11, <1>12, <2>2, <2>3, <2>4 DEF CountedInv
<1>. QED  BY <1>6, <1>13 DEF CountInv

(* The figures of a stage, after it was pipelined and shared out.            *)
LEMMA DoneFigures ==
  ASSUME DevicesTyped, Consistent, HeadsOK, NEW block \in Decoders, NEW level \in BOOLEAN, NEW par,
         NEW bs, NEW t, SameFigures(block, t)
  PROVE  SameFigures(IF hetero # "PIM" THEN block
                     ELSE IF par THEN ParallelBlock(PipelinedBlock(block, level), bs)
                     ELSE PipelinedBlock(block, level), t)
<1> DEFINE piped == PipelinedBlock(block, level)
<1>1. piped \in Decoders
  BY PipelinedBlockType DEF Decoders
<1>2. SameFigures(piped, t)
  BY PipelinedFigures
<1> HIDE DEF piped
<1>3. SameFigures(ParallelBlock(piped, bs), t)
  BY <1>1, <1>2, ParallelFigures
<1>. QED  BY <1>2, <1>3 DEF piped

(* The end of a stage.                                                       *)
LEMMA EndOfStageCounts ==
  ASSUME TypedInv, Consistent, CountInv, EndOfStage
  PROVE  CountInv'
<1> DEFINE block == work.gen[work.stage]
           piped == PipelinedBlock(block, call.pipe)
           bs == work.batches[work.itr]
           done == IF hetero # "PIM" THEN block
                   ELSE IF call.par THEN ParallelBlock(piped, bs) ELSE piped
           S == BuiltSum
           G == BuiltGen
           g == G[work.stage]
           j == work.stage
<1>1. /\ pc = "gen" /\ pc' = (IF j = Len(work.gen) THEN "report" ELSE "gen")
      /\ work.at > Len(block)
      /\ work' = [work EXCEPT !.gen[work.stage] = done, !.stage = @ + 1, !.at = 1]
      /\ gpu' = gpu /\ hetero' = hetero /\ model' = model /\ call' = call
      /\ Calling /\ Calling' /\ WorkTyped /\ DevicesTyped /\ ModelTyped /\ CallTyped
      /\ BuiltInv /\ CountedInv
  BY DEF EndOfStage, Calling, TypedInv, CountInv
<1>2. /\ work \in WorkType /\ Len(work.gen) \in Nat /\ DOMAIN work.gen = 1..Len(work.gen)
      /\ work.gen \in Stages /\ j \in 1..Len(work.gen) /\ j \in Nat /\ work.at \in Nat
      /\ block \in Decoders /\ Len(block) \in Nat /\ model # NoModel /\ work.itr \in Nat
  <2>1. work.stage \in 1..Len(work.gen)
    BY <1>1, StagesReady DEF WorkTyped
  <2>2. work \in WorkType
    BY <1>1, StagesReady
  <2>3. work.itr \in Nat
    BY <2>2 DEF WorkType
  <2>. QED  BY <1>1, <2>1, <2>3, StagesReady
<1>3. HeadsOK /\ call.pipe \in BOOLEAN
  <2>1. call.pipe \in BOOLEAN
    BY <1>1, SimulationAssumption DEF CallTyped
  <2>. QED  BY <1>1, <1>2, <2>1, GpuIsReady, ModelIsReady DEF HeadsOK
<1>4. /\ BuiltSum' = S /\ BuiltGen' = G /\ S \in Decoders /\ G \in Stages /\ Len(G) \in Nat
      /\ \A s \in 1..Len(G) : G[s] \in Decoders
  BY <1>1, <1>2, BuiltKept, BuiltTypes
<1>5. /\ SameFigures(work.sum, S) /\ Len(work.gen) = Len(G)
      /\ \A s \in 1..Len(work.gen) : SameFigures(work.gen[s], G[s])
  BY <1>1 DEF BuiltInv
<1>6. SameFigures(block, g) /\ Len(g) = Len(block) /\ g \in Decoders
  BY <1>2, <1>4, <1>5 DEF SameFigures
<1> HIDE DEF bs, block, g
<1>7. SameFigures(done, g)
  BY <1>1, <1>2, <1>3, <1>6, DoneFigures
<1> HIDE DEF done
<1>8. /\ work'.at = 1 /\ work'.stage = j + 1 /\ work'.itr = work.itr /\ work'.sum = work.sum
      /\ work'.gen = [work.gen EXCEPT ![j] = done]
      /\ work'.sFlops = work.sFlops /\ work'.gFlops = work.gFlops
  BY <1>1, <1>2 DEF WorkType
<1>9. /\ work'.gen[j] = done /\ Len(work'.gen) = Len(work.gen)
      /\ \A s \in 1..Len(work.gen) : s # j => work'.gen[s] = work.gen[s]
  <2>1. work'.gen \in [1..Len(work.gen) -> {work'.gen[s] : s \in 1..Len(work.gen)}]
    BY <1>2, <1>8
  <2>2. Len(work'.gen) = Len(work.gen)
    BY <1>2, <2>1, LenProperties
  <2>. QED  BY <1>2, <1>8, <2>2
<1>10. BuiltInv'
  <2>1. \A s \in 1..Len(work.gen) : SameFigures(work'.gen[s], G[s])
    BY <1>5, <1>7, <1>9 DEF g
  <2>. QED  BY <1>4, <1>5, <1>8, <1>9, <2>1 DEF BuiltInv
<1>11. GenCount = StageTotals(G, j - 1) + UpTo(FlopsOf, g, work.at - 1) /\ work.at <= Len(g) + 1
  BY <1>1 DEF GenCount, CountedInv, g
<1> HIDE DEF S, G
<1>12. GenCount = StageTotals(G, j)
  <2>1. work.at - 1 = Len(g)
    BY <1>1, <1>2, <1>6, <1>11
  <2>2. UpTo(FlopsOf, g, Len(g)) = Total(FlopsOf, g)
    BY <1>6, WorthOfLayers, OneMore DEF Decoders
  <2>3. StageTotals(G, j) = StageTotals(G, j - 1) + Total(FlopsOf, G[j])
    BY <1>2, <1>4, <1>5, StageMore
  <2>. QED  BY <1>11, <2>1, <2>2, <2>3 DEF g
<1>13. GenCount' = StageTotals(G, j)
  <2>1. CASE j = Len(work.gen)
    <3>1. pc' = "report" /\ j = Len(G)
      BY <1>1, <1>5, <2>1
    <3>. QED  BY <1>4, <3>1, CountsKept DEF S, G
  <2>2. CASE j # Len(work.gen)
    <3>1. pc' = "gen" /\ j + 1 \in 1..Len(G) /\ j \in 0..Len(G)
      BY <1>1, <1>2, <1>5, <2>2
    <3>2. UpTo(FlopsOf, G[j + 1], 0) = 0 /\ StageTotals(G, j) \in Int
      BY <1>4, <3>1, StageMore, WorthOfLayers, OneMore DEF Decoders
    <3>3. work'.stage - 1 = j /\ work'.at - 1 = 0 /\ work'.stage = j + 1
      BY <1>2, <1>8
    <3> HIDE DEF j
    <3>4. GenCount' = StageTotals(G, j) + UpTo(FlopsOf, G[j + 1], 0)
      BY <1>4, <3>1, <3>3, CountsKept DEF G, S
    <3>. QED  BY <3>2, <3>4
  <2>. QED  BY <2>1, <2>2
<1>14. SumCount' = Total(FlopsOf, S) /\ SumCount = Total(FlopsOf, S)
  <2>1. pc' # "sum"
    BY <1>1
  <2>2. SumCount' = Total(FlopsOf, S)
    BY <1>4, <2>1, CountsKept DEF S, G
  <2>. QED  BY <1>1, <2>2 DEF SumCount, S
<1>15. /\ Total(FlopsOf, BuiltSum)' = Total(FlopsOf, S)
       /\ StageTotals(BuiltGen, Len(BuiltGen))' = StageTotals(G, Len(G))
  BY <1>4, CountsKept DEF S, G
<1>16. pc' = "gen" => work'.at <= Len(BuiltGen'[work'.stage]) + 1
  <2>1. SUFFICES ASSUME pc' = "gen" PROVE 1 <= Len(G[j + 1]) + 1
    BY <1>4, <1>8
  <2>2. j + 1 \in 1..Len(G)
    BY <1>1, <1>2, <1>5, <2>1
  <2>3. Len(G[j + 1]) \in Nat
    BY <1>4, <2>2, LenProperties DEF Decoders
  <2>. QED  BY <2>3
<1>17. /\ work.sFlops = gpu.num * ((work.itr - 1) * Total(FlopsOf, S) + SumCount)
       /\ work.gFlops = gpu.num * ((work.itr - 1) * StageTotals(G, Len(G)) + GenCount)
  BY <1>1 DEF CountedInv, S, G
<1>18. pc' # "sum"
  BY <1>1
<1>19. CountedInv'
  BY <1>1, <1>8, <1>12, <1>13, <1>14, <1>15, <1>16, <1>17, <1>18 DEF CountedInv
<1>. QED  BY <1>10, <1>19 DEF CountInv

(* Once more for another batch.                                              *)
LEMMA OnceMore ==
  ASSUME NEW i \in Int, NEW t \in Int
  PROVE  (i - 1) * t + t = ((i + 1) - 1) * t + 0
<1>1. (i - 1) * t + t = i * t /\ i * t \in Int
  OBVIOUS
<1>2. (i + 1) - 1 = i
  OBVIOUS
<1>. QED  BY <1>1, <1>2

(* The next batch: what was counted are the batches before it.               *)
LEMMA NextBatchCounts ==
  ASSUME TypedInv, CountInv, NextBatch
  PROVE  CountInv'
<1> DEFINE S == BuiltSum
           G == BuiltGen
           T == Total(FlopsOf, S)
           U == StageTotals(G, Len(G))
<1>1. /\ pc = "report" /\ pc' = "sum"
      /\ work' = [work EXCEPT !.itr = @ + 1, !.at = 1, !.stage = 1, !.elapsed = 0, !.busy = 0]
      /\ gpu' = gpu /\ hetero' = hetero /\ model' = model /\ call' = call
      /\ Calling /\ Calling' /\ WorkTyped /\ ModelTyped /\ CallTyped /\ BuiltInv /\ CountedInv
  BY DEF NextBatch, Calling, TypedInv, CountInv
<1>2. work \in WorkType /\ model # NoModel /\ work.itr \in Int
  <2>1. work \in WorkType /\ model # NoModel
    BY <1>1, StagesReady
  <2>. QED  BY <2>1 DEF WorkType
<1>3. /\ work'.at = 1 /\ work'.itr = work.itr + 1 /\ work'.sum = work.sum
      /\ work'.gen = work.gen /\ work'.sFlops = work.sFlops /\ work'.gFlops = work.gFlops
  BY <1>1, <1>2 DEF WorkType
<1>4. BuiltSum' = S /\ BuiltGen' = G /\ S \in Decoders /\ G \in Stages /\ Len(G) \in Nat
  BY <1>1, <1>2, BuiltKept, BuiltTypes
<1>5. BuiltInv'
  BY <1>1, <1>3, <1>4 DEF BuiltInv
<1>6. T \in Int /\ U \in Int /\ UpTo(FlopsOf, S, 0) = 0 /\ Len(S) \in Nat
  <2>1. Len(G) \in 0..Len(G)
    BY <1>4
  <2>. QED  BY <1>4, <2>1, WorthOfLayers, OneMore, StageMore, LenProperties DEF Decoders
<1>7. work.sFlops = gpu.num * ((work.itr - 1) * T + T) /\ work.gFlops = gpu.num * ((work.itr - 1) * U + U)
  BY <1>1 DEF CountedInv, SumCount, GenCount
<1>8. /\ Total(FlopsOf, BuiltSum)' = T /\ StageTotals(BuiltGen, Len(BuiltGen))' = U
      /\ SumCount' = 0 /\ GenCount' = 0
  <2>1. work'.at - 1 = 0
    BY <1>3
  <2>. QED  BY <1>1, <1>4, <1>6, <2>1, CountsKept
<1> HIDE DEF S, G, T, U
<1>9. /\ work'.sFlops = gpu.num * ((work'.itr - 1) * T + 0)
      /\ work'.gFlops = gpu.num * ((work'.itr - 1) * U + 0)
  <2>1. (work.itr - 1) * T + T = ((work.itr + 1) - 1) * T + 0
    BY <1>2, <1>6, OnceMore
  <2>2. (work.itr - 1) * U + U = ((work.itr + 1) - 1) * U + 0
    BY <1>2, <1>6, OnceMore
  <2>. QED  BY <1>3, <1>7, <2>1, <2>2
<1>10. work'.at <= Len(BuiltSum)' + 1
  BY <1>3, <1>4, <1>6
<1>11. CountedInv'
  BY <1>1, <1>8, <1>9, <1>10 DEF CountedInv
<1>. QED  BY <1>5, <1>11 DEF CountInv

(* A call.                                                                   *)
LEMMA SimulateCounts ==
  ASSUME TypedInv, NEW c \in Calls, Simulate(c)
  PROVE  CountInv'
<1> DEFINE S == SumDecoder(model.infos, model.tp, c.batch, c.lin, Heterogeneous)
           G == GenDecoders(model.infos, model.tp, c.batch, c.lin, c.lout, Heterogeneous)
<1>1. /\ model # NoModel /\ pc' = "sum" /\ ModelTyped /\ Calling'
      /\ gpu' = gpu /\ hetero' = hetero /\ model' = model /\ call' = c
      /\ work' = [Idle EXCEPT !.batches = TargetBatches(c), !.itr = 1, !.stage = 1, !.at = 1,
                              !.sum = S, !.gen = G]
  BY DEF Simulate, TypedInv, Calling
<1>2. S \in Decoders /\ G \in Stages /\ Len(G) \in Nat /\ Len(S) \in Nat
  <2>1. Heterogeneous \in BOOLEAN /\ model.infos \in Models /\ model.tp \in GpuCounts
    BY <1>1, ModelIsReady DEF Heterogeneous
  <2>2. S \in Decoders /\ G \in Stages
    BY <2>1, GpusShare, DecodersType DEF Decoders, Stages
  <2> HIDE DEF S, G
  <2>. QED  BY <2>2, LenProperties DEF Decoders, Stages
<1>3. BuiltSum' = S /\ BuiltGen' = G
  BY <1>1 DEF BuiltSum, BuiltGen, Heterogeneous
<1> HIDE DEF S, G
<1>4. /\ work'.at = 1 /\ work'.itr = 1 /\ work'.sum = S /\ work'.gen = G
      /\ work'.sFlops = 0 /\ work'.gFlops = 0
  BY <1>1 DEF Idle
<1>5. BuiltInv'
  BY <1>3, <1>4 DEF BuiltInv, SameFigures
<1>6. SumCount' = 0 /\ GenCount' = 0
  <2>1. SumCount' = UpTo(FlopsOf, S, 0)
    <3>1. SumCount' = UpTo(FlopsOf, BuiltSum', work'.at - 1)
      BY <1>1 DEF SumCount, UpTo, FlopsOf
    <3>2. work'.at - 1 = 0
      BY <1>4
    <3>. QED  BY <1>3, <3>1, <3>2
  <2>2. GenCount' = 0
    BY <1>1 DEF GenCount
  <2>3. UpTo(FlopsOf, S, 0) = 0
    BY <1>2, WorthOfLayers, OneMore DEF Decoders
  <2>. QED  BY <2>1, <2>2, <2>3
<1>7. gpu.num \in Nat
  BY GpuIsReady DEF TypedInv
<1>8. /\ Total(FlopsOf, BuiltSum)' = Total(FlopsOf, S) /\ Total(FlopsOf, S) \in Int
      /\ StageTotals(BuiltGen, Len(BuiltGen))' = StageTotals(G, Len(G)) /\ StageTotals(G, Len(G)) \in Int
  <2>1. Len(G) \in 0..Len(G)
    BY <1>2
  <2>2. /\ Total(FlopsOf, BuiltSum)' = Total(FlopsOf, S)
        /\ StageTotals(BuiltGen, Len(BuiltGen))' = StageTotals(G, Len(G))
    BY <1>3 DEF Total, StageTotals, FlopsOf
  <2>. QED  BY <1>2, <2>1, <2>2, WorthOfLayers, OneMore, StageMore DEF Decoders
<1>9. \A n, t \in Int : n * ((1 - 1) * t + 0) = 0
  OBVIOUS
<1>10. work'.at <= Len(BuiltSum)' + 1
  BY <1>2, <1>3, <1>4
<1>11. CountedInv'
  <2>1. work'.sFlops = gpu'.num * ((work'.itr - 1) * Total(FlopsOf, BuiltSum)' + SumCount')
    BY <1>1, <1>4, <1>6, <1>7, <1>8, <1>9
  <2>2. work'.gFlops = gpu'.num * ((work'.itr - 1) * StageTotals(BuiltGen, Len(BuiltGen))' + GenCount')
    BY <1>1, <1>4, <1>6, <1>7, <1>8, <1>9
  <2>. QED  BY <1>1, <1>10, <2>1, <2>2 DEF CountedInv
<1>. QED  BY <1>5, <1>11 DEF CountInv

(* Every step keeps the counts.                                              *)
LEMMA StepsKeepCounts ==
  ASSUME SimulatorAnswers
  PROVE  CountInv /\ TypedInv /\ Consistent /\ [Next]_vars => CountInv'
<1> SUFFICES ASSUME CountInv, TypedInv, Consistent, [Next]_vars PROVE CountInv'
  OBVIOUS
<1>1. ASSUME ~Calling' PROVE CountInv'
  BY <1>1 DEF CountInv, BuiltInv, CountedInv
<1>2. CASE \/ \E infos \in Models \cup {NoModel}, name \in {"NONE", "CPU"} : New(infos, name)
           \/ \E infos \in Models : SetModel(infos) \/ \E config \in PimConfigs : SetPim(infos, config)
           \/ SetCpu \/ (\E n \in GpuCounts : SetXpu(n)) \/ Fail \/ Report
  <2>1. pc' = "idle"
    BY <1>2 DEF New, SetModel, SetPim, SetCpu, SetXpu, Configuring, Fail, Report
  <2>. QED  BY <1>1, <2>1 DEF Calling
<1>3. ASSUME NEW c \in Calls, Simulate(c) PROVE CountInv'
  BY <1>3, SimulateCounts
<1>4. CASE SumLayer
  BY <1>4, SumLayerCounts
<1>5. CASE EndOfSum
  BY <1>5, EndOfSumCounts
<1>6. CASE GenLayer
  BY <1>6, GenLayerCounts
<1>7. CASE EndOfStage
  BY <1>7, EndOfStageCounts
<1>8. CASE NextBatch
  BY <1>8, NextBatchCounts
<1>9. CASE UNCHANGED vars
  BY <1>9 DEF vars, CountInv, BuiltInv, CountedInv, Calling, BuiltSum, BuiltGen, Heterogeneous,
              SumCount, GenCount
<1>. QED  BY <1>2, <1>3, <1>4, <1>5, <1>6, <1>7, <1>8, <1>9 DEF Next

(* So the counts are always right ...                                        *)
LEMMA CountInvHolds ==
  ASSUME SimulatorAnswers
  PROVE  Spec => []CountInv
<1>1. Init => CountInv
  BY DEF Init, CountInv, BuiltInv, CountedInv, Calling
<1>2. CountInv /\ TypedInv /\ Consistent /\ [Next]_vars => CountInv'
  BY StepsKeepCounts
<1>. QED  BY <1>1, <1>2, TypedInvHolds, SimulationConsistent, PTL DEF Spec

---------------------------------------------------------------------------
(* The operations of the whole model.                                        *)

(* The sums that the properties speak of.                                    *)
LEMMA SumsOfLayers ==
  ASSUME NEW s \in Decoders
  PROVE  /\ SumOver(s, Flops) = Total(FlopsOf, s)
         /\ SumOver(s, LAMBDA l : IF l.type = "NORM" THEN Flops(l) ELSE 0) = Total(NormsOf, s)
         /\ SumOver(s, LAMBDA l : IF l.type = "FC" THEN l.n * l.k * l.dbyte ELSE 0) = Total(WeightsOf, s)
<1>1. \A i \in DOMAIN s : s[i] \in LayerRec
  BY LenProperties, ElementOfSeq DEF Decoders
<1>2. /\ [i \in DOMAIN s |-> Flops(s[i])] = [i \in DOMAIN s |-> FlopsOf[s[i]]]
      /\ [i \in DOMAIN s |-> IF s[i].type = "NORM" THEN Flops(s[i]) ELSE 0]
           = [i \in DOMAIN s |-> NormsOf[s[i]]]
      /\ [i \in DOMAIN s |-> IF s[i].type = "FC" THEN s[i].n * s[i].k * s[i].dbyte ELSE 0]
           = [i \in DOMAIN s |-> WeightsOf[s[i]]]
  BY <1>1 DEF FlopsOf, NormsOf, WeightsOf
<1>. QED  BY <1>2 DEF SumOver, Total

(* Every call counts a multiple of what the GPUs compute for a batch.        *)
LEMMA BatchesCounted ==
  ASSUME NEW n \in Int, NEW i \in Int, NEW t \in Int, NEW u \in Int, NEW v \in Int,
         n * t = u + (n - 1) * v
  PROVE  n * ((i - 1) * t + t) = i * (u + (n - 1) * v)
<1>1. (i - 1) * t + t = i * t
  OBVIOUS
<1>2. n * (i * t) = i * (n * t)
  OBVIOUS
<1>. QED  BY <1>1, <1>2

(* ... and when all is counted, it is what the property says.                *)
LEMMA CountInvCounts ==
  CountInv /\ TypedInv /\ Consistent => FlopsOfWholeModel
<1> SUFFICES ASSUME CountInv, TypedInv, Consistent, pc = "report",
                    model.infos.heads % gpu.num = 0, model.infos.hdim % gpu.num = 0
             PROVE  LET Norms(l) == IF l.type = "NORM" THEN Flops(l) ELSE 0
                        Whole(layers) == SumOver(layers, Flops) + (gpu.num - 1) * SumOver(layers, Norms)
                    IN /\ work.sFlops = work.itr *
                            Whole(SumDecoder(model.infos, 1, call.batch, call.lin, Heterogeneous))
                       /\ work.gFlops = work.itr *
                            Whole(FlattenSeq(GenDecoders(model.infos, 1, call.batch, call.lin, call.lout,
                                                         Heterogeneous)))
  BY DEF FlopsOfWholeModel
<1> DEFINE Norms(l) == IF l.type = "NORM" THEN Flops(l) ELSE 0
           n == gpu.num
           S == SumDecoder(model.infos, 1, call.batch, call.lin, Heterogeneous)
           G == GenDecoders(model.infos, 1, call.batch, call.lin, call.lout, Heterogeneous)
           F == FlattenSeq(G)
           H == FlattenSeq(BuiltGen)
<1>1. Calling /\ WorkTyped /\ ModelTyped /\ CallTyped /\ DevicesTyped /\ BuiltInv /\ CountedInv
  BY DEF Calling, TypedInv, CountInv
<1>2. model # NoModel /\ work \in WorkType /\ work.itr \in Int
  <2>1. model # NoModel /\ work \in WorkType
    BY <1>1, StagesReady
  <2>. QED  BY <2>1 DEF WorkType
<1>3. model.tp = n /\ n \in Int
  BY <1>1, <1>2, GpuIsReady DEF Consistent
<1>4. /\ model.infos \in Models /\ n \in Shares(model.infos) /\ call \in Calls /\ Heterogeneous \in BOOLEAN
  BY <1>1, <1>2, <1>3, ModelIsReady, GpusShare DEF Heterogeneous, CallTyped
<1>5. InProportion(n, BuiltSum, S) /\ InProportion(n, H, F)
  BY <1>3, <1>4, DecodersInProportion DEF BuiltSum, BuiltGen
<1>6. /\ work.sFlops = n * ((work.itr - 1) * Total(FlopsOf, BuiltSum) + Total(FlopsOf, BuiltSum))
      /\ work.gFlops = n * ((work.itr - 1) * Total(FlopsOf, H) + Total(FlopsOf, H))
  <2>1. StageTotals(BuiltGen, Len(BuiltGen)) = Total(FlopsOf, H)
    BY <1>1, <1>2, BuiltTypes, WorthOfLayers, TotalOfStages DEF StageTotals, Stages, Decoders
  <2>. QED  BY <1>1, <2>1 DEF CountedInv, SumCount, GenCount
<1> HIDE DEF n, S, F, H
<1>7. S \in Decoders /\ F \in Decoders /\ BuiltSum \in Decoders /\ H \in Decoders
  BY <1>5 DEF InProportion, Decoders
<1>8. /\ n * Total(FlopsOf, BuiltSum) = Total(FlopsOf, S) + (n - 1) * Total(NormsOf, S)
      /\ n * Total(FlopsOf, H) = Total(FlopsOf, F) + (n - 1) * Total(NormsOf, F)
  BY <1>5 DEF InProportion
<1>9. \A s \in Decoders : Total(FlopsOf, s) \in Int /\ Total(NormsOf, s) \in Int
  BY WorthOfLayers, OneMore DEF Decoders
<1>10. /\ work.sFlops = work.itr * (Total(FlopsOf, S) + (n - 1) * Total(NormsOf, S))
       /\ work.gFlops = work.itr * (Total(FlopsOf, F) + (n - 1) * Total(NormsOf, F))
  BY <1>2, <1>3, <1>6, <1>7, <1>8, <1>9, BatchesCounted
<1>11. ASSUME NEW s \in Decoders
       PROVE  SumOver(s, Flops) = Total(FlopsOf, s) /\ SumOver(s, Norms) = Total(NormsOf, s)
  BY SumsOfLayers
<1>. QED  BY <1>7, <1>10, <1>11 DEF n, S, F

---------------------------------------------------------------------------
(* The memory that is required.                                              *)

(* The layers of lists that are joined.                                      *)
LEMMA JoinRanges ==
  ASSUME NEW s \in Seq(LayerRec), NEW t \in Seq(LayerRec)
  PROVE  s \o t \in Seq(LayerRec) /\ Range(s \o t) = Range(s) \cup Range(t)
<1> DEFINE u == s \o t
           m == Len(s)
           n == Len(t)
<1>1. /\ u \in Seq(LayerRec) /\ m \in Nat /\ n \in Nat /\ Len(u) = m + n
      /\ DOMAIN s = 1..m /\ DOMAIN t = 1..n /\ DOMAIN u = 1..(m + n)
  BY ConcatProperties, LenProperties
<1>2. \A i \in 1..m : u[i] = s[i]
  BY ConcatProperties, LenProperties
<1>3. \A i \in 1..n : u[m + i] = t[i]
  BY <1>1, ConcatProperties
<1>4. \A i \in DOMAIN u : i \in 1..m \/ (i - m \in 1..n /\ m + (i - m) = i)
  BY <1>1
<1>5. \A i \in 1..m : i \in DOMAIN u
  BY <1>1
<1>6. \A i \in 1..n : m + i \in DOMAIN u
  BY <1>1
<1> HIDE DEF u, m, n
<1>7. Range(u) \subseteq Range(s) \cup Range(t)
  BY <1>1, <1>2, <1>3, <1>4 DEF Range
<1>8. Range(s) \subseteq Range(u)
  BY <1>1, <1>2, <1>5 DEF Range
<1>9. Range(t) \subseteq Range(u)
  BY <1>1, <1>3, <1>6 DEF Range
<1>. QED  BY <1>1, <1>7, <1>8, <1>9 DEF u

(* The layer that multiplies the queries by the keys is the only one of its name. *)
NoScore(s) == s \in Seq(LayerRec) /\ \A l \in Range(s) : l.name # "score"
OnlyScore(s, score) ==
  /\ s \in Seq(LayerRec) /\ score \in Range(s) /\ score.name = "score"
  /\ \A l \in Range(s) : l.name = "score" => l = score

(* Lists are joined in the order of the decoder.                             *)
LEMMA JoinScores ==
  ASSUME NEW s, NEW t, NEW score
  PROVE  /\ NoScore(s) /\ NoScore(t) => NoScore(s \o t)
         /\ OnlyScore(s, score) /\ NoScore(t) => OnlyScore(s \o t, score)
         /\ NoScore(s) /\ OnlyScore(t, score) => OnlyScore(s \o t, score)
BY JoinRanges DEF NoScore, OnlyScore

(* Lists of few layers.                                                      *)
LEMMA FewScores ==
  ASSUME NEW a \in LayerRec, NEW b \in LayerRec, NEW c \in LayerRec, NEW d \in LayerRec,
         b.name # "score", c.name # "score", d.name # "score"
  PROVE  /\ NoScore(<<>>) /\ NoScore(<<b>>) /\ NoScore(<<b, c>>) /\ NoScore(<<b, c, d>>)
         /\ a.name = "score" => OnlyScore(<<a, b, c>>, a)
         /\ a.name # "score" => NoScore(<<a, b, c, d>>)
<1>1. /\ Range(<<>>) = {} /\ Range(<<b>>) = {b} /\ Range(<<b, c>>) = {b, c}
      /\ Range(<<b, c, d>>) = {b, c, d} /\ Range(<<a, b, c>>) = {a, b, c}
      /\ Range(<<a, b, c, d>>) = {a, b, c, d}
  <2>1. /\ DOMAIN <<b>> = {1} /\ DOMAIN <<b, c>> = {1, 2} /\ DOMAIN <<b, c, d>> = {1, 2, 3}
        /\ DOMAIN <<a, b, c>> = {1, 2, 3} /\ DOMAIN <<a, b, c, d>> = {1, 2, 3, 4}
    OBVIOUS
  <2>2. Range(<<>>) = {}
    BY DEF Range
  <2>3. Range(<<b>>) = {b}
    BY <2>1 DEF Range
  <2>4. Range(<<b, c>>) = {b, c}
    BY <2>1 DEF Range
  <2>5. Range(<<b, c, d>>) = {b, c, d}
    BY <2>1 DEF Range
  <2>6. Range(<<a, b, c>>) = {a, b, c}
    BY <2>1 DEF Range
  <2>7. Range(<<a, b, c, d>>) = {a, b, c, d}
    BY <2>1 DEF Range
  <2>. QED  BY <2>2, <2>3, <2>4, <2>5, <2>6, <2>7
<1>2. /\ <<>> \in Seq(LayerRec) /\ <<b>> \in Seq(LayerRec) /\ <<b, c>> \in Seq(LayerRec)
      /\ <<b, c, d>> \in Seq(LayerRec) /\ <<a, b, c>> \in Seq(LayerRec)
      /\ <<a, b, c, d>> \in Seq(LayerRec)
  OBVIOUS
<1>. QED  BY <1>1, <1>2 DEF NoScore, OnlyScore

(* The layers of the feed-forward network have names of their own.           *)
LEMMA FeedForwardScores ==
  ASSUME NEW infos \in Models, NEW n \in Shares(infos), NEW rows \in Positive
  PROVE  NoScore(FeedForward(infos, n, rows))
<1> DEFINE A == infos.ff * PerGpu(infos, n)
           up(name) == Layer(infos, name, "FC", rows, A, infos.hdim, 1)
           act(name) == Layer(infos, name, "ACT", rows, A, 1, 1)
           down(name) == Layer(infos, name, "FC", rows, infos.hdim, A, 1)
<1>1. FeedForward(infos, n, rows) =
        CASE infos.kind = "LLAMA" -> <<up("ff1"), up("ff2"), act("glu"), down("ff3")>>
          [] infos.kind = "OPT" -> <<up("ff1"), act("relu"), down("ff2")>>
          [] OTHER -> <<up("ff1"), act("gelu"), down("ff2")>>
  BY DEF FeedForward
<1>2. A \in Positive /\ infos.hdim \in Positive /\ 1 \in Positive
  BY Widths, TimesType DEF Positive
<1> DEFINE names == {"ff1", "ff2", "ff3", "glu", "relu", "gelu"}
<1>3. names \subseteq LayerNames /\ "FC" \in LayerTypes /\ "ACT" \in LayerTypes
  BY DEF LayerNames, LayerTypes
<1> HIDE DEF A
<1>4. ASSUME NEW name \in names
      PROVE  /\ up(name) \in LayerRec /\ act(name) \in LayerRec /\ down(name) \in LayerRec
             /\ up(name).name = name /\ act(name).name = name /\ down(name).name = name
  <2>1. name \in LayerNames
    BY <1>3
  <2>2. up(name) \in LayerRec
    BY <1>2, <1>3, <2>1, LayerType
  <2>3. act(name) \in LayerRec
    BY <1>2, <1>3, <2>1, LayerType
  <2>4. down(name) \in LayerRec
    BY <1>2, <1>3, <2>1, LayerType
  <2>. QED  BY <2>2, <2>3, <2>4, FieldsOfLayer
<1> HIDE DEF up, act, down
<1>5. /\ up("ff1") \in LayerRec /\ up("ff1").name # "score"
      /\ up("ff2") \in LayerRec /\ up("ff2").name # "score"
      /\ act("glu") \in LayerRec /\ act("glu").name # "score"
      /\ act("relu") \in LayerRec /\ act("relu").name # "score"
      /\ act("gelu") \in LayerRec /\ act("gelu").name # "score"
      /\ down("ff2") \in LayerRec /\ down("ff2").name # "score"
      /\ down("ff3") \in LayerRec /\ down("ff3").name # "score"
  BY <1>4
<1>6. NoScore(<<up("ff1"), up("ff2"), act("glu"), down("ff3")>>)
  BY <1>5, FewScores
<1>7. NoScore(<<up("ff1"), act("relu"), down("ff2")>>)
  BY <1>5, FewScores
<1>8. NoScore(<<up("ff1"), act("gelu"), down("ff2")>>)
  BY <1>5, FewScores
<1>. QED  BY <1>1, <1>6, <1>7, <1>8

(* A decoder has one layer score.                                            *)
LEMMA ScoreOfDecoder ==
  ASSUME NEW infos \in Models, NEW n \in Shares(infos),
         NEW batch \in Positive, NEW rows \in Positive, NEW q \in Positive, NEW kv \in Positive,
         NEW s, NEW t, NoScore(s), NoScore(t)
  PROVE  OnlyScore(Decoder(infos, n, batch, rows, q, kv, s, t),
                   Layer(infos, "score", "MATMUL", q, kv, HeadDim(infos), HeadsPerGpu(infos, n) * batch))
<1> DEFINE heads == HeadsPerGpu(infos, n) * batch
           score == Layer(infos, "score", "MATMUL", q, kv, HeadDim(infos), heads)
           softmax == Layer(infos, "softmax", "SOFTMAX", q, kv, 1, heads)
           context == Layer(infos, "context", "MATMUL", q, HeadDim(infos), kv, heads)
           qkv == Layer(infos, "qkv", "FC", rows, 3 * PerGpu(infos, n), infos.hdim, 1)
           proj == Layer(infos, "proj", "FC", rows, infos.hdim, PerGpu(infos, n), 1)
           comm == Layer(infos, "comm_g2g", "G2G", rows, infos.hdim, 1, 1)
           norm1 == Layer(infos, "norm1", "NORM", rows, infos.hdim, 1, 1)
           norm2 == Layer(infos, "norm2", "NORM", rows, infos.hdim, 1, 1)
           a == Projection(infos, n, rows)
           b == Attention(infos, q, kv, heads)
           c == Output(infos, n, rows)
           d == FeedForward(infos, n, rows)
           e == Closing(infos, rows)
<1>1. /\ a = <<qkv>> /\ b = <<score, softmax, context>> /\ c = <<proj, comm, norm1>> /\ e = <<comm, norm2>>
      /\ Decoder(infos, n, batch, rows, q, kv, s, t) = a \o s \o b \o t \o c \o d \o e
  BY DEF Decoder, Projection, Attention, Output, Closing
<1>2. /\ a \in Seq(LayerRec) /\ b \in Seq(LayerRec) /\ c \in Seq(LayerRec) /\ e \in Seq(LayerRec)
  BY DecoderParts
<1>3. /\ qkv.name = "qkv" /\ score.name = "score" /\ softmax.name = "softmax" /\ context.name = "context"
      /\ proj.name = "proj" /\ comm.name = "comm_g2g" /\ norm1.name = "norm1" /\ norm2.name = "norm2"
  BY FieldsOfLayer
<1>4. NoScore(d)
  BY FeedForwardScores
<1> HIDE DEF qkv, score, softmax, context, proj, comm, norm1, norm2, a, b, c, d, e
<1>5. /\ qkv \in LayerRec /\ score \in LayerRec /\ softmax \in LayerRec /\ context \in LayerRec
      /\ proj \in LayerRec /\ comm \in LayerRec /\ norm1 \in LayerRec /\ norm2 \in LayerRec
  <2>1. /\ a[1] = qkv /\ b[1] = score /\ b[2] = softmax /\ b[3] = context
        /\ c[1] = proj /\ c[2] = comm /\ c[3] = norm1 /\ e[2] = norm2
        /\ Len(a) = 1 /\ Len(b) = 3 /\ Len(c) = 3 /\ Len(e) = 2
    BY <1>1
  <2>2. 1 \in 1..1 /\ 1 \in 1..3 /\ 2 \in 1..3 /\ 3 \in 1..3 /\ 2 \in 1..2
    OBVIOUS
  <2>. QED  BY <1>2, <2>1, <2>2, ElementOfSeq
<1>6. NoScore(a) /\ OnlyScore(b, score) /\ NoScore(c) /\ NoScore(e)
  BY <1>1, <1>3, <1>5, FewScores
<1>7. NoScore(a \o s)
  BY <1>6, JoinScores
<1>8. OnlyScore(a \o s \o b, score)
  BY <1>6, <1>7, JoinScores
<1>9. OnlyScore(a \o s \o b \o t, score)
  BY <1>8, JoinScores
<1>10. OnlyScore(a \o s \o b \o t \o c, score)
  BY <1>6, <1>9, JoinScores
<1>11. OnlyScore(a \o s \o b \o t \o c \o d, score)
  BY <1>4, <1>10, JoinScores
<1>12. OnlyScore(a \o s \o b \o t \o c \o d \o e, score)
  BY <1>6, <1>11, JoinScores
<1>. QED  BY <1>1, <1>12 DEF score

(* So has every decoder of the generation.                                   *)
LEMMA ScoreOfStage ==
  ASSUME NEW infos \in Models, NEW n \in Shares(infos), NEW c \in Calls, NEW remote \in BOOLEAN,
         NEW stage \in Nat
  PROVE  OnlyScore(GenDecoder(infos, n, c.batch, c.lin, stage, remote),
                   Layer(infos, "score", "MATMUL", 1, c.lin + stage, HeadDim(infos),
                         HeadsPerGpu(infos, n) * c.batch))
<1> DEFINE kv == c.lin + stage
           x == X2G(infos, c.batch, 3 * PerGpu(infos, n), 1)
           y == X2G(infos, 1, HeadDim(infos), HeadsPerGpu(infos, n) * c.batch)
           before == IF remote THEN <<x>> ELSE <<>>
           after == IF remote THEN <<y>> ELSE <<>>
           one == 1
<1>1. c.batch \in Positive /\ c.lin \in Positive /\ one \in Positive /\ kv \in Positive
  BY SimulationAssumption DEF Positive
<1>2. x \in LayerRec /\ y \in LayerRec
  <2>1. ASSUME NEW m \in Positive, NEW w \in Positive, NEW k \in Positive
        PROVE X2G(infos, m, w, k) \in LayerRec
    <3>1. "X2G" \in LayerTypes /\ "comm_x2g" \in LayerNames /\ 1 \in Positive
      BY DEF LayerTypes, LayerNames, Positive
    <3>. QED  BY <3>1, LayerType DEF X2G
  <2>2. /\ 3 * PerGpu(infos, n) \in Positive /\ 1 \in Positive
        /\ HeadDim(infos) \in Positive /\ HeadsPerGpu(infos, n) * c.batch \in Positive
    <3>1. 3 \in Positive /\ 1 \in Positive
      BY DEF Positive
    <3>. QED  BY <1>1, <3>1, Widths, TimesType
  <2>. QED  BY <1>1, <2>1, <2>2
<1>3. x.name = "comm_x2g" /\ y.name = "comm_x2g"
  BY FieldsOfLayer DEF X2G
<1>4. GenDecoder(infos, n, c.batch, c.lin, stage, remote)
        = Decoder(infos, n, c.batch, c.batch, one, kv, before, after)
  BY DEF GenDecoder
<1> HIDE DEF x, y
<1>5. NoScore(before) /\ NoScore(after)
  BY <1>2, <1>3, FewScores
<1> HIDE DEF before, after, kv
<1>6. OnlyScore(Decoder(infos, n, c.batch, c.batch, one, kv, before, after),
                Layer(infos, "score", "MATMUL", one, kv, HeadDim(infos), HeadsPerGpu(infos, n) * c.batch))
  <2> HIDE DEF one
  <2>. QED  BY <1>1, <1>5, ScoreOfDecoder
<1>. QED  BY <1>4, <1>6 DEF kv

(* GPUs that divide the heads, which divide the width, divide the width.      *)
LEMMA HeadsShareWidth ==
  ASSUME NEW infos \in Models, NEW n \in Shares(infos),
         infos.heads % n = 0, infos.hdim % infos.heads = 0
  PROVE  /\ infos.hdim % n = 0 /\ infos.heads * HeadDim(infos) = infos.hdim
         /\ n * HeadsPerGpu(infos, n) = infos.heads
<1> DEFINE h == infos.heads
           w == infos.hdim
           a == HeadsPerGpu(infos, n)
           x == HeadDim(infos)
<1>1. n \in Nat \ {0} /\ h \in Nat \ {0} /\ w \in Nat /\ a \in Nat /\ x \in Nat
  BY Widths DEF Positive
<1>2. h = n * a + 0 /\ w = h * x + 0
  <2>1. h = n * (h \div n) + (h % n) /\ w = h * (w \div h) + (w % h)
    BY <1>1, Remainder
  <2>. QED  BY <2>1 DEF HeadsPerGpu, HeadDim
<1> HIDE DEF h, w, a, x
<1>3. h = n * a /\ w = h * x
  BY <1>1, <1>2
<1>4. a * x \in Nat /\ 0 \in 0..(n - 1)
  BY <1>1
<1>5. (0 + n * (a * x)) % n = 0
  BY <1>1, <1>4, DivideUnique
<1>6. w = 0 + n * (a * x)
  BY <1>1, <1>3
<1>. QED  BY <1>3, <1>5, <1>6 DEF h, w, a, x

(* The layer that is found by its name has the figures of the one that was built. *)
LEMMA ScoreIsFound ==
  ASSUME NEW s \in Decoders, NEW t, SameFigures(s, t), NEW score, OnlyScore(t, score)
  PROVE  Bare(LayerNamed(s, "score")) = Bare(score)
<1> DEFINE j == CHOOSE i \in DOMAIN s : s[i].name = "score"
<1>1. /\ Len(s) = Len(t) /\ DOMAIN s = 1..Len(s) /\ DOMAIN t = 1..Len(s)
      /\ \A i \in 1..Len(s) : Bare(s[i]) = Bare(t[i])
  BY LenProperties DEF Decoders, SameFigures, OnlyScore
<1>2. PICK i \in 1..Len(s) : t[i] = score
  BY <1>1 DEF OnlyScore, Range
<1>3. score.name = "score"
  BY DEF OnlyScore
<1>4. s[i].name = "score"
  <2>1. Bare(s[i]) = Bare(score)
    BY <1>1, <1>2
  <2>. QED  BY <1>3, <2>1, BareFigures
<1>5. j \in DOMAIN s /\ s[j].name = "score"
  BY <1>1, <1>4
<1> HIDE DEF j
<1>6. t[j] \in Range(t) /\ t[j].name = "score"
  <2>1. j \in DOMAIN t /\ Bare(s[j]) = Bare(t[j])
    BY <1>1, <1>5
  <2>2. t[j].name = s[j].name
    BY <2>1, BareFigures
  <2>. QED  BY <1>5, <2>1, <2>2 DEF Range
<1>7. t[j] = score
  BY <1>6 DEF OnlyScore
<1>8. Bare(s[j]) = Bare(score)
  BY <1>1, <1>5, <1>7
<1>. QED  BY <1>8 DEF LayerNamed, j

(* The keys and values of all heads of all sequences, on all GPUs.            *)
LEMMA KeysAndValues ==
  ASSUME NEW n \in Nat, NEW d \in Nat, NEW t \in Nat, NEW x \in Nat, NEW a \in Nat, NEW b \in Nat,
         NEW e \in Nat, NEW h \in Nat, NEW w \in Nat, h = n * a, w = h * x
  PROVE  d * 2 * t * w * e * b = n * d * 2 * t * x * (a * b) * e
<1>1. w = n * (a * x)
  OBVIOUS
<1>2. d * 2 * t * w * e * b = (d * 2 * t * e * b) * w
  OBVIOUS
<1>3. n * d * 2 * t * x * (a * b) * e = (d * 2 * t * e * b) * (n * (a * x))
  OBVIOUS
<1>. QED  BY <1>1, <1>2, <1>3

(* What the last stage attends to.                                           *)
LEMMA KvOfLastStage ==
  ASSUME NEW infos \in Models, NEW n \in Shares(infos), NEW c \in Calls, NEW remote \in BOOLEAN,
         infos.heads % n = 0, infos.hdim % infos.heads = 0, c.lout > 1,
         NEW s \in Decoders,
         SameFigures(s, GenDecoder(infos, n, c.batch, c.lin, c.lout - 1, remote))
  PROVE  LET score == LayerNamed(s, "score")
         IN KvBytes(infos, c, c.batch)
              = n * infos.ndec * 2 * score.n * score.k * score.numOp * score.dbyte
<1> DEFINE score == LayerNamed(s, "score")
           kv == c.lin + (c.lout - 1)
           x == HeadDim(infos)
           a == HeadsPerGpu(infos, n)
           b == c.batch
           built == Layer(infos, "score", "MATMUL", 1, kv, x, a * b)
<1>1. c.batch \in Nat /\ c.lin \in Nat /\ c.lout \in Nat /\ c.lout - 1 \in Nat
  BY SimulationAssumption
<1>2. Bare(score) = Bare(built)
  BY <1>1, ScoreOfStage, ScoreIsFound
<1>3. built.n = kv /\ built.k = x /\ built.numOp = a * b /\ built.dbyte = infos.dbyte
  BY FieldsOfLayer
<1>4. /\ n \in Nat /\ infos.ndec \in Nat /\ x \in Nat /\ a \in Nat /\ infos.dbyte \in Nat
      /\ infos.heads \in Nat /\ infos.hdim \in Nat
  BY Widths DEF Positive
<1>5. /\ infos.hdim = infos.heads * x /\ infos.heads = n * a
  BY HeadsShareWidth
<1> HIDE DEF score, built, x, a
<1>6. score.n = kv /\ score.k = x /\ score.numOp = a * b /\ score.dbyte = infos.dbyte
  BY <1>2, <1>3, BareFigures
<1>7. kv \in Nat /\ c.lin + c.lout - 1 = kv
  BY <1>1
<1>8. KvBytes(infos, c, b) = infos.ndec * 2 * kv * infos.hdim * infos.dbyte * b
  BY <1>7 DEF KvBytes
<1> HIDE DEF kv
<1>9. infos.ndec * 2 * kv * infos.hdim * infos.dbyte * b
        = n * infos.ndec * 2 * kv * x * (a * b) * infos.dbyte
  <2> DEFINE d == infos.ndec
             e == infos.dbyte
             h == infos.heads
             w == infos.hdim
  <2>1. d \in Nat /\ e \in Nat /\ h \in Nat /\ w \in Nat /\ h = n * a /\ w = h * x
    BY <1>4, <1>5
  <2>2. n \in Nat /\ kv \in Nat /\ x \in Nat /\ a \in Nat /\ b \in Nat
    BY <1>1, <1>4, <1>7
  <2> HIDE DEF d, e, h, w, b
  <2>3. d * 2 * kv * w * e * b = n * d * 2 * kv * x * (a * b) * e
    BY <2>1, <2>2, KeysAndValues
  <2>. QED  BY <2>3 DEF d, e, w, b
<1>10. KvBytes(infos, c, b) = n * infos.ndec * 2 * score.n * score.k * score.numOp * score.dbyte
  BY <1>6, <1>8, <1>9
<1>. QED  BY <1>10 DEF score

(* The memory is that of the layers that were built.                         *)
LEMMA CountInvCapacity ==
  CountInv /\ TypedInv /\ Consistent => CapacityOfLayers
<1> SUFFICES ASSUME CountInv, TypedInv, Consistent, pc = "report",
                    model.infos.heads % gpu.num = 0, model.infos.hdim % model.infos.heads = 0
             PROVE  LET Weights(l) == IF l.type = "FC" THEN l.n * l.k * l.dbyte ELSE 0
                        all == gpu.num * model.infos.ndec
                        score == LayerNamed(Last(work.gen), "score")
                    IN /\ WeightBytes(model.infos) = all * SumOver(work.sum, Weights)
                       /\ work.gen # <<>> =>
                            KvBytes(model.infos, call, call.batch)
                              = all * 2 * score.n * score.k * score.numOp * score.dbyte
  BY DEF CapacityOfLayers
<1> DEFINE Weights(l) == IF l.type = "FC" THEN l.n * l.k * l.dbyte ELSE 0
           n == gpu.num
           score == LayerNamed(Last(work.gen), "score")
           last == Len(work.gen)
<1>1. Calling /\ WorkTyped /\ ModelTyped /\ CallTyped /\ DevicesTyped /\ BuiltInv
  BY DEF Calling, TypedInv, CountInv
<1>2. /\ model # NoModel /\ work \in WorkType /\ work.sum \in Decoders /\ work.gen \in Stages
      /\ last \in Nat /\ \A s \in 1..last : work.gen[s] \in Decoders
  <2>1. /\ model # NoModel /\ work \in WorkType /\ work.gen \in Stages /\ last \in Nat
        /\ \A s \in 1..last : work.gen[s] \in Decoders
    BY <1>1, StagesReady
  <2>. QED  BY <2>1 DEF WorkType
<1>3. model.tp = n
  BY <1>2 DEF Consistent
<1>4. /\ model.infos \in Models /\ n \in Shares(model.infos) /\ call \in Calls /\ Heterogeneous \in BOOLEAN
  BY <1>1, <1>2, <1>3, ModelIsReady, GpusShare DEF Heterogeneous, CallTyped
<1>5. model.infos.hdim % n = 0
  BY <1>4, HeadsShareWidth
<1>6. WeightBytes(model.infos) = n * model.infos.ndec * SumOver(work.sum, Weights)
  <2>1. WeightBytes(model.infos) = n * model.infos.ndec * Total(WeightsOf, BuiltSum)
    BY <1>3, <1>4, <1>5, WeightsOfSum DEF BuiltSum
  <2>2. Total(WeightsOf, work.sum) = Total(WeightsOf, BuiltSum)
    BY <1>1, <1>2, BuiltTypes, SameTotals DEF BuiltInv
  <2>3. SumOver(work.sum, Weights) = Total(WeightsOf, work.sum)
    BY <1>2, SumsOfLayers
  <2>. QED  BY <2>1, <2>2, <2>3
<1>7. ASSUME work.gen # <<>>
      PROVE  KvBytes(model.infos, call, call.batch)
               = n * model.infos.ndec * 2 * score.n * score.k * score.numOp * score.dbyte
  <2>1. call.lout \in Nat
    BY <1>4, SimulationAssumption
  <2>2. last = Len(BuiltGen) /\ last # 0
    BY <1>1, <1>2, <1>7, EmptySeq DEF BuiltInv, Stages
  <2>3. BuiltGen = [stage \in 1..(call.lout - 1) |->
                      GenDecoder(model.infos, n, call.batch, call.lin, stage, Heterogeneous)]
    BY <1>3 DEF BuiltGen, GenDecoders
  <2>4. last = call.lout - 1
    <3>1. BuiltGen \in Stages
      BY <1>1, <1>2, BuiltTypes
    <3>2. DOMAIN BuiltGen = 1..(call.lout - 1) /\ DOMAIN BuiltGen = 1..last
      BY <2>2, <2>3, <3>1, LenProperties DEF Stages
    <3>. QED  BY <1>2, <2>1, <2>2, <3>2
  <2>5. call.lout > 1 /\ last \in 1..last
    BY <1>2, <2>1, <2>2, <2>4
  <2>6. BuiltGen[last] = GenDecoder(model.infos, n, call.batch, call.lin, call.lout - 1, Heterogeneous)
    BY <2>3, <2>4, <2>5
  <2>7. SameFigures(work.gen[last], BuiltGen[last]) /\ work.gen[last] \in Decoders
    BY <1>1, <1>2, <2>5 DEF BuiltInv
  <2>8. Last(work.gen) = work.gen[last]
    BY DEF Last
  <2> HIDE DEF n
  <2>. QED  BY <1>4, <2>5, <2>6, <2>7, <2>8, KvOfLastStage DEF n
<1>. QED  BY <1>6, <1>7

---------------------------------------------------------------------------
(* What is said of simulate() and of the rows it reports.                    *)

(* Whatever is configured and called in whichever order, the variables of the *)
(* system and the local ones of simulate() have their types: every layer is   *)
(* timed with an integer, no batch is larger than the one asked for, and a    *)
(* row has as many values as the header has names (run(), write_csv()).       *)
THEOREM SimulationTypes ==
  ASSUME SimulatorAnswers
  PROVE  Spec => []TypeOK
BY TypedInvHolds, TypedInvTypes, PTL

(* The times of every row add up, for all models, devices and calls: no layer *)
(* is lost or counted twice, however it was pipelined or shared out.          *)
THEOREM TimesOfRowsAddUp ==
  ASSUME SimulatorAnswers
  PROVE  Spec => []TimesAddUp
BY TypedInvHolds, TypedInvAddsUp, PTL

(* Both breakdowns of the energy of every row add up to it: by the level that *)
(* it is spent at and by the kind of layer it is spent for.                   *)
THEOREM EnergiesOfRowsAddUp ==
  ASSUME SimulatorAnswers
  PROVE  Spec => []EnergiesAddUp
BY TypedInvHolds, TypedInvAddsUp, PTL

(* Pipelining and sharing out only ever shorten a layer, whatever the devices,  *)
(* the models and the calls: the one that becomes negative is the projection   *)
(* that is shorter than the ratio 3:1 says (_pipeline, _ff_parallel).          *)
THEOREM DecodersAreShortened ==
  ASSUME SimulatorAnswers
  PROVE  Spec => []PipelineShortens
<1>1. Init => TimesInv
  <2>1. Init => ~Calling
    BY DEF Init, Calling
  <2>. QED  BY <2>1, NotCallingTimes
<1>2. TimesInv /\ TypedInv /\ Consistent /\ [Next]_vars => TimesInv'
  BY StepsKeepTimes
<1>. QED  BY <1>1, <1>2, TypedInvHolds, SimulationConsistent, TimesInvShortens, PTL DEF Spec

(* If the GPUs divide the heads and the width, everything that the model has to *)
(* compute is counted once, for all models and calls: no layer is left out or   *)
(* counted twice (simulate(), get_flops()); only the norms are on every GPU.   *)
THEOREM OperationsOfWholeModel ==
  ASSUME SimulatorAnswers
  PROVE  Spec => []FlopsOfWholeModel
BY CountInvHolds, TypedInvHolds, SimulationConsistent, CountInvCounts, PTL

(* If the GPUs divide the heads and these the width, the memory that the row    *)
(* says is required holds, for all models and calls, exactly the weights of the *)
(* layers that were timed and the keys and values that the last stage attends  *)
(* to (get_required_mem_capacity()).                                          *)
THEOREM MemoryOfLayers ==
  ASSUME SimulatorAnswers
  PROVE  Spec => []CapacityOfLayers
BY CountInvHolds, TypedInvHolds, SimulationConsistent, CountInvCapacity, PTL
=============================================================================
