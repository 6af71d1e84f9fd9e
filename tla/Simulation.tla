----------------------------- MODULE Simulation -----------------------------
(***************************************************************************)
(* system.py and main.py: a system of GPUs and an attention device that is    *)
(* reconfigured and asked, over and over, for the time and energy of a model. *)
(* simulate() is a step per layer: it times the layers one by one, rewrites   *)
(* the times of the decoders it pipelines, and adds everything up at the end. *)
(*                                                                          *)
(* Figures of the generation stay multiplied by lout - 1, and all figures     *)
(* lack the code's constant factors for units.                              *)
(***************************************************************************)
EXTENDS Devices, SequencesExt

CONSTANTS
  Models,        \* modelinfos that are used
  GpuCounts,     \* num_gpu
  PimConfigs,    \* make_pim_config() of the PIM types
  Logged,        \* rows that ramulator.out may hold when the program starts
  Calls,         \* [batch, lin, lout, pipe, par, reqs]: arguments of simulate()
  NoModel,       \* before set_model()
  MaxOps         \* bound: operations after the system was made

VARIABLES
  pc,      \* "none": no system yet; "idle"; the phases of simulate()
  gpu,     \* devices['GPU'], which is self.GPU
  acc,     \* devices['Acc']
  log,     \* the rows of ramulator.out
  hetero,  \* hetero_name
  model,   \* self.model: [infos, tp]
  call,    \* the arguments of the last call
  work,    \* the local variables of simulate() and the model's decoders
  answer,  \* the row of the last call: a set of one [call, row], if it ended well
  ops      \* history: operations so far

vars == <<pc, gpu, acc, log, hetero, model, call, work, answer, ops>>

ASSUME SimulationAssumption ==
  /\ Models \subseteq Infos /\ GpuCounts \subseteq Nat \ {0}
  /\ \A infos \in Models : infos.heads <= infos.hdim /\ infos.ff > 0
  /\ \A infos \in Models, n \in GpuCounts : n <= infos.heads /\ Quantum % (4 * infos.heads) = 0
  /\ Calls # {}
  /\ \A c \in Calls : /\ {c.batch, c.lin} \subseteq Nat \ {0} /\ {c.lout, c.reqs} \subseteq Nat
                      /\ {c.pipe, c.par} \subseteq BOOLEAN
  /\ CpuConfig.kind = "CPU" /\ GpuConfig.kind = "GPU"
  /\ \A c \in PimConfigs :
       /\ c.kind = "PIM" /\ {c.num, c.bw, c.io, c.softmax} \subseteq Nat \ {0}
       /\ {c.energy.io, c.energy.mem, c.energy.alu, c.energy.comm, c.energy.sram} \subseteq Nat
  /\ MaxOps \in Nat

(* devices['Acc'] is the object devices['GPU'].                             *)
SameAsGpu == [config |-> [kind |-> "NONE"]]

Acc == IF acc = SameAsGpu THEN gpu ELSE acc
Heterogeneous == hetero \in {"CPU", "PIM"}

---------------------------------------------------------------------------
(* The times of a decoder that PIM and GPUs compute as a pipeline over heads. *)

SumOver(layers, F(_)) == SumFunction([i \in DOMAIN layers |-> F(layers[i])])

TimeOf(block, names) == SumOver(block, LAMBDA l : IF l.name \in names THEN l.time ELSE 0)

PipelineTimes(block) ==
  [qkv |-> TimeOf(block, {"qkv"}), prj |-> TimeOf(block, {"proj"}),
   x2g |-> TimeOf(block, {"comm_x2g"}),
   attn |-> TimeOf(block, {"score", "context", "softmax"})]

(* minimum_ratio: what is left of a time that is hidden except for one of the *)
(* heads of a GPU, and what may be hidden behind the attention.              *)
Short(t) == (t * gpu.num) \div model.infos.heads
Hidden(t) == t - Short(t)

(* Faulty: the attention is hidden although the GPUs are faster.             *)
PipelinedAlways(t, level) ==
  [t EXCEPT !.x2g = @ - Hidden(t.attn),
            !.qkv = IF level THEN Short(@) ELSE @,
            !.prj = IF level THEN Short(@) ELSE @]

(* _pipeline: what is not the longest is hidden. At level False the attention *)
(* and the transfers overlap, at level True also the projections.            *)
Pipelined(t, level) ==
  LET fc == t.qkv + t.prj
      bound == CASE t.attn > t.x2g /\ (level => t.attn > fc) -> "attn"
                 [] level /\ t.attn <= fc /\ fc > t.x2g -> "fc"
                 [] OTHER -> "x2g"
  IN [t EXCEPT
        !.x2g = IF bound = "x2g" THEN @ - Hidden(t.attn) ELSE Short(@),
        !.qkv = CASE ~level -> @
                  [] bound = "fc" -> @ - (3 * Hidden(t.attn)) \div 4
                  [] OTHER -> Short(@),
        !.prj = CASE ~level -> @
                  [] bound = "fc" -> @ - Hidden(t.attn) \div 4
                  [] OTHER -> Short(@)]

(* The softmax is taken to be hidden; there are two transfers.               *)
PipelinedBlock(block, level) ==
  LET t == Pipelined(PipelineTimes(block), level)
  IN [i \in DOMAIN block |->
        [block[i] EXCEPT !.time = CASE block[i].name = "qkv" -> t.qkv
                                    [] block[i].name = "proj" -> t.prj
                                    [] block[i].name = "comm_x2g" -> t.x2g \div 2
                                    [] block[i].name = "softmax" -> 0
                                    [] OTHER -> @]]

(* _ff_parallel: a feed-forward layer is shared out to the attention device.  *)
Parallel(own, other, l, bs) ==
  LET Part(a, b) == Quantum * CeilDiv((l.time \div Quantum) * a, a + b)
  IN IF l.bound = "compute" THEN Part(own.config.flops * l.dbyte, 2 * other.config.bw)
     ELSE Part(own.config.bw * bs, other.config.bw)

IsFF(l) == l.name \in {"ff1", "ff2", "ff3"}

ParallelBlock(block, bs) ==
  [i \in DOMAIN block |->
     IF IsFF(block[i]) THEN [block[i] EXCEPT !.time = Parallel(gpu, Acc, block[i], bs)]
     ELSE block[i]]

---------------------------------------------------------------------------
(* The row of a call in the output file.                                    *)

SumColumns(l) ==
  CASE l.type = "FC" -> {"s_time", "s_fc"}
    [] l.type = "MATMUL" -> {"s_time", "s_matmul"}
    [] l.type = "G2G" -> {"s_time", "s_comm"}
    [] l.type = "SOFTMAX" -> {"s_time", "s_softmax"}
    [] l.type = "ACT" -> {"s_time", "s_act"}
    [] l.type = "NORM" -> {"s_time", "s_lnorm"}
    [] OTHER -> {}

(* Faulty: transfers are counted as what they are, but not as communication. *)
GenColumnsOfG2G(l) ==
  {"g_time"} \cup
  (CASE l.type = "FC" -> {"g_fc", IF IsFF(l) THEN "g_ff_time"
                                  ELSE IF l.name = "qkv" THEN "g_qkv_time" ELSE "g_prj_time"}
     [] l.type = "MATMUL" -> {"g_matmul"}
     [] l.type = "G2G" -> {"g_comm", "g2g_comm"}
     [] l.type = "X2G" -> {"c2g_comm"}
     [] l.type = "ACT" -> {"g_etc", "g_act"}
     [] l.type = "NORM" -> {"g_etc", "g_lnorm"}
     [] l.type = "SOFTMAX" -> {"g_softmax"})

GenColumns(l) ==
  {"g_time"} \cup
  (CASE l.type = "FC" -> {"g_fc", IF IsFF(l) THEN "g_ff_time"
                                  ELSE IF l.name = "qkv" THEN "g_qkv_time" ELSE "g_prj_time"}
     [] l.type = "MATMUL" -> {"g_matmul"}
     [] l.type = "G2G" -> {"g_comm", "g2g_comm"}
     [] l.type = "X2G" -> {"g_comm", "c2g_comm"}
     [] l.type = "ACT" -> {"g_etc", "g_act"}
     [] l.type = "NORM" -> {"g_etc", "g_lnorm"}
     [] l.type = "SOFTMAX" -> {"g_softmax"})

SumKeys == <<"s_time", "s_matmul", "s_fc", "s_comm", "s_softmax", "s_act", "s_lnorm">>
GenKeys ==
  <<"g_time", "g_matmul", "g_fc", "g_comm", "g_etc", "g_qkv_time", "g_prj_time",
    "g_ff_time", "g2g_comm", "c2g_comm", "g_softmax", "g_act", "g_lnorm">>

(* s_perf and g_perf, as lists of their values.                             *)
Perf(layers, keys, Columns(_)) ==
  [i \in DOMAIN keys |->
     SumOver(layers, LAMBDA l : IF keys[i] \in Columns(l) THEN l.time ELSE 0)]

(* Faulty: of the attention only the products are counted.                  *)
AttentionTypesOfGpu == {"MATMUL"}

AttentionTypes == {"MATMUL", "SOFTMAX"}

(* energies: by level, then by what the layers are, memory and computation.  *)
EnergyOf(part, types) == SumFunction([t \in types |-> work.byType[t][part]])

Energies ==
  <<work.all>> \o SubSeq(work.unit, 1, 5)
  \o <<EnergyOf("mem", {"FC"}), EnergyOf("comp", {"FC"}),
       EnergyOf("mem", AttentionTypes), EnergyOf("comp", AttentionTypes),
       EnergyOf("mem", {"ACT", "NORM"}), EnergyOf("comp", {"ACT", "NORM"}),
       EnergyOf("comm", LayerTypes)>>

(* get_required_mem_capacity: weights, keys and values, intermediate data.    *)
WeightBytes(infos) ==
  infos.ndec * infos.hdim * infos.dbyte *
    (4 * infos.hdim + (IF infos.kind = "LLAMA" THEN 3 ELSE 2) * infos.ff * infos.hdim)

KvBytes(infos, c, bs) == infos.ndec * 2 * (c.lin + c.lout - 1) * infos.hdim * infos.dbyte * bs

TempBytes(infos, c, bs) ==
  LET scores == (c.lin + c.lout - 1) * infos.heads
      a == infos.dbyte
  IN bs * (Max({(infos.hdim + scores) * a, infos.hdim * 2 * a, scores * 2 * a,
                (infos.ff * infos.hdim + infos.hdim) * a}) + scores)

Header ==
  <<"model", "dtype", "xpu", "cap", "bw", "sys_opb", "hw", "cores", "pipe_level",
    "is_parallel", "power_constraint", "gqa_size", "Lin", "Lout", "bs", "required_cap",
    "s_flops", "g_flops">>
  \o SumKeys \o GenKeys
  \o <<"g_energy", "g_dram_energy", "g_l2_energy", "g_l1_energy", "g_reg_energy",
       "g_alu_energy", "g_fc_mem_energy", "g_fc_comp_energy", "g_attn_mem_energy",
       "g_attn_comp_energy", "g_etc_mem_energy", "g_etc_comp_energy", "g_comm_energy">>

(* tag, config, perf_all and energy_all, as run() and write_csv() join them.  *)
Tag ==
  <<model.infos.kind, model.infos.dbyte, gpu.config.kind,
    gpu.config.cap * gpu.num + (IF Heterogeneous THEN Acc.config.cap * Acc.num ELSE 0),
    <<Acc.config.bw, gpu.config.bw>>, <<gpu.config.flops, gpu.config.bw>>>>

Config(bs) ==
  <<IF hetero = "PIM" THEN Acc.config.type ELSE hetero, gpu.num, call.pipe, call.par, FALSE, 0,
    call.lin, call.lout, call.batch,
    WeightBytes(model.infos) + KvBytes(model.infos, call, bs) + TempBytes(model.infos, call, bs),
    work.sFlops * model.infos.ndec, work.gFlops * model.infos.ndec>>

Row(bs) ==
  LET Scaled(figures) == [i \in DOMAIN figures |-> figures[i] * model.infos.ndec]
  IN Tag \o Config(bs)
     \o Scaled(Perf(work.sum, SumKeys, SumColumns))
     \o Scaled(Perf(FlattenSeq(work.gen), GenKeys, GenColumns))
     \o Scaled(Energies)

---------------------------------------------------------------------------
(* The configuration.                                                      *)

NoCall == CHOOSE c \in Calls : TRUE

NoneOfIt == [mem |-> 0, comp |-> 0, comm |-> 0]

Idle ==
  [batches |-> <<>>, itr |-> 0, stage |-> 0, at |-> 0, sum |-> <<>>, gen |-> <<>>,
   elapsed |-> 0, busy |-> 0, sFlops |-> 0, gFlops |-> 0, all |-> 0, unit |-> NoEnergy,
   byType |-> [type \in LayerTypes |-> NoneOfIt]]

Init ==
  /\ pc = "none"
  /\ gpu \in {Gpu(n) : n \in GpuCounts}
  /\ acc = SameAsGpu
  /\ log \in Logged
  /\ hetero = "NONE"
  /\ model = NoModel
  /\ call = NoCall
  /\ work = Idle
  /\ answer = {}
  /\ ops = 0

(* __init__: with or without a model, with a CPU or without; a PIM device     *)
(* cannot be made here, for its simulator is not passed on.                 *)
New(infos, name) ==
  /\ pc = "none"
  /\ pc' = "idle"
  /\ hetero' = name
  /\ acc' = IF name = "CPU" THEN Cpu ELSE SameAsGpu
  /\ model' = IF infos = NoModel THEN NoModel ELSE [infos |-> infos, tp |-> gpu.num]
  /\ UNCHANGED <<gpu, log, call, work, answer, ops>>

Configuring ==
  /\ pc = "idle"
  /\ ops < MaxOps
  /\ ops' = ops + 1
  /\ answer' = {}
  /\ UNCHANGED <<pc, log, call, work>>

SetModel(infos) ==
  /\ Configuring
  /\ model' = [infos |-> infos, tp |-> gpu.num]
  /\ UNCHANGED <<gpu, acc, hetero>>

(* The simulator of a PIM device is made for the model that is passed here,   *)
(* and reads the log; a model that is set later does not reach it.          *)
SetPim(infos, config) ==
  /\ Configuring
  /\ hetero' = "PIM"
  /\ acc' = PIM(config, infos.dhead, log)
  /\ UNCHANGED <<gpu, model>>

SetCpu ==
  /\ Configuring
  /\ hetero' = "CPU"
  /\ acc' = Cpu
  /\ UNCHANGED <<gpu, model>>

(* Faulty: the model still has as many parts as there were GPUs.             *)
SetXpuOnly(n) ==
  /\ Configuring
  /\ hetero' = "NONE"
  /\ gpu' = Gpu(n)
  /\ acc' = SameAsGpu
  /\ UNCHANGED model

(* Without a model it fails in its last statement, when all else is done.    *)
SetXpu(n) ==
  /\ Configuring
  /\ hetero' = "NONE"
  /\ gpu' = Gpu(n)
  /\ acc' = SameAsGpu
  /\ model' = IF model = NoModel THEN NoModel ELSE [model EXCEPT !.tp = n]

---------------------------------------------------------------------------
(* simulate().                                                             *)

(* Faulty: a rest of no requests is a batch.                                *)
TargetBatchesAlways(c) == IF c.reqs > 0 THEN <<c.batch, c.reqs % c.batch>> ELSE <<c.batch>>

TargetBatches(c) ==
  IF c.reqs > 0 /\ c.reqs % c.batch > 0 THEN <<c.batch, c.reqs % c.batch>> ELSE <<c.batch>>

(* The decoders are built once, for the first batch.                        *)
Simulate(c) ==
  /\ pc = "idle"
  /\ model # NoModel
  /\ ops < MaxOps
  /\ ops' = ops + 1
  /\ pc' = "sum"
  /\ call' = c
  /\ work' = [Idle EXCEPT
       !.batches = TargetBatches(c), !.itr = 1, !.stage = 1, !.at = 1,
       !.sum = SumDecoder(model.infos, model.tp, c.batch, c.lin, Heterogeneous),
       !.gen = GenDecoders(model.infos, model.tp, c.batch, c.lin, c.lout, Heterogeneous)]
  /\ answer' = {}
  /\ UNCHANGED <<gpu, acc, log, hetero, model>>

Timed(l, cost) == [l EXCEPT !.time = cost.time, !.energy = cost.energy, !.bound = cost.bound]

(* A transfer of keys and values waits until the one before it has ended.    *)
Waiting(w, l) == IF l.type = "X2G" THEN Most2(w.busy - w.elapsed, 0) ELSE 0

Summarized(w, l) ==
  [w EXCEPT !.at = @ + 1,
            !.sum[w.at] = l,
            !.busy = IF l.type = "X2G" THEN w.elapsed + l.time ELSE @,
            !.elapsed = @ + l.time,
            !.sFlops = @ + Flops(l) * gpu.num]

SumLayer ==
  LET l == work.sum[work.at]
      device == AfterCost(gpu, l)
  IN
  /\ pc = "sum"
  /\ work.at <= Len(work.sum)
  /\ gpu' = device
  /\ work' = Summarized(work, [Timed(l, Cost(device, l)) EXCEPT !.time = @ + Waiting(work, l)])
  /\ UNCHANGED <<pc, acc, log, hetero, model, call, answer, ops>>

EndOfSum ==
  /\ pc = "sum"
  /\ work.at > Len(work.sum)
  /\ pc' = IF work.gen = <<>> THEN "report" ELSE "gen"
  /\ work' = [work EXCEPT !.at = 1, !.stage = 1]
  /\ UNCHANGED <<gpu, acc, log, hetero, model, call, answer, ops>>

OnAcc(l) == l.type \in {"MATMUL", "SOFTMAX", "X2G"}

WithEnergy(byType, l, e) ==
  [byType EXCEPT ![l.type] = [mem |-> @.mem + e[1],
                              comp |-> @.comp + e[2] + e[3] + e[4] + e[5],
                              comm |-> @.comm + e[6]]]

Generated(w, l) ==
  [w EXCEPT !.at = @ + 1,
            !.gen[w.stage][w.at] = l,
            !.elapsed = @ + l.time,
            !.gFlops = @ + Flops(l) * gpu.num,
            !.all = @ + TotalEnergy(l.energy),
            !.unit = PlusEnergy(@, l.energy),
            !.byType = WithEnergy(@, l, l.energy)]

GenLayer ==
  LET l == work.gen[work.stage][work.at]
      onGpu == ~OnAcc(l) \/ acc = SameAsGpu
      device == AfterCost(IF onGpu THEN gpu ELSE acc, l)
  IN
  /\ pc = "gen"
  /\ work.at <= Len(work.gen[work.stage])
  /\ gpu' = IF onGpu THEN device ELSE gpu
  /\ acc' = IF onGpu THEN acc ELSE device
  /\ log' = IF ~onGpu /\ acc.config.kind = "PIM" THEN device.rows ELSE log
  /\ work' = Generated(work, Timed(l, Cost(device, l)))
  /\ UNCHANGED <<pc, hetero, model, call, answer, ops>>

(* The end of a stage: its decoder is pipelined if the attention is on PIM.   *)
EndOfStage ==
  LET block == work.gen[work.stage]
      piped == PipelinedBlock(block, call.pipe)
      done == IF hetero # "PIM" THEN block
              ELSE IF call.par THEN ParallelBlock(piped, work.batches[work.itr])
              ELSE piped
  IN
  /\ pc = "gen"
  /\ work.at > Len(block)
  /\ pc' = IF work.stage = Len(work.gen) THEN "report" ELSE "gen"
  /\ work' = [work EXCEPT !.gen[work.stage] = done, !.stage = @ + 1, !.at = 1]
  /\ UNCHANGED <<gpu, acc, log, hetero, model, call, answer, ops>>

(* Another batch: the same layers are timed again, on top of the energies.    *)
NextBatch ==
  /\ pc = "report"
  /\ call.lout > 1
  /\ work.itr < Len(work.batches)
  /\ pc' = "sum"
  /\ work' = [work EXCEPT !.itr = @ + 1, !.at = 1, !.stage = 1, !.elapsed = 0, !.busy = 0]
  /\ UNCHANGED <<gpu, acc, log, hetero, model, call, answer, ops>>

(* Without a generated token there is nothing to divide by, and the figures   *)
(* of a second batch are added to a list of another length: an exception.    *)
Fail ==
  /\ pc = "report"
  /\ call.lout <= 1 \/ work.itr = 2
  /\ pc' = "idle"
  /\ work' = Idle
  /\ UNCHANGED <<gpu, acc, log, hetero, model, call, answer, ops>>

Report ==
  /\ pc = "report"
  /\ call.lout > 1
  /\ Len(work.batches) = 1
  /\ pc' = "idle"
  /\ answer' = {[call |-> call, row |-> Row(work.batches[1])]}
  /\ work' = Idle
  /\ UNCHANGED <<gpu, acc, log, hetero, model, call, ops>>

Next ==
  \/ \E infos \in Models \cup {NoModel}, name \in {"NONE", "CPU"} : New(infos, name)
  \/ \E infos \in Models : SetModel(infos) \/ \E config \in PimConfigs : SetPim(infos, config)
  \/ SetCpu
  \/ \E n \in GpuCounts : SetXpu(n)
  \/ \E c \in Calls : Simulate(c)
  \/ SumLayer \/ EndOfSum \/ GenLayer \/ EndOfStage \/ NextBatch \/ Fail \/ Report

Spec == Init /\ [][Next]_vars

---------------------------------------------------------------------------
(* Properties.                                                             *)

IsLayer(l) ==
  /\ l.type \in LayerTypes /\ l.bound \in {"compute", "memory"} /\ l.time \in Int
  /\ {l.m, l.n, l.k, l.numOp} \subseteq Nat

TypeOK ==
  /\ pc \in {"none", "idle", "sum", "gen", "report"}
  /\ gpu.num \in GpuCounts
  /\ acc = SameAsGpu \/ acc.config \in {CpuConfig} \cup PimConfigs
  /\ hetero \in {"NONE", "CPU", "PIM"}
  /\ model # NoModel => model.infos \in Models
  /\ call \in Calls
  /\ \A i \in DOMAIN work.batches : work.batches[i] \in 1..call.batch
  /\ work.itr \in 0..Len(work.batches) /\ work.stage \in 0..(Len(work.gen) + 1)
  /\ \A i \in DOMAIN work.sum : IsLayer(work.sum[i])
  /\ \A s \in DOMAIN work.gen : \A i \in DOMAIN work.gen[s] : IsLayer(work.gen[s][i])
  /\ \A a \in answer : Len(a.row) = Len(Header)
  /\ ops \in 0..MaxOps

(* Whatever is set and in whichever order: the model is divided among as many *)
(* parts as there are GPUs, and the attention device is of the kind that      *)
(* hetero_name says, on which the layers that are built depend.             *)
Consistent ==
  /\ model # NoModel => model.tp = gpu.num
  /\ acc.config.kind = hetero

Column(row, name) == row[CHOOSE i \in DOMAIN Header : Header[i] = name]
Columns(row, names) == SumFunction([n \in names |-> Column(row, n)])

(* Every layer is in exactly one column of each breakdown of its time, and    *)
(* the values are written in the order of the header: each column is the sum  *)
(* of the columns it is broken down into. s_time lacks the transfers.        *)
TimesAddUp == \A a \in answer :
  LET Total(whole, parts) == Column(a.row, whole) = Columns(a.row, parts)
  IN /\ Total("s_time", {"s_matmul", "s_fc", "s_comm", "s_softmax", "s_act", "s_lnorm"})
     /\ Total("g_time", {"g_matmul", "g_fc", "g_comm", "g_etc", "g_softmax"})
     /\ Total("g_fc", {"g_qkv_time", "g_prj_time", "g_ff_time"})
     /\ Total("g_comm", {"g2g_comm", "c2g_comm"})
     /\ Total("g_etc", {"g_act", "g_lnorm"})

(* The energy is broken down twice, by level and by kind of layer: both add   *)
(* up to the same.                                                          *)
EnergiesAddUp == \A a \in answer :
  LET Total(parts) == Column(a.row, "g_energy") = Columns(a.row, parts)
  IN /\ Total({"g_dram_energy", "g_l2_energy", "g_l1_energy", "g_reg_energy", "g_alu_energy",
               "g_comm_energy"})
     /\ Total({"g_fc_mem_energy", "g_fc_comp_energy", "g_attn_mem_energy", "g_attn_comp_energy",
               "g_etc_mem_energy", "g_etc_comp_energy", "g_comm_energy"})

LayerNamed(block, name) == block[CHOOSE i \in DOMAIN block : block[i].name = name]
TimeOn(d, l) == Cost(d, l).time

(* The simulator of a PIM device was made for heads as wide as the layer's.   *)
OfOneWidth(l) == hetero = "PIM" => acc.dhead = l.k

(* Pipelining only ever shortens a layer, and a time becomes negative in one  *)
(* way only: the attention is hidden behind the projections in the ratio 3:1, *)
(* and the one that is shorter than this ratio says gets more than it has.    *)
(* (A simulator that was made for heads of another width answers a score with *)
(* one time when it simulates it, and may with another when it finds it.)     *)
PipelineShortens ==
  pc \in {"gen", "report"} => \A s \in 1..(work.stage - 1) :
    LET block == work.gen[s]
        qkv == TimeOn(gpu, LayerNamed(block, "qkv"))
        prj == TimeOn(gpu, LayerNamed(block, "proj"))
    IN \A i \in DOMAIN block :
         LET l == block[i] IN
         /\ \/ l.time <= TimeOn(IF OnAcc(l) THEN Acc ELSE gpu, l)
            \/ l.name = "comm_x2g" \/ (IsScore(l) /\ ~OfOneWidth(l))
         /\ \/ l.time >= 0
            \/ l.name = "proj" /\ qkv > 3 * prj
            \/ l.name = "qkv" /\ qkv < 3 * prj

(* If the GPUs divide the heads and the width, all operations of the model are *)
(* counted once over the GPUs; only the norms are computed by every GPU.     *)
FlopsOfWholeModel ==
  pc = "report" /\ model.infos.heads % gpu.num = 0 /\ model.infos.hdim % gpu.num = 0 =>
    LET Norms(l) == IF l.type = "NORM" THEN Flops(l) ELSE 0
        Whole(layers) == SumOver(layers, Flops) + (gpu.num - 1) * SumOver(layers, Norms)
    IN /\ work.sFlops = work.itr *
            Whole(SumDecoder(model.infos, 1, call.batch, call.lin, Heterogeneous))
       /\ work.gFlops = work.itr *
            Whole(FlattenSeq(GenDecoders(model.infos, 1, call.batch, call.lin, call.lout,
                                         Heterogeneous)))

(* If the GPUs divide the heads and these the width, the memory that is        *)
(* required holds the weights of the layers that were built, and the keys and *)
(* values that the last stage attends to.                                   *)
CapacityOfLayers ==
  pc = "report" /\ model.infos.heads % gpu.num = 0 /\ model.infos.hdim % model.infos.heads = 0 =>
    LET Weights(l) == IF l.type = "FC" THEN l.n * l.k * l.dbyte ELSE 0
        all == gpu.num * model.infos.ndec
        score == LayerNamed(Last(work.gen), "score")
    IN /\ WeightBytes(model.infos) = all * SumOver(work.sum, Weights)
       /\ work.gen # <<>> =>
            KvBytes(model.infos, call, call.batch)
              = all * 2 * score.n * score.k * score.numOp * score.dbyte

---------------------------------------------------------------------------
(* The answer as a function of the configuration and the call: no tables of    *)
(* tiles, no accumulation, and the pipeline in closed form.                 *)

(* The layers with their times on devices that are as good as new.           *)
On(own, other, layers) ==
  LET Device(l) == IF OnAcc(l) THEN other ELSE own
  IN [i \in DOMAIN layers |->
        Timed(layers[i], Cost(AfterCost(Device(layers[i]), layers[i]), layers[i]))]

(* Stages that overlap over the heads take the longest of their times, and    *)
(* of the others only what one head needs.                                  *)
Overlapped(times, ratio) ==
  LET sum == SumFunction(times)
      longest == Max({times[t] : t \in DOMAIN times})
  IN longest + ((sum - longest) * ratio[1]) \div ratio[2]

BlockTime(own, other, block, cfg, c) ==
  LET Named(names) == SumOver(block, LAMBDA l : IF l.name \in names THEN l.time ELSE 0)
      fc == Named({"qkv", "proj"})
      x2g == Named({"comm_x2g"})
      attn == Named({"score", "softmax", "context"})
      ratio == <<cfg.num, cfg.model.infos.heads>>
      FF(l) == IF c.par THEN Parallel(own, other, l, c.batch) ELSE l.time
  IN IF cfg.hetero # "PIM" THEN SumOver(block, LAMBDA l : l.time)
     ELSE (IF c.pipe THEN Overlapped([fc |-> fc, x2g |-> x2g, attn |-> attn], ratio)
           ELSE fc + Overlapped([x2g |-> x2g, attn |-> attn], ratio))
          - Named({"softmax"})
          + SumOver(block, LAMBDA l : IF IsFF(l) THEN FF(l) ELSE 0)
          + Named({"comm_g2g", "norm1", "norm2", "glu", "relu", "gelu"})

FiguresOf(cfg, c, own, other, sum, blocks) ==
  LET All(seq, F(_)) == cfg.model.infos.ndec * SumOver(seq, F)
  IN [s_time |-> All(sum, LAMBDA l : IF l.type = "X2G" THEN 0 ELSE l.time),
      g_time |-> All(blocks, LAMBDA b : BlockTime(own, other, b, cfg, c)),
      g_energy |-> All(FlattenSeq(blocks), LAMBDA l : TotalEnergy(l.energy))]

(* The columns that are the same whatever came before. The generation on PIM   *)
(* is not if the simulator was made for heads of another width; nor is its    *)
(* energy on AttAcc_buffer, whose accesses are counted once when they are     *)
(* simulated, and twice when they are looked up.                            *)
Promised(cfg) ==
  LET pim == cfg.hetero = "PIM"
      oneWidth == pim => cfg.acc.dhead = HeadDim(cfg.model.infos)
  IN {"s_time"} \cup (IF oneWidth THEN {"g_time"} ELSE {})
     \cup (IF oneWidth /\ (pim => cfg.acc.config.type # "BUFFER") THEN {"g_energy"} ELSE {})

Figures(cfg, c) ==
  LET infos == cfg.model.infos
      own == Gpu(cfg.num)
      other == IF cfg.acc = SameAsGpu THEN own ELSE cfg.acc
      remote == cfg.hetero # "NONE"
      blocks == GenDecoders(infos, cfg.num, c.batch, c.lin, c.lout, remote)
      figures == FiguresOf(cfg, c, own, other,
                   On(own, own, SumDecoder(infos, cfg.num, c.batch, c.lin, remote)),
                   [stage \in DOMAIN blocks |-> On(own, other, blocks[stage])])
  IN [name \in Promised(cfg) |-> figures[name]]

Without(d) ==
  IF d = SameAsGpu THEN d
  ELSE IF d.config.kind = "PIM" THEN PIM(d.config, d.dhead, {})
  ELSE XPU(d.config, d.num)

TheConfig == [num |-> gpu.num, acc |-> Without(acc), hetero |-> hetero, model |-> model]

Service == INSTANCE Estimator WITH
  config <- TheConfig,
  calling <- IF pc \in {"none", "idle"} THEN {} ELSE {call},
  answer <- {[call |-> a.call,
              figures |-> [name \in Promised(TheConfig) |-> Column(a.row, name)]] : a \in answer}

(* Whatever was configured, simulated and logged before, what is promised of  *)
(* an answer comes from the current configuration: the tables of tiles and of *)
(* results, the attention's and the model's hidden state do not show, and the *)
(* branches of the pipeline compute the overlap of the stages.              *)
AnswersFromConfiguration == Service!Spec
=============================================================================
