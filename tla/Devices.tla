------------------------------ MODULE Devices -------------------------------
(***************************************************************************)
(* devices.py: how long a layer takes on an xPU (a GPU or the CPU) or on the  *)
(* PIM device, and the energy it costs.                                     *)
(*                                                                          *)
(* Times are numbers of Quantum, rounded up; what a simulation of the PIM     *)
(* channels counts is the constant Simulated, and what the wrapper answers is *)
(* that or what its table of results holds, which is not quite the same.     *)
(***************************************************************************)
EXTENDS Layers, FiniteSetsExt

CONSTANTS
  Quantum,        \* the unit of times: a multiple of all divisors met later
  GpuConfig,      \* make_xpu_config()['GPU']
  CpuConfig,      \* make_xpu_config()['CPU']
  Simulated(_, _, _)   \* [time, io, accesses] of Ramulator.run for a PIM device, a dhead and
                       \* what is Asked of a layer

(* Rates are positive, and the smallest tile of the widest data fits into L1. *)
ASSUME DeviceAssumption ==
  /\ Quantum \in Nat \ {0}
  /\ \A c \in {GpuConfig, CpuConfig} :
       /\ {c.cores, c.flops, c.bw, c.io} \subseteq Nat \ {0}
       /\ {c.l1, c.l2, c.l2bw, c.energy.mem, c.energy.alu} \subseteq Nat
       /\ c.l1 >= (8 + 8) * 32 * 2 + 8 * 8 * 2
  /\ \A line \in {GpuConfig.act, GpuConfig.norm, GpuConfig.nvlink} :
       {line.base, line.slope} \subseteq Nat
  /\ LET e == GpuConfig.energy IN {e.l1, e.l2, e.reg, e.comm} \subseteq Nat

CeilDiv(a, b) == (a + b - 1) \div b
Time(work, rate) == Quantum * CeilDiv(work, rate)
Least2(a, b) == IF a < b THEN a ELSE b
Most2(a, b) == IF a < b THEN b ELSE a
Total3(s) == s[1] + s[2] + s[3]
TotalEnergy(e) == e[1] + e[2] + e[3] + e[4] + e[5] + e[6]
PlusEnergy(a, b) == [i \in 1..6 |-> a[i] + b[i]]

XPU(config, num) == [config |-> config, num |-> num, tiles |-> [key \in {} |-> <<>>]]

(* make_xpu_config: num_gpu is of the GPUs only, and 8 if it is not given.   *)
Gpu(num) == XPU(GpuConfig, num)
Cpu == XPU(CpuConfig, 2)

---------------------------------------------------------------------------
(* xPU: the tiles of a matrix multiplication.                               *)

TRange == {8, 16, 32, 64, 128, 192, 256, 320, 384, 448, 512}

(* _get_traffic_for_tile: both inputs, read once per tile, and the output.   *)
Traffic(l, tile) ==
  LET scale == l.dbyte * l.numOp
  IN <<CeilDiv(l.n, tile[2]) * l.m * l.k * scale,
       CeilDiv(l.m, tile[1]) * l.n * l.k * scale,
       l.m * l.n * scale>>

ThreadBlocks(l, tile) ==
  l.numOp * (IF l.type = "FC" THEN CeilDiv(l.m, tile[1]) * CeilDiv(l.n, tile[2]) ELSE 1)

(* The cores that full waves of these thread blocks would occupy.            *)
Waves(d, l, tile) == CeilDiv(ThreadBlocks(l, tile), d.config.cores) * d.config.cores

(* The first of the cheapest tiles, in the order of the nested loops.        *)
Before(t, u) == t[1] < u[1] \/ (t[1] = u[1] /\ t[2] < u[2])
FirstCheapest(tiles, Cheaper(_, _)) ==
  CHOOSE t \in tiles :
    \A u \in tiles \ {t} : ~Cheaper(u, t) /\ (Before(u, t) => Cheaper(t, u))

L1Fits(d, l, t) == (t[1] + t[2]) * 32 * l.dbyte + t[1] * t[2] * l.dbyte <= d.config.l1

(* Traffic, weighted with the square of the cores' idleness.                *)
L1Tile(d, l) ==
  LET tiles == {t \in {Least2(tm, l.m) : tm \in TRange} \X {Least2(tn, l.n) : tn \in TRange} :
                  L1Fits(d, l, t)}
      Cost(t, u) == Total3(Traffic(l, t)) * Waves(d, l, t) * Waves(d, l, t)
                    * ThreadBlocks(l, u) * ThreadBlocks(l, u)
      Cheaper(t, u) == Cost(t, u) < Cost(u, t)
  IN FirstCheapest(tiles, Cheaper)

(* Multiples of the L1 tile; l2_tk is k / 64.                               *)
L2Tile(d, l, l1) ==
  LET Sides(side, whole) == {side * i : i \in 1..(whole \div side)} \cup {whole}
      Fits(t) == ((t[1] + t[2]) * l.k + 64 * t[1] * t[2]) * l.dbyte <= 64 * d.config.l2
      tiles == {t \in Sides(l1[1], l.m) \X Sides(l1[2], l.n) : Fits(t) \/ t = l1}
      Cheaper(t, u) == Total3(Traffic(l, t)) < Total3(Traffic(l, u))
  IN FirstCheapest(tiles, Cheaper)

OptimalTile(d, l) ==
  LET l1 == L1Tile(d, l) IN [l1 |-> l1, l2 |-> L2Tile(d, l, l1)]

(* Faulty: a table that was made for another data type is used.             *)
TileKeyAnyType(l) == <<l.m, l.n, l.k, l.numOp>>

TileKey(l) == <<l.m, l.n, l.k, l.numOp, l.dbyte>>

IsCommunication(l) == l.type \in {"X2G", "G2G"}

(* table_tiles, after it was consulted for a layer.                         *)
WithTile(d, l) ==
  IF IsCommunication(l) \/ TileKey(l) \in DOMAIN d.tiles THEN d
  ELSE [d EXCEPT !.tiles =
          [key \in DOMAIN d.tiles \cup {TileKey(l)} |->
             IF key \in DOMAIN d.tiles THEN d.tiles[key] ELSE OptimalTile(d, l)]]

(* Of a device that was consulted for the layer.                            *)
TileOf(d, l) == d.tiles[TileKey(l)]

---------------------------------------------------------------------------
(* xPU: time and energy.                                                    *)

(* _get_traffic: between the memory, the caches and the registers.           *)
Levels(d, l) ==
  IF l.type \in {"FC", "MATMUL"}
  THEN <<Traffic(l, TileOf(d, l).l2), Traffic(l, TileOf(d, l).l1), Traffic(l, <<16, 16>>),
         [i \in 1..3 |-> l.m * l.n * l.k]>>
  ELSE [level \in 1..4 |-> Size(l)]

(* What the idle cores of a GPU cost: a pair, used as a fraction.            *)
Utilization(d, l) ==
  IF d.config.kind = "GPU"
  THEN <<ThreadBlocks(l, TileOf(d, l).l1), Waves(d, l, TileOf(d, l).l1)>>
  ELSE <<1, 1>>

ComputeTime(d, l) ==
  LET used == Utilization(d, l)
  IN Time(10 * Flops(l) * used[2], 8 * d.config.flops * used[1] * (2 \div l.dbyte))

(* The memory, of which .85 is usable, or the L2 cache if it has a bandwidth; *)
(* on GPUs, activations and norms are fitted to measurements.                *)
MemTime(d, l) ==
  LET off == Total3(Levels(d, l)[1])
      used == Utilization(d, l)
      Fitted(line) == Quantum * (line.base + CeilDiv(line.slope * off, d.config.bw))
  IN CASE d.config.kind = "GPU" /\ l.type = "ACT" -> Fitted(d.config.act)
       [] d.config.kind = "GPU" /\ l.type = "NORM" -> Fitted(d.config.norm)
       [] OTHER -> Most2(Time(20 * off * used[2], 17 * d.config.bw * used[1]),
                         IF d.config.l2bw = 0 THEN 0
                         ELSE Time(Total3(Levels(d, l)[2]), d.config.l2bw))

XpuEnergy(d, l) ==
  LET levels == Levels(d, l)
      e == d.config.energy
      alu == (Flops(l) * e.alu) \div 2
  IN [i \in 1..6 |-> d.num *
        (CASE i = 1 -> Total3(levels[1]) * e.mem
           [] i = 5 -> alu
           [] i = 6 -> 0
           [] OTHER -> IF d.config.kind = "CPU" THEN 0
                       ELSE Total3(levels[i]) * <<0, e.l2, e.l1, e.reg>>[i])]

CommEnergy(e) == [NoEnergy EXCEPT ![6] = e]

(* Half of the interface for each direction; between GPUs an all-reduce,     *)
(* where each step costs a latency that was measured.                       *)
XpuIo(d, l) ==
  LET traffic == l.m * l.n * l.numOp * l.dbyte
      nvlink == d.config.nvlink
      share == CeilDiv(traffic, d.num)
      Step == Most2(Quantum * (nvlink.base + CeilDiv(nvlink.slope * share, d.config.io)),
                    Time(2 * share, d.config.io))
  IN IF d.config.kind = "CPU" THEN [time |-> Time(2 * traffic, d.config.io), energy |-> NoEnergy]
     ELSE [time |-> IF l.type = "X2G" THEN Time(2 * traffic, d.config.io)
                    ELSE Step * (d.num - 1),
           energy |-> CommEnergy(d.num * traffic * d.config.energy.comm)]

XpuCost(d, l) ==
  LET compute == ComputeTime(d, l)
      mem == MemTime(d, l)
  IN IF IsCommunication(l)
     THEN [time |-> XpuIo(d, l).time, energy |-> XpuIo(d, l).energy, bound |-> l.bound]
     ELSE [time |-> Most2(compute, mem), energy |-> XpuEnergy(d, l),
           bound |-> IF compute > mem THEN "compute" ELSE "memory"]

---------------------------------------------------------------------------
(* PIM.                                                                     *)

(* With its simulator, which is made for the dhead of a model and has read    *)
(* the rows of the log; fresh: its last answer came from a simulation.        *)
PIM(config, dhead, rows) ==
  [config |-> config, num |-> config.num, dhead |-> dhead, rows |-> rows, fresh |-> FALSE]

(* What is simulated of a layer: the heads are shared out to num_hbm stacks.  *)
Asked(l) == [n |-> l.n, heads |-> CeilDiv(l.numOp, 5), dbyte |-> l.dbyte]

(* What a row of the table is found by: a simulation is run for the dhead of  *)
(* the simulator, and looked up with that of the layer.                     *)
RowKey(d, dhead, l) ==
  [type |-> d.config.type, constrained |-> d.config.constrained, dhead |-> dhead,
   asked |-> Asked(l)]

IsScore(l) == l.type = "MATMUL" /\ l.name = "score"

(* Ramulator.output, called for the score only: with an empty table, it runs  *)
(* before it looks, and it runs (again) if it does not find what it looks for. *)
WithRow(d, l) ==
  LET run == RowKey(d, d.dhead, l)
      look == RowKey(d, l.k, l)
      rows == IF d.rows = {} THEN {run} ELSE d.rows
  IN IF ~IsScore(l) THEN d
     ELSE [d EXCEPT !.fresh = look \notin rows,
                    !.rows = IF look \in rows THEN rows ELSE rows \cup {run}]

(* Of a device that was asked for the layer: the dhead is that of the row, and *)
(* the accesses of a buffer's row are counted twice.                        *)
Answered(d, l) ==
  LET ram == Simulated(d.config, IF d.fresh THEN d.dhead ELSE l.k, Asked(l))
      twice == d.config.type = "BUFFER" /\ ~d.fresh
  IN [ram EXCEPT !.accesses = IF twice THEN 2 * @ ELSE @]

PimEnergy(d, mem, alu) == [i \in 1..6 |-> CASE i = 1 -> mem * d.num
                                            [] i = 5 -> alu * d.num
                                            [] OTHER -> 0]

(* The whole attention is accounted to its score; the softmax has units of   *)
(* its own, and layers of other types are refused.                          *)
PimCost(d, l) ==
  LET e == d.config.energy
      traffic == l.m * l.n * l.numOp * l.dbyte
      alu == (Flops(l) * e.alu) \div 2
      ram == Answered(d, l)
      compute == Time(Flops(l), d.config.softmax * (2 \div l.dbyte))
      mem == Time(Total3(Size(l)), d.config.softmax)
  IN CASE l.type = "X2G" ->
            [time |-> Time(2 * traffic, d.config.io), bound |-> l.bound,
             energy |-> CommEnergy(traffic * e.comm * d.num)]
       [] IsScore(l) ->
            [time |-> ram.time, bound |-> l.bound,
             energy |-> PimEnergy(d, ram.io * e.io + ram.accesses * e.mem, alu)]
       [] l.type = "MATMUL" /\ ~IsScore(l) ->
            [time |-> 0, bound |-> l.bound, energy |-> NoEnergy]
       [] l.type = "SOFTMAX" ->
            [time |-> Most2(compute, mem),
             bound |-> IF compute > mem THEN "compute" ELSE "memory",
             energy |-> PimEnergy(d, Total3(Size(l)) * e.sram, alu)]

Cost(d, l) == IF d.config.kind = "PIM" THEN PimCost(d, l) ELSE XpuCost(d, l)
AfterCost(d, l) == IF d.config.kind = "PIM" THEN WithRow(d, l) ELSE WithTile(d, l)
=============================================================================
