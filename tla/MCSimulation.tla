---------------------------- MODULE MCSimulation ----------------------------
(* An instance of Simulation for TLC: small models of all three kinds on small *)
(* devices, whose rates are chosen such that each stage of the pipeline is     *)
(* the longest in some call.                                                *)
EXTENDS Simulation

MCQuantum == 32

MCGpu ==
  [kind |-> "GPU", cores |-> 2, flops |-> 24, bw |-> 16, l2bw |-> 0, l1 |-> 1152, l2 |-> 300,
   io |-> 32, cap |-> 80,
   act |-> [base |-> 1, slope |-> 1], norm |-> [base |-> 2, slope |-> 1],
   nvlink |-> [base |-> 1, slope |-> 1],
   energy |-> [l1 |-> 1, l2 |-> 2, mem |-> 3, reg |-> 1, alu |-> 2, comm |-> 2]]

MCCpu ==
  [kind |-> "CPU", cores |-> 2, flops |-> 8, bw |-> 4, l2bw |-> 8, l1 |-> 2000, l2 |-> 1000,
   io |-> 8, cap |-> 100, energy |-> [mem |-> 1, alu |-> 2]]

Pim(type, speed, io, bw) ==
  [kind |-> "PIM", constrained |-> FALSE, bw |-> bw, io |-> io, cap |-> 10,
   energy |-> [io |-> 1, mem |-> 1, alu |-> 2, comm |-> 2, sram |-> 1],
   type |-> type, speed |-> speed, softmax |-> 32, num |-> 2]

MCPims == {Pim("BA", 8, 64, 32), Pim("BG", 2, 1, 16), Pim("BUFFER", 1, 64, 8)}

MCSimulated(config, dhead, asked) ==
  LET macs == dhead * asked.n * asked.heads * 4
  IN [time |-> Time(macs, config.speed), io |-> macs, accesses |-> 2 * macs]

(* No log, or one with a score of one stage on two of the PIM types.          *)
MCLogged ==
  {{}, {[type |-> type, constrained |-> FALSE, dhead |-> 2,
         asked |-> [n |-> 5, heads |-> 1, dbyte |-> 2]] : type \in {"BA", "BUFFER"}}}

Model(kind, hdim, heads, ff, dbyte) ==
  [kind |-> kind, hdim |-> hdim, heads |-> heads, ff |-> ff, dbyte |-> dbyte,
   ndec |-> 2, dhead |-> hdim \div heads]

MCModels == {Model("LLAMA", 8, 4, 2, 2), Model("GPT", 8, 8, 2, 1), Model("OPT", 16, 4, 1, 2)}

Call(batch, lin, lout, pipe, par, reqs) ==
  [batch |-> batch, lin |-> lin, lout |-> lout, pipe |-> pipe, par |-> par, reqs |-> reqs]

MCCalls == {Call(1, 2, 2, FALSE, TRUE, 0), Call(2, 3, 3, TRUE, TRUE, 4),
            Call(2, 1, 2, TRUE, FALSE, 3), Call(2, 1, 2, TRUE, FALSE, 0),
            Call(1, 2, 1, FALSE, FALSE, 0)}
=============================================================================
