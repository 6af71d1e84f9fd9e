------------------------------- MODULE Layers -------------------------------
(***************************************************************************)
(* model.py: the layers of one decoder, as the part of it that one of tp     *)
(* GPUs computes, in the summarization stage and in a stage of generation.   *)
(***************************************************************************)
EXTENDS Integers, Sequences

LayerTypes == {"FC", "MATMUL", "ACT", "SOFTMAX", "NORM", "G2G", "X2G"}

(* modelinfos: ff is ff_scale; kind stands for what the name of the model is  *)
(* searched for; dbyte is 2 for W16A16 and 1 for W8A8, the only ones allowed. *)
Infos == [kind : {"LLAMA", "OPT", "GPT"}, ndec : Nat, hdim : Nat, heads : Nat \ {0},
          ff : Nat, dhead : Nat, dbyte : {1, 2}]

NoEnergy == <<0, 0, 0, 0, 0, 0>>

Layer(infos, name, type, m, n, k, numOp) ==
  [name |-> name, type |-> type, m |-> m, n |-> n, k |-> k, numOp |-> numOp,
   dbyte |-> infos.dbyte, bound |-> "compute", time |-> 0, energy |-> NoEnergy]

Flops(l) ==
  LET elements == l.m * l.n * l.numOp
  IN CASE l.type = "SOFTMAX" -> 5 * elements
       [] l.type = "ACT" -> elements * (CASE l.name = "relu" -> 1
                                          [] l.name = "glu" -> 9
                                          [] OTHER -> 8)
       [] l.type = "NORM" -> 5 * elements
       [] l.type \in {"FC", "MATMUL"} -> 2 * elements * l.k
       [] OTHER -> 0

(* get_size: the bytes of both inputs and of the output.                    *)
Size(l) ==
  LET bytes == l.numOp * l.dbyte
      elements == l.m * l.n * bytes
  IN CASE l.type = "NORM" \/ l.name = "glu" -> <<elements, elements, elements>>
       [] l.type \in {"FC", "MATMUL"} -> <<l.m * l.k * bytes, l.n * l.k * bytes, elements>>
       [] OTHER -> <<elements, 0, elements>>

(* The part of a width that one GPU has; what the division leaves is lost.   *)
PerGpu(infos, tp) == infos.hdim \div tp

(* Faulty: every GPU has all heads.                                         *)
HeadsOfAllGpus(infos, tp) == infos.heads

HeadsPerGpu(infos, tp) == infos.heads \div tp

HeadDim(infos) == infos.hdim \div infos.heads

(* Faulty: the second matrix of the gated unit is forgotten.                *)
FeedForwardUngated(infos, tp, rows) ==
  LET inner == infos.ff * PerGpu(infos, tp)
  IN <<Layer(infos, "ff1", "FC", rows, inner, infos.hdim, 1),
       Layer(infos, "gelu", "ACT", rows, inner, 1, 1),
       Layer(infos, "ff2", "FC", rows, infos.hdim, inner, 1)>>

FeedForward(infos, tp, rows) ==
  LET inner == infos.ff * PerGpu(infos, tp)
      Up(name) == Layer(infos, name, "FC", rows, inner, infos.hdim, 1)
      Act(name) == Layer(infos, name, "ACT", rows, inner, 1, 1)
      Down(name) == Layer(infos, name, "FC", rows, infos.hdim, inner, 1)
  IN CASE infos.kind = "LLAMA" -> <<Up("ff1"), Up("ff2"), Act("glu"), Down("ff3")>>
       [] infos.kind = "OPT" -> <<Up("ff1"), Act("relu"), Down("ff2")>>
       [] OTHER -> <<Up("ff1"), Act("gelu"), Down("ff2")>>

(* A decoder for `rows' new tokens in all, q of them in each sequence, which  *)
(* attend to kv tokens; the two communications are around the attention.     *)
Decoder(infos, tp, batch, rows, q, kv, before, after) ==
  LET heads == HeadsPerGpu(infos, tp) * batch
      Fc(name, n, k) == Layer(infos, name, "FC", rows, n, k, 1)
      Whole(name, type) == Layer(infos, name, type, rows, infos.hdim, 1, 1)
  IN <<Fc("qkv", 3 * PerGpu(infos, tp), infos.hdim)>>
     \o before
     \o <<Layer(infos, "score", "MATMUL", q, kv, HeadDim(infos), heads),
          Layer(infos, "softmax", "SOFTMAX", q, kv, 1, heads),
          Layer(infos, "context", "MATMUL", q, HeadDim(infos), kv, heads)>>
     \o after
     \o <<Fc("proj", infos.hdim, PerGpu(infos, tp)),
          Whole("comm_g2g", "G2G"), Whole("norm1", "NORM")>>
     \o FeedForward(infos, tp, rows)
     \o <<Whole("comm_g2g", "G2G"), Whole("norm2", "NORM")>>

X2G(infos, m, n, numOp) == Layer(infos, "comm_x2g", "X2G", m, n, 1, numOp)

(* Before the attention device holds the keys and values of the input, they  *)
(* are sent to it.                                                          *)
SumDecoder(infos, tp, batch, lin, hetero) ==
  Decoder(infos, tp, batch, batch * lin, lin, lin,
    IF hetero THEN <<X2G(infos, batch * lin, 2 * PerGpu(infos, tp), 1)>> ELSE <<>>,
    <<>>)

GenDecoder(infos, tp, batch, lin, stage, hetero) ==
  Decoder(infos, tp, batch, batch, 1, lin + stage,
    IF hetero THEN <<X2G(infos, batch, 3 * PerGpu(infos, tp), 1)>> ELSE <<>>,
    IF hetero
      THEN <<X2G(infos, 1, HeadDim(infos), HeadsPerGpu(infos, tp) * batch)>>
      ELSE <<>>)

GenDecoders(infos, tp, batch, lin, lout, hetero) ==
  [stage \in 1..(lout - 1) |-> GenDecoder(infos, tp, batch, lin, stage, hetero)]
=============================================================================
