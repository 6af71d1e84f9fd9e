-------------------------- MODULE TraceGen_proofs --------------------------
(***************************************************************************)
(* Theorems about the generators of the attention traces, for every size   *)
(* of a channel and every call of a script.                                *)
(*                                                                         *)
(* A step is known by what it does to the counters (Turns, Leaves) and by  *)
(* the set of commands it adds to the segment being written, each once     *)
(* (Adds); the lemmas ...Step say so for every action.  On this rest       *)
(*   - TraceOK, the counters of the loops: TypeCorrect;                    *)
(*   - Ready, what a turn may rely on, and Scored, what was written of its *)
(*     scores: OperandsAlwaysReady;                                        *)
(*   - ScoresCounted and SoftmaxCounted, what the turns made so far have   *)
(*     placed: EveryScoreOnce;                                             *)
(*   - Orderly, whose turn it is with a buffer: TwoBuffersSuffice.         *)
(* MatricesAlwaysApart is arithmetic of the addresses.                     *)
(***************************************************************************)
EXTENDS TraceGen, NaturalFacts, FiniteSetTheorems, TLAPS

-----------------------------------------------------------------------------
(***************************************************************************)
(* Sizes.                                                                  *)
(***************************************************************************)
LEMMA CeilPositive ==
  ASSUME NEW a \in Nat \ {0}, NEW b \in Nat \ {0}
  PROVE  Ceil(a, b) \in Nat \ {0}
<1>1. a + b - 1 \in Nat /\ a + b - 1 >= b
  OBVIOUS
<1>2. \A n \in Nat : n >= b => n \div b \in Nat /\ n \div b >= 1
  OBVIOUS
<1>. QED  BY <1>1, <1>2 DEF Ceil

(* Sizes are products of sizes.                                            *)
LEMMA ProductPositive ==
  ASSUME NEW a \in Nat \ {0}, NEW b \in Nat \ {0}
  PROVE  a * b \in Nat \ {0}
OBVIOUS

(* Every script spreads a matrix over something.                           *)
LEMMA ShapePositive ==
  ASSUME args \in Inputs
  PROVE  Shape.lanes \in Nat \ {0} /\ Shape.groups \in Nat \ {0} /\ Shape.slices \in Nat \ {0}
<1>1. args.unit \in {"bank", "bg", "buffer"}
  BY InputsType
<1>2. /\ NumPch \in Nat \ {0} /\ NumRank \in Nat \ {0}
      /\ NumBg \in Nat \ {0} /\ NumBank \in Nat \ {0}
  BY SizesPositive
<1>3. /\ NumPch * NumRank * NumBg \in Nat \ {0}
      /\ NumRank * NumBg \in Nat \ {0}
  BY <1>2, ProductPositive
<1>. HIDE DEF BankShape
<1>4. /\ BankShape.lanes \in Nat \ {0} /\ BankShape.groups \in Nat \ {0}
      /\ BankShape.slices \in Nat \ {0}
  BY <1>2, <1>3 DEF BankShape
<1>5. /\ BgShape.lanes \in Nat \ {0} /\ BgShape.groups \in Nat \ {0}
      /\ BgShape.slices \in Nat \ {0}
  BY <1>2, <1>3 DEF BankShape, BgShape
<1>6. /\ BufferShape.lanes \in Nat \ {0} /\ BufferShape.groups \in Nat \ {0}
      /\ BufferShape.slices \in Nat \ {0}
  BY <1>2 DEF BufferShape
<1>7. Shape \in {BankShape, BgShape, BufferShape}
  BY <1>1 DEF Shape
<1>. QED  BY <1>4, <1>5, <1>6, <1>7

(* The arguments of a call.                                                *)
LEMMA ArgsType ==
  ASSUME args \in Inputs
  PROVE  /\ args.L \in Nat \ {0} /\ args.maxL \in Nat \ {0} /\ args.dhead \in Nat \ {0}
         /\ args.dbyte \in 1..TxBytes /\ args.n_head \in Nat \ {0}
BY InputsType

(* The lists are not empty.                                                *)
LEMMA SizesType ==
  ASSUME args \in Inputs
  PROVE  /\ NumMac \in Nat \ {0} /\ Rows \in Nat \ {0} /\ Tiles \in Nat \ {0}
         /\ Parts \in Nat \ {0} /\ NumItr \in Nat \ {0}
<1>1. TxBytes \in Nat \ {0} /\ Tile \in Nat \ {0} /\ NumChannel \in Nat \ {0}
  BY SizesPositive
<1>2. NumMac \in Nat \ {0}
  <2>1. \A n \in 1..TxBytes : TxBytes \div n \in Nat /\ TxBytes \div n >= 1
    BY <1>1
  <2>. QED  BY <2>1, ArgsType DEF NumMac
<1>3. Shape.slices * NumMac \in Nat \ {0}
  BY <1>2, ShapePositive, ProductPositive
<1>4. Rows \in Nat \ {0}
  BY ArgsType, ShapePositive, CeilPositive DEF Rows
<1>5. Tiles \in Nat \ {0}
  BY <1>1, <1>4, CeilPositive DEF Tiles
<1>6. Parts \in Nat \ {0}
  BY <1>3, ArgsType, CeilPositive DEF Parts
<1>7. NumItr \in Nat \ {0}
  BY <1>1, ArgsType, CeilPositive DEF NumItr
<1>. QED  BY <1>2, <1>4, <1>5, <1>6, <1>7

(* Neither is that of a vector.                                            *)
LEMMA VectorSizePositive ==
  ASSUME args \in Inputs, NEW op, NEW h \in Nat
  PROVE  VectorSize(op, h) \in Nat \ {0}
<1>1. ValidChannels(h) \in Nat \ {0}
  <2>1. NumChannel \in Nat \ {0}
    BY SizesPositive
  <2>2. args.n_head % NumChannel \in Nat
    BY <2>1, ArgsType
  <2>. QED  BY <2>1, <2>2 DEF ValidChannels
<1>2. Shape.slices * Parts \in Nat \ {0}
  BY ShapePositive, SizesType, ProductPositive
<1>3. Shape.groups * Ceil(args.L, Shape.lanes * NumMac) \in Nat \ {0}
  BY ShapePositive, SizesType, ArgsType, ProductPositive, CeilPositive
<1>4. (IF op = "WRGB" THEN Shape.slices * Parts
       ELSE Shape.groups * Ceil(args.L, Shape.lanes * NumMac)) \in Nat \ {0}
  BY <1>2, <1>3
<1>. QED  BY <1>1, <1>4, ProductPositive DEF VectorSize

(* Pieces of equal length do not reach over the end of the list.           *)
LEMMA PiecesFit ==
  ASSUME NEW size \in Nat, NEW pieces \in Nat \ {0}, NEW n \in Nat, n <= pieces
  PROVE  size \div pieces \in Nat /\ n * (size \div pieces) \in Nat /\ n * (size \div pieces) <= size
<1>1. /\ size \div pieces \in Nat /\ size % pieces \in Nat
      /\ size = pieces * (size \div pieces) + (size % pieces)
  BY Remainder
<1>2. \A s \in Nat : n * s <= pieces * s /\ n * s \in Nat
  OBVIOUS
<1>. QED  BY <1>1, <1>2

-----------------------------------------------------------------------------
(***************************************************************************)
(* Lists of commands, and the trace with one of them added.                *)
(***************************************************************************)
Command == [op : Ops, head : Nat, at : Nat]

(* Items are commands.                                                     *)
LEMMA ItemType ==
  ASSUME NEW op \in Ops, NEW h \in Nat, NEW n \in Nat
  PROVE  Item(op, h, n) \in Command
BY DEF Item, Command

(* Items number from, ..., upto - 1 of a list.                             *)
Those(op, h, from, upto) == {Item(op, h, n) : n \in from..(upto - 1)}

(* q is a list of commands without repetition, S their set and ops the     *)
(* operations among them.                                                  *)
Distinct(q) == \A m, n \in DOMAIN q : q[m] = q[n] => m = n

Lists(q, ops, S) ==
  /\ q \in Seq(Command) /\ Distinct(q) /\ ToSet(q) = S
  /\ \A c \in S : c.op \in ops

(* Items of a list are that list.                                          *)
LEMMA ItemsList ==
  ASSUME NEW op \in Ops, NEW h \in Nat, NEW from \in Nat, NEW upto \in Int
  PROVE  Lists(Items(op, h, from, upto), {op}, Those(op, h, from, upto))
<1> DEFINE q == Items(op, h, from, upto)
           len == IF upto > from THEN upto - from ELSE 0
<1>1. len \in Nat /\ 1..(upto - from) = 1..len
  OBVIOUS
<1>2. q = [k \in 1..len |-> Item(op, h, from + k - 1)]
  BY <1>1 DEF Items
<1>3. \A k \in 1..len : Item(op, h, from + k - 1) \in Command
  BY <1>1, ItemType
<1>4. q \in [1..len -> Command]
  BY <1>2, <1>3
<1>5. q \in Seq(Command)
  BY <1>1, <1>4
<1>6. ToSet(q) = {Item(op, h, from + k - 1) : k \in 1..len}
  BY <1>2 DEF ToSet
<1>7. {from + k - 1 : k \in 1..len} = from..(upto - 1)
  <2>1. \A n \in from..(upto - 1) : n - from + 1 \in 1..len /\ n = from + (n - from + 1) - 1
    OBVIOUS
  <2>2. \A k \in 1..len : from + k - 1 \in from..(upto - 1)
    <3>1. ASSUME NEW k \in 1..len PROVE from + k - 1 \in from..(upto - 1)
      <4>1. k \in 1..(upto - from)
        BY <1>1
      <4>. QED  BY <4>1
    <3>. QED  BY <3>1
  <2>. QED  BY <2>1, <2>2
<1>8. {Item(op, h, from + k - 1) : k \in 1..len} = {Item(op, h, n) : n \in from..(upto - 1)}
  <2> DEFINE A == {from + k - 1 : k \in 1..len}
             B == from..(upto - 1)
  <2>1. A = B
    BY <1>7
  <2>2. {Item(op, h, from + k - 1) : k \in 1..len} = {Item(op, h, n) : n \in A}
    <3> HIDE DEF len
    <3>. QED  OBVIOUS
  <2> HIDE DEF A, B
  <2>3. {Item(op, h, n) : n \in A} = {Item(op, h, n) : n \in B}
    BY <2>1
  <2>. QED  BY <2>2, <2>3 DEF B
<1>9. Distinct(q)
  <2>1. \A k \in 1..len : Item(op, h, from + k - 1).at = from + k - 1
    BY DEF Item
  <2>2. \A m, n \in 1..len : q[m] = q[n] => from + m - 1 = from + n - 1
    <3>1. \A k \in 1..len : q[k] = Item(op, h, from + k - 1)
      BY <1>2
    <3> HIDE DEF q, len
    <3>. QED  BY <2>1, <3>1
  <2>3. \A m, n \in 1..len : from + m - 1 = from + n - 1 => m = n
    BY <1>1
  <2>. QED  BY <1>2, <2>2, <2>3 DEF Distinct
<1>10. \A c \in Those(op, h, from, upto) : c.op = op
  BY DEF Those, Item
<1>. QED  BY <1>5, <1>6, <1>8, <1>9, <1>10 DEF Lists, Those

(* Lists of different operations join to a list.                           *)
LEMMA ConcatList ==
  ASSUME NEW q, NEW r, NEW A, NEW B, NEW S, NEW T, Lists(q, A, S), Lists(r, B, T), A \cap B = {}
  PROVE  Lists(q \o r, A \cup B, S \cup T)
<1>0. q \in Seq(Command) /\ r \in Seq(Command) /\ ToSet(q) = S /\ ToSet(r) = T
      /\ Distinct(q) /\ Distinct(r)
      /\ (\A c \in S : c.op \in A) /\ (\A c \in T : c.op \in B)
  BY DEF Lists
<1>1. q \o r \in Seq(Command) /\ Len(q \o r) = Len(q) + Len(r)
  BY <1>0
<1>2. \A k \in 1..(Len(q) + Len(r)) :
        (q \o r)[k] = IF k <= Len(q) THEN q[k] ELSE r[k - Len(q)]
  BY <1>0
<1>3. ASSUME NEW k \in 1..(Len(q) + Len(r))
      PROVE  \/ k \in 1..Len(q) /\ (q \o r)[k] = q[k] /\ q[k] \in S
             \/ k - Len(q) \in 1..Len(r) /\ (q \o r)[k] = r[k - Len(q)] /\ r[k - Len(q)] \in T
  <2>1. CASE k <= Len(q)
    BY <1>0, <1>2, <2>1 DEF ToSet
  <2>2. CASE ~(k <= Len(q))
    <3>1. k - Len(q) \in 1..Len(r)
      BY <1>0, <2>2
    <3>. QED  BY <1>0, <1>2, <2>2, <3>1 DEF ToSet
  <2>. QED  BY <2>1, <2>2
<1>4. ToSet(q \o r) \subseteq S \cup T
  BY <1>1, <1>3 DEF ToSet
<1>5. ASSUME NEW c \in S PROVE c \in ToSet(q \o r)
  <2>1. PICK k \in 1..Len(q) : q[k] = c
    BY <1>0, <1>5 DEF ToSet
  <2>. QED  BY <2>1, <1>0, <1>1, <1>2 DEF ToSet
<1>6. ASSUME NEW c \in T PROVE c \in ToSet(q \o r)
  <2>1. PICK k \in 1..Len(r) : r[k] = c
    BY <1>0, <1>6 DEF ToSet
  <2>2. Len(q) + k \in 1..(Len(q) + Len(r)) /\ ~(Len(q) + k <= Len(q)) /\ (Len(q) + k) - Len(q) = k
    BY <1>0
  <2>3. (q \o r)[Len(q) + k] = c
    BY <2>1, <2>2, <1>2
  <2>. QED  BY <1>1, <2>2, <2>3 DEF ToSet
<1>7. S \cap T = {}
  BY <1>0
<1>8. /\ \A k, l \in 1..Len(q) : q[k] = q[l] => k = l
      /\ \A k, l \in 1..Len(r) : r[k] = r[l] => k = l
  <2>1. DOMAIN q = 1..Len(q) /\ DOMAIN r = 1..Len(r)
    BY <1>0
  <2>. QED  BY <1>0, <2>1 DEF Distinct
<1>9. ASSUME NEW m \in 1..(Len(q) + Len(r)), NEW n \in 1..(Len(q) + Len(r)), (q \o r)[m] = (q \o r)[n]
      PROVE  m = n
  <2>1. CASE m \in 1..Len(q) /\ (q \o r)[m] = q[m] /\ n \in 1..Len(q) /\ (q \o r)[n] = q[n]
    BY <1>9, <1>8, <2>1
  <2>2. CASE /\ m - Len(q) \in 1..Len(r) /\ (q \o r)[m] = r[m - Len(q)]
             /\ n - Len(q) \in 1..Len(r) /\ (q \o r)[n] = r[n - Len(q)]
    <3>1. m - Len(q) = n - Len(q)
      BY <1>9, <1>8, <2>2
    <3>. QED  BY <3>1, <1>0
  <2>3. CASE (q \o r)[m] \in S /\ (q \o r)[n] \in T
    BY <1>7, <1>9, <2>3
  <2>4. CASE (q \o r)[m] \in T /\ (q \o r)[n] \in S
    BY <1>7, <1>9, <2>4
  <2>. QED  BY <1>3, <2>1, <2>2, <2>3, <2>4
<1>10. Distinct(q \o r)
  BY <1>1, <1>9 DEF Distinct
<1>. QED  BY <1>0, <1>1, <1>4, <1>5, <1>6, <1>10 DEF Lists

(* Lists of no and of one command.                                         *)
LEMMA ShortLists ==
  /\ \A ops : Lists(<<>>, ops, {})
  /\ \A op \in Ops, h, n \in Nat : Lists(<<Item(op, h, n)>>, {op}, {Item(op, h, n)})
<1>1. \A ops : Lists(<<>>, ops, {})
  BY DEF Lists, Distinct, ToSet
<1>2. ASSUME NEW op \in Ops, NEW h \in Nat, NEW n \in Nat
      PROVE  Lists(<<Item(op, h, n)>>, {op}, {Item(op, h, n)})
  <2>1. Item(op, h, n) \in Command /\ Item(op, h, n).op = op
    BY ItemType DEF Item
  <2>2. \A c \in Command : <<c>> \in Seq(Command) /\ Distinct(<<c>>) /\ ToSet(<<c>>) = {c}
    BY DEF Distinct, ToSet
  <2>. QED  BY <2>1, <2>2 DEF Lists
<1>. QED  BY <1>1, <1>2

(* A trace with at least one segment.                                      *)
Trace == {t \in Seq(Seq(Command)) : t # <<>>}

(* The last segment grows, the others stay.                                *)
LEMMA AddedEffect ==
  ASSUME total_cmd \in Trace, NEW cmds \in Seq(Command)
  PROVE  /\ Added(cmds) \in Trace
         /\ Len(Added(cmds)) = Len(total_cmd)
         /\ Len(total_cmd) \in Nat \ {0}
         /\ \A s \in 1..(Len(total_cmd) - 1) : Added(cmds)[s] = total_cmd[s]
         /\ Added(cmds)[Len(total_cmd)] = total_cmd[Len(total_cmd)] \o cmds
<1>1. Len(total_cmd) \in Nat \ {0} /\ Len(total_cmd) \in 1..Len(total_cmd)
  BY DEF Trace
<1>2. total_cmd[Len(total_cmd)] \o cmds \in Seq(Command)
  BY <1>1 DEF Trace
<1> DEFINE u == Added(cmds)
<1>3. u = [total_cmd EXCEPT ![Len(total_cmd)] = total_cmd[Len(total_cmd)] \o cmds]
  BY DEF Added
<1>4. total_cmd \in Seq(Seq(Command)) /\ total_cmd # <<>>
  BY DEF Trace
<1> HIDE DEF u
<1>5. /\ u \in Seq(Seq(Command)) /\ Len(u) = Len(total_cmd)
      /\ \A s \in 1..(Len(total_cmd) - 1) : u[s] = total_cmd[s]
      /\ u[Len(total_cmd)] = total_cmd[Len(total_cmd)] \o cmds
  <2> DEFINE last == Len(total_cmd)
             v == total_cmd[last] \o cmds
  <2>1. v \in Seq(Command) /\ last \in 1..Len(total_cmd) /\ u = [total_cmd EXCEPT ![last] = v]
    BY <1>1, <1>2, <1>3
  <2>2. last = Len(total_cmd)
    OBVIOUS
  <2> HIDE DEF last, v
  <2>3. /\ u \in Seq(Seq(Command)) /\ Len(u) = Len(total_cmd) /\ u[last] = v
        /\ \A s \in 1..Len(total_cmd) : s # last => u[s] = total_cmd[s]
    BY <1>4, <2>1
  <2>4. \A s \in 1..(last - 1) : s \in 1..Len(total_cmd) /\ s # last
    BY <2>1, <2>2
  <2>. QED  BY <2>2, <2>3, <2>4 DEF last, v
<1>6. u # <<>>
  BY <1>1, <1>5
<1>. QED  BY <1>1, <1>5, <1>6 DEF Trace, u

(* With a barrier an empty segment follows.                                *)
LEMMA BarrierEffect ==
  ASSUME total_cmd \in Trace, NEW cmds \in Seq(Command)
  PROVE  /\ AddedThenBarrier(cmds) \in Trace
         /\ Len(AddedThenBarrier(cmds)) = Len(total_cmd) + 1
         /\ Len(total_cmd) \in Nat \ {0}
         /\ \A s \in 1..(Len(total_cmd) - 1) : AddedThenBarrier(cmds)[s] = total_cmd[s]
         /\ AddedThenBarrier(cmds)[Len(total_cmd)] = total_cmd[Len(total_cmd)] \o cmds
         /\ AddedThenBarrier(cmds)[Len(total_cmd) + 1] = <<>>
<1> DEFINE t == Added(cmds)
<1>1. /\ t \in Trace /\ Len(t) = Len(total_cmd) /\ Len(total_cmd) \in Nat \ {0}
      /\ \A s \in 1..(Len(total_cmd) - 1) : t[s] = total_cmd[s]
      /\ t[Len(total_cmd)] = total_cmd[Len(total_cmd)] \o cmds
  BY AddedEffect
<1> HIDE DEF t
<1>2. <<>> \in Seq(Command)
  OBVIOUS
<1>3. /\ Append(t, <<>>) \in Seq(Seq(Command)) /\ Len(Append(t, <<>>)) = Len(t) + 1
      /\ \A s \in 1..Len(t) : Append(t, <<>>)[s] = t[s]
      /\ Append(t, <<>>)[Len(t) + 1] = <<>>
  BY <1>1, <1>2 DEF Trace
<1>4. AddedThenBarrier(cmds) = Append(t, <<>>)
  BY DEF AddedThenBarrier, t
<1> DEFINE u == Append(t, <<>>)
<1>5. /\ u \in Seq(Seq(Command)) /\ Len(u) = Len(t) + 1
      /\ \A s \in 1..Len(t) : u[s] = t[s]
      /\ u[Len(t) + 1] = <<>> /\ AddedThenBarrier(cmds) = u
  BY <1>3, <1>4
<1> HIDE DEF u
<1>6. u # <<>>
  BY <1>1, <1>5
<1>7. u \in Trace
  BY <1>5, <1>6 DEF Trace
<1>8. \A s \in 1..(Len(total_cmd) - 1) : u[s] = total_cmd[s]
  <2>1. \A s \in 1..(Len(total_cmd) - 1) : s \in 1..Len(t) /\ t[s] = total_cmd[s]
    BY <1>1
  <2>. QED  BY <1>5, <2>1
<1>9. u[Len(total_cmd)] = total_cmd[Len(total_cmd)] \o cmds
  <2>1. Len(total_cmd) \in 1..Len(t)
    BY <1>1
  <2>. QED  BY <1>1, <1>5, <2>1
<1>. QED  BY <1>1, <1>5, <1>7, <1>8, <1>9

-----------------------------------------------------------------------------
(***************************************************************************)
(* The lists that the loops add, as sets.                                  *)
(***************************************************************************)
TileRows(h, t) == Those("SMAC", h, t * Tile, Least((t + 1) * Tile, Rows))

(* The first n of the given number of pieces of a vector.                  *)
FirstPieces(op, h, n, pieces) == Those(op, h, 0, n * (VectorSize(op, h) \div pieces))

PartAt(h) == IF j < Parts THEN {Item("CMAC", h, j)} ELSE {}
MovedAt(op, h) == IF j > 0 THEN {Item(op, h, j - 1)} ELSE {}
SoftmaxAt(h) == IF j = 0 THEN {Item("SFM", h, 0)} ELSE {}
ScorePiece(h) == IF j < Tiles THEN Piece("WRGB", h, j, Tiles) ELSE <<>>

(* The operations, one by one.                                             *)
LEMMA OpsAre ==
  {"WRGB", "DUMMY", "SMAC", "SMVSB", "SFM", "MVGB", "CMAC", "CMVSB"} = Ops
BY DEF Ops

(* The rows of a tile, ...                                                 *)
LEMMA ScoreMacList ==
  ASSUME args \in Inputs, j \in Nat, NEW h \in Nat
  PROVE  Lists(ScoreMac(h), {"SMAC"}, TileRows(h, j))
<1>1. j * Tile \in Nat /\ (j + 1) * Tile \in Nat /\ Rows \in Nat
  BY SizesPositive, SizesType
<1>2. Least((j + 1) * Tile, Rows) \in Int
  BY <1>1 DEF Least
<1>. QED  BY <1>1, <1>2, ItemsList, OpsAre DEF ScoreMac, TileRows

(* the part of a context, ...                                              *)
LEMMA ContextMacList ==
  ASSUME j \in Nat, NEW h \in Nat
  PROVE  Lists(ContextMac(h), {"CMAC"}, PartAt(h))
BY ShortLists, OpsAre DEF ContextMac, PartAt

(* the results of the turn before, ...                                     *)
LEMMA MovedList ==
  ASSUME j \in Nat, NEW op \in Ops, NEW h \in Nat
  PROVE  Lists(Moved(op, h), {op}, MovedAt(op, h))
<1>1. CASE j > 0
  <2>1. j - 1 \in Nat
    BY <1>1
  <2>. QED  BY <1>1, <2>1, ShortLists DEF Moved, MovedAt
<1>2. CASE ~(j > 0)
  BY <1>2, ShortLists DEF Moved, MovedAt
<1>. QED  BY <1>1, <1>2

(* the softmax, ...                                                        *)
LEMMA SoftmaxList ==
  ASSUME NEW h \in Nat
  PROVE  Lists(Softmax(h), {"SFM"}, SoftmaxAt(h))
BY ShortLists, OpsAre DEF Softmax, SoftmaxAt

(* and a whole vector, that is one piece.                                  *)
LEMMA VectorList ==
  ASSUME args \in Inputs, NEW op \in Ops, NEW h \in Nat
  PROVE  Lists(Vector(op, h), {op}, FirstPieces(op, h, 1, 1))
<1>1. VectorSize(op, h) \in Nat
  BY VectorSizePositive
<1>2. 1 * (VectorSize(op, h) \div 1) = VectorSize(op, h)
  BY <1>1
<1>3. FirstPieces(op, h, 1, 1) = Those(op, h, 0, VectorSize(op, h))
  BY <1>2 DEF FirstPieces
<1>. QED  BY <1>1, <1>3, ItemsList DEF Vector

(* Before the first piece there is none.                                   *)
LEMMA FirstPiecesNone ==
  ASSUME args \in Inputs, NEW op, NEW h \in Nat, NEW pieces \in Nat \ {0}
  PROVE  FirstPieces(op, h, 0, pieces) = {}
<1>1. VectorSize(op, h) \in Nat
  BY VectorSizePositive
<1>2. 0 * (VectorSize(op, h) \div pieces) = 0
  BY <1>1, PiecesFit
<1>3. 0..(0 - 1) = {}
  OBVIOUS
<1>. QED  BY <1>2, <1>3 DEF FirstPieces, Those

(* The n-th piece adds itself to the first n.                              *)
LEMMA PieceList ==
  ASSUME args \in Inputs, NEW op \in Ops, NEW h \in Nat, NEW pieces \in Nat \ {0},
         NEW n \in Nat, n < pieces
  PROVE  /\ Lists(Piece(op, h, n, pieces), {op}, ToSet(Piece(op, h, n, pieces)))
         /\ FirstPieces(op, h, n + 1, pieces)
              = FirstPieces(op, h, n, pieces) \cup ToSet(Piece(op, h, n, pieces))
         /\ \A c \in ToSet(Piece(op, h, n, pieces)) : c.head = h
<1> DEFINE size == VectorSize(op, h)
           stride == size \div pieces
<1>1. size \in Nat
  BY VectorSizePositive
<1>2. stride \in Nat /\ n * stride \in Nat /\ (n + 1) * stride \in Nat /\ (n + 1) * stride <= size
  <2>1. n <= pieces /\ n + 1 \in Nat /\ n + 1 <= pieces
    OBVIOUS
  <2> HIDE DEF size
  <2>2. stride \in Nat /\ n * stride \in Nat
    BY <1>1, <2>1, PiecesFit
  <2>3. (n + 1) * stride \in Nat /\ (n + 1) * stride <= size
    BY <1>1, <2>1, PiecesFit
  <2>. QED  BY <2>2, <2>3
<1>3. (n + 1) * stride = n * stride + stride
  BY <1>2
<1>4. Piece(op, h, n, pieces) = Items(op, h, n * stride, Least((n + 1) * stride, size))
  BY DEF Piece
<1> HIDE DEF stride
<1>5. Least((n + 1) * stride, size) = (n + 1) * stride
  BY <1>1, <1>2 DEF Least
<1> DEFINE new == Those(op, h, n * stride, (n + 1) * stride)
<1>6. Lists(Piece(op, h, n, pieces), {op}, new)
  BY <1>2, <1>4, <1>5, ItemsList
<1>7. ToSet(Piece(op, h, n, pieces)) = new
  BY <1>6 DEF Lists
<1>8. /\ FirstPieces(op, h, n, pieces) = Those(op, h, 0, n * stride)
      /\ FirstPieces(op, h, n + 1, pieces) = Those(op, h, 0, (n + 1) * stride)
  BY DEF FirstPieces, stride
<1>9. 0..((n + 1) * stride - 1) = (0..(n * stride - 1)) \cup ((n * stride)..((n + 1) * stride - 1))
  BY <1>2, <1>3
<1>10. Those(op, h, 0, (n + 1) * stride) = Those(op, h, 0, n * stride) \cup new
  BY <1>9 DEF Those
<1>11. \A c \in new : c.head = h
  BY DEF Those, Item
<1>. QED  BY <1>6, <1>7, <1>8, <1>10, <1>11

(* A turn of score0 adds a piece of the vector of the second head.         *)
LEMMA ScorePieceList ==
  ASSUME args \in Inputs, j \in Nat, NEW h \in Nat
  PROVE  /\ Lists(ScorePiece(h), {"WRGB"}, ToSet(ScorePiece(h)))
         /\ \A c \in ToSet(ScorePiece(h)) : c.head = h
         /\ j < Tiles => FirstPieces("WRGB", h, j + 1, Tiles)
                           = FirstPieces("WRGB", h, j, Tiles) \cup ToSet(ScorePiece(h))
         /\ ~(j < Tiles) => ToSet(ScorePiece(h)) = {}
<1>1. CASE j < Tiles
  <2> DEFINE piece == Piece("WRGB", h, j, Tiles)
  <2>1. "WRGB" \in Ops /\ Tiles \in Nat \ {0}
    BY SizesType, OpsAre
  <2>2. /\ Lists(piece, {"WRGB"}, ToSet(piece))
        /\ FirstPieces("WRGB", h, j + 1, Tiles) = FirstPieces("WRGB", h, j, Tiles) \cup ToSet(piece)
        /\ \A c \in ToSet(piece) : c.head = h
    BY <1>1, <2>1, PieceList
  <2>3. ScorePiece(h) = piece
    BY <1>1 DEF ScorePiece
  <2>. QED  BY <1>1, <2>2, <2>3
<1>2. CASE ~(j < Tiles)
  <2>1. ScorePiece(h) = <<>> /\ ToSet(<<>>) = {}
    BY <1>2 DEF ScorePiece, ToSet
  <2>. QED  BY <1>2, <2>1, ShortLists
<1>. QED  BY <1>1, <1>2

(* Half of a number, rounded down and up.                                  *)
LEMMA Halves ==
  ASSUME NEW n \in Nat \ {0}
  PROVE  /\ n \div 2 \in Nat /\ Ceil(n, 2) = n - n \div 2 /\ Ceil(n, 2) \in Nat \ {0}
         /\ n \div 2 < n
BY DEF Ceil

(* The second half of a loop adds the pieces of the vector of a context.   *)
LEMMA ContextVectorList ==
  ASSUME args \in Inputs, j \in Nat, NEW h \in Nat, NEW length \in Nat \ {0}
  PROVE  /\ Lists(ContextVector(h, length), {"MVGB"}, ToSet(ContextVector(h, length)))
         /\ \A c \in ToSet(ContextVector(h, length)) : c.head = h
         /\ ~(j < length /\ j >= length \div 2) => ToSet(ContextVector(h, length)) = {}
         /\ j < length /\ j >= length \div 2 =>
              FirstPieces("MVGB", h, j + 1 - length \div 2, Ceil(length, 2))
                = FirstPieces("MVGB", h, j - length \div 2, Ceil(length, 2))
                    \cup ToSet(ContextVector(h, length))
<1>1. CASE j < length /\ j >= length \div 2
  <2> DEFINE n == j - length \div 2
  <2>1. /\ n \in Nat /\ n < Ceil(length, 2) /\ Ceil(length, 2) \in Nat \ {0}
        /\ j + 1 - length \div 2 = n + 1
    BY <1>1, Halves
  <2>2. ContextVector(h, length) = Piece("MVGB", h, n, Ceil(length, 2))
    BY <1>1 DEF ContextVector
  <2> HIDE DEF n
  <2> DEFINE piece == Piece("MVGB", h, n, Ceil(length, 2))
  <2>3. "MVGB" \in Ops
    BY OpsAre
  <2>4. /\ Lists(piece, {"MVGB"}, ToSet(piece))
        /\ FirstPieces("MVGB", h, n + 1, Ceil(length, 2))
             = FirstPieces("MVGB", h, n, Ceil(length, 2)) \cup ToSet(piece)
        /\ \A c \in ToSet(piece) : c.head = h
    BY <2>1, <2>3, PieceList
  <2>. QED  BY <1>1, <2>1, <2>2, <2>4 DEF n
<1>2. CASE ~(j < length /\ j >= length \div 2)
  <2>1. ContextVector(h, length) = <<>> /\ ToSet(<<>>) = {}
    BY <1>2 DEF ContextVector, ToSet
  <2>. QED  BY <1>2, <2>1, ShortLists
<1>. QED  BY <1>1, <1>2

-----------------------------------------------------------------------------
(***************************************************************************)
(* What the actions do to the counters, and what set they add to the trace.*)
(***************************************************************************)
(* Where the script stands: pairs begin with an even head, and only the    *)
(* last head takes the blocks of a last one.                               *)
Pairs == i % 2 = 0

TurnInRange ==
  /\ j \in Nat
  /\ stage \in {"score0", "score1", "last_score"} => j <= Tiles
  /\ stage \in {"context0", "context1", "last_context"} => j <= Parts
  /\ stage \in {"write", "last_write", "last_softmax", "done"} => j = 0

HeadInRange ==
  /\ stage # "done" => i < NumItr
  /\ stage \in {"write", "score0", "score1", "context0", "context1"} => i + 1 < NumItr
  /\ stage \in {"last_write", "last_score", "last_softmax", "last_context"} => i = NumItr - 1
  /\ stage = "done" => i + 1 >= NumItr

CountersOK == i \in Nat /\ stage \in Stages /\ TurnInRange /\ HeadInRange

TraceOK == args \in Inputs /\ total_cmd \in Trace /\ Pairs /\ CountersOK

(* A turn of a loop, or a block, as it moves the counters.                 *)
Turns(loop, length, nextStage, nextHead) ==
  /\ stage = loop
  /\ IF j < length THEN j' = j + 1 /\ i' = i /\ stage' = stage
                   ELSE j' = 0 /\ i' = nextHead /\ stage' = nextStage

Leaves(block, nextStage) == stage = block /\ j' = j /\ i' = i /\ stage' = nextStage

(* It adds these commands, each once, and as many barriers after them.     *)
Adds(ops, S, barriers) ==
  /\ args' = args
  /\ \E cmds : /\ Lists(cmds, ops, S)
               /\ total_cmd' = IF barriers = 1 THEN AddedThenBarrier(cmds) ELSE Added(cmds)

Barriers(length) == IF j < length THEN 1 ELSE 0

(* What every step may use.                                                *)
LEMMA TraceFacts ==
  ASSUME TraceOK
  PROVE  /\ args \in Inputs /\ total_cmd \in Trace /\ i \in Nat /\ i + 1 \in Nat /\ j \in Nat
         /\ Rows \in Nat \ {0} /\ Tiles \in Nat \ {0} /\ Parts \in Nat \ {0} /\ NumItr \in Nat \ {0}
<1>1. args \in Inputs /\ total_cmd \in Trace
  BY DEF TraceOK
<1>2. /\ Rows \in Nat \ {0} /\ Tiles \in Nat \ {0} /\ Parts \in Nat \ {0} /\ NumItr \in Nat \ {0}
  BY <1>1, SizesType
<1>3. i \in Nat /\ i + 1 \in Nat
  <2>1. i \in Nat
    BY DEF TraceOK, CountersOK
  <2>. QED  BY <2>1
<1>4. j \in Nat
  BY DEF TraceOK, CountersOK, TurnInRange
<1>. QED  BY <1>1, <1>2, <1>3, <1>4

(* A turn, ...                                                             *)
LEMMA TurnAdds ==
  ASSUME NEW loop, NEW length, NEW cmds, NEW nextStage, NEW nextHead, NEW ops, NEW S,
         Turn(loop, length, cmds, nextStage, nextHead), Lists(cmds, ops, S)
  PROVE  Turns(loop, length, nextStage, nextHead) /\ Adds(ops, S, Barriers(length))
BY DEF Turn, Turns, Adds, Barriers

(* and a block, by the list they add.                                      *)
LEMMA BlockAdds ==
  ASSUME NEW block, NEW cmds, NEW nextStage, NEW ops, NEW S,
         Block(block, cmds, nextStage), Lists(cmds, ops, S)
  PROVE  Leaves(block, nextStage) /\ Adds(ops, S, 1)
BY DEF Block, Leaves, Adds

DummyAt == IF i = 0 THEN {Item("DUMMY", i, 0)} ELSE {}

(* WriteVector.                                                            *)
LEMMA WriteVectorStep ==
  ASSUME TraceOK, WriteVector
  PROVE  /\ Leaves("write", "score0")
         /\ Adds({"WRGB", "DUMMY"}, FirstPieces("WRGB", i, 1, 1) \cup DummyAt, 1)
<1> DEFINE dummy == IF i = 0 THEN <<Item("DUMMY", i, 0)>> ELSE <<>>
<1>1. Lists(Vector("WRGB", i), {"WRGB"}, FirstPieces("WRGB", i, 1, 1))
  BY TraceFacts, VectorList, OpsAre
<1>2. Lists(dummy, {"DUMMY"}, DummyAt)
  BY TraceFacts, ShortLists, OpsAre DEF DummyAt
<1> HIDE DEF dummy
<1>3. Lists(Vector("WRGB", i) \o dummy, {"WRGB"} \cup {"DUMMY"},
            FirstPieces("WRGB", i, 1, 1) \cup DummyAt)
  BY <1>1, <1>2, ConcatList
<1>4. {"WRGB"} \cup {"DUMMY"} = {"WRGB", "DUMMY"}
  OBVIOUS
<1>5. Block("write", Vector("WRGB", i) \o dummy, "score0")
  BY DEF WriteVector, dummy
<1>. QED  BY <1>3, <1>4, <1>5, BlockAdds

Score0Adds == (TileRows(i, j) \cup MovedAt("SMVSB", i)) \cup ToSet(ScorePiece(i + 1))

(* Score0.                                                                 *)
LEMMA Score0Step ==
  ASSUME TraceOK, Score0
  PROVE  /\ Turns("score0", Tiles, "score1", i)
         /\ Adds({"SMAC", "SMVSB", "WRGB"}, Score0Adds, Barriers(Tiles))
<1> DEFINE cmds == (ScoreMac(i) \o Moved("SMVSB", i)) \o ScorePiece(i + 1)
<1>1. Lists(ScoreMac(i), {"SMAC"}, TileRows(i, j))
  BY TraceFacts, ScoreMacList
<1>2. Lists(Moved("SMVSB", i), {"SMVSB"}, MovedAt("SMVSB", i))
  BY TraceFacts, MovedList, OpsAre
<1>3. Lists(ScorePiece(i + 1), {"WRGB"}, ToSet(ScorePiece(i + 1)))
  BY TraceFacts, ScorePieceList
<1>4. Lists(ScoreMac(i) \o Moved("SMVSB", i), {"SMAC"} \cup {"SMVSB"},
            TileRows(i, j) \cup MovedAt("SMVSB", i))
  BY <1>1, <1>2, ConcatList
<1>5. Lists(cmds, ({"SMAC"} \cup {"SMVSB"}) \cup {"WRGB"}, Score0Adds)
  BY <1>3, <1>4, ConcatList DEF Score0Adds
<1>6. ({"SMAC"} \cup {"SMVSB"}) \cup {"WRGB"} = {"SMAC", "SMVSB", "WRGB"}
  OBVIOUS
<1>7. Turn("score0", Tiles, cmds, "score1", i)
  BY DEF Score0, ScorePiece
<1> HIDE DEF cmds
<1>. QED  BY <1>5, <1>6, <1>7, TurnAdds

Score1Adds ==
  ((TileRows(i + 1, j) \cup MovedAt("SMVSB", i + 1)) \cup SoftmaxAt(i))
    \cup ToSet(ContextVector(i, Tiles))

(* Score1.                                                                 *)
LEMMA Score1Step ==
  ASSUME TraceOK, Score1
  PROVE  /\ Turns("score1", Tiles, "context0", i)
         /\ Adds({"SMAC", "SMVSB", "SFM", "MVGB"}, Score1Adds, Barriers(Tiles))
<1> DEFINE cmds == ((ScoreMac(i + 1) \o Moved("SMVSB", i + 1)) \o Softmax(i)) \o ContextVector(i, Tiles)
<1>1. Lists(ScoreMac(i + 1), {"SMAC"}, TileRows(i + 1, j))
  BY TraceFacts, ScoreMacList
<1>2. Lists(Moved("SMVSB", i + 1), {"SMVSB"}, MovedAt("SMVSB", i + 1))
  BY TraceFacts, MovedList, OpsAre
<1>3. Lists(Softmax(i), {"SFM"}, SoftmaxAt(i))
  BY TraceFacts, SoftmaxList
<1>4. Lists(ContextVector(i, Tiles), {"MVGB"}, ToSet(ContextVector(i, Tiles)))
  BY TraceFacts, ContextVectorList
<1>5. Lists(ScoreMac(i + 1) \o Moved("SMVSB", i + 1), {"SMAC"} \cup {"SMVSB"},
            TileRows(i + 1, j) \cup MovedAt("SMVSB", i + 1))
  BY <1>1, <1>2, ConcatList
<1>6. Lists((ScoreMac(i + 1) \o Moved("SMVSB", i + 1)) \o Softmax(i), ({"SMAC"} \cup {"SMVSB"}) \cup {"SFM"},
            (TileRows(i + 1, j) \cup MovedAt("SMVSB", i + 1)) \cup SoftmaxAt(i))
  BY <1>3, <1>5, ConcatList
<1>7. Lists(cmds, (({"SMAC"} \cup {"SMVSB"}) \cup {"SFM"}) \cup {"MVGB"}, Score1Adds)
  BY <1>4, <1>6, ConcatList DEF Score1Adds
<1>8. (({"SMAC"} \cup {"SMVSB"}) \cup {"SFM"}) \cup {"MVGB"} = {"SMAC", "SMVSB", "SFM", "MVGB"}
  OBVIOUS
<1>9. Turn("score1", Tiles, cmds, "context0", i)
  BY DEF Score1
<1> HIDE DEF cmds
<1>. QED  BY <1>7, <1>8, <1>9, TurnAdds

Context0Adds ==
  ((PartAt(i) \cup MovedAt("CMVSB", i)) \cup SoftmaxAt(i + 1)) \cup ToSet(ContextVector(i + 1, Parts))

(* Context0.                                                               *)
LEMMA Context0Step ==
  ASSUME TraceOK, Context0
  PROVE  /\ Turns("context0", Parts, "context1", i)
         /\ Adds({"CMAC", "CMVSB", "SFM", "MVGB"}, Context0Adds, Barriers(Parts))
<1> DEFINE cmds == ((ContextMac(i) \o Moved("CMVSB", i)) \o Softmax(i + 1)) \o ContextVector(i + 1, Parts)
<1>1. Lists(ContextMac(i), {"CMAC"}, PartAt(i))
  BY TraceFacts, ContextMacList
<1>2. Lists(Moved("CMVSB", i), {"CMVSB"}, MovedAt("CMVSB", i))
  BY TraceFacts, MovedList, OpsAre
<1>3. Lists(Softmax(i + 1), {"SFM"}, SoftmaxAt(i + 1))
  BY TraceFacts, SoftmaxList
<1>4. Lists(ContextVector(i + 1, Parts), {"MVGB"}, ToSet(ContextVector(i + 1, Parts)))
  BY TraceFacts, ContextVectorList
<1>5. Lists(ContextMac(i) \o Moved("CMVSB", i), {"CMAC"} \cup {"CMVSB"},
            PartAt(i) \cup MovedAt("CMVSB", i))
  BY <1>1, <1>2, ConcatList
<1>6. Lists((ContextMac(i) \o Moved("CMVSB", i)) \o Softmax(i + 1), ({"CMAC"} \cup {"CMVSB"}) \cup {"SFM"},
            (PartAt(i) \cup MovedAt("CMVSB", i)) \cup SoftmaxAt(i + 1))
  BY <1>3, <1>5, ConcatList
<1>7. Lists(cmds, (({"CMAC"} \cup {"CMVSB"}) \cup {"SFM"}) \cup {"MVGB"}, Context0Adds)
  BY <1>4, <1>6, ConcatList DEF Context0Adds
<1>8. (({"CMAC"} \cup {"CMVSB"}) \cup {"SFM"}) \cup {"MVGB"} = {"CMAC", "CMVSB", "SFM", "MVGB"}
  OBVIOUS
<1>9. Turn("context0", Parts, cmds, "context1", i)
  BY DEF Context0
<1> HIDE DEF cmds
<1>. QED  BY <1>7, <1>8, <1>9, TurnAdds

(* Two loops only multiply and move.                                       *)
LEMMA ContextList ==
  ASSUME TraceOK
  PROVE  Lists(ContextMac(i) \o Moved("CMVSB", i), {"CMAC", "CMVSB"}, PartAt(i) \cup MovedAt("CMVSB", i))
<1>1. Lists(ContextMac(i), {"CMAC"}, PartAt(i))
  BY TraceFacts, ContextMacList
<1>2. Lists(Moved("CMVSB", i), {"CMVSB"}, MovedAt("CMVSB", i))
  BY TraceFacts, MovedList, OpsAre
<1>3. Lists(ContextMac(i) \o Moved("CMVSB", i), {"CMAC"} \cup {"CMVSB"}, PartAt(i) \cup MovedAt("CMVSB", i))
  BY <1>1, <1>2, ConcatList
<1>4. {"CMAC"} \cup {"CMVSB"} = {"CMAC", "CMVSB"}
  OBVIOUS
<1>. QED  BY <1>3, <1>4

(* Context1, and the context of a last head.                               *)
LEMMA Context1Step ==
  ASSUME TraceOK, Context1
  PROVE  /\ Turns("context1", Parts, StageOf(NextPair), NextPair)
         /\ Adds({"CMAC", "CMVSB"}, PartAt(i) \cup MovedAt("CMVSB", i), Barriers(Parts))
<1>1. Turn("context1", Parts, ContextMac(i) \o Moved("CMVSB", i), StageOf(NextPair), NextPair)
  BY DEF Context1
<1>. QED  BY <1>1, ContextList, TurnAdds

(* LastContext.                                                            *)
LEMMA LastContextStep ==
  ASSUME TraceOK, LastContext
  PROVE  /\ Turns("last_context", Parts, "done", i)
         /\ Adds({"CMAC", "CMVSB"}, PartAt(i) \cup MovedAt("CMVSB", i), Barriers(Parts))
<1>1. Turn("last_context", Parts, ContextMac(i) \o Moved("CMVSB", i), "done", i)
  BY DEF LastContext
<1>. QED  BY <1>1, ContextList, TurnAdds

(* LastWriteVector.                                                        *)
LEMMA LastWriteVectorStep ==
  ASSUME TraceOK, LastWriteVector
  PROVE  /\ Leaves("last_write", "last_score")
         /\ Adds({"WRGB"}, FirstPieces("WRGB", i, 1, 1), 1)
<1>1. Lists(Vector("WRGB", i), {"WRGB"}, FirstPieces("WRGB", i, 1, 1))
  BY TraceFacts, VectorList, OpsAre
<1>2. Block("last_write", Vector("WRGB", i), "last_score")
  BY DEF LastWriteVector
<1>. QED  BY <1>1, <1>2, BlockAdds

(* LastScore.                                                              *)
LEMMA LastScoreStep ==
  ASSUME TraceOK, LastScore
  PROVE  /\ Turns("last_score", Tiles, "last_softmax", i)
         /\ Adds({"SMAC", "SMVSB"}, TileRows(i, j) \cup MovedAt("SMVSB", i), Barriers(Tiles))
<1>1. Lists(ScoreMac(i), {"SMAC"}, TileRows(i, j))
  BY TraceFacts, ScoreMacList
<1>2. Lists(Moved("SMVSB", i), {"SMVSB"}, MovedAt("SMVSB", i))
  BY TraceFacts, MovedList, OpsAre
<1>3. Lists(ScoreMac(i) \o Moved("SMVSB", i), {"SMAC"} \cup {"SMVSB"},
            TileRows(i, j) \cup MovedAt("SMVSB", i))
  BY <1>1, <1>2, ConcatList
<1>4. {"SMAC"} \cup {"SMVSB"} = {"SMAC", "SMVSB"}
  OBVIOUS
<1>5. Turn("last_score", Tiles, ScoreMac(i) \o Moved("SMVSB", i), "last_softmax", i)
  BY DEF LastScore
<1>. QED  BY <1>3, <1>4, <1>5, TurnAdds

(* LastSoftmax.                                                            *)
LEMMA LastSoftmaxStep ==
  ASSUME TraceOK, LastSoftmax
  PROVE  /\ Leaves("last_softmax", "last_context")
         /\ Adds({"SFM", "MVGB"}, {Item("SFM", i, 0)} \cup FirstPieces("MVGB", i, 1, 1), 1)
<1>1. Lists(Vector("MVGB", i), {"MVGB"}, FirstPieces("MVGB", i, 1, 1))
  BY TraceFacts, VectorList, OpsAre
<1>2. Lists(<<Item("SFM", i, 0)>>, {"SFM"}, {Item("SFM", i, 0)})
  BY TraceFacts, ShortLists, OpsAre
<1>3. Lists(<<Item("SFM", i, 0)>> \o Vector("MVGB", i), {"SFM"} \cup {"MVGB"},
            {Item("SFM", i, 0)} \cup FirstPieces("MVGB", i, 1, 1))
  BY <1>1, <1>2, ConcatList
<1>4. {"SFM"} \cup {"MVGB"} = {"SFM", "MVGB"}
  OBVIOUS
<1>5. Block("last_softmax", <<Item("SFM", i, 0)>> \o Vector("MVGB", i), "last_context")
  BY DEF LastSoftmax
<1>. QED  BY <1>3, <1>4, <1>5, BlockAdds

-----------------------------------------------------------------------------
(***************************************************************************)
(* Type correctness.                                                       *)
(***************************************************************************)
LEMMA ArgsKept ==
  ASSUME args' = args
  PROVE  /\ Rows' = Rows /\ Tiles' = Tiles /\ Parts' = Parts /\ NumItr' = NumItr
         /\ \A op, h : VectorSize(op, h)' = VectorSize(op, h)
<1>1. Shape' = Shape
  BY DEF Shape, BankShape, BgShape, BufferShape
<1>2. NumMac' = NumMac
  BY DEF NumMac
<1>3. Rows' = Rows /\ Parts' = Parts /\ NumItr' = NumItr
  BY <1>1, <1>2 DEF Rows, Parts, NumItr
<1>4. Tiles' = Tiles
  BY <1>3 DEF Tiles
<1>5. \A h : ValidChannels(h)' = ValidChannels(h)
  BY DEF ValidChannels
<1>6. \A op, h : VectorSize(op, h)' = VectorSize(op, h)
  BY <1>1, <1>2, <1>3, <1>5 DEF VectorSize
<1>. QED  BY <1>3, <1>4, <1>6

(* for i in range(0, num_itr - 1, 2): where the loop goes from a head h.   *)
LEMMA StageOfHead ==
  ASSUME NEW h \in Nat, NEW m \in Nat, NumItr = m
  PROVE  /\ h + 1 < m => StageOf(h) = "write"
         /\ h = m - 1 => StageOf(h) = "last_write"
         /\ h >= m => StageOf(h) = "done"
<1>1. /\ (h < m - 1) <=> (h + 1 < m)
      /\ (h > m - 1) <=> (h >= m)
      /\ h + 1 < m => ~(h = m - 1) /\ ~(h >= m)
      /\ h = m - 1 => ~(h >= m)
  OBVIOUS
<1>. QED  BY <1>1 DEF StageOf

(* The counters at the first turn for a pair or a last head, ...           *)
LEMMA CountersAt ==
  ASSUME i \in Nat, j \in Nat, j = 0, stage = StageOf(i), NumItr \in Nat, Tiles \in Nat, Parts \in Nat,
         i <= NumItr + 1
  PROVE  CountersOK
<1>1. CASE i + 1 < NumItr
  <2>1. stage = "write"
    BY <1>1, StageOfHead
  <2>. QED  BY <1>1, <2>1 DEF CountersOK, TurnInRange, HeadInRange, Stages
<1>2. CASE i = NumItr - 1
  <2>1. stage = "last_write"
    BY <1>2, StageOfHead
  <2>. QED  BY <1>2, <2>1 DEF CountersOK, TurnInRange, HeadInRange, Stages
<1>3. CASE i >= NumItr
  <2>1. stage = "done"
    BY <1>3, StageOfHead
  <2>. QED  BY <1>3, <2>1 DEF CountersOK, TurnInRange, HeadInRange, Stages
<1>. QED  BY <1>1, <1>2, <1>3

(* ... and the head after a pair is even.                                  *)
LEMMA NextPairIsEven ==
  ASSUME NEW h \in Nat, h % 2 = 0
  PROVE  /\ (h + 2) % 2 = 0 /\ (h + 1) % 2 = 1
         /\ h \div 2 \in Nat /\ (h + 1) \div 2 = h \div 2 /\ (h + 2) \div 2 = h \div 2 + 1
OBVIOUS

(* ... and the steps between.                                              *)
LEMMA CountersStep ==
  ASSUME TraceOK, Next
  PROVE  CountersOK' /\ Pairs'
<1>1. /\ i \in Nat /\ j \in Nat /\ Tiles \in Nat /\ Tiles # 0 /\ Parts \in Nat /\ Parts # 0
      /\ NumItr \in Nat /\ NumItr # 0 /\ CountersOK /\ Pairs
  BY TraceFacts DEF TraceOK
<1>2. args' = args
  BY DEF Next, WriteVector, Score0, Score1, Context0, Context1, LastWriteVector, LastScore,
         LastSoftmax, LastContext, Turn, Block
<1>3. Tiles' = Tiles /\ Parts' = Parts /\ NumItr' = NumItr
  BY <1>2, ArgsKept
<1>4. ASSUME \/ Leaves("write", "score0")
             \/ Turns("score0", Tiles, "score1", i)
             \/ Turns("score1", Tiles, "context0", i)
             \/ Turns("context0", Parts, "context1", i)
             \/ Leaves("last_write", "last_score")
             \/ Turns("last_score", Tiles, "last_softmax", i)
             \/ Leaves("last_softmax", "last_context")
             \/ Turns("last_context", Parts, "done", i)
      PROVE  CountersOK' /\ Pairs'
  <2>1. /\ i' = i /\ i' \in Nat /\ i \in Nat /\ j' \in Nat
        /\ stage' \in Stages
    BY <1>1, <1>4 DEF Turns, Leaves, CountersOK, TurnInRange, Stages
  <2>2. TurnInRange'
    BY <2>1, <1>1, <1>3, <1>4 DEF Turns, Leaves, CountersOK, TurnInRange
  <2>3. HeadInRange'
    BY <2>1, <1>1, <1>3, <1>4 DEF Turns, Leaves, CountersOK, HeadInRange
  <2>. QED  BY <1>1, <2>1, <2>2, <2>3 DEF CountersOK, Pairs
<1>5. CASE Context1
  <2>1. Turns("context1", Parts, StageOf(NextPair), NextPair)
    BY <1>5, Context1Step
  <2>2. CASE j < Parts
    <3>1. i' = i /\ stage' = stage /\ stage = "context1" /\ j' = j + 1
      BY <2>1, <2>2 DEF Turns
    <3>2. TurnInRange' /\ HeadInRange'
      BY <1>1, <1>3, <2>2, <3>1 DEF CountersOK, TurnInRange, HeadInRange
    <3>3. CountersOK'
      BY <1>1, <3>1, <3>2 DEF CountersOK
    <3>. QED  BY <1>1, <3>1, <3>3 DEF Pairs
  <2>3. CASE ~(j < Parts)
    <3>1. i' = i + 2 /\ stage' = StageOf(i + 2) /\ j' = 0
      BY <2>1, <2>3 DEF Turns, NextPair
    <3>2. i + 2 \in Nat /\ i + 2 <= NumItr + 1 /\ i' \in Nat /\ j' \in Nat /\ i \in Nat
      BY <1>1, <2>1, <3>1 DEF Turns, CountersOK, HeadInRange
    <3>3. StageOf(i + 2) = IF i + 2 < NumItr - 1 THEN "write"
                           ELSE IF i + 2 = NumItr - 1 THEN "last_write" ELSE "done"
      BY <1>1, <3>2 DEF StageOf
    <3>4. CountersOK'
      <4>1. stage' \in Stages /\ TurnInRange'
        BY <1>1, <1>3, <3>1, <3>2, <3>3 DEF TurnInRange, Stages
      <4>2. HeadInRange'
        BY <1>1, <1>3, <3>1, <3>2, <3>3 DEF HeadInRange
      <4>. QED  BY <3>1, <3>2, <4>1, <4>2 DEF CountersOK
    <3>5. Pairs'
      BY <1>1, <3>1, NextPairIsEven DEF Pairs
    <3>. QED  BY <3>4, <3>5
  <2>. QED  BY <2>2, <2>3
<1>. QED  BY <1>4, <1>5, WriteVectorStep,
             Score0Step, Score1Step, Context0Step, LastWriteVectorStep, LastScoreStep,
             LastSoftmaxStep, LastContextStep DEF Next

(* Every step adds a list.                                                 *)
LEMMA NextAdds ==
  ASSUME TraceOK, Next
  PROVE  \E ops, S : \E barriers \in {0, 1} : Adds(ops, S, barriers)
<1>1. Barriers(Tiles) \in {0, 1} /\ Barriers(Parts) \in {0, 1}
  BY DEF Barriers
<1>. QED  BY <1>1, WriteVectorStep, Score0Step, Score1Step, Context0Step, Context1Step, LastWriteVectorStep,
             LastScoreStep, LastSoftmaxStep, LastContextStep DEF Next

Longer(n, ops, S) == \E cmds : Lists(cmds, ops, S) /\ total_cmd'[n] = total_cmd[n] \o cmds

(* The segments before the one written in stay, and what is placed before  *)
(* them; a barrier moves all that is placed before the new segment.        *)
LEMMA AddsEffect ==
  ASSUME total_cmd \in Trace, NEW ops, NEW S, NEW barriers \in {0, 1}, Adds(ops, S, barriers),
         NEW n, n = Len(total_cmd)
  PROVE  /\ args' = args /\ total_cmd' \in Trace /\ n \in Nat \ {0}
         /\ Len(total_cmd') = n + barriers
         /\ \A s \in 1..(n - 1) : total_cmd'[s] = total_cmd[s]
         /\ Longer(n, ops, S)
         /\ barriers = 1 => total_cmd'[n + 1] = <<>>
<1>1. PICK cmds : /\ Lists(cmds, ops, S)
                  /\ total_cmd' = IF barriers = 1 THEN AddedThenBarrier(cmds) ELSE Added(cmds)
  BY DEF Adds
<1>2. cmds \in Seq(Command)
  BY <1>1 DEF Lists
<1>3. args' = args
  BY DEF Adds
<1>4. CASE barriers = 1
  <2>1. total_cmd' = AddedThenBarrier(cmds)
    BY <1>1, <1>4
  <2>. QED  BY <1>1, <1>2, <1>3, <1>4, <2>1, BarrierEffect DEF Longer
<1>5. CASE barriers = 0
  <2>1. total_cmd' = Added(cmds)
    BY <1>1, <1>5
  <2>. QED  BY <1>1, <1>2, <1>3, <1>5, <2>1, AddedEffect DEF Longer
<1>. QED  BY <1>4, <1>5

(* What joined lists hold.                                                 *)
LEMMA ConcatSet ==
  ASSUME NEW q \in Seq(Command), NEW r \in Seq(Command)
  PROVE  ToSet(q \o r) = ToSet(q) \cup ToSet(r)
<1>1. q \o r \in Seq(Command) /\ Len(q \o r) = Len(q) + Len(r)
  OBVIOUS
<1>2. \A k \in 1..(Len(q) + Len(r)) :
        (q \o r)[k] = IF k <= Len(q) THEN q[k] ELSE r[k - Len(q)]
  OBVIOUS
<1>3. ASSUME NEW c \in ToSet(q \o r) PROVE c \in ToSet(q) \cup ToSet(r)
  <2>1. PICK k \in 1..(Len(q) + Len(r)) : (q \o r)[k] = c
    BY <1>1 DEF ToSet
  <2>2. CASE k <= Len(q)
    BY <2>1, <2>2, <1>2 DEF ToSet
  <2>3. CASE ~(k <= Len(q))
    <3>1. k - Len(q) \in 1..Len(r)
      BY <2>3
    <3>. QED  BY <3>1, <2>1, <2>3, <1>2 DEF ToSet
  <2>. QED  BY <2>2, <2>3
<1>4. ASSUME NEW c \in ToSet(q) PROVE c \in ToSet(q \o r)
  BY <1>1, <1>2 DEF ToSet
<1>5. ASSUME NEW c \in ToSet(r) PROVE c \in ToSet(q \o r)
  <2>1. PICK k \in 1..Len(r) : r[k] = c
    BY DEF ToSet
  <2>2. Len(q) + k \in 1..(Len(q) + Len(r)) /\ ~(Len(q) + k <= Len(q)) /\ (Len(q) + k) - Len(q) = k
    OBVIOUS
  <2>3. (q \o r)[Len(q) + k] = c
    BY <2>1, <2>2, <1>2
  <2>. QED  BY <1>1, <2>2, <2>3 DEF ToSet
<1>. QED  BY <1>3, <1>4, <1>5

(* The same of what the segments hold.                                     *)
LEMMA SegmentsKept ==
  ASSUME total_cmd \in Trace, NEW ops, NEW S, NEW barriers \in {0, 1}, Adds(ops, S, barriers),
         NEW n, n = Len(total_cmd)
  PROVE  /\ \A s \in 1..(n - 1) : InSegment(s)' = InSegment(s)
         /\ InSegment(n)' = InSegment(n) \cup S
         /\ barriers = 1 => InSegment(n + 1)' = {}
         /\ \A s \in 1..n : PlacedBefore(s)' = PlacedBefore(s)
         /\ barriers = 1 => PlacedBefore(n + 1)' = (PlacedBefore(n) \cup InSegment(n)) \cup S
<1>1. /\ n \in Nat \ {0}
      /\ \A s \in 1..(n - 1) : total_cmd'[s] = total_cmd[s]
      /\ barriers = 1 => total_cmd'[n + 1] = <<>>
      /\ Longer(n, ops, S)
  BY AddsEffect
<1>2. PICK cmds : Lists(cmds, ops, S) /\ total_cmd'[n] = total_cmd[n] \o cmds
  BY <1>1 DEF Longer
<1>3. \A s \in 1..(n - 1) : InSegment(s)' = InSegment(s)
  BY <1>1 DEF InSegment
<1>4. InSegment(n)' = InSegment(n) \cup S
  <2>1. total_cmd[n] \in Seq(Command) /\ cmds \in Seq(Command) /\ ToSet(cmds) = S
    BY <1>1, <1>2 DEF Trace, Lists
  <2>. QED  BY <1>2, <2>1, ConcatSet DEF InSegment
<1>5. barriers = 1 => InSegment(n + 1)' = {}
  <2>1. ToSet(<<>>) = {}
    BY DEF ToSet
  <2>. QED  BY <1>1, <2>1 DEF InSegment
<1>6. ASSUME NEW s \in 1..n PROVE PlacedBefore(s)' = PlacedBefore(s)
  <2>1. \A r \in 1..(s - 1) : r \in 1..(n - 1)
    BY <1>1
  <2>. QED  BY <1>3, <2>1 DEF PlacedBefore
<1>7. PlacedBefore(n + 1)' = (PlacedBefore(n) \cup InSegment(n)) \cup S
  <2>1. 1..((n + 1) - 1) = (1..(n - 1)) \cup {n}
    BY <1>1
  <2>2. PlacedBefore(n + 1)' = (UNION {InSegment(r)' : r \in 1..(n - 1)}) \cup InSegment(n)'
    BY <2>1 DEF PlacedBefore
  <2>3. UNION {InSegment(r)' : r \in 1..(n - 1)} = PlacedBefore(n)
    BY <1>3 DEF PlacedBefore
  <2>. QED  BY <1>4, <2>2, <2>3
<1>. QED  BY <1>3, <1>4, <1>5, <1>6, <1>7

(* TraceOK is inductive.                                                   *)
LEMMA TraceOKStep ==
  ASSUME TraceOK, [Next]_vars
  PROVE  TraceOK'
<1>1. args \in Inputs /\ total_cmd \in Trace
  BY DEF TraceOK
<1>2. CASE Next
  <2>1. PICK ops, S : \E barriers \in {0, 1} : Adds(ops, S, barriers)
    BY <1>2, NextAdds
  <2>2. PICK barriers \in {0, 1} : Adds(ops, S, barriers)
    BY <2>1
  <2>3. args' = args /\ total_cmd' \in Trace
    BY <1>1, <2>2, AddsEffect
  <2>. QED  BY <1>1, <1>2, <2>3, CountersStep DEF TraceOK
<1>3. CASE UNCHANGED vars
  <2>1. Tiles' = Tiles /\ Parts' = Parts /\ NumItr' = NumItr
    BY <1>3, ArgsKept DEF vars
  <2>. QED  BY <1>3, <2>1 DEF vars, TraceOK, Pairs, CountersOK, TurnInRange, HeadInRange
<1>. QED  BY <1>2, <1>3

(* It holds at first, ...                                                  *)
LEMMA TraceOKInit == ASSUME Init PROVE TraceOK
<1>1. args \in Inputs /\ i \in Nat /\ i = 0 /\ j \in Nat /\ j = 0 /\ stage = StageOf(i)
  BY DEF Init
<1>2. NumItr \in Nat /\ NumItr # 0 /\ Tiles \in Nat /\ Parts \in Nat
  BY <1>1, SizesType
<1>3. CountersOK
  BY <1>1, <1>2, CountersAt
<1>4. Pairs
  BY <1>1 DEF Pairs
<1>5. total_cmd \in Trace
  BY DEF Init, Trace
<1>. QED  BY <1>1, <1>3, <1>4, <1>5 DEF TraceOK

(* and says more than TypeOK.                                              *)
LEMMA TypeOfTraceOK == ASSUME TraceOK PROVE TypeOK
<1>1. total_cmd \in Seq(Seq([op : Ops, head : Nat, at : Nat]))
  BY DEF TraceOK, Trace, Command
<1>2. Tiles \in Nat /\ Parts \in Nat
  BY TraceFacts
<1>3. /\ stage \in {"score0", "score1", "last_score"} => j \in 0..Tiles
      /\ stage \in {"context0", "context1", "last_context"} => j \in 0..Parts
  BY <1>2 DEF TraceOK, CountersOK, TurnInRange
<1>. QED  BY <1>1, <1>3 DEF TypeOK, TraceOK, CountersOK, HeadInRange

(* However a script is called, run_attention places commands it knows, and *)
(* its counters stay in their loops and its heads below num_itr.           *)
THEOREM TypeCorrect == Spec => []TypeOK
<1>1. Init => TraceOK
  BY TraceOKInit
<1>2. TraceOK /\ [Next]_vars => TraceOK'
  BY TraceOKStep
<1>3. TraceOK => TypeOK
  BY TypeOfTraceOK
<1>. QED  BY <1>1, <1>2, <1>3, PTL DEF Spec

-----------------------------------------------------------------------------
(***************************************************************************)
(* Operands are ready.                                                     *)
(***************************************************************************)
(* What stands before a barrier, and what of it the loop in execution      *)
(* relies on at turn n for head h: the vectors it multiplies by are        *)
(* written, or moved in as many pieces as it has made turns, and the       *)
(* results it moves are those of its turn before.                          *)
Written == PlacedBefore(Len(total_cmd))

WrittenPieces(h, n) == FirstPieces("WRGB", h, n, Tiles)

MovedPieces(h, n) ==
  IF n >= Tiles \div 2 THEN FirstPieces("MVGB", h, n - Tiles \div 2, Ceil(Tiles, 2)) ELSE {}

ReadyAt(h, n) ==
  /\ stage \in {"score0", "last_score"} =>
       InPieces("WRGB", h) \subseteq Written /\ (n > 0 => TileRows(h, n - 1) \subseteq Written)
  /\ stage = "score0" => WrittenPieces(h + 1, n) \subseteq Written
  /\ stage = "score1" =>
       /\ InPieces("WRGB", h + 1) \subseteq Written
       /\ n > 0 => TileRows(h + 1, n - 1) \subseteq Written
       /\ MovedPieces(h, n) \subseteq Written
  /\ stage \in {"context0", "context1", "last_context"} =>
       InPieces("MVGB", h) \subseteq Written /\ (n > 0 => Item("CMAC", h, n - 1) \in Written)

Ready == \A h, n \in Nat : h = i /\ n = j => ReadyAt(h, n)

(* What the softmax relies on: the scores that are moved stand before a    *)
(* barrier but for those of the turn before, and the last ones are in the  *)
(* last segment when the softmax is taken; its result is behind a barrier  *)
(* in the turns that follow.                                               *)
Current == InSegment(Len(total_cmd))

MovesOf(h, n) == {Item("SMVSB", h, t) : t \in 0..(n - 1)}

ScoresMoved(h) ==
  MovesOf(h, Tiles - 1) \subseteq Written /\ Item("SMVSB", h, Tiles - 1) \in Current

SoftmaxOf(h, n) ==
  IF n = 0 THEN ScoresMoved(h) ELSE Item("SFM", h, 0) \in Written

ScoredAt(h, n) ==
  /\ stage \in {"score0", "last_score"} => MovesOf(h, n - 1) \subseteq Written
  /\ stage = "score1" => MovesOf(h + 1, n - 1) \subseteq Written /\ SoftmaxOf(h, n)
  /\ stage = "context0" => SoftmaxOf(h + 1, n)
  /\ stage = "last_softmax" => ScoresMoved(h)

Scored == \A h, n \in Nat : h = i /\ n = j => ScoredAt(h, n)

(* All pieces of a vector.                                                 *)
LEMMA InPiecesAre ==
  ASSUME args \in Inputs, NEW op \in Ops, NEW h \in Nat, Pieces(op, h) \in Nat \ {0}
  PROVE  InPieces(op, h) = FirstPieces(op, h, Pieces(op, h), Pieces(op, h))
<1> DEFINE pieces == Pieces(op, h)
           upto == pieces * (VectorSize(op, h) \div pieces)
<1>1. upto \in Int
  BY VectorSizePositive, PiecesFit
<1>2. InPieces(op, h) = ToSet(Items(op, h, 0, upto))
  BY DEF InPieces
<1>3. FirstPieces(op, h, pieces, pieces) = Those(op, h, 0, upto)
  BY DEF FirstPieces
<1> HIDE DEF upto
<1>4. Lists(Items(op, h, 0, upto), {op}, Those(op, h, 0, upto))
  BY <1>1, ItemsList
<1>. QED  BY <1>2, <1>3, <1>4 DEF Lists

(* The heads of a pair, and a last one, are cut as the loops cut them.     *)
LEMMA PiecesOfHeads ==
  ASSUME TraceOK
  PROVE  /\ i + 1 < NumItr => /\ InPieces("WRGB", i) = FirstPieces("WRGB", i, 1, 1)
                              /\ InPieces("WRGB", i + 1) = FirstPieces("WRGB", i + 1, Tiles, Tiles)
                              /\ InPieces("MVGB", i)
                                   = FirstPieces("MVGB", i, Ceil(Tiles, 2), Ceil(Tiles, 2))
         /\ i = NumItr - 1 => /\ InPieces("WRGB", i) = FirstPieces("WRGB", i, 1, 1)
                              /\ InPieces("MVGB", i) = FirstPieces("MVGB", i, 1, 1)
<1>1. /\ args \in Inputs /\ i \in Nat /\ i + 1 \in Nat /\ Tiles \in Nat \ {0} /\ NumItr \in Nat
      /\ "WRGB" \in Ops /\ "MVGB" \in Ops /\ Ceil(Tiles, 2) \in Nat \ {0}
  BY TraceFacts, Halves, OpsAre
<1>2. ~(i % 2 = 1) /\ (i + 1) % 2 = 1
  BY <1>1, NextPairIsEven DEF TraceOK, Pairs
<1>3. ASSUME i + 1 < NumItr
      PROVE  /\ Pieces("WRGB", i) = 1 /\ Pieces("WRGB", i + 1) = Tiles
             /\ Pieces("MVGB", i) = Ceil(Tiles, 2)
  <2>1. ~(i = NumItr - 1)
    BY <1>1, <1>3
  <2>2. Second(i + 1) /\ ~Second(i) /\ ~Alone(i) /\ ~Alone(i + 1)
    BY <1>2, <2>1 DEF Second, Alone
  <2>. QED  BY <2>2 DEF Pieces
<1>4. ASSUME i = NumItr - 1 PROVE Pieces("WRGB", i) = 1 /\ Pieces("MVGB", i) = 1
  <2>1. Alone(i)
    BY <1>2, <1>4 DEF Second, Alone
  <2>. QED  BY <2>1 DEF Pieces
<1>. QED  BY <1>1, <1>3, <1>4, InPiecesAre

(* The operands of the commands.                                           *)
LEMMA OperandsAre ==
  ASSUME NEW h, NEW t
  PROVE  /\ \A c : c.op = "SMAC" /\ c.head = h => Operands(c) = InPieces("WRGB", h)
         /\ \A c \in TileRows(h, t) : Operands(c) = InPieces("WRGB", h)
         /\ Operands(Item("CMAC", h, t)) = InPieces("MVGB", h)
         /\ Operands(Item("SMVSB", h, t)) = TileRows(h, t)
         /\ Operands(Item("CMVSB", h, t)) = {Item("CMAC", h, t)}
         /\ \A c : c.op \in {"WRGB", "DUMMY"} => Operands(c) = {}
         /\ Operands(Item("SFM", h, t)) = MovesOf(h, Tiles)
         /\ Unguarded(Item("SFM", h, t)) = {Item("SMVSB", h, Tiles - 1)}
         /\ \A c : c.op = "MVGB" /\ c.head = h => Operands(c) = {Item("SFM", h, 0)}
<1>1. \A c : c.op = "SMAC" /\ c.head = h => Operands(c) = InPieces("WRGB", h)
  BY DEF Operands
<1>2. \A c \in TileRows(h, t) : c.op = "SMAC" /\ c.head = h
  BY DEF TileRows, Those, Item
<1>3. Operands(Item("CMAC", h, t)) = InPieces("MVGB", h)
  BY DEF Operands, Item
<1>4. Operands(Item("SMVSB", h, t)) = TileRows(h, t)
  BY DEF Operands, Item, TileRows, Those
<1>5. Operands(Item("CMVSB", h, t)) = {Item("CMAC", h, t)}
  BY DEF Operands, Item
<1>6. \A c : c.op \in {"WRGB", "DUMMY"} => Operands(c) = {}
  BY DEF Operands
<1>7. /\ Operands(Item("SFM", h, t)) = MovesOf(h, Tiles)
      /\ Unguarded(Item("SFM", h, t)) = {Item("SMVSB", h, Tiles - 1)}
  BY DEF Operands, Unguarded, Item, MovesOf
<1>8. \A c : c.op = "MVGB" /\ c.head = h => Operands(c) = {Item("SFM", h, 0)}
  BY DEF Operands
<1>. QED  BY <1>1, <1>2, <1>3, <1>4, <1>5, <1>6, <1>7, <1>8

(* The copies that stand in the segment of their softmax.                  *)
LEMMA UnguardedCopies ==
  ASSUME TraceOK, NEW c, c.op = "MVGB"
  PROVE  /\ c.head = i /\ i + 1 < NumItr /\ Tiles = 1 => Unguarded(c) = {Item("SFM", i, 0)}
         /\ c.head = i + 1 /\ Parts = 1 => Unguarded(c) = {Item("SFM", i + 1, 0)}
         /\ c.head = i /\ i = NumItr - 1 => Unguarded(c) = {Item("SFM", i, 0)}
<1>1. i \in Nat /\ ~(i % 2 = 1) /\ (i + 1) % 2 = 1
  BY TraceFacts, NextPairIsEven DEF TraceOK, Pairs
<1>2. ~Second(i) /\ Second(i + 1)
  BY <1>1 DEF Second
<1>3. i = NumItr - 1 => Alone(i)
  BY <1>2 DEF Alone
<1>. QED  BY <1>2, <1>3 DEF Unguarded

(* They depend on the arguments only.                                      *)
LEMMA SetsKept ==
  ASSUME args' = args
  PROVE  /\ \A op, h : InPieces(op, h)' = InPieces(op, h)
         /\ \A h, t : TileRows(h, t)' = TileRows(h, t)
         /\ \A h, n : WrittenPieces(h, n)' = WrittenPieces(h, n)
         /\ \A h, n : MovedPieces(h, n)' = MovedPieces(h, n)
         /\ \A c : Operands(c)' = Operands(c) /\ Unguarded(c)' = Unguarded(c)
<1>1. /\ Rows' = Rows /\ Tiles' = Tiles /\ Parts' = Parts /\ NumItr' = NumItr
      /\ \A op, h : VectorSize(op, h)' = VectorSize(op, h)
  BY ArgsKept
<1>2. \A op, h : Pieces(op, h)' = Pieces(op, h)
  BY <1>1 DEF Pieces, Alone, Second
<1>3. \A op, h : InPieces(op, h)' = InPieces(op, h)
  BY <1>1, <1>2 DEF InPieces, Items
<1>4. \A h, t : TileRows(h, t)' = TileRows(h, t)
  BY <1>1 DEF TileRows, Those
<1>5. \A h, n : WrittenPieces(h, n)' = WrittenPieces(h, n)
  BY <1>1 DEF WrittenPieces, FirstPieces, Those
<1>6. \A h, n : MovedPieces(h, n)' = MovedPieces(h, n)
  BY <1>1 DEF MovedPieces, FirstPieces, Those
<1>7. \A c : Operands(c)' = Operands(c)
  BY <1>1, <1>3 DEF Operands
<1>8. \A c : Unguarded(c)' = Unguarded(c)
  BY <1>1 DEF Unguarded, Alone, Second
<1>. QED  BY <1>3, <1>4, <1>5, <1>6, <1>7, <1>8

(* What a step adds is before a barrier if one follows, and else in the    *)
(* last segment.                                                           *)
LEMMA Grows ==
  ASSUME TraceOK, NEW ops, NEW S, NEW barriers \in {0, 1}, Adds(ops, S, barriers)
  PROVE  /\ Written \subseteq Written'
         /\ barriers = 1 => S \subseteq Written'
         /\ barriers = 0 => Written' = Written /\ Current' = Current \cup S
<1>1. PICK n : n = Len(total_cmd)
  OBVIOUS
<1>2. total_cmd \in Trace /\ args' = args
  BY DEF TraceOK, Adds
<1>3. n \in Nat \ {0} /\ Len(total_cmd') = n + barriers /\ total_cmd' \in Trace
  BY <1>1, <1>2, AddsEffect
<1>4. /\ InSegment(n)' = InSegment(n) \cup S
      /\ \A s \in 1..n : PlacedBefore(s)' = PlacedBefore(s)
      /\ barriers = 1 => PlacedBefore(n + 1)' = (PlacedBefore(n) \cup InSegment(n)) \cup S
  BY <1>1, <1>2, SegmentsKept
<1>5. Written = PlacedBefore(n) /\ Current = InSegment(n)
  BY <1>1 DEF Written, Current
<1>6. CASE barriers = 0
  <2>1. Written' = PlacedBefore(n)' /\ Current' = InSegment(n)'
    BY <1>3, <1>6 DEF Written, Current, PlacedBefore, InSegment
  <2>. QED  BY <1>3, <1>4, <1>5, <1>6, <2>1
<1>7. CASE barriers = 1
  <2>1. Written' = PlacedBefore(n + 1)'
    BY <1>3, <1>7 DEF Written, PlacedBefore
  <2>. QED  BY <1>3, <1>4, <1>5, <1>7, <2>1
<1>. QED  BY <1>6, <1>7

(* A list in which every command has its operands in front of it.          *)
Ahead(cmds, k) == {cmds[q] : q \in 1..(k - 1)}

FedInOrder(n) ==
  \E cmds \in Seq(Command) :
    /\ total_cmd'[n] = total_cmd[n] \o cmds
    /\ \A k \in 1..Len(cmds) :
         Operands(cmds[k]) \subseteq
           Written \cup (Unguarded(cmds[k]) \cap (InSegment(n) \cup Ahead(cmds, k)))

(* It keeps the operands ready.                                            *)
LEMMA OrderlyReady ==
  ASSUME TraceOK, OperandsReady, NEW ops, NEW S, NEW barriers \in {0, 1}, Adds(ops, S, barriers),
         FedInOrder(Len(total_cmd))
  PROVE  OperandsReady'
<1>1. PICK n : n = Len(total_cmd)
  OBVIOUS
<1>2. total_cmd \in Trace /\ args' = args
  BY DEF TraceOK, Adds
<1>3. /\ n \in Nat \ {0} /\ Len(total_cmd') = n + barriers /\ total_cmd' \in Trace
      /\ \A s \in 1..(n - 1) : total_cmd'[s] = total_cmd[s]
      /\ barriers = 1 => total_cmd'[n + 1] = <<>>
  BY <1>1, <1>2, AddsEffect
<1>4. \A s \in 1..n : PlacedBefore(s)' = PlacedBefore(s)
  BY <1>1, <1>2, SegmentsKept
<1>5. Written = PlacedBefore(n)
  BY <1>1 DEF Written
<1>6. \A c : Operands(c)' = Operands(c) /\ Unguarded(c)' = Unguarded(c)
  BY <1>2, SetsKept
<1>7. /\ DOMAIN total_cmd = 1..n /\ DOMAIN total_cmd' = 1..(n + barriers)
      /\ \A s \in 1..n : total_cmd[s] \in Seq(Command)
  BY <1>1, <1>2, <1>3 DEF Trace
<1>8. PICK cmds \in Seq(Command) :
        /\ total_cmd'[n] = total_cmd[n] \o cmds
        /\ \A k \in 1..Len(cmds) :
             Operands(cmds[k]) \subseteq
               Written \cup (Unguarded(cmds[k]) \cap (InSegment(n) \cup Ahead(cmds, k)))
  BY <1>1 DEF FedInOrder
<1>9. SUFFICES ASSUME NEW s \in 1..(n + barriers), NEW p \in DOMAIN total_cmd'[s]
               PROVE  Operands(total_cmd'[s][p]) \subseteq
                        PlacedBefore(s)' \cup (Unguarded(total_cmd'[s][p]) \cap SegmentBefore(s, p)')
  BY <1>6, <1>7 DEF OperandsReady
<1>10. \A t \in 1..n : \A q \in DOMAIN total_cmd[t] :
         Operands(total_cmd[t][q]) \subseteq
           PlacedBefore(t) \cup (Unguarded(total_cmd[t][q]) \cap SegmentBefore(t, q))
  BY <1>7 DEF OperandsReady
<1>11. CASE s \in 1..(n - 1)
  <2>1. s \in 1..n /\ total_cmd'[s] = total_cmd[s] /\ p \in DOMAIN total_cmd[s]
    BY <1>3, <1>9, <1>11
  <2>2. SegmentBefore(s, p)' = SegmentBefore(s, p)
    BY <2>1 DEF SegmentBefore
  <2>. QED  BY <1>4, <1>10, <2>1, <2>2
<1>12. CASE s = n
  <2> DEFINE old == total_cmd[n]
             m == Len(old)
  <2>1. old \in Seq(Command) /\ n \in 1..n /\ m \in Nat /\ total_cmd'[n] = old \o cmds
        /\ DOMAIN old = 1..m
    BY <1>3, <1>7, <1>8
  <2>2. InSegment(n) = {old[q] : q \in 1..m}
    BY <2>1 DEF InSegment, ToSet
  <2>3. old = total_cmd[n]
    OBVIOUS
  <2> HIDE DEF old, m
  <2>4. m = Len(old)
    BY DEF m
  <2>5. p \in 1..(m + Len(cmds)) /\ Len(cmds) \in Nat
    BY <1>8, <1>9, <1>12, <2>1, <2>4
  <2>6. /\ \A q \in 1..m : total_cmd'[n][q] = old[q]
        /\ \A k \in 1..Len(cmds) : total_cmd'[n][m + k] = cmds[k]
    BY <1>8, <2>1, <2>4
  <2>7. CASE p \in 1..m
    <3>1. total_cmd'[n][p] = old[p] /\ p \in DOMAIN old
      BY <2>1, <2>6, <2>7
    <3>2. SegmentBefore(n, p)' = SegmentBefore(n, p)
      <4>1. \A q \in 1..(p - 1) : total_cmd'[n][q] = total_cmd[n][q]
        BY <2>1, <2>3, <2>6, <2>7
      <4>. QED  BY <4>1 DEF SegmentBefore
    <3>3. PlacedBefore(n)' = PlacedBefore(n)
      BY <1>4, <2>1
    <3>4. Operands(old[p]) \subseteq PlacedBefore(n) \cup (Unguarded(old[p]) \cap SegmentBefore(n, p))
      BY <1>10, <2>1, <2>3, <3>1
    <3>5. Operands(total_cmd'[n][p]) \subseteq
            PlacedBefore(n)' \cup (Unguarded(total_cmd'[n][p]) \cap SegmentBefore(n, p)')
      BY <3>1, <3>2, <3>3, <3>4
    <3>. QED  BY <1>12, <3>5
  <2>8. CASE ~(p \in 1..m)
    <3>1. PICK k \in 1..Len(cmds) : p = m + k
      <4>1. p - m \in 1..Len(cmds) /\ p = m + (p - m)
        BY <2>1, <2>5, <2>8
      <4>. QED  BY <4>1
    <3>2. total_cmd'[n][p] = cmds[k]
      BY <2>6, <3>1
    <3>3. InSegment(n) \cup Ahead(cmds, k) \subseteq SegmentBefore(n, p)'
      <4>1. \A q \in 1..m : q \in 1..(p - 1)
        BY <2>1, <2>5, <3>1
      <4>2. InSegment(n) \subseteq SegmentBefore(n, p)'
        BY <2>2, <2>6, <4>1 DEF SegmentBefore
      <4>3. \A q \in 1..(k - 1) : q \in 1..Len(cmds) /\ m + q \in 1..(p - 1)
        BY <2>1, <2>5, <3>1
      <4>4. Ahead(cmds, k) \subseteq SegmentBefore(n, p)'
        BY <2>6, <4>3 DEF SegmentBefore, Ahead
      <4>. QED  BY <4>2, <4>4
    <3>4. PlacedBefore(n)' = Written
      BY <1>4, <1>5, <2>1
    <3>5. Operands(cmds[k]) \subseteq
            Written \cup (Unguarded(cmds[k]) \cap (InSegment(n) \cup Ahead(cmds, k)))
      BY <1>8, <3>1
    <3>. QED  BY <1>12, <3>2, <3>3, <3>4, <3>5
  <2>. QED  BY <2>7, <2>8
<1>13. CASE s = n + 1 /\ barriers = 1
  BY <1>3, <1>9, <1>13
<1>. QED  BY <1>3, <1>9, <1>11, <1>12, <1>13

(* A list whose operands are behind a barrier is orderly, ...              *)
LEMMA ReadyAdds ==
  ASSUME TraceOK, OperandsReady, NEW ops, NEW S, NEW barriers \in {0, 1}, Adds(ops, S, barriers),
         \A c \in S : Operands(c) \subseteq Written
  PROVE  /\ OperandsReady' /\ Written \subseteq Written'
         /\ barriers = 1 => S \subseteq Written'
<1>1. PICK n : n = Len(total_cmd)
  OBVIOUS
<1>2. total_cmd \in Trace
  BY DEF TraceOK
<1>3. PICK cmds : Lists(cmds, ops, S) /\ total_cmd'[n] = total_cmd[n] \o cmds
  <2>1. Longer(n, ops, S)
    BY <1>1, <1>2, AddsEffect
  <2>. QED  BY <2>1 DEF Longer
<1>4. cmds \in Seq(Command) /\ \A k \in 1..Len(cmds) : cmds[k] \in S
  <2>1. cmds \in Seq(Command) /\ ToSet(cmds) = S
    BY <1>3 DEF Lists
  <2>. QED  BY <2>1 DEF ToSet
<1>5. FedInOrder(n)
  BY <1>3, <1>4 DEF FedInOrder
<1>. QED  BY <1>1, <1>5, OrderlyReady, Grows

(* and so are two lists of which the second may have operands in the first *)
(* and both have some in the last segment.                                 *)
Feeds(c, S) == Operands(c) \subseteq Written \cup (Unguarded(c) \cap S)

LEMMA OrderlyHalves ==
  ASSUME TraceOK, NEW a, NEW b, NEW x, NEW y, NEW A, NEW B, Lists(a, x, A), Lists(b, y, B),
         \A c \in A : Feeds(c, Current), \A c \in B : Feeds(c, Current \cup A),
         \/ total_cmd' = Added(a \o b)
         \/ total_cmd' = AddedThenBarrier(a \o b)
  PROVE  FedInOrder(Len(total_cmd))
<1>1. PICK n : n = Len(total_cmd)
  OBVIOUS
<1>2. a \in Seq(Command) /\ b \in Seq(Command) /\ ToSet(a) = A /\ ToSet(b) = B
  BY DEF Lists
<1>3. total_cmd \in Trace
  BY DEF TraceOK
<1> DEFINE cmds == a \o b
<1>4. cmds \in Seq(Command)
  BY <1>2
<1>5. total_cmd'[n] = total_cmd[n] \o cmds
  BY <1>1, <1>3, <1>4, AddedEffect, BarrierEffect
<1>6. /\ Len(a) \in Nat /\ Len(b) \in Nat /\ Len(cmds) = Len(a) + Len(b)
      /\ \A k \in 1..Len(a) : cmds[k] = a[k]
      /\ \A k \in 1..Len(b) : cmds[Len(a) + k] = b[k]
  BY <1>2
<1> HIDE DEF cmds
<1>7. /\ \A k \in 1..Len(a) : a[k] \in A
      /\ \A k \in 1..Len(b) : b[k] \in B
      /\ A = {a[k] : k \in 1..Len(a)}
  BY <1>2 DEF ToSet
<1>8. ASSUME NEW k \in 1..Len(cmds)
      PROVE  Operands(cmds[k]) \subseteq
               Written \cup (Unguarded(cmds[k]) \cap (InSegment(n) \cup Ahead(cmds, k)))
  <2>1. CASE k \in 1..Len(a)
    BY <1>1, <1>6, <1>7, <2>1 DEF Feeds, Current
  <2>2. CASE ~(k \in 1..Len(a))
    <3>1. PICK q \in 1..Len(b) : k = Len(a) + q
      <4>1. k - Len(a) \in 1..Len(b) /\ k = Len(a) + (k - Len(a))
        BY <1>6, <1>8, <2>2
      <4>. QED  BY <4>1
    <3>2. cmds[k] = b[q] /\ b[q] \in B
      BY <1>6, <1>7, <3>1
    <3>3. A \subseteq Ahead(cmds, k)
      <4>1. \A r \in 1..Len(a) : r \in 1..(k - 1) /\ cmds[r] = a[r]
        BY <1>6, <3>1
      <4>. QED  BY <1>7, <4>1 DEF Ahead
    <3>. QED  BY <1>1, <3>2, <3>3 DEF Feeds, Current
  <2>. QED  BY <2>1, <2>2
<1>9. FedInOrder(n)
  BY <1>4, <1>5, <1>8 DEF FedInOrder
<1>. QED  BY <1>1, <1>9

(* The softmax of a head has its scores.                                   *)
LEMMA SoftmaxFed ==
  ASSUME TraceOK, NEW h \in Nat, ScoresMoved(h)
  PROVE  Feeds(Item("SFM", h, 0), Current)
<1>1. Tiles \in Nat \ {0}
  BY TraceFacts
<1>2. MovesOf(h, Tiles) \subseteq MovesOf(h, Tiles - 1) \cup {Item("SMVSB", h, Tiles - 1)}
  <2>1. \A t \in 0..(Tiles - 1) : t \in 0..((Tiles - 1) - 1) \/ t = Tiles - 1
    BY <1>1
  <2>. QED  BY <2>1 DEF MovesOf
<1>. QED  BY <1>2, OperandsAre DEF Feeds, ScoresMoved

(* What is ready at this turn is used and scored.                          *)
LEMMA ScoredNow == ASSUME Scored, TraceOK PROVE ScoredAt(i, j)
<1>1. i \in Nat /\ j \in Nat
  BY TraceFacts
<1>. QED  BY <1>1 DEF Scored

(* What is ready at this turn is used, and what it adds makes the next one *)
(* ready.                                                                  *)
LEMMA ReadyNow == ASSUME Ready, TraceOK PROVE ReadyAt(i, j)
<1>1. i \in Nat /\ j \in Nat
  BY TraceFacts
<1>. QED  BY <1>1 DEF Ready

(* WriteVector begins a pair.                                              *)
LEMMA ReadyWriteVector ==
  ASSUME TraceOK, OperandsReady, Ready, WriteVector
  PROVE  OperandsReady' /\ Ready'
<1> DEFINE S == FirstPieces("WRGB", i, 1, 1) \cup DummyAt
<1>1. Leaves("write", "score0") /\ Adds({"WRGB", "DUMMY"}, S, 1)
  BY WriteVectorStep
<1>2. \A c \in S : c.op \in {"WRGB", "DUMMY"}
  BY <1>1 DEF Adds, Lists
<1>3. \A c \in S : Operands(c) \subseteq Written
  BY <1>2, OperandsAre
<1> HIDE DEF S
<1>4. OperandsReady' /\ S \subseteq Written'
  BY <1>1, <1>3, ReadyAdds
<1>5. i \in Nat /\ i + 1 < NumItr /\ j = 0 /\ args \in Inputs /\ args' = args /\ Tiles \in Nat \ {0}
  BY <1>1, TraceFacts DEF TraceOK, CountersOK, HeadInRange, TurnInRange, Leaves, Adds
<1>6. InPieces("WRGB", i) \subseteq S
  BY <1>5, PiecesOfHeads DEF S
<1>7. WrittenPieces(i + 1, 0) = {}
  BY <1>5, FirstPiecesNone DEF WrittenPieces
<1>8. ASSUME NEW h \in Nat, NEW n \in Nat, h = i', n = j' PROVE ReadyAt(h, n)'
  <2>1. stage' = "score0" /\ h = i /\ n = 0
    BY <1>1, <1>5, <1>8 DEF Leaves
  <2>2. InPieces("WRGB", h)' \subseteq Written' /\ WrittenPieces(h + 1, n)' \subseteq Written'
    BY <1>4, <1>5, <1>6, <1>7, <2>1, SetsKept
  <2>. QED  BY <2>1, <2>2 DEF ReadyAt
<1>. QED  BY <1>4, <1>8 DEF Ready

(* Score0 reads the first vector, and writes the second for score1.        *)
LEMMA ReadyScore0 ==
  ASSUME TraceOK, OperandsReady, Ready, Score0
  PROVE  OperandsReady' /\ Ready'
<1>1. Turns("score0", Tiles, "score1", i) /\ Adds({"SMAC", "SMVSB", "WRGB"}, Score0Adds, Barriers(Tiles))
  BY Score0Step
<1>2. /\ i \in Nat /\ i + 1 \in Nat /\ i + 1 < NumItr /\ j \in Nat /\ j <= Tiles
      /\ args \in Inputs /\ args' = args
      /\ Tiles \in Nat \ {0} /\ stage = "score0"
  BY <1>1, TraceFacts DEF TraceOK, CountersOK, HeadInRange, TurnInRange, Turns, Adds
<1>3. /\ InPieces("WRGB", i) \subseteq Written /\ (j > 0 => TileRows(i, j - 1) \subseteq Written)
      /\ WrittenPieces(i + 1, j) \subseteq Written
  BY <1>2, ReadyNow DEF ReadyAt
<1>4. \A c \in ToSet(ScorePiece(i + 1)) : c.op = "WRGB"
  BY <1>2, ScorePieceList DEF Lists
<1>5. \A c \in Score0Adds : Operands(c) \subseteq Written
  <2>1. \A c \in TileRows(i, j) : Operands(c) \subseteq Written
    BY <1>3, OperandsAre
  <2>2. \A c \in MovedAt("SMVSB", i) : Operands(c) \subseteq Written
    BY <1>3, OperandsAre DEF MovedAt
  <2>3. \A c \in ToSet(ScorePiece(i + 1)) : Operands(c) \subseteq Written
    BY <1>4, OperandsAre
  <2>. QED  BY <2>1, <2>2, <2>3 DEF Score0Adds
<1>6. Barriers(Tiles) \in {0, 1} /\ (j < Tiles <=> Barriers(Tiles) = 1)
  BY DEF Barriers
<1>7. OperandsReady' /\ Written \subseteq Written' /\ (j < Tiles => Score0Adds \subseteq Written')
  BY <1>1, <1>5, <1>6, ReadyAdds
<1>8. ASSUME NEW h \in Nat, NEW n \in Nat, h = i', n = j' PROVE ReadyAt(h, n)'
  <2>1. CASE j < Tiles
    <3>1. stage' = "score0" /\ h = i /\ n = j + 1
      BY <1>1, <1>2, <1>8, <2>1 DEF Turns
    <3>2. WrittenPieces(i + 1, j + 1) = WrittenPieces(i + 1, j) \cup ToSet(ScorePiece(i + 1))
      BY <1>2, <2>1, ScorePieceList DEF WrittenPieces
    <3>3. WrittenPieces(h + 1, n) \subseteq Written' /\ TileRows(h, n - 1) \subseteq Written'
      <4>1. n - 1 = j
        BY <1>2, <3>1
      <4>. QED  BY <1>3, <1>7, <2>1, <3>1, <3>2, <4>1 DEF Score0Adds
    <3>4. InPieces("WRGB", h) \subseteq Written'
      BY <1>3, <1>7, <3>1
    <3>5. /\ InPieces("WRGB", h)' \subseteq Written' /\ TileRows(h, n - 1)' \subseteq Written'
          /\ WrittenPieces(h + 1, n)' \subseteq Written'
      BY <1>2, <3>3, <3>4, SetsKept
    <3>. QED  BY <3>1, <3>5 DEF ReadyAt
  <2>2. CASE ~(j < Tiles)
    <3>1. stage' = "score1" /\ h = i /\ n = 0 /\ j = Tiles
      BY <1>1, <1>2, <1>8, <2>2 DEF Turns
    <3>2. InPieces("WRGB", h + 1) \subseteq Written'
      BY <1>2, <1>3, <1>7, <3>1, PiecesOfHeads DEF WrittenPieces
    <3>3. MovedPieces(h, n) = {}
      <4>1. 0 >= Tiles \div 2 => 0 - Tiles \div 2 = 0
        BY <1>2
      <4>2. Ceil(Tiles, 2) \in Nat \ {0}
        BY <1>2, Halves
      <4>. QED  BY <1>2, <3>1, <4>1, <4>2, FirstPiecesNone DEF MovedPieces
    <3>4. InPieces("WRGB", h + 1)' \subseteq Written' /\ MovedPieces(h, n)' \subseteq Written'
      BY <1>2, <3>2, <3>3, SetsKept
    <3>. QED  BY <3>1, <3>4 DEF ReadyAt
  <2>. QED  BY <2>1, <2>2
<1>. QED  BY <1>7, <1>8 DEF Ready

(* Score1 reads the second, and moves that of the first context.           *)
LEMMA ReadyScore1 ==
  ASSUME TraceOK, OperandsReady, Ready, Scored, Score1
  PROVE  OperandsReady' /\ Ready'
<1>1. /\ Turns("score1", Tiles, "context0", i)
      /\ Adds({"SMAC", "SMVSB", "SFM", "MVGB"}, Score1Adds, Barriers(Tiles))
  BY Score1Step
<1>2. /\ i \in Nat /\ i + 1 \in Nat /\ i + 1 < NumItr /\ j \in Nat /\ j <= Tiles
      /\ args \in Inputs /\ args' = args
      /\ Tiles \in Nat \ {0} /\ stage = "score1"
  BY <1>1, TraceFacts DEF TraceOK, CountersOK, HeadInRange, TurnInRange, Turns, Adds
<1>3. /\ InPieces("WRGB", i + 1) \subseteq Written /\ (j > 0 => TileRows(i + 1, j - 1) \subseteq Written)
      /\ MovedPieces(i, j) \subseteq Written
  BY <1>2, ReadyNow DEF ReadyAt
<1>4. SoftmaxOf(i, j)
  BY <1>2, ScoredNow DEF ScoredAt
<1>5. FedInOrder(Len(total_cmd))
  <2> DEFINE a == (ScoreMac(i + 1) \o Moved("SMVSB", i + 1)) \o Softmax(i)
             b == ContextVector(i, Tiles)
             A == (TileRows(i + 1, j) \cup MovedAt("SMVSB", i + 1)) \cup SoftmaxAt(i)
             B == ToSet(ContextVector(i, Tiles))
  <2>1. Lists(a, ({"SMAC"} \cup {"SMVSB"}) \cup {"SFM"}, A) /\ Lists(b, {"MVGB"}, B)
    <3>1. Lists(ScoreMac(i + 1), {"SMAC"}, TileRows(i + 1, j))
      BY <1>2, ScoreMacList
    <3>2. Lists(Moved("SMVSB", i + 1), {"SMVSB"}, MovedAt("SMVSB", i + 1))
      BY <1>2, MovedList, OpsAre
    <3>3. Lists(Softmax(i), {"SFM"}, SoftmaxAt(i))
      BY <1>2, SoftmaxList
    <3>4. Lists(ScoreMac(i + 1) \o Moved("SMVSB", i + 1), {"SMAC"} \cup {"SMVSB"},
                TileRows(i + 1, j) \cup MovedAt("SMVSB", i + 1))
      BY <3>1, <3>2, ConcatList
    <3>5. Lists(a, ({"SMAC"} \cup {"SMVSB"}) \cup {"SFM"}, A)
      BY <3>3, <3>4, ConcatList
    <3>6. Lists(b, {"MVGB"}, B)
      BY <1>2, ContextVectorList
    <3>. QED  BY <3>5, <3>6
  <2>2. \A c \in A : Feeds(c, Current)
    <3>1. \A c \in TileRows(i + 1, j) : Operands(c) \subseteq Written
      BY <1>3, OperandsAre
    <3>2. \A c \in MovedAt("SMVSB", i + 1) : Operands(c) \subseteq Written
      BY <1>3, OperandsAre DEF MovedAt
    <3>3. \A c \in SoftmaxAt(i) : Feeds(c, Current)
      BY <1>2, <1>4, SoftmaxFed DEF SoftmaxAt, SoftmaxOf
    <3>. QED  BY <3>1, <3>2, <3>3 DEF Feeds
  <2>3. ASSUME NEW c \in B PROVE Feeds(c, Current \cup A)
    <3>1. c.op = "MVGB" /\ c.head = i /\ j < Tiles /\ j >= Tiles \div 2
      BY <1>2, <2>1, <2>3, ContextVectorList DEF Lists
    <3>2. Operands(c) = {Item("SFM", i, 0)}
      BY <3>1, OperandsAre
    <3>3. CASE j = 0
      <4>1. Tiles = 1
        BY <1>2, <3>1, <3>3
      <4>2. Unguarded(c) = {Item("SFM", i, 0)}
        BY <1>2, <3>1, <4>1, UnguardedCopies
      <4>3. Item("SFM", i, 0) \in A
        BY <3>3 DEF SoftmaxAt
      <4>. QED  BY <3>2, <4>2, <4>3 DEF Feeds
    <3>4. CASE j # 0
      BY <1>4, <3>2, <3>4 DEF Feeds, SoftmaxOf
    <3>. QED  BY <3>3, <3>4
  <2>4. total_cmd' = Added(a \o b) \/ total_cmd' = AddedThenBarrier(a \o b)
    BY DEF Score1, Turn
  <2> HIDE DEF a, b, A, B
  <2>. QED  BY <2>1, <2>2, <2>3, <2>4, OrderlyHalves
<1>6. Barriers(Tiles) \in {0, 1} /\ (j < Tiles <=> Barriers(Tiles) = 1)
  BY DEF Barriers
<1>7. OperandsReady' /\ Written \subseteq Written' /\ (j < Tiles => Score1Adds \subseteq Written')
  BY <1>1, <1>5, <1>6, OrderlyReady, Grows
<1>8. ASSUME NEW h \in Nat, NEW n \in Nat, h = i', n = j' PROVE ReadyAt(h, n)'
  <2>1. CASE j < Tiles
    <3>1. stage' = "score1" /\ h = i /\ n = j + 1
      BY <1>1, <1>2, <1>8, <2>1 DEF Turns
    <3>2. MovedPieces(i, j + 1) \subseteq MovedPieces(i, j) \cup ToSet(ContextVector(i, Tiles))
      <4>1. CASE j >= Tiles \div 2
        <5>1. j + 1 >= Tiles \div 2
          BY <1>2, <4>1
        <5>. QED  BY <1>2, <2>1, <4>1, <5>1, ContextVectorList DEF MovedPieces
      <4>2. CASE ~(j >= Tiles \div 2)
        <5>1. j + 1 >= Tiles \div 2 => j + 1 - Tiles \div 2 = 0
          BY <1>2, <4>2
        <5>2. Ceil(Tiles, 2) \in Nat \ {0}
          BY <1>2, Halves
        <5>3. MovedPieces(i, j + 1) = {}
          BY <1>2, <5>1, <5>2, FirstPiecesNone DEF MovedPieces
        <5>. QED  BY <5>3
      <4>. QED  BY <4>1, <4>2
    <3>3. MovedPieces(h, n) \subseteq Written' /\ TileRows(h + 1, n - 1) \subseteq Written'
      <4>1. n - 1 = j
        BY <1>2, <3>1
      <4>. QED  BY <1>3, <1>7, <2>1, <3>1, <3>2, <4>1 DEF Score1Adds
    <3>4. InPieces("WRGB", h + 1) \subseteq Written'
      BY <1>3, <1>7, <3>1
    <3>5. /\ InPieces("WRGB", h + 1)' \subseteq Written' /\ TileRows(h + 1, n - 1)' \subseteq Written'
          /\ MovedPieces(h, n)' \subseteq Written'
      BY <1>2, <3>3, <3>4, SetsKept
    <3>. QED  BY <3>1, <3>5 DEF ReadyAt
  <2>2. CASE ~(j < Tiles)
    <3>1. stage' = "context0" /\ h = i /\ n = 0 /\ j = Tiles
      BY <1>1, <1>2, <1>8, <2>2 DEF Turns
    <3>2. MovedPieces(i, Tiles) = FirstPieces("MVGB", i, Ceil(Tiles, 2), Ceil(Tiles, 2))
      BY <1>2, Halves DEF MovedPieces
    <3>3. InPieces("MVGB", h) \subseteq Written'
      BY <1>2, <1>3, <1>7, <3>1, <3>2, PiecesOfHeads
    <3>4. InPieces("MVGB", h)' \subseteq Written'
      BY <1>2, <3>3, SetsKept
    <3>. QED  BY <3>1, <3>4 DEF ReadyAt
  <2>. QED  BY <2>1, <2>2
<1>. QED  BY <1>7, <1>8 DEF Ready

(* The loops over the parts of a context: what all three have in common.   *)
ContextLoops == {"context0", "context1", "last_context"}

(* What a part of a context reads.                                         *)
LEMMA ContextOperands ==
  ASSUME TraceOK, Ready, stage \in ContextLoops
  PROVE  /\ \A c \in PartAt(i) : Operands(c) \subseteq Written
         /\ \A c \in MovedAt("CMVSB", i) : Operands(c) \subseteq Written
<1>1. ReadyAt(i, j)
  BY ReadyNow
<1>2. InPieces("MVGB", i) \subseteq Written /\ (j > 0 => Item("CMAC", i, j - 1) \in Written)
  BY <1>1 DEF ReadyAt, ContextLoops
<1>3. \A c \in PartAt(i) : Operands(c) \subseteq Written
  BY <1>2, OperandsAre DEF PartAt
<1>4. \A c \in MovedAt("CMVSB", i) : Operands(c) \subseteq Written
  BY <1>2, OperandsAre DEF MovedAt
<1>. QED  BY <1>3, <1>4

(* A loop over the parts of a context only relies on its vector.           *)
LEMMA ContextReady ==
  ASSUME TraceOK, Ready, NEW loop \in ContextLoops,
         NEW nextStage \in {"context1", "write", "last_write", "done"},
         NEW nextHead, nextStage = "context1" => nextHead = i,
         Turns(loop, Parts, nextStage, nextHead), args' = args,
         Written \subseteq Written', j < Parts => PartAt(i) \subseteq Written'
  PROVE  Ready'
<1>1. i \in Nat /\ j \in Nat /\ stage = loop /\ Parts \in Nat
  BY TraceFacts DEF Turns
<1>2. InPieces("MVGB", i) \subseteq Written
  BY <1>1, ReadyNow DEF ReadyAt, ContextLoops
<1>3. ASSUME NEW h \in Nat, NEW n \in Nat, h = i', n = j' PROVE ReadyAt(h, n)'
  <2>1. CASE j < Parts
    <3>1. stage' = loop /\ h = i /\ n = j + 1
      BY <1>1, <1>3, <2>1 DEF Turns
    <3>2. Item("CMAC", h, n - 1) \in Written'
      <4>1. n - 1 = j
        BY <1>1, <3>1
      <4>. QED  BY <2>1, <3>1, <4>1 DEF PartAt
    <3>3. InPieces("MVGB", h)' \subseteq Written'
      BY <1>2, <3>1, SetsKept
    <3>. QED  BY <3>1, <3>2, <3>3 DEF ReadyAt, ContextLoops
  <2>2. CASE ~(j < Parts)
    <3>1. stage' = nextStage /\ n = 0 /\ (nextStage = "context1" => h = i)
      BY <1>1, <1>3, <2>2 DEF Turns
    <3>2. nextStage = "context1" => InPieces("MVGB", h)' \subseteq Written'
      BY <1>2, <3>1, SetsKept
    <3>. QED  BY <3>1, <3>2 DEF ReadyAt
  <2>. QED  BY <2>1, <2>2
<1>. QED  BY <1>3 DEF Ready

(* A turn has one barrier or none.                                         *)
LEMMA BarriersAre ==
  ASSUME NEW length
  PROVE  Barriers(length) \in {0, 1} /\ (j < length <=> Barriers(length) = 1)
BY DEF Barriers

(* Context0.                                                               *)
LEMMA ReadyContext0 ==
  ASSUME TraceOK, OperandsReady, Ready, Scored, Context0
  PROVE  OperandsReady' /\ Ready'
<1>1. /\ Turns("context0", Parts, "context1", i)
      /\ Adds({"CMAC", "CMVSB", "SFM", "MVGB"}, Context0Adds, Barriers(Parts))
  BY Context0Step
<1>2. /\ stage = "context0" /\ args' = args /\ i \in Nat /\ i + 1 \in Nat /\ j \in Nat
      /\ Parts \in Nat \ {0} /\ args \in Inputs
  BY <1>1, TraceFacts DEF Turns, Adds
<1>3. SoftmaxOf(i + 1, j)
  BY <1>2, ScoredNow DEF ScoredAt
<1>4. stage \in ContextLoops
  BY <1>2 DEF ContextLoops
<1>5. FedInOrder(Len(total_cmd))
  <2> DEFINE a == (ContextMac(i) \o Moved("CMVSB", i)) \o Softmax(i + 1)
             b == ContextVector(i + 1, Parts)
             A == (PartAt(i) \cup MovedAt("CMVSB", i)) \cup SoftmaxAt(i + 1)
             B == ToSet(ContextVector(i + 1, Parts))
  <2>1. Lists(a, {"CMAC", "CMVSB"} \cup {"SFM"}, A) /\ Lists(b, {"MVGB"}, B)
    <3>1. Lists(Softmax(i + 1), {"SFM"}, SoftmaxAt(i + 1))
      BY <1>2, SoftmaxList
    <3>2. Lists(ContextMac(i) \o Moved("CMVSB", i), {"CMAC", "CMVSB"}, PartAt(i) \cup MovedAt("CMVSB", i))
      BY ContextList
    <3>3. Lists(a, {"CMAC", "CMVSB"} \cup {"SFM"}, A)
      BY <3>1, <3>2, ConcatList
    <3>4. Lists(b, {"MVGB"}, B)
      BY <1>2, ContextVectorList
    <3>. QED  BY <3>3, <3>4
  <2>2. \A c \in A : Feeds(c, Current)
    <3>1. \A c \in PartAt(i) \cup MovedAt("CMVSB", i) : Operands(c) \subseteq Written
      BY <1>4, ContextOperands
    <3>2. \A c \in SoftmaxAt(i + 1) : Feeds(c, Current)
      BY <1>2, <1>3, SoftmaxFed DEF SoftmaxAt, SoftmaxOf
    <3>. QED  BY <3>1, <3>2 DEF Feeds
  <2>3. ASSUME NEW c \in B PROVE Feeds(c, Current \cup A)
    <3>1. c.op = "MVGB" /\ c.head = i + 1 /\ j < Parts /\ j >= Parts \div 2
      BY <1>2, <2>1, <2>3, ContextVectorList DEF Lists
    <3>2. Operands(c) = {Item("SFM", i + 1, 0)}
      BY <3>1, OperandsAre
    <3>3. CASE j = 0
      <4>1. Parts = 1
        BY <1>2, <3>1, <3>3
      <4>2. Unguarded(c) = {Item("SFM", i + 1, 0)}
        BY <3>1, <4>1, UnguardedCopies
      <4>3. Item("SFM", i + 1, 0) \in A
        BY <3>3 DEF SoftmaxAt
      <4>. QED  BY <3>2, <4>2, <4>3 DEF Feeds
    <3>4. CASE j # 0
      BY <1>3, <3>2, <3>4 DEF Feeds, SoftmaxOf
    <3>. QED  BY <3>3, <3>4
  <2>4. total_cmd' = Added(a \o b) \/ total_cmd' = AddedThenBarrier(a \o b)
    BY DEF Context0, Turn
  <2> HIDE DEF a, b, A, B
  <2>. QED  BY <2>1, <2>2, <2>3, <2>4, OrderlyHalves
<1>6. OperandsReady' /\ Written \subseteq Written' /\ (j < Parts => Context0Adds \subseteq Written')
  BY <1>1, <1>5, OrderlyReady, Grows, BarriersAre
<1>7. j < Parts => PartAt(i) \subseteq Written'
  BY <1>6 DEF Context0Adds
<1>8. Ready'
  <2>1. "context0" \in ContextLoops /\ "context1" \in {"context1", "write", "last_write", "done"}
    BY DEF ContextLoops
  <2>. QED  BY <1>1, <1>2, <1>6, <1>7, <2>1, ContextReady
<1>. QED  BY <1>6, <1>8

(* Context1, and the first loop of the next pair.                          *)
LEMMA ReadyContext1 ==
  ASSUME TraceOK, OperandsReady, Ready, Context1 \/ LastContext
  PROVE  OperandsReady' /\ Ready'
<1> DEFINE S == PartAt(i) \cup MovedAt("CMVSB", i)
<1>1. PICK loop, nextStage, nextHead :
        /\ loop \in {"context1", "last_context"} /\ nextStage \in {"write", "last_write", "done"}
        /\ Turns(loop, Parts, nextStage, nextHead)
        /\ Adds({"CMAC", "CMVSB"}, S, Barriers(Parts))
  <2>1. StageOf(NextPair) \in {"write", "last_write", "done"}
    <3>1. NextPair \in Nat /\ NumItr \in Nat
      BY TraceFacts DEF NextPair
    <3>2. NextPair + 1 < NumItr \/ NextPair = NumItr - 1 \/ NextPair >= NumItr
      BY <3>1
    <3>. QED  BY <3>1, <3>2, StageOfHead
  <2>2. CASE Context1
    <3>1. /\ Turns("context1", Parts, StageOf(NextPair), NextPair)
          /\ Adds({"CMAC", "CMVSB"}, S, Barriers(Parts))
      BY <2>2, Context1Step
    <3> HIDE DEF S
    <3>. QED  BY <2>1, <3>1
  <2>3. CASE LastContext
    <3>1. Turns("last_context", Parts, "done", i) /\ Adds({"CMAC", "CMVSB"}, S, Barriers(Parts))
      BY <2>3, LastContextStep
    <3> HIDE DEF S
    <3>. QED  BY <3>1
  <2>. QED  BY <2>2, <2>3
<1>2. loop \in ContextLoops /\ stage = loop /\ args' = args /\ j \in Nat
  BY <1>1, TraceFacts DEF Turns, Adds, ContextLoops
<1>3. \A c \in S : Operands(c) \subseteq Written
  BY <1>2, ContextOperands
<1> HIDE DEF S
<1>4. OperandsReady' /\ Written \subseteq Written' /\ (j < Parts => S \subseteq Written')
  BY <1>1, <1>3, ReadyAdds, BarriersAre
<1>5. j < Parts => PartAt(i) \subseteq Written'
  BY <1>4 DEF S
<1>6. Ready'
  BY <1>1, <1>2, <1>4, <1>5, ContextReady
<1>. QED  BY <1>4, <1>6

(* The last head alone: its vector, ...                                    *)
LEMMA ReadyLastWriteVector ==
  ASSUME TraceOK, OperandsReady, Ready, LastWriteVector
  PROVE  OperandsReady' /\ Ready'
<1> DEFINE S == FirstPieces("WRGB", i, 1, 1)
<1>1. Leaves("last_write", "last_score") /\ Adds({"WRGB"}, S, 1)
  BY LastWriteVectorStep
<1>2. \A c \in S : c.op = "WRGB"
  BY <1>1 DEF Adds, Lists
<1>3. \A c \in S : Operands(c) \subseteq Written
  BY <1>2, OperandsAre
<1> HIDE DEF S
<1>4. OperandsReady' /\ S \subseteq Written'
  BY <1>1, <1>3, ReadyAdds
<1>5. i \in Nat /\ i = NumItr - 1 /\ j = 0 /\ args' = args
  BY <1>1 DEF TraceOK, CountersOK, HeadInRange, TurnInRange, Leaves, Adds
<1>6. InPieces("WRGB", i) \subseteq S
  BY <1>5, PiecesOfHeads DEF S
<1>7. ASSUME NEW h \in Nat, NEW n \in Nat, h = i', n = j' PROVE ReadyAt(h, n)'
  <2>1. stage' = "last_score" /\ h = i /\ n = 0
    BY <1>1, <1>5, <1>7 DEF Leaves
  <2>2. InPieces("WRGB", h)' \subseteq Written'
    BY <1>4, <1>5, <1>6, <2>1, SetsKept
  <2>. QED  BY <2>1, <2>2 DEF ReadyAt
<1>. QED  BY <1>4, <1>7 DEF Ready

(* its scores, ...                                                         *)
LEMMA ReadyLastScore ==
  ASSUME TraceOK, OperandsReady, Ready, LastScore
  PROVE  OperandsReady' /\ Ready'
<1> DEFINE S == TileRows(i, j) \cup MovedAt("SMVSB", i)
<1>1. Turns("last_score", Tiles, "last_softmax", i) /\ Adds({"SMAC", "SMVSB"}, S, Barriers(Tiles))
  BY LastScoreStep
<1>2. i \in Nat /\ j \in Nat /\ args' = args /\ stage = "last_score" /\ Tiles \in Nat
  BY <1>1, TraceFacts DEF Turns, Adds
<1>3. InPieces("WRGB", i) \subseteq Written /\ (j > 0 => TileRows(i, j - 1) \subseteq Written)
  BY <1>2, ReadyNow DEF ReadyAt
<1>4. \A c \in S : Operands(c) \subseteq Written
  <2>1. \A c \in TileRows(i, j) : Operands(c) \subseteq Written
    BY <1>3, OperandsAre
  <2>2. \A c \in MovedAt("SMVSB", i) : Operands(c) \subseteq Written
    BY <1>3, OperandsAre DEF MovedAt
  <2>. QED  BY <2>1, <2>2
<1> HIDE DEF S
<1>5. OperandsReady' /\ Written \subseteq Written' /\ (j < Tiles => S \subseteq Written')
  BY <1>1, <1>4, ReadyAdds, BarriersAre
<1>6. ASSUME NEW h \in Nat, NEW n \in Nat, h = i', n = j' PROVE ReadyAt(h, n)'
  <2>1. CASE j < Tiles
    <3>1. stage' = "last_score" /\ h = i /\ n = j + 1
      BY <1>1, <1>2, <1>6, <2>1 DEF Turns
    <3>2. InPieces("WRGB", h) \subseteq Written' /\ TileRows(h, n - 1) \subseteq Written'
      <4>1. n - 1 = j
        BY <1>2, <3>1
      <4>. QED  BY <1>3, <1>5, <2>1, <3>1, <4>1 DEF S
    <3>3. InPieces("WRGB", h)' \subseteq Written' /\ TileRows(h, n - 1)' \subseteq Written'
      BY <1>2, <3>2, SetsKept
    <3>. QED  BY <3>1, <3>3 DEF ReadyAt
  <2>2. CASE ~(j < Tiles)
    <3>1. stage' = "last_softmax"
      BY <1>1, <2>2 DEF Turns
    <3>. QED  BY <3>1 DEF ReadyAt
  <2>. QED  BY <2>1, <2>2
<1>. QED  BY <1>5, <1>6 DEF Ready

(* and its softmax.                                                        *)
LEMMA ReadyLastSoftmax ==
  ASSUME TraceOK, OperandsReady, Ready, Scored, LastSoftmax
  PROVE  OperandsReady' /\ Ready'
<1> DEFINE S == {Item("SFM", i, 0)} \cup FirstPieces("MVGB", i, 1, 1)
<1>1. Leaves("last_softmax", "last_context") /\ Adds({"SFM", "MVGB"}, S, 1)
  BY LastSoftmaxStep
<1>2. i \in Nat /\ i = NumItr - 1 /\ j = 0 /\ args' = args /\ args \in Inputs
      /\ stage = "last_softmax"
  BY <1>1, TraceFacts DEF TraceOK, CountersOK, HeadInRange, TurnInRange, Leaves, Adds
<1>3. FedInOrder(Len(total_cmd))
  <2> DEFINE a == <<Item("SFM", i, 0)>>
             b == Vector("MVGB", i)
             A == {Item("SFM", i, 0)}
             B == FirstPieces("MVGB", i, 1, 1)
  <2>1. Lists(a, {"SFM"}, A) /\ Lists(b, {"MVGB"}, B)
    BY <1>2, VectorList, ShortLists, OpsAre
  <2>2. \A c \in A : Feeds(c, Current)
    <3>1. ScoresMoved(i)
      BY <1>2, ScoredNow DEF ScoredAt
    <3>. QED  BY <1>2, <3>1, SoftmaxFed
  <2>3. ASSUME NEW c \in B PROVE Feeds(c, Current \cup A)
    <3>1. c.op = "MVGB" /\ c.head = i
      BY <2>3 DEF FirstPieces, Those, Item
    <3>2. Operands(c) = {Item("SFM", i, 0)}
      BY <3>1, OperandsAre
    <3>3. Unguarded(c) = {Item("SFM", i, 0)}
      BY <1>2, <3>1, UnguardedCopies
    <3>. QED  BY <3>2, <3>3 DEF Feeds
  <2>4. total_cmd' = Added(a \o b) \/ total_cmd' = AddedThenBarrier(a \o b)
    BY DEF LastSoftmax, Block
  <2> HIDE DEF a, b, A, B
  <2>. QED  BY <2>1, <2>2, <2>3, <2>4, OrderlyHalves
<1> HIDE DEF S
<1>4. OperandsReady' /\ S \subseteq Written'
  BY <1>1, <1>3, OrderlyReady, Grows
<1>6. InPieces("MVGB", i) \subseteq S
  BY <1>2, PiecesOfHeads DEF S
<1>7. ASSUME NEW h \in Nat, NEW n \in Nat, h = i', n = j' PROVE ReadyAt(h, n)'
  <2>1. stage' = "last_context" /\ h = i /\ n = 0
    BY <1>1, <1>2, <1>7 DEF Leaves
  <2>2. InPieces("MVGB", h)' \subseteq Written'
    BY <1>2, <1>4, <1>6, <2>1, SetsKept
  <2>. QED  BY <2>1, <2>2 DEF ReadyAt
<1>. QED  BY <1>4, <1>7 DEF Ready

(* The turn after the last adds the scores that are left: what a loop over *)
(* the tiles of head h leaves to the softmax.                              *)
LEMMA MovesGrow ==
  ASSUME TraceOK, NEW h \in Nat, NEW S, MovedAt("SMVSB", h) \subseteq S,
         MovesOf(h, j - 1) \subseteq Written, j <= Tiles,
         Written \subseteq Written', j < Tiles => S \subseteq Written',
         ~(j < Tiles) => Written' = Written /\ Current' = Current \cup S
  PROVE  /\ j < Tiles => MovesOf(h, (j + 1) - 1) \subseteq Written'
         /\ ~(j < Tiles) => MovesOf(h, Tiles - 1) \subseteq Written' /\ Item("SMVSB", h, Tiles - 1) \in Current'
<1>1. j \in Nat /\ Tiles \in Nat \ {0}
  BY TraceFacts
<1>2. ASSUME j < Tiles PROVE MovesOf(h, (j + 1) - 1) \subseteq Written'
  <2>1. MovesOf(h, (j + 1) - 1) \subseteq MovesOf(h, j - 1) \cup MovedAt("SMVSB", h)
    <3>1. \A t \in 0..(((j + 1) - 1) - 1) : t \in 0..((j - 1) - 1) \/ (j > 0 /\ t = j - 1)
      BY <1>1
    <3>. QED  BY <3>1 DEF MovesOf, MovedAt
  <2>. QED  BY <1>2, <2>1
<1>3. ASSUME ~(j < Tiles)
      PROVE  MovesOf(h, Tiles - 1) \subseteq Written' /\ Item("SMVSB", h, Tiles - 1) \in Current'
  <2>1. j = Tiles /\ j > 0
    BY <1>1, <1>3
  <2>2. MovesOf(h, Tiles - 1) \subseteq Written'
    BY <1>3, <2>1
  <2>3. Item("SMVSB", h, Tiles - 1) \in Current'
    BY <1>3, <2>1 DEF MovedAt
  <2>. QED  BY <2>2, <2>3
<1>. QED  BY <1>2, <1>3

(* Nothing is moved before the first turn, nor in it.                      *)
LEMMA NoMoves ==
  ASSUME NEW h
  PROVE  MovesOf(h, 0 - 1) = {} /\ MovesOf(h, 0) = {}
BY DEF MovesOf

(* The blocks and loops that begin or end without scores.                  *)
LEMMA ScoredElsewhere ==
  ASSUME TraceOK,
         \/ stage' \in {"score0", "last_score"} /\ j' = 0
         \/ stage' \in {"context1", "last_context", "write", "last_write", "done"}
  PROVE  Scored'
<1>1. ASSUME NEW h \in Nat, NEW n \in Nat, h = i', n = j' PROVE ScoredAt(h, n)'
  <2>1. MovesOf(h, 0 - 1)' = {}
    BY NoMoves DEF MovesOf
  <2>2. n = 0 => MovesOf(h, n - 1)' = {}
    BY <2>1
  <2>. QED  BY <1>1, <2>2 DEF ScoredAt
<1>. QED  BY <1>1 DEF Scored

(* The loops that score.                                                   *)
LEMMA ScoredScore0 ==
  ASSUME TraceOK, Scored, Score0
  PROVE  Scored'
<1>1. Turns("score0", Tiles, "score1", i) /\ Adds({"SMAC", "SMVSB", "WRGB"}, Score0Adds, Barriers(Tiles))
  BY Score0Step
<1>2. /\ i \in Nat /\ i + 1 \in Nat /\ j \in Nat /\ j <= Tiles /\ Tiles' = Tiles /\ stage = "score0"
  BY <1>1, TraceFacts, ArgsKept DEF TraceOK, CountersOK, TurnInRange, Turns, Adds
<1>3. MovesOf(i, j - 1) \subseteq Written
  BY <1>2, ScoredNow DEF ScoredAt
<1>4. MovedAt("SMVSB", i) \subseteq Score0Adds
  BY DEF Score0Adds
<1>5. /\ Written \subseteq Written' /\ (j < Tiles => Score0Adds \subseteq Written')
      /\ ~(j < Tiles) => Written' = Written /\ Current' = Current \cup Score0Adds
  BY <1>1, Grows, BarriersAre
<1>6. /\ j < Tiles => MovesOf(i, (j + 1) - 1) \subseteq Written'
      /\ ~(j < Tiles) => /\ MovesOf(i, Tiles - 1) \subseteq Written'
                          /\ Item("SMVSB", i, Tiles - 1) \in Current'
  BY <1>2, <1>3, <1>4, <1>5, MovesGrow
<1>7. ASSUME NEW h \in Nat, NEW n \in Nat, h = i', n = j' PROVE ScoredAt(h, n)'
  <2>1. CASE j < Tiles
    <3>1. stage' = "score0" /\ h = i /\ n = j + 1
      BY <1>1, <1>2, <1>7, <2>1 DEF Turns
    <3>2. MovesOf(h, n - 1)' \subseteq Written'
      BY <1>6, <2>1, <3>1 DEF MovesOf
    <3>. QED  BY <3>1, <3>2 DEF ScoredAt
  <2>2. CASE ~(j < Tiles)
    <3>1. stage' = "score1" /\ h = i /\ n = 0
      BY <1>1, <1>2, <1>7, <2>2 DEF Turns
    <3>2. MovesOf(h + 1, n - 1)' = {}
      BY <3>1 DEF MovesOf
    <3>3. ScoresMoved(h)'
      BY <1>2, <1>6, <2>2, <3>1 DEF ScoresMoved, MovesOf, Item
    <3>4. SoftmaxOf(h, n)'
      BY <3>1, <3>3 DEF SoftmaxOf
    <3>. QED  BY <3>1, <3>2, <3>4 DEF ScoredAt
  <2>. QED  BY <2>1, <2>2
<1>. QED  BY <1>7 DEF Scored

LEMMA ScoredScore1 ==
  ASSUME TraceOK, Scored, Score1
  PROVE  Scored'
<1>1. /\ Turns("score1", Tiles, "context0", i)
      /\ Adds({"SMAC", "SMVSB", "SFM", "MVGB"}, Score1Adds, Barriers(Tiles))
  BY Score1Step
<1>2. /\ i \in Nat /\ i + 1 \in Nat /\ j \in Nat /\ j <= Tiles /\ Tiles' = Tiles /\ stage = "score1"
  BY <1>1, TraceFacts, ArgsKept DEF TraceOK, CountersOK, TurnInRange, Turns, Adds
<1>3. MovesOf(i + 1, j - 1) \subseteq Written /\ SoftmaxOf(i, j)
  BY <1>2, ScoredNow DEF ScoredAt
<1>4. MovedAt("SMVSB", i + 1) \subseteq Score1Adds /\ SoftmaxAt(i) \subseteq Score1Adds
  BY DEF Score1Adds
<1>5. /\ Written \subseteq Written' /\ (j < Tiles => Score1Adds \subseteq Written')
      /\ ~(j < Tiles) => Written' = Written /\ Current' = Current \cup Score1Adds
  BY <1>1, Grows, BarriersAre
<1>6. /\ j < Tiles => MovesOf(i + 1, (j + 1) - 1) \subseteq Written'
      /\ ~(j < Tiles) => /\ MovesOf(i + 1, Tiles - 1) \subseteq Written'
                          /\ Item("SMVSB", i + 1, Tiles - 1) \in Current'
  BY <1>2, <1>3, <1>4, <1>5, MovesGrow
<1>7. j < Tiles => Item("SFM", i, 0) \in Written'
  BY <1>3, <1>4, <1>5 DEF SoftmaxOf, SoftmaxAt
<1>8. ASSUME NEW h \in Nat, NEW n \in Nat, h = i', n = j' PROVE ScoredAt(h, n)'
  <2>1. CASE j < Tiles
    <3>1. stage' = "score1" /\ h = i /\ n = j + 1 /\ n # 0
      BY <1>1, <1>2, <1>8, <2>1 DEF Turns
    <3>2. MovesOf(h + 1, n - 1)' \subseteq Written'
      BY <1>6, <2>1, <3>1 DEF MovesOf
    <3>3. SoftmaxOf(h, n)'
      BY <1>7, <2>1, <3>1 DEF SoftmaxOf
    <3>. QED  BY <3>1, <3>2, <3>3 DEF ScoredAt
  <2>2. CASE ~(j < Tiles)
    <3>1. stage' = "context0" /\ h = i /\ n = 0
      BY <1>1, <1>2, <1>8, <2>2 DEF Turns
    <3>2. ScoresMoved(h + 1)'
      BY <1>2, <1>6, <2>2, <3>1 DEF ScoresMoved, MovesOf, Item
    <3>3. SoftmaxOf(h + 1, n)'
      BY <3>1, <3>2 DEF SoftmaxOf
    <3>. QED  BY <3>1, <3>3 DEF ScoredAt
  <2>. QED  BY <2>1, <2>2
<1>. QED  BY <1>8 DEF Scored

LEMMA ScoredContext0 ==
  ASSUME TraceOK, Scored, Context0
  PROVE  Scored'
<1>1. /\ Turns("context0", Parts, "context1", i)
      /\ Adds({"CMAC", "CMVSB", "SFM", "MVGB"}, Context0Adds, Barriers(Parts))
  BY Context0Step
<1>2. /\ i \in Nat /\ j \in Nat /\ stage = "context0"
  BY <1>1, TraceFacts DEF Turns, Adds
<1>3. SoftmaxOf(i + 1, j)
  BY <1>2, ScoredNow DEF ScoredAt
<1>4. Written \subseteq Written' /\ (j < Parts => Context0Adds \subseteq Written')
  BY <1>1, Grows, BarriersAre
<1>5. j < Parts => Item("SFM", i + 1, 0) \in Written'
  BY <1>3, <1>4 DEF SoftmaxOf, SoftmaxAt, Context0Adds
<1>6. ASSUME NEW h \in Nat, NEW n \in Nat, h = i', n = j' PROVE ScoredAt(h, n)'
  <2>1. CASE j < Parts
    <3>1. stage' = "context0" /\ h = i /\ n = j + 1 /\ n # 0
      BY <1>1, <1>2, <1>6, <2>1 DEF Turns
    <3>2. SoftmaxOf(h + 1, n)'
      BY <1>5, <2>1, <3>1 DEF SoftmaxOf
    <3>. QED  BY <3>1, <3>2 DEF ScoredAt
  <2>2. CASE ~(j < Parts)
    <3>1. stage' = "context1"
      BY <1>1, <2>2 DEF Turns
    <3>. QED  BY <3>1 DEF ScoredAt
  <2>. QED  BY <2>1, <2>2
<1>. QED  BY <1>6 DEF Scored

LEMMA ScoredLastScore ==
  ASSUME TraceOK, Scored, LastScore
  PROVE  Scored'
<1> DEFINE S == TileRows(i, j) \cup MovedAt("SMVSB", i)
<1>1. Turns("last_score", Tiles, "last_softmax", i) /\ Adds({"SMAC", "SMVSB"}, S, Barriers(Tiles))
  BY LastScoreStep
<1>2. /\ i \in Nat /\ j \in Nat /\ j <= Tiles /\ Tiles' = Tiles /\ stage = "last_score"
  BY <1>1, TraceFacts, ArgsKept DEF TraceOK, CountersOK, TurnInRange, Turns, Adds
<1>3. MovesOf(i, j - 1) \subseteq Written
  BY <1>2, ScoredNow DEF ScoredAt
<1>4. MovedAt("SMVSB", i) \subseteq S
  OBVIOUS
<1> HIDE DEF S
<1>5. /\ Written \subseteq Written' /\ (j < Tiles => S \subseteq Written')
      /\ ~(j < Tiles) => Written' = Written /\ Current' = Current \cup S
  BY <1>1, Grows, BarriersAre
<1>6. /\ j < Tiles => MovesOf(i, (j + 1) - 1) \subseteq Written'
      /\ ~(j < Tiles) => /\ MovesOf(i, Tiles - 1) \subseteq Written'
                          /\ Item("SMVSB", i, Tiles - 1) \in Current'
  BY <1>2, <1>3, <1>4, <1>5, MovesGrow
<1>7. ASSUME NEW h \in Nat, NEW n \in Nat, h = i', n = j' PROVE ScoredAt(h, n)'
  <2>1. CASE j < Tiles
    <3>1. stage' = "last_score" /\ h = i /\ n = j + 1
      BY <1>1, <1>2, <1>7, <2>1 DEF Turns
    <3>2. MovesOf(h, n - 1)' \subseteq Written'
      BY <1>6, <2>1, <3>1 DEF MovesOf
    <3>. QED  BY <3>1, <3>2 DEF ScoredAt
  <2>2. CASE ~(j < Tiles)
    <3>1. stage' = "last_softmax" /\ h = i
      BY <1>1, <1>2, <1>7, <2>2 DEF Turns
    <3>2. ScoresMoved(h)'
      BY <1>2, <1>6, <2>2, <3>1 DEF ScoresMoved, MovesOf, Item
    <3>. QED  BY <3>1, <3>2 DEF ScoredAt
  <2>. QED  BY <2>1, <2>2
<1>. QED  BY <1>7 DEF Scored

(* No other step scores.                                                   *)
LEMMA ScoredStep ==
  ASSUME TraceOK, Scored, Next
  PROVE  Scored'
<1>1. CASE WriteVector \/ LastWriteVector
  <2>1. j = 0
    BY <1>1, WriteVectorStep, LastWriteVectorStep
       DEF TraceOK, CountersOK, TurnInRange, Leaves
  <2>2. stage' \in {"score0", "last_score"} /\ j' = 0
    BY <1>1, <2>1, WriteVectorStep, LastWriteVectorStep DEF Leaves
  <2>. QED  BY <2>2, ScoredElsewhere
<1>2. CASE Context1
  <2>1. StageOf(NextPair) \in {"write", "last_write", "done"}
    <3>1. NextPair \in Nat /\ NumItr \in Nat
      BY TraceFacts DEF NextPair
    <3>2. NextPair + 1 < NumItr \/ NextPair = NumItr - 1 \/ NextPair >= NumItr
      BY <3>1
    <3>. QED  BY <3>1, <3>2, StageOfHead
  <2>2. stage' \in {"context1", "write", "last_write", "done"}
    BY <1>2, <2>1, Context1Step DEF Turns
  <2>. QED  BY <2>2, ScoredElsewhere
<1>3. CASE LastContext
  <2>1. stage' \in {"last_context", "done"}
    BY <1>3, LastContextStep DEF Turns
  <2>. QED  BY <2>1, ScoredElsewhere
<1>4. CASE LastSoftmax
  <2>1. stage' = "last_context"
    BY <1>4, LastSoftmaxStep DEF Leaves
  <2>. QED  BY <2>1, ScoredElsewhere
<1>. QED  BY <1>1, <1>2, <1>3, <1>4, ScoredScore0, ScoredScore1, ScoredContext0, ScoredLastScore DEF Next

(* An empty trace has no operands.                                         *)
LEMMA ReadyInit == ASSUME Init PROVE OperandsReady /\ Ready /\ Scored
<1>1. TraceOK
  BY TraceOKInit
<1>2. total_cmd = <<<<>>>> /\ stage = StageOf(i) /\ i \in Nat /\ NumItr \in Nat
  BY <1>1, TraceFacts DEF Init
<1>3. OperandsReady
  <2>1. \A s \in DOMAIN total_cmd : DOMAIN total_cmd[s] = {}
    BY <1>2
  <2>. QED  BY <2>1 DEF OperandsReady
<1>4. stage \in {"write", "last_write", "done"}
  <2>1. i + 1 < NumItr \/ i = NumItr - 1 \/ i >= NumItr
    BY <1>2
  <2>. QED  BY <1>2, <2>1, StageOfHead
<1>5. Ready
  BY <1>4 DEF Ready, ReadyAt
<1>6. Scored
  BY <1>4 DEF Scored, ScoredAt
<1>. QED  BY <1>3, <1>5, <1>6

(* Nothing changes when nothing is done.                                   *)
LEMMA ReadyStutters ==
  ASSUME OperandsReady, Ready, Scored, UNCHANGED vars
  PROVE  OperandsReady' /\ Ready' /\ Scored'
<1>1. args' = args /\ total_cmd' = total_cmd /\ i' = i /\ j' = j /\ stage' = stage
  BY DEF vars
<1>2. \A s : PlacedBefore(s)' = PlacedBefore(s)
  BY <1>1 DEF PlacedBefore, InSegment
<1>3. Written' = Written /\ Current' = Current
  BY <1>1 DEF Written, Current, PlacedBefore, InSegment
<1>4. OperandsReady'
  <2>1. \A s, p : SegmentBefore(s, p)' = SegmentBefore(s, p)
    BY <1>1 DEF SegmentBefore
  <2>. QED  BY <1>1, <1>2, <2>1, SetsKept DEF OperandsReady
<1>5. \A h, n \in Nat : ReadyAt(h, n) => ReadyAt(h, n)'
  BY <1>1, <1>3, SetsKept DEF ReadyAt
<1>6. \A h, n \in Nat : ScoredAt(h, n) => ScoredAt(h, n)'
  BY <1>1, <1>3, ArgsKept DEF ScoredAt, SoftmaxOf, ScoresMoved, MovesOf
<1>. QED  BY <1>1, <1>4, <1>5, <1>6 DEF Ready, Scored

(* A barrier always stands between a command and what it reads or moves,   *)
(* but for the last scores of a softmax and for the copies of a softmax    *)
(* that share its turn or block, which stand behind it in its segment:     *)
(* whatever the shapes, the tiles and the number of heads.                 *)
THEOREM OperandsAlwaysReady == Spec => []OperandsReady
<1> DEFINE Inv == TraceOK /\ OperandsReady /\ Ready /\ Scored
<1>1. Init => Inv
  BY TraceOKInit, ReadyInit
<1>2. Inv /\ [Next]_vars => Inv'
  <2>1. SUFFICES ASSUME TraceOK, OperandsReady, Ready, Scored, [Next]_vars
                 PROVE  OperandsReady' /\ Ready' /\ Scored'
    BY TraceOKStep
  <2>2. CASE Next
    <3>1. Scored'
      BY <2>1, <2>2, ScoredStep
    <3>. QED  BY <2>1, <2>2, <3>1, ReadyWriteVector, ReadyScore0, ReadyScore1, ReadyContext0,
                 ReadyContext1, ReadyLastWriteVector, ReadyLastScore, ReadyLastSoftmax DEF Next
  <2>. QED  BY <2>1, <2>2, ReadyStutters
<1>. QED  BY <1>1, <1>2, PTL DEF Spec

-----------------------------------------------------------------------------
(***************************************************************************)
(* Every score once.                                                       *)
(***************************************************************************)
Single(c) == \E p \in PlacesOf(c) : PlacesOf(c) = {p}
Absent(c) == PlacesOf(c) = {}

PlacesIn(t, c) == UNION {{s} \X {p \in DOMAIN t[s] : t[s][p] = c} : s \in DOMAIN t}

Holds(t, s, p, c) == s \in 1..Len(t) /\ p \in 1..Len(t[s]) /\ t[s][p] = c

(* The places of a command, one by one.                                    *)
LEMMA InPlaces ==
  ASSUME NEW t \in Trace, NEW c, NEW x
  PROVE  x \in PlacesIn(t, c) <=> \E s, p : x = <<s, p>> /\ Holds(t, s, p, c)
<1>1. DOMAIN t = 1..Len(t) /\ \A s \in 1..Len(t) : DOMAIN t[s] = 1..Len(t[s])
  BY DEF Trace
<1>2. x \in PlacesIn(t, c) <=>
        \E s \in 1..Len(t) : x \in {s} \X {p \in 1..Len(t[s]) : t[s][p] = c}
  BY <1>1 DEF PlacesIn
<1>. QED  BY <1>2 DEF Holds

(* A list adds one place for each of its commands.                         *)
LEMMA PlacesAdded ==
  ASSUME total_cmd \in Trace, NEW ops, NEW S, NEW barriers \in {0, 1}, Adds(ops, S, barriers), NEW c
  PROVE  /\ c \notin S => PlacesOf(c)' = PlacesOf(c)
         /\ c \in S /\ Absent(c) => Single(c)'
<1>1. PICK n : n = Len(total_cmd)
  OBVIOUS
<1>2. /\ n \in Nat \ {0} /\ total_cmd' \in Trace /\ Len(total_cmd') = n + barriers
      /\ \A s \in 1..(n - 1) : total_cmd'[s] = total_cmd[s]
      /\ Longer(n, ops, S)
      /\ barriers = 1 => total_cmd'[n + 1] = <<>>
  BY <1>1, AddsEffect
<1>3. PICK cmds : Lists(cmds, ops, S) /\ total_cmd'[n] = total_cmd[n] \o cmds
  BY <1>2 DEF Longer
<1>4. PICK len : len = Len(total_cmd[n])
  OBVIOUS
<1>5. /\ cmds \in Seq(Command) /\ Distinct(cmds) /\ ToSet(cmds) = S
      /\ total_cmd[n] \in Seq(Command) /\ len \in Nat /\ Len(cmds) \in Nat
      /\ DOMAIN cmds = 1..Len(cmds)
  <2>1. cmds \in Seq(Command) /\ Distinct(cmds) /\ ToSet(cmds) = S
    BY <1>3 DEF Lists
  <2>2. Len(cmds) \in Nat /\ DOMAIN cmds = 1..Len(cmds)
    BY <2>1
  <2>3. total_cmd[n] \in Seq(Command)
    BY <1>1, <1>2 DEF Trace
  <2>4. len \in Nat
    BY <1>4, <2>3
  <2>. QED  BY <2>1, <2>2, <2>3, <2>4
<1>6. /\ Len(total_cmd'[n]) = len + Len(cmds)
      /\ \A p \in 1..len : total_cmd'[n][p] = total_cmd[n][p]
      /\ \A k \in 1..Len(cmds) : total_cmd'[n][len + k] = cmds[k]
  <2>1. /\ Len(total_cmd[n] \o cmds) = Len(total_cmd[n]) + Len(cmds)
        /\ \A p \in 1..(Len(total_cmd[n]) + Len(cmds)) :
             (total_cmd[n] \o cmds)[p] = IF p <= Len(total_cmd[n]) THEN total_cmd[n][p]
                                         ELSE cmds[p - Len(total_cmd[n])]
    BY <1>5
  <2>2. \A p \in 1..len : p \in 1..(len + Len(cmds)) /\ p <= len
    BY <1>5
  <2>3. \A k \in 1..Len(cmds) : /\ len + k \in 1..(len + Len(cmds)) /\ ~(len + k <= len)
                                /\ (len + k) - len = k
    BY <1>5
  <2>. QED  BY <1>3, <1>4, <2>1, <2>2, <2>3
<1>7. PlacesOf(c) = PlacesIn(total_cmd, c) /\ PlacesOf(c)' = PlacesIn(total_cmd', c)
  BY DEF PlacesOf, PlacesIn
<1>8. ASSUME NEW s, NEW p, Holds(total_cmd, s, p, c) PROVE Holds(total_cmd', s, p, c)
  <2>1. s \in 1..n /\ p \in 1..Len(total_cmd[s]) /\ total_cmd[s][p] = c /\ s \in 1..(n + barriers)
    BY <1>1, <1>2, <1>8 DEF Holds
  <2>2. CASE s \in 1..(n - 1)
    BY <1>2, <2>1, <2>2 DEF Holds
  <2>3. CASE s = n
    <3>1. p \in 1..len /\ p \in 1..(len + Len(cmds))
      BY <1>4, <1>5, <2>1, <2>3
    <3>. QED  BY <1>2, <1>6, <2>1, <2>3, <3>1 DEF Holds
  <2>. QED  BY <1>2, <2>1, <2>2, <2>3
<1>9. ASSUME NEW s, NEW p, Holds(total_cmd', s, p, c)
      PROVE  \/ Holds(total_cmd, s, p, c)
             \/ s = n /\ p - len \in 1..Len(cmds) /\ p = len + (p - len) /\ cmds[p - len] = c
  <2>1. s \in 1..(n + barriers) /\ p \in 1..Len(total_cmd'[s]) /\ total_cmd'[s][p] = c
    BY <1>2, <1>9 DEF Holds
  <2>2. CASE s \in 1..(n - 1)
    BY <1>1, <1>2, <2>1, <2>2 DEF Holds
  <2>3. CASE s = n
    <3>1. p \in 1..(len + Len(cmds))
      BY <1>6, <2>1, <2>3
    <3>2. CASE p \in 1..len
      BY <1>1, <1>2, <1>4, <1>6, <2>1, <2>3, <3>2 DEF Holds
    <3>3. CASE p \notin 1..len
      <4>1. p - len \in 1..Len(cmds) /\ p = len + (p - len)
        BY <1>5, <3>1, <3>3
      <4>. QED  BY <1>6, <2>1, <2>3, <4>1
    <3>. QED  BY <3>2, <3>3
  <2>4. CASE s = n + 1 /\ barriers = 1
    <3>1. 1..Len(total_cmd'[s]) = {}
      BY <1>2, <2>4
    <3>. QED  BY <2>1, <3>1
  <2>. QED  BY <1>2, <2>1, <2>2, <2>3, <2>4
<1>10. ASSUME NEW k \in 1..Len(cmds), cmds[k] = c PROVE Holds(total_cmd', n, len + k, c)
  <2>1. n \in 1..(n + barriers) /\ len + k \in 1..(len + Len(cmds))
    BY <1>2, <1>5
  <2>. QED  BY <1>2, <1>6, <1>10, <2>1 DEF Holds
<1>11. ASSUME c \notin S PROVE PlacesOf(c)' = PlacesOf(c)
  <2>1. \A k \in 1..Len(cmds) : cmds[k] # c
    BY <1>5, <1>11 DEF ToSet
  <2>2. \A s, p : Holds(total_cmd, s, p, c) <=> Holds(total_cmd', s, p, c)
    BY <1>8, <1>9, <2>1
  <2>. QED  BY <1>2, <1>7, <2>2, InPlaces
<1>12. ASSUME c \in S, Absent(c) PROVE Single(c)'
  <2>1. PICK k \in 1..Len(cmds) : cmds[k] = c
    BY <1>5, <1>12 DEF ToSet
  <2>2. \A s, p : ~Holds(total_cmd, s, p, c)
    <3>1. ASSUME NEW s, NEW p, Holds(total_cmd, s, p, c) PROVE <<s, p>> \in PlacesIn(total_cmd, c)
      BY <3>1, InPlaces
    <3>2. PlacesIn(total_cmd, c) = {}
      BY <1>7, <1>12 DEF Absent
    <3>. QED  BY <3>1, <3>2
  <2>3. \A s, p : Holds(total_cmd', s, p, c) <=> s = n /\ p = len + k
    <3>1. ASSUME NEW s, NEW p, Holds(total_cmd', s, p, c) PROVE s = n /\ p = len + k
      <4>1. s = n /\ p - len \in 1..Len(cmds) /\ p = len + (p - len) /\ cmds[p - len] = c
        BY <1>9, <2>2, <3>1
      <4>2. p - len = k
        BY <1>5, <2>1, <4>1 DEF Distinct
      <4>. QED  BY <4>1, <4>2
    <3>2. Holds(total_cmd', n, len + k, c)
      BY <1>10, <2>1
    <3>. QED  BY <3>1, <3>2
  <2>4. PlacesOf(c)' = {<<n, len + k>>}
    BY <1>2, <1>7, <2>3, InPlaces
  <2>. QED  BY <2>4 DEF Single
<1>. QED  BY <1>11, <1>12

(* How many turns the loop over the scores of head h has made, and whether *)
(* its softmax is taken.                                                   *)
ScoreTurns(h) ==
  IF h < i THEN Tiles + 1
  ELSE IF h = i THEN IF stage \in {"write", "last_write"} THEN 0
                     ELSE IF stage \in {"score0", "last_score"} THEN j ELSE Tiles + 1
  ELSE IF h = i + 1 THEN IF stage = "score1" THEN j
                         ELSE IF stage \in {"context0", "context1"} THEN Tiles + 1 ELSE 0
  ELSE 0

SoftmaxTaken(h) ==
  \/ h < i
  \/ h = i /\ stage = "score1" /\ j > 0
  \/ h = i /\ stage \in {"context0", "context1", "last_context", "done"}
  \/ h = i + 1 /\ stage = "context0" /\ j > 0
  \/ h = i + 1 /\ stage = "context1"

(* A turn multiplies a tile, and moves the one before it.                  *)
ScoresCounted ==
  \A h \in Nat : h < NumItr =>
    /\ \A n \in Nat : n < Rows =>
         /\ n < ScoreTurns(h) * Tile => Single(Item("SMAC", h, n))
         /\ ~(n < ScoreTurns(h) * Tile) => Absent(Item("SMAC", h, n))
    /\ \A t \in Nat :
         /\ t + 1 < ScoreTurns(h) => Single(Item("SMVSB", h, t))
         /\ ~(t + 1 < ScoreTurns(h)) => Absent(Item("SMVSB", h, t))

SoftmaxCounted ==
  \A h \in Nat : h < NumItr =>
    /\ SoftmaxTaken(h) => Single(Item("SFM", h, 0))
    /\ ~SoftmaxTaken(h) => Absent(Item("SFM", h, 0))

(* Other commands stay where they are.                                     *)
LEMMA SingleKept ==
  ASSUME total_cmd \in Trace, NEW ops, NEW S, NEW barriers \in {0, 1}, Adds(ops, S, barriers),
         NEW c, c \notin S
  PROVE  (Single(c) => Single(c)') /\ (Absent(c) => Absent(c)')
<1>1. PlacesOf(c)' = PlacesOf(c)
  BY PlacesAdded
<1>. QED  BY <1>1 DEF Single, Absent

(* Items differ by operation, head and number.                             *)
LEMMA ItemIs ==
  ASSUME NEW op, NEW h, NEW n, NEW op2, NEW h2, NEW n2
  PROVE  /\ Item(op, h, n) = Item(op2, h2, n2) <=> op = op2 /\ h = h2 /\ n = n2
         /\ Item(op, h, n).op = op
BY DEF Item

(* Which items are in a list, ...                                          *)
LEMMA InThose ==
  ASSUME NEW op, NEW h, NEW from \in Int, NEW upto \in Int, NEW op2, NEW h2, NEW n2
  PROVE  Item(op2, h2, n2) \in Those(op, h, from, upto)
           <=> op2 = op /\ h2 = h /\ n2 \in from..(upto - 1)
BY ItemIs DEF Those

(* and which rows in a tile.                                               *)
LEMMA InTileRows ==
  ASSUME args \in Inputs, NEW h, NEW t \in Nat, NEW h2, NEW n \in Nat, n < Rows
  PROVE  Item("SMAC", h2, n) \in TileRows(h, t) <=> h2 = h /\ n >= t * Tile /\ n < (t + 1) * Tile
<1>1. t * Tile \in Nat /\ (t + 1) * Tile \in Nat /\ Rows \in Nat
  BY SizesPositive, SizesType
<1>2. Least((t + 1) * Tile, Rows) \in Int
  BY <1>1 DEF Least
<1>3. Item("SMAC", h2, n) \in TileRows(h, t)
        <=> h2 = h /\ n \in (t * Tile)..(Least((t + 1) * Tile, Rows) - 1)
  BY <1>1, <1>2, InThose DEF TileRows
<1>4. n \in (t * Tile)..(Least((t + 1) * Tile, Rows) - 1) <=> n >= t * Tile /\ n < (t + 1) * Tile
  <2> DEFINE a == t * Tile
             b == (t + 1) * Tile
  <2>1. a \in Nat /\ b \in Nat
    BY <1>1
  <2> HIDE DEF a, b
  <2>2. n \in a..(Least(b, Rows) - 1) <=> n >= a /\ n < b
    BY <1>1, <2>1 DEF Least
  <2>. QED  BY <2>2 DEF a, b
<1>. QED  BY <1>3, <1>4

(* A turn of the loop over the scores of head x.                           *)
LEMMA ScoreTurn ==
  ASSUME TraceOK, ScoresCounted, NEW ops, NEW S, NEW barriers \in {0, 1}, Adds(ops, S, barriers),
         NEW x \in Nat, x < NumItr, ScoreTurns(x) = j,
         \A h \in Nat : h < NumItr =>
           ScoreTurns(h)' = (IF h = x THEN j + 1 ELSE ScoreTurns(h)) /\ ScoreTurns(h) \in Nat,
         \A c \in S : c.op = "SMAC" => c \in TileRows(x, j),
         \A c \in S : c.op = "SMVSB" => c \in MovedAt("SMVSB", x),
         TileRows(x, j) \subseteq S, MovedAt("SMVSB", x) \subseteq S
  PROVE  ScoresCounted'
<1>1. /\ total_cmd \in Trace /\ args \in Inputs /\ args' = args /\ j \in Nat /\ Rows \in Nat
      /\ Rows' = Rows /\ NumItr' = NumItr /\ Tile \in Nat
  BY TraceFacts, ArgsKept, SizesPositive DEF Adds
<1>2. ASSUME NEW h \in Nat, h < NumItr, NEW n \in Nat, n < Rows
      PROVE  /\ n < ScoreTurns(h)' * Tile => Single(Item("SMAC", h, n))'
             /\ ~(n < ScoreTurns(h)' * Tile) => Absent(Item("SMAC", h, n))'
  <2> DEFINE c == Item("SMAC", h, n)
  <2>1. c \in S <=> h = x /\ n >= j * Tile /\ n < (j + 1) * Tile
    <3>1. c \in S <=> c \in TileRows(x, j)
      BY ItemIs
    <3>. QED  BY <1>1, <1>2, <3>1, InTileRows
  <2>2. /\ n < ScoreTurns(h) * Tile => Single(c)
        /\ ~(n < ScoreTurns(h) * Tile) => Absent(c)
    BY <1>2 DEF ScoresCounted
  <2>3. /\ c \notin S => (Single(c) => Single(c)') /\ (Absent(c) => Absent(c)')
        /\ c \in S /\ Absent(c) => Single(c)'
    BY <1>1, SingleKept, PlacesAdded
  <2> HIDE DEF c
  <2>4. CASE h = x
    <3>1. ScoreTurns(h) = j /\ ScoreTurns(h)' = j + 1
      BY <1>2, <2>4
    <3>2. j * Tile \in Nat /\ (j + 1) * Tile \in Nat /\ j * Tile <= (j + 1) * Tile
      BY <1>1
    <3>. QED  BY <2>1, <2>2, <2>3, <2>4, <3>1, <3>2 DEF c
  <2>5. CASE h # x
    <3>1. ScoreTurns(h)' = ScoreTurns(h)
      BY <1>2, <2>5
    <3>. QED  BY <2>1, <2>2, <2>3, <2>5, <3>1 DEF c
  <2>. QED  BY <2>4, <2>5
<1>3. ASSUME NEW h \in Nat, h < NumItr, NEW t \in Nat
      PROVE  /\ t + 1 < ScoreTurns(h)' => Single(Item("SMVSB", h, t))'
             /\ ~(t + 1 < ScoreTurns(h)') => Absent(Item("SMVSB", h, t))'
  <2> DEFINE c == Item("SMVSB", h, t)
  <2>1. c \in S <=> h = x /\ t + 1 = j
    <3>1. c \in S <=> c \in MovedAt("SMVSB", x)
      BY ItemIs
    <3>2. c \in MovedAt("SMVSB", x) <=> h = x /\ t + 1 = j
      <4>1. t + 1 = j <=> j > 0 /\ t = j - 1
        BY <1>1
      <4>. QED  BY <4>1, ItemIs DEF MovedAt
    <3>. QED  BY <3>1, <3>2
  <2>2. /\ t + 1 < ScoreTurns(h) => Single(c)
        /\ ~(t + 1 < ScoreTurns(h)) => Absent(c)
    BY <1>3 DEF ScoresCounted
  <2>3. /\ c \notin S => (Single(c) => Single(c)') /\ (Absent(c) => Absent(c)')
        /\ c \in S /\ Absent(c) => Single(c)'
    BY <1>1, SingleKept, PlacesAdded
  <2> HIDE DEF c
  <2>4. CASE h = x
    <3>1. ScoreTurns(h) = j /\ ScoreTurns(h)' = j + 1
      BY <1>3, <2>4
    <3>. QED  BY <1>1, <2>1, <2>2, <2>3, <2>4, <3>1 DEF c
  <2>5. CASE h # x
    <3>1. ScoreTurns(h)' = ScoreTurns(h)
      BY <1>3, <2>5
    <3>. QED  BY <2>1, <2>2, <2>3, <2>5, <3>1 DEF c
  <2>. QED  BY <2>4, <2>5
<1>. QED  BY <1>1, <1>2, <1>3 DEF ScoresCounted

(* Other steps leave the scores alone.                                     *)
LEMMA NoScore ==
  ASSUME TraceOK, ScoresCounted, NEW ops, NEW S, NEW barriers \in {0, 1}, Adds(ops, S, barriers),
         \A h \in Nat : h < NumItr => ScoreTurns(h)' = ScoreTurns(h),
         "SMAC" \notin ops, "SMVSB" \notin ops
  PROVE  ScoresCounted'
<1>1. total_cmd \in Trace /\ args' = args /\ Rows' = Rows /\ NumItr' = NumItr
  BY TraceFacts, ArgsKept DEF Adds
<1>2. \A c \in S : c.op \in ops
  BY DEF Adds, Lists
<1>3. \A op \in {"SMAC", "SMVSB"} : \A h, n : Item(op, h, n) \notin S
  BY <1>2, ItemIs
<1>4. \A op \in {"SMAC", "SMVSB"} : \A h, n :
        /\ Single(Item(op, h, n)) => Single(Item(op, h, n))'
        /\ Absent(Item(op, h, n)) => Absent(Item(op, h, n))'
  BY <1>1, <1>3, SingleKept
<1>. QED  BY <1>1, <1>4 DEF ScoresCounted

(* The softmax of at most one head is taken in a step.                     *)
LEMMA SoftmaxStep ==
  ASSUME TraceOK, SoftmaxCounted, NEW ops, NEW S, NEW barriers \in {0, 1}, Adds(ops, S, barriers),
         \A h \in Nat : h < NumItr => (SoftmaxTaken(h)' <=> SoftmaxTaken(h) \/ Item("SFM", h, 0) \in S),
         \A h \in Nat : h < NumItr => ~(SoftmaxTaken(h) /\ Item("SFM", h, 0) \in S)
  PROVE  SoftmaxCounted'
<1>1. total_cmd \in Trace /\ args' = args /\ NumItr' = NumItr
  BY TraceFacts, ArgsKept DEF Adds
<1>2. ASSUME NEW h \in Nat, h < NumItr
      PROVE  /\ SoftmaxTaken(h)' => Single(Item("SFM", h, 0))'
             /\ ~SoftmaxTaken(h)' => Absent(Item("SFM", h, 0))'
  <2> DEFINE c == Item("SFM", h, 0)
  <2>1. (SoftmaxTaken(h) => Single(c)) /\ (~SoftmaxTaken(h) => Absent(c))
    BY <1>2 DEF SoftmaxCounted
  <2>2. /\ c \notin S => (Single(c) => Single(c)') /\ (Absent(c) => Absent(c)')
        /\ c \in S /\ Absent(c) => Single(c)'
    BY <1>1, SingleKept, PlacesAdded
  <2>3. (SoftmaxTaken(h)' <=> SoftmaxTaken(h) \/ c \in S) /\ ~(SoftmaxTaken(h) /\ c \in S)
    BY <1>2
  <2> HIDE DEF c
  <2>. QED  BY <2>1, <2>2, <2>3 DEF c
<1>. QED  BY <1>1, <1>2 DEF SoftmaxCounted

(* Other steps leave the softmaxes alone.                                  *)
LEMMA NoSoftmax ==
  ASSUME TraceOK, SoftmaxCounted, NEW ops, NEW S, NEW barriers \in {0, 1}, Adds(ops, S, barriers),
         "SFM" \notin ops, \A h \in Nat : h < NumItr => (SoftmaxTaken(h)' <=> SoftmaxTaken(h))
  PROVE  SoftmaxCounted'
<1>1. \A c \in S : c.op \in ops
  BY DEF Adds, Lists
<1>2. \A h : Item("SFM", h, 0) \notin S
  BY <1>1, ItemIs
<1>. QED  BY <1>2, SoftmaxStep

(* What the lemmas about the actions need of the counters.                 *)
LEMMA CountersFacts ==
  ASSUME TraceOK, args' = args
  PROVE  /\ i \in Nat /\ j \in Nat /\ Tiles \in Nat /\ Tiles > 0 /\ Parts \in Nat /\ Parts > 0
         /\ NumItr \in Nat /\ Tiles' = Tiles /\ Parts' = Parts /\ NumItr' = NumItr
         /\ TurnInRange /\ HeadInRange
BY TraceFacts, ArgsKept DEF TraceOK, CountersOK

(* Turns are counted.                                                      *)
LEMMA ScoreTurnsType ==
  ASSUME TraceOK, NEW h \in Nat
  PROVE  ScoreTurns(h) \in Nat
BY TraceFacts DEF ScoreTurns

(* WriteVector makes no turn.                                              *)
LEMMA OnceWriteVector ==
  ASSUME TraceOK, ScoresCounted, SoftmaxCounted, WriteVector
  PROVE  ScoresCounted' /\ SoftmaxCounted'
<1> DEFINE S == FirstPieces("WRGB", i, 1, 1) \cup DummyAt
<1>1. Leaves("write", "score0") /\ Adds({"WRGB", "DUMMY"}, S, 1)
  BY WriteVectorStep
<1> HIDE DEF S
<1>2. args' = args /\ 1 \in {0, 1}
  BY <1>1, BarriersAre DEF Adds
<1>3. /\ i \in Nat /\ j \in Nat /\ Tiles \in Nat /\ Tiles > 0 /\ Parts \in Nat /\ Parts > 0
      /\ NumItr \in Nat /\ Tiles' = Tiles /\ Parts' = Parts /\ NumItr' = NumItr
      /\ TurnInRange /\ HeadInRange
  BY <1>2, CountersFacts
<1>4. ASSUME NEW h \in Nat, h < NumItr PROVE ScoreTurns(h)' = ScoreTurns(h)
  BY <1>1, <1>3, <1>4 DEF Leaves, ScoreTurns, TurnInRange, HeadInRange
<1>5. ScoresCounted'
  BY <1>1, <1>2, <1>4, NoScore
<1>6. ASSUME NEW h \in Nat, h < NumItr PROVE SoftmaxTaken(h)' <=> SoftmaxTaken(h)
  BY <1>1, <1>3, <1>6 DEF Leaves, SoftmaxTaken, TurnInRange, HeadInRange
<1>7. SoftmaxCounted'
  BY <1>1, <1>2, <1>6, NoSoftmax
<1>. QED  BY <1>5, <1>7

(* Score0 is a turn of the first head.                                     *)
LEMMA OnceScore0 ==
  ASSUME TraceOK, ScoresCounted, SoftmaxCounted, Score0
  PROVE  ScoresCounted' /\ SoftmaxCounted'
<1> DEFINE S == Score0Adds
<1>1. Turns("score0", Tiles, "score1", i) /\ Adds({"SMAC", "SMVSB", "WRGB"}, S, Barriers(Tiles))
  BY Score0Step
<1> HIDE DEF S
<1>2. args' = args /\ Barriers(Tiles) \in {0, 1}
  BY <1>1, BarriersAre DEF Adds
<1>3. /\ i \in Nat /\ j \in Nat /\ Tiles \in Nat /\ Tiles > 0 /\ Parts \in Nat /\ Parts > 0
      /\ NumItr \in Nat /\ Tiles' = Tiles /\ Parts' = Parts /\ NumItr' = NumItr
      /\ TurnInRange /\ HeadInRange
  BY <1>2, CountersFacts
<1>4. ASSUME NEW h \in Nat, h < NumItr
      PROVE  ScoreTurns(h)' = (IF h = i THEN j + 1 ELSE ScoreTurns(h)) /\ ScoreTurns(h) \in Nat
  <2>1. ScoreTurns(h)' = (IF h = i THEN j + 1 ELSE ScoreTurns(h))
    <3>1. CASE j < Tiles
      <4>1. j' = j + 1 /\ i' = i /\ stage' = stage /\ stage = "score0"
        BY <1>1, <3>1 DEF Turns
      <4>. QED  BY <1>3, <1>4, <4>1 DEF ScoreTurns
    <3>2. CASE ~(j < Tiles)
      <4>1. j' = 0 /\ i' = i /\ stage' = "score1" /\ stage = "score0"
        BY <1>1, <3>2 DEF Turns
      <4>2. j = Tiles
        BY <1>3, <3>2, <4>1 DEF TurnInRange
      <4>. QED  BY <1>3, <1>4, <4>1, <4>2 DEF ScoreTurns
    <3>. QED  BY <3>1, <3>2
  <2>. QED  BY <2>1, ScoreTurnsType
<1>5. ScoresCounted'
  <2>1. i \in Nat /\ i < NumItr /\ ScoreTurns(i) = j
    BY <1>1, <1>3 DEF Turns, ScoreTurns, HeadInRange
  <2>2. /\ TileRows(i, j) \subseteq S /\ MovedAt("SMVSB", i) \subseteq S
        /\ \A c \in S : c.op = "SMAC" => c \in TileRows(i, j)
        /\ \A c \in S : c.op = "SMVSB" => c \in MovedAt("SMVSB", i)
    <3>1. /\ \A c \in TileRows(i, j) : c.op = "SMAC"
          /\ \A c \in MovedAt("SMVSB", i) : c.op = "SMVSB"
      BY <1>3, ScoreMacList, MovedList, TraceFacts, OpsAre DEF Lists
    <3>2. \A c \in ToSet(ScorePiece(i + 1)) : c.op = "WRGB"
      BY <1>3, ScorePieceList, TraceFacts DEF Lists
    <3>. QED  BY <3>1, <3>2 DEF S, Score0Adds
  <2>. QED  BY <1>1, <1>2, <1>4, <2>1, <2>2, ScoreTurn
<1>6. ASSUME NEW h \in Nat, h < NumItr PROVE SoftmaxTaken(h)' <=> SoftmaxTaken(h)
  BY <1>1, <1>3, <1>6 DEF Turns, SoftmaxTaken, TurnInRange, HeadInRange
<1>7. SoftmaxCounted'
  BY <1>1, <1>2, <1>6, NoSoftmax
<1>. QED  BY <1>5, <1>7

(* Score1 is one of the second, its first with the softmax of the first.   *)
LEMMA OnceScore1 ==
  ASSUME TraceOK, ScoresCounted, SoftmaxCounted, Score1
  PROVE  ScoresCounted' /\ SoftmaxCounted'
<1> DEFINE S == Score1Adds
<1>1. Turns("score1", Tiles, "context0", i) /\ Adds({"SMAC", "SMVSB", "SFM", "MVGB"}, S, Barriers(Tiles))
  BY Score1Step
<1> HIDE DEF S
<1>2. args' = args /\ Barriers(Tiles) \in {0, 1}
  BY <1>1, BarriersAre DEF Adds
<1>3. /\ i \in Nat /\ j \in Nat /\ Tiles \in Nat /\ Tiles > 0 /\ Parts \in Nat /\ Parts > 0
      /\ NumItr \in Nat /\ Tiles' = Tiles /\ Parts' = Parts /\ NumItr' = NumItr
      /\ TurnInRange /\ HeadInRange
  BY <1>2, CountersFacts
<1>4. ASSUME NEW h \in Nat, h < NumItr
      PROVE  ScoreTurns(h)' = (IF h = i + 1 THEN j + 1 ELSE ScoreTurns(h)) /\ ScoreTurns(h) \in Nat
  <2>1. ScoreTurns(h)' = (IF h = i + 1 THEN j + 1 ELSE ScoreTurns(h))
    <3>1. CASE j < Tiles
      <4>1. j' = j + 1 /\ i' = i /\ stage' = stage /\ stage = "score1"
        BY <1>1, <3>1 DEF Turns
      <4>. QED  BY <1>3, <1>4, <4>1 DEF ScoreTurns
    <3>2. CASE ~(j < Tiles)
      <4>1. j' = 0 /\ i' = i /\ stage' = "context0" /\ stage = "score1"
        BY <1>1, <3>2 DEF Turns
      <4>2. j = Tiles
        BY <1>3, <3>2, <4>1 DEF TurnInRange
      <4>. QED  BY <1>3, <1>4, <4>1, <4>2 DEF ScoreTurns
    <3>. QED  BY <3>1, <3>2
  <2>. QED  BY <2>1, ScoreTurnsType
<1>5. ScoresCounted'
  <2>1. i + 1 \in Nat /\ i + 1 < NumItr /\ ScoreTurns(i + 1) = j
    BY <1>1, <1>3 DEF Turns, ScoreTurns, HeadInRange
  <2>2. /\ TileRows(i + 1, j) \subseteq S /\ MovedAt("SMVSB", i + 1) \subseteq S
        /\ \A c \in S : c.op = "SMAC" => c \in TileRows(i + 1, j)
        /\ \A c \in S : c.op = "SMVSB" => c \in MovedAt("SMVSB", i + 1)
    <3>1. /\ \A c \in TileRows(i + 1, j) : c.op = "SMAC"
          /\ \A c \in MovedAt("SMVSB", i + 1) : c.op = "SMVSB"
      BY <1>3, ScoreMacList, MovedList, TraceFacts, OpsAre DEF Lists
    <3>2. /\ \A c \in ToSet(ContextVector(i, Tiles)) : c.op = "MVGB"
          /\ \A c \in SoftmaxAt(i) : c.op = "SFM"
      BY <1>3, ContextVectorList, SoftmaxList, TraceFacts DEF Lists
    <3>. QED  BY <3>1, <3>2 DEF S, Score1Adds
  <2>. QED  BY <1>1, <1>2, <1>4, <2>1, <2>2, ScoreTurn
<1>6. \A h : Item("SFM", h, 0) \in S <=> h = i /\ j = 0
  <2>1. /\ \A c \in TileRows(i + 1, j) : c.op = "SMAC"
        /\ \A c \in MovedAt("SMVSB", i + 1) : c.op = "SMVSB"
        /\ \A c \in ToSet(ContextVector(i, Tiles)) : c.op = "MVGB"
    BY <1>3, ScoreMacList, MovedList, ContextVectorList, TraceFacts, OpsAre DEF Lists
  <2>2. \A h : Item("SFM", h, 0) \in S <=> Item("SFM", h, 0) \in SoftmaxAt(i)
    BY <2>1, ItemIs DEF S, Score1Adds
  <2>. QED  BY <2>2, ItemIs DEF SoftmaxAt
<1>7. ASSUME NEW h \in Nat, h < NumItr
      PROVE  /\ SoftmaxTaken(h)' <=> SoftmaxTaken(h) \/ (h = i /\ j = 0)
             /\ ~(SoftmaxTaken(h) /\ h = i /\ j = 0)
  BY <1>1, <1>3, <1>7 DEF Turns, SoftmaxTaken, TurnInRange, HeadInRange
<1>8. SoftmaxCounted'
  BY <1>1, <1>2, <1>6, <1>7, SoftmaxStep
<1>. QED  BY <1>5, <1>8

(* The first turn of context0 takes the softmax of the second.             *)
LEMMA OnceContext0 ==
  ASSUME TraceOK, ScoresCounted, SoftmaxCounted, Context0
  PROVE  ScoresCounted' /\ SoftmaxCounted'
<1> DEFINE S == Context0Adds
<1>1. Turns("context0", Parts, "context1", i) /\ Adds({"CMAC", "CMVSB", "SFM", "MVGB"}, S, Barriers(Parts))
  BY Context0Step
<1> HIDE DEF S
<1>2. args' = args /\ Barriers(Parts) \in {0, 1}
  BY <1>1, BarriersAre DEF Adds
<1>3. /\ i \in Nat /\ j \in Nat /\ Tiles \in Nat /\ Tiles > 0 /\ Parts \in Nat /\ Parts > 0
      /\ NumItr \in Nat /\ Tiles' = Tiles /\ Parts' = Parts /\ NumItr' = NumItr
      /\ TurnInRange /\ HeadInRange
  BY <1>2, CountersFacts
<1>4. ASSUME NEW h \in Nat, h < NumItr PROVE ScoreTurns(h)' = ScoreTurns(h)
  BY <1>1, <1>3, <1>4 DEF Turns, ScoreTurns, TurnInRange, HeadInRange
<1>5. ScoresCounted'
  BY <1>1, <1>2, <1>4, NoScore
<1>6. \A h : Item("SFM", h, 0) \in S <=> h = i + 1 /\ j = 0
  <2>1. /\ \A c \in PartAt(i) : c.op = "CMAC"
        /\ \A c \in MovedAt("CMVSB", i) : c.op = "CMVSB"
        /\ \A c \in ToSet(ContextVector(i + 1, Parts)) : c.op = "MVGB"
    BY <1>3, ContextMacList, MovedList, ContextVectorList, TraceFacts, OpsAre DEF Lists
  <2>2. \A h : Item("SFM", h, 0) \in S <=> Item("SFM", h, 0) \in SoftmaxAt(i + 1)
    BY <2>1, ItemIs DEF S, Context0Adds
  <2>. QED  BY <2>2, ItemIs DEF SoftmaxAt
<1>7. ASSUME NEW h \in Nat, h < NumItr
      PROVE  /\ SoftmaxTaken(h)' <=> SoftmaxTaken(h) \/ (h = i + 1 /\ j = 0)
             /\ ~(SoftmaxTaken(h) /\ h = i + 1 /\ j = 0)
  BY <1>1, <1>3, <1>7 DEF Turns, SoftmaxTaken, TurnInRange, HeadInRange
<1>8. SoftmaxCounted'
  BY <1>1, <1>2, <1>6, <1>7, SoftmaxStep
<1>. QED  BY <1>5, <1>8

(* After context1 both heads of the pair are finished.                     *)
LEMMA OnceContext1 ==
  ASSUME TraceOK, ScoresCounted, SoftmaxCounted, Context1
  PROVE  ScoresCounted' /\ SoftmaxCounted'
<1> DEFINE S == PartAt(i) \cup MovedAt("CMVSB", i)
<1>1. Turns("context1", Parts, StageOf(NextPair), NextPair) /\ Adds({"CMAC", "CMVSB"}, S, Barriers(Parts))
  BY Context1Step
<1> HIDE DEF S
<1>2. args' = args /\ Barriers(Parts) \in {0, 1}
  BY <1>1, BarriersAre DEF Adds
<1>3. /\ i \in Nat /\ j \in Nat /\ Tiles \in Nat /\ Tiles > 0 /\ Parts \in Nat /\ Parts > 0
      /\ NumItr \in Nat /\ Tiles' = Tiles /\ Parts' = Parts /\ NumItr' = NumItr
      /\ TurnInRange /\ HeadInRange
  BY <1>2, CountersFacts
<1>4. \/ i' = i /\ stage' = stage /\ stage = "context1"
      \/ /\ i' = i + 2 /\ stage' \in {"write", "last_write", "done"} /\ stage = "context1"
         /\ i + 2 < NumItr => stage' # "done"
  <2>1. CASE j < Parts
    BY <1>1, <2>1 DEF Turns
  <2>2. CASE ~(j < Parts)
    <3>1. i' = i + 2 /\ stage' = StageOf(i + 2) /\ stage = "context1" /\ i + 2 \in Nat
      BY <1>1, <1>3, <2>2 DEF Turns, NextPair
    <3>2. (i + 2) + 1 < NumItr \/ i + 2 = NumItr - 1 \/ i + 2 >= NumItr
      BY <1>3
    <3>3. i + 2 < NumItr => ~(i + 2 >= NumItr)
      BY <1>3
    <3>. QED  BY <1>3, <3>1, <3>2, <3>3, StageOfHead
  <2>. QED  BY <2>1, <2>2
<1>5. ASSUME NEW h \in Nat, h < NumItr PROVE ScoreTurns(h)' = ScoreTurns(h)
  <2>1. CASE i' = i /\ stage' = stage /\ stage = "context1"
    BY <1>3, <1>5, <2>1 DEF ScoreTurns
  <2>2. CASE /\ i' = i + 2 /\ stage' \in {"write", "last_write", "done"} /\ stage = "context1"
             /\ i + 2 < NumItr => stage' # "done"
    <3>1. CASE h <= i + 1
      <4>1. h < i + 2 /\ (h < i \/ h = i \/ (h = i + 1 /\ ~(h < i) /\ h # i))
        BY <1>3, <1>5, <3>1
      <4>2. ScoreTurns(h) = Tiles + 1
        BY <2>2, <4>1 DEF ScoreTurns
      <4>3. ScoreTurns(h)' = Tiles + 1
        BY <1>3, <2>2, <4>1 DEF ScoreTurns
      <4>. QED  BY <4>2, <4>3
    <3>2. CASE ~(h <= i + 1)
      <4>1. ~(h < i) /\ h # i /\ h # i + 1 /\ ~(h < i + 2)
        BY <1>3, <1>5, <3>2
      <4>2. ScoreTurns(h) = 0
        BY <4>1 DEF ScoreTurns
      <4>3. CASE h = i + 2
        BY <1>5, <2>2, <4>1, <4>3 DEF ScoreTurns
      <4>4. CASE h # i + 2
        <5>1. stage' \notin {"score1", "context0", "context1"}
          BY <2>2
        <5>2. ScoreTurns(h)' = 0
          BY <2>2, <4>1, <4>4, <5>1 DEF ScoreTurns
        <5>. QED  BY <4>2, <5>2
      <4>. QED  BY <4>2, <4>3, <4>4
    <3>. QED  BY <3>1, <3>2
  <2>. QED  BY <1>4, <2>1, <2>2
<1>6. ScoresCounted'
  BY <1>1, <1>2, <1>5, NoScore
<1>7. ASSUME NEW h \in Nat, h < NumItr PROVE SoftmaxTaken(h)' <=> SoftmaxTaken(h)
  <2>1. CASE i' = i /\ stage' = stage /\ stage = "context1"
    BY <1>3, <1>7, <2>1 DEF SoftmaxTaken
  <2>2. CASE /\ i' = i + 2 /\ stage' \in {"write", "last_write", "done"} /\ stage = "context1"
             /\ i + 2 < NumItr => stage' # "done"
    BY <1>3, <1>7, <2>2 DEF SoftmaxTaken
  <2>. QED  BY <1>4, <2>1, <2>2
<1>8. SoftmaxCounted'
  BY <1>1, <1>2, <1>7, NoSoftmax
<1>. QED  BY <1>6, <1>8

(* The last head alone: no turn, ...                                       *)
LEMMA OnceLastWriteVector ==
  ASSUME TraceOK, ScoresCounted, SoftmaxCounted, LastWriteVector
  PROVE  ScoresCounted' /\ SoftmaxCounted'
<1> DEFINE S == FirstPieces("WRGB", i, 1, 1)
<1>1. Leaves("last_write", "last_score") /\ Adds({"WRGB"}, S, 1)
  BY LastWriteVectorStep
<1> HIDE DEF S
<1>2. args' = args /\ 1 \in {0, 1}
  BY <1>1, BarriersAre DEF Adds
<1>3. /\ i \in Nat /\ j \in Nat /\ Tiles \in Nat /\ Tiles > 0 /\ Parts \in Nat /\ Parts > 0
      /\ NumItr \in Nat /\ Tiles' = Tiles /\ Parts' = Parts /\ NumItr' = NumItr
      /\ TurnInRange /\ HeadInRange
  BY <1>2, CountersFacts
<1>4. ASSUME NEW h \in Nat, h < NumItr PROVE ScoreTurns(h)' = ScoreTurns(h)
  BY <1>1, <1>3, <1>4 DEF Leaves, ScoreTurns, TurnInRange, HeadInRange
<1>5. ScoresCounted'
  BY <1>1, <1>2, <1>4, NoScore
<1>6. ASSUME NEW h \in Nat, h < NumItr PROVE SoftmaxTaken(h)' <=> SoftmaxTaken(h)
  BY <1>1, <1>3, <1>6 DEF Leaves, SoftmaxTaken, TurnInRange, HeadInRange
<1>7. SoftmaxCounted'
  BY <1>1, <1>2, <1>6, NoSoftmax
<1>. QED  BY <1>5, <1>7

(* the turns of its scores, ...                                            *)
LEMMA OnceLastScore ==
  ASSUME TraceOK, ScoresCounted, SoftmaxCounted, LastScore
  PROVE  ScoresCounted' /\ SoftmaxCounted'
<1> DEFINE S == TileRows(i, j) \cup MovedAt("SMVSB", i)
<1>1. Turns("last_score", Tiles, "last_softmax", i) /\ Adds({"SMAC", "SMVSB"}, S, Barriers(Tiles))
  BY LastScoreStep
<1> HIDE DEF S
<1>2. args' = args /\ Barriers(Tiles) \in {0, 1}
  BY <1>1, BarriersAre DEF Adds
<1>3. /\ i \in Nat /\ j \in Nat /\ Tiles \in Nat /\ Tiles > 0 /\ Parts \in Nat /\ Parts > 0
      /\ NumItr \in Nat /\ Tiles' = Tiles /\ Parts' = Parts /\ NumItr' = NumItr
      /\ TurnInRange /\ HeadInRange
  BY <1>2, CountersFacts
<1>4. ASSUME NEW h \in Nat, h < NumItr
      PROVE  ScoreTurns(h)' = (IF h = i THEN j + 1 ELSE ScoreTurns(h)) /\ ScoreTurns(h) \in Nat
  <2>1. ScoreTurns(h)' = (IF h = i THEN j + 1 ELSE ScoreTurns(h))
    <3>1. CASE j < Tiles
      <4>1. j' = j + 1 /\ i' = i /\ stage' = stage /\ stage = "last_score"
        BY <1>1, <3>1 DEF Turns
      <4>. QED  BY <1>3, <1>4, <4>1 DEF ScoreTurns
    <3>2. CASE ~(j < Tiles)
      <4>1. j' = 0 /\ i' = i /\ stage' = "last_softmax" /\ stage = "last_score"
        BY <1>1, <3>2 DEF Turns
      <4>2. j = Tiles
        BY <1>3, <3>2, <4>1 DEF TurnInRange
      <4>. QED  BY <1>3, <1>4, <4>1, <4>2 DEF ScoreTurns
    <3>. QED  BY <3>1, <3>2
  <2>. QED  BY <2>1, ScoreTurnsType
<1>5. ScoresCounted'
  <2>1. i \in Nat /\ i < NumItr /\ ScoreTurns(i) = j
    BY <1>1, <1>3 DEF Turns, ScoreTurns, HeadInRange
  <2>2. /\ TileRows(i, j) \subseteq S /\ MovedAt("SMVSB", i) \subseteq S
        /\ \A c \in S : c.op = "SMAC" => c \in TileRows(i, j)
        /\ \A c \in S : c.op = "SMVSB" => c \in MovedAt("SMVSB", i)
    <3>1. /\ \A c \in TileRows(i, j) : c.op = "SMAC"
          /\ \A c \in MovedAt("SMVSB", i) : c.op = "SMVSB"
      BY <1>3, ScoreMacList, MovedList, TraceFacts, OpsAre DEF Lists
    <3>. QED  BY <3>1 DEF S
  <2>. QED  BY <1>1, <1>2, <1>4, <2>1, <2>2, ScoreTurn
<1>6. ASSUME NEW h \in Nat, h < NumItr PROVE SoftmaxTaken(h)' <=> SoftmaxTaken(h)
  BY <1>1, <1>3, <1>6 DEF Turns, SoftmaxTaken, TurnInRange, HeadInRange
<1>7. SoftmaxCounted'
  BY <1>1, <1>2, <1>6, NoSoftmax
<1>. QED  BY <1>5, <1>7

(* its softmax, ...                                                        *)
LEMMA OnceLastSoftmax ==
  ASSUME TraceOK, ScoresCounted, SoftmaxCounted, LastSoftmax
  PROVE  ScoresCounted' /\ SoftmaxCounted'
<1> DEFINE S == {Item("SFM", i, 0)} \cup FirstPieces("MVGB", i, 1, 1)
<1>1. Leaves("last_softmax", "last_context") /\ Adds({"SFM", "MVGB"}, S, 1)
  BY LastSoftmaxStep
<1> HIDE DEF S
<1>2. args' = args /\ 1 \in {0, 1}
  BY <1>1, BarriersAre DEF Adds
<1>3. /\ i \in Nat /\ j \in Nat /\ Tiles \in Nat /\ Tiles > 0 /\ Parts \in Nat /\ Parts > 0
      /\ NumItr \in Nat /\ Tiles' = Tiles /\ Parts' = Parts /\ NumItr' = NumItr
      /\ TurnInRange /\ HeadInRange
  BY <1>2, CountersFacts
<1>4. ASSUME NEW h \in Nat, h < NumItr PROVE ScoreTurns(h)' = ScoreTurns(h)
  BY <1>1, <1>3, <1>4 DEF Leaves, ScoreTurns, TurnInRange, HeadInRange
<1>5. ScoresCounted'
  BY <1>1, <1>2, <1>4, NoScore
<1>6. \A h : Item("SFM", h, 0) \in S <=> h = i
  <2>1. \A c \in FirstPieces("MVGB", i, 1, 1) : c.op = "MVGB"
    BY VectorList, TraceFacts, OpsAre DEF Lists
  <2>. QED  BY <2>1, ItemIs DEF S
<1>7. ASSUME NEW h \in Nat, h < NumItr
      PROVE  /\ SoftmaxTaken(h)' <=> SoftmaxTaken(h) \/ (h = i)
             /\ ~(SoftmaxTaken(h) /\ h = i)
  BY <1>1, <1>3, <1>7 DEF Leaves, SoftmaxTaken, TurnInRange, HeadInRange
<1>8. SoftmaxCounted'
  BY <1>1, <1>2, <1>6, <1>7, SoftmaxStep
<1>. QED  BY <1>5, <1>8

(* and its end.                                                            *)
LEMMA OnceLastContext ==
  ASSUME TraceOK, ScoresCounted, SoftmaxCounted, LastContext
  PROVE  ScoresCounted' /\ SoftmaxCounted'
<1> DEFINE S == PartAt(i) \cup MovedAt("CMVSB", i)
<1>1. Turns("last_context", Parts, "done", i) /\ Adds({"CMAC", "CMVSB"}, S, Barriers(Parts))
  BY LastContextStep
<1> HIDE DEF S
<1>2. args' = args /\ Barriers(Parts) \in {0, 1}
  BY <1>1, BarriersAre DEF Adds
<1>3. /\ i \in Nat /\ j \in Nat /\ Tiles \in Nat /\ Tiles > 0 /\ Parts \in Nat /\ Parts > 0
      /\ NumItr \in Nat /\ Tiles' = Tiles /\ Parts' = Parts /\ NumItr' = NumItr
      /\ TurnInRange /\ HeadInRange
  BY <1>2, CountersFacts
<1>4. ASSUME NEW h \in Nat, h < NumItr PROVE ScoreTurns(h)' = ScoreTurns(h)
  BY <1>1, <1>3, <1>4 DEF Turns, ScoreTurns, TurnInRange, HeadInRange
<1>5. ScoresCounted'
  BY <1>1, <1>2, <1>4, NoScore
<1>6. ASSUME NEW h \in Nat, h < NumItr PROVE SoftmaxTaken(h)' <=> SoftmaxTaken(h)
  BY <1>1, <1>3, <1>6 DEF Turns, SoftmaxTaken, TurnInRange, HeadInRange
<1>7. SoftmaxCounted'
  BY <1>1, <1>2, <1>6, NoSoftmax
<1>. QED  BY <1>5, <1>7

(* Nothing is placed at first.                                             *)
LEMMA OnceInit ==
  ASSUME Init
  PROVE  ScoresCounted /\ SoftmaxCounted
<1>1. TraceOK
  BY TraceOKInit
<1>2. /\ total_cmd = <<<<>>>> /\ stage = StageOf(i) /\ i = 0 /\ j = 0 /\ NumItr \in Nat /\ NumItr > 0
      /\ args \in Inputs /\ Tile \in Nat
  BY <1>1, TraceFacts, SizesType, SizesPositive DEF Init
<1>3. stage \in {"write", "last_write"}
  <2>1. 0 \in Nat /\ (0 + 1 < NumItr \/ 0 = NumItr - 1)
    BY <1>2
  <2>. QED  BY <1>2, <2>1, StageOfHead
<1>4. \A c : Absent(c)
  <2>1. DOMAIN total_cmd = 1..1 /\ total_cmd[1] = <<>> /\ DOMAIN total_cmd[1] = 1..0
    BY <1>2
  <2>2. \A c, s, p : ~Holds(total_cmd, s, p, c)
    <3>1. Len(total_cmd) = 1 /\ Len(total_cmd[1]) = 0
      BY <1>2
    <3>. QED  BY <3>1 DEF Holds
  <2>3. total_cmd \in Trace
    BY <1>1 DEF TraceOK
  <2>4. \A c : PlacesIn(total_cmd, c) = {}
    BY <2>2, <2>3, InPlaces
  <2>. QED  BY <2>4 DEF Absent, PlacesOf, PlacesIn
<1>5. \A h \in Nat : ScoreTurns(h) = 0 /\ ~SoftmaxTaken(h)
  BY <1>2, <1>3 DEF ScoreTurns, SoftmaxTaken
<1>6. ScoresCounted
  <2>1. \A n \in Nat : ~(n < 0 * Tile) /\ ~(n + 1 < 0)
    BY <1>2
  <2>. QED  BY <1>4, <1>5, <2>1 DEF ScoresCounted
<1>7. SoftmaxCounted
  BY <1>4, <1>5 DEF SoftmaxCounted
<1>. QED  BY <1>6, <1>7

(* Nothing changes when nothing is done.                                   *)
LEMMA OnceStutters ==
  ASSUME ScoresCounted, SoftmaxCounted, UNCHANGED vars
  PROVE  ScoresCounted' /\ SoftmaxCounted'
<1>1. args' = args /\ total_cmd' = total_cmd /\ i' = i /\ j' = j /\ stage' = stage
  BY DEF vars
<1>2. Tiles' = Tiles /\ Rows' = Rows /\ NumItr' = NumItr
  BY <1>1, ArgsKept
<1>3. \A c : Single(c)' = Single(c) /\ Absent(c)' = Absent(c)
  BY <1>1 DEF Single, Absent, PlacesOf
<1>4. \A h : ScoreTurns(h)' = ScoreTurns(h)
  BY <1>1, <1>2 DEF ScoreTurns
<1>5. \A h : SoftmaxTaken(h)' <=> SoftmaxTaken(h)
  BY <1>1 DEF SoftmaxTaken
<1>6. ScoresCounted'
  BY <1>2, <1>3, <1>4 DEF ScoresCounted
<1>7. SoftmaxCounted'
  BY <1>2, <1>3, <1>5 DEF SoftmaxCounted
<1>. QED  BY <1>6, <1>7

(* Tiles of so many rows cover them all.                                   *)
LEMMA CeilCovers ==
  ASSUME NEW a \in Nat \ {0}, NEW b \in Nat \ {0}
  PROVE  a <= Ceil(a, b) * b /\ Ceil(a, b) * b < a + b
<1>1. a + b - 1 \in Nat
  OBVIOUS
<1>2. /\ Ceil(a, b) \in Nat /\ (a + b - 1) % b \in 0..(b - 1)
      /\ a + b - 1 = b * Ceil(a, b) + ((a + b - 1) % b)
  BY <1>1, Remainder DEF Ceil
<1>3. b * Ceil(a, b) \in Nat /\ b * Ceil(a, b) = Ceil(a, b) * b
  BY <1>2
<1>. QED  BY <1>2, <1>3

(* At the end all turns are made.                                          *)
LEMMA OnceWhenDone ==
  ASSUME TraceOK, ScoresCounted, SoftmaxCounted
  PROVE  ScoredOnce
<1>1. SUFFICES ASSUME stage = "done" PROVE \A h \in Heads :
           /\ \A n \in 0..(Rows - 1) : Cardinality(PlacesOf(Item("SMAC", h, n))) = 1
           /\ \A t \in 0..(Tiles - 1) : Cardinality(PlacesOf(Item("SMVSB", h, t))) = 1
           /\ Cardinality(PlacesOf(Item("SFM", h, 0))) = 1
  BY DEF ScoredOnce, Done
<1>2. /\ args \in Inputs /\ i \in Nat /\ Rows \in Nat \ {0} /\ Tiles \in Nat \ {0} /\ NumItr \in Nat
      /\ Tile \in Nat \ {0}
  BY TraceFacts, SizesType, SizesPositive
<1>3. NumItr <= i + 1
  BY <1>1, <1>2 DEF TraceOK, CountersOK, HeadInRange
<1>4. \A c : Single(c) => Cardinality(PlacesOf(c)) = 1
  BY FS_Singleton DEF Single
<1>5. ASSUME NEW h \in Heads
      PROVE  h \in Nat /\ h < NumItr /\ ScoreTurns(h) = Tiles + 1 /\ SoftmaxTaken(h)
  <2>1. h \in Nat /\ h < NumItr /\ (h < i \/ h = i)
    BY <1>2, <1>3, <1>5 DEF Heads
  <2>. QED  BY <1>1, <2>1 DEF ScoreTurns, SoftmaxTaken
<1>6. ASSUME NEW n \in 0..(Rows - 1) PROVE n \in Nat /\ n < Rows /\ n < (Tiles + 1) * Tile
  <2>1. Rows <= Tiles * Tile
    BY <1>2, CeilCovers DEF Tiles
  <2>2. Tiles * Tile \in Nat /\ (Tiles + 1) * Tile = Tiles * Tile + Tile
    BY <1>2
  <2>. QED  BY <1>2, <1>6, <2>1, <2>2
<1>7. \A t \in 0..(Tiles - 1) : t \in Nat /\ t + 1 < Tiles + 1
  BY <1>2
<1>. QED  BY <1>4, <1>5, <1>6, <1>7 DEF ScoresCounted, SoftmaxCounted

(* A finished trace multiplies every row of the keys of a head once, moves *)
(* every tile of its scores once and takes one softmax, although the loops *)
(* of two heads run at once and the last turn of each may have nothing     *)
(* left to multiply.                                                       *)
THEOREM EveryScoreOnce == Spec => []ScoredOnce
<1> DEFINE Inv == TraceOK /\ ScoresCounted /\ SoftmaxCounted
<1>1. Init => Inv
  BY TraceOKInit, OnceInit
<1>2. Inv /\ [Next]_vars => Inv'
  <2>1. SUFFICES ASSUME TraceOK, ScoresCounted, SoftmaxCounted, [Next]_vars
                 PROVE  ScoresCounted' /\ SoftmaxCounted'
    BY TraceOKStep
  <2>. QED  BY <2>1, OnceWriteVector, OnceScore0, OnceScore1, OnceContext0, OnceContext1,
               OnceLastWriteVector, OnceLastScore, OnceLastSoftmax, OnceLastContext, OnceStutters DEF Next
<1>3. Inv => ScoredOnce
  BY OnceWhenDone
<1>. QED  BY <1>1, <1>2, <1>3, PTL DEF Spec

-----------------------------------------------------------------------------
(***************************************************************************)
(* Two vectors at a time.                                                  *)
(***************************************************************************)
(* The commands that write or read a vector, and the turn of its vector    *)
(* among those of the heads of the same parity: a head has first the one   *)
(* of its scores, then the one of its context.                             *)
OfVector(c) == c.op \in {"WRGB", "SMAC", "MVGB", "CMAC"}
Rank(c) == c.head + (IF c.op \in {"MVGB", "CMAC"} THEN 1 ELSE 0)

(* The turn of the vectors that the loop in execution writes or reads.     *)
EvenRank == IF stage \in {"write", "score0", "last_write", "last_score"} THEN i ELSE i + 1
OddRank == IF stage \in {"context0", "context1"} THEN i + 2
           ELSE IF stage \in {"score0", "score1"} THEN i + 1 ELSE i
NewestRank(c) == IF c.head % 2 = 0 THEN EvenRank ELSE OddRank

(* Of two vectors of one parity the first is no longer read when the       *)
(* second is begun; no vector has a later turn than the newest; and none   *)
(* is touched since the last barrier.                                      *)
InOrder ==
  \A s, t \in DOMAIN total_cmd : \A c \in InSegment(s), d \in InSegment(t) :
    OfVector(c) /\ OfVector(d) /\ c.head % 2 = d.head % 2 /\ Rank(c) < Rank(d) => s < t

NoneNewer ==
  \A s \in DOMAIN total_cmd : \A c \in InSegment(s) : OfVector(c) => Rank(c) <= NewestRank(c)

QuietSegment == \A c \in InSegment(Len(total_cmd)) : ~OfVector(c)

Orderly == InOrder /\ NoneNewer /\ QuietSegment

(* Turns of vectors are numbers.                                           *)
LEMMA RankType ==
  ASSUME NEW c \in Command
  PROVE  Rank(c) \in Nat /\ c.head \in Nat /\ c.head % 2 \in {0, 1}
<1>1. c.head \in Nat
  BY DEF Command
<1>. QED  BY <1>1 DEF Rank

(* A step keeps the order when it adds commands of the newest vectors      *)
(* only, and those behind a barrier.                                       *)
LEMMA OrderlyStep ==
  ASSUME total_cmd \in Trace, Orderly,
         NEW ops, NEW S, NEW barriers \in {0, 1}, Adds(ops, S, barriers),
         \A c \in S : OfVector(c) => Rank(c) = NewestRank(c),
         barriers = 0 => \A c \in S : ~OfVector(c),
         EvenRank \in Nat, OddRank \in Nat, EvenRank' \in Nat, OddRank' \in Nat,
         EvenRank <= EvenRank', OddRank <= OddRank'
  PROVE  Orderly'
<1>1. PICK n : n = Len(total_cmd)
  OBVIOUS
<1>2. /\ n \in Nat \ {0} /\ Len(total_cmd') = n + barriers
      /\ DOMAIN total_cmd = 1..n /\ DOMAIN total_cmd' = 1..(n + barriers)
      /\ n + barriers \in Nat
  <2>1. n \in Nat \ {0} /\ Len(total_cmd') = n + barriers /\ total_cmd' \in Trace
    BY <1>1, AddsEffect
  <2>. QED  BY <1>1, <2>1 DEF Trace
<1>3. /\ \A s \in 1..(n - 1) : InSegment(s)' = InSegment(s)
      /\ InSegment(n)' = InSegment(n) \cup S
      /\ barriers = 1 => InSegment(n + 1)' = {}
  BY <1>1, SegmentsKept
<1>4. \A c \in InSegment(n) : ~OfVector(c)
  BY <1>1 DEF Orderly, QuietSegment
<1>5. ASSUME NEW s \in DOMAIN total_cmd', NEW c \in InSegment(s)', OfVector(c)
      PROVE  \/ s \in 1..(n - 1) /\ s \in 1..n /\ c \in InSegment(s)
             \/ s = n /\ c \in S
  <2>1. CASE s \in 1..(n - 1)
    BY <1>2, <1>3, <1>5, <2>1
  <2>2. CASE s = n
    BY <1>3, <1>4, <1>5, <2>2
  <2>3. CASE s = n + 1 /\ barriers = 1
    BY <1>3, <1>5, <2>3
  <2>. QED  BY <1>2, <2>1, <2>2, <2>3
<1>6. ASSUME NEW s \in 1..n, NEW c \in InSegment(s) PROVE c \in Command
  <2>1. total_cmd[s] \in Seq(Command)
    BY <1>1, <1>2 DEF Trace
  <2>. QED  BY <2>1 DEF InSegment, ToSet
<1>7. \A c \in S : c \in Command
  <2>1. PICK cmds : Lists(cmds, ops, S)
    BY DEF Adds
  <2>. QED  BY <2>1 DEF Lists, ToSet
<1>8. \A c \in Command : Rank(c) \in Nat /\ NewestRank(c) \in Nat /\ NewestRank(c)' \in Nat
                         /\ NewestRank(c) <= NewestRank(c)'
  <2>1. ASSUME NEW c \in Command PROVE /\ Rank(c) \in Nat /\ NewestRank(c) \in Nat /\ NewestRank(c)' \in Nat
                                       /\ NewestRank(c) <= NewestRank(c)'
    <3>1. NewestRank(c)' = IF c.head % 2 = 0 THEN EvenRank' ELSE OddRank'
      BY DEF NewestRank
    <3>. QED  BY <3>1, RankType DEF NewestRank
  <2>. QED  BY <2>1
<1>9. InOrder'
  <2>1. ASSUME NEW s \in DOMAIN total_cmd', NEW t \in DOMAIN total_cmd',
               NEW c \in InSegment(s)', NEW d \in InSegment(t)',
               OfVector(c), OfVector(d), c.head % 2 = d.head % 2, Rank(c) < Rank(d)
        PROVE  s < t
    <3>1. CASE s \in 1..n /\ c \in InSegment(s) /\ t \in 1..n /\ d \in InSegment(t)
      BY <1>2, <2>1, <3>1 DEF Orderly, InOrder
    <3>2. CASE s \in 1..(n - 1) /\ t = n
      BY <1>2, <3>2
    <3>3. CASE c \in S /\ (d \in S \/ (t \in 1..n /\ d \in InSegment(t)))
      <4>1. Rank(c) = NewestRank(c) /\ NewestRank(c) = NewestRank(d)
        BY <2>1, <3>3 DEF NewestRank
      <4>2. Rank(d) <= NewestRank(d) /\ d \in Command /\ c \in Command
        <5>1. CASE d \in S
          BY <1>7, <1>8, <2>1, <3>3, <5>1
        <5>2. CASE t \in 1..n /\ d \in InSegment(t)
          BY <1>2, <1>6, <1>7, <2>1, <3>3, <5>2 DEF Orderly, NoneNewer
        <5>. QED  BY <3>3, <5>1, <5>2
      <4>. QED  BY <1>8, <2>1, <4>1, <4>2
    <3>. QED  BY <1>5, <2>1, <3>1, <3>2, <3>3
  <2>. QED  BY <2>1 DEF InOrder
<1>10. NoneNewer'
  <2>1. ASSUME NEW s \in DOMAIN total_cmd', NEW c \in InSegment(s)', OfVector(c)
        PROVE  Rank(c) <= NewestRank(c)'
    <3>1. c \in Command /\ Rank(c) <= NewestRank(c)
      <4>1. CASE s \in 1..n /\ c \in InSegment(s)
        BY <1>2, <1>6, <2>1, <4>1 DEF Orderly, NoneNewer
      <4>2. CASE c \in S
        BY <1>7, <1>8, <2>1, <4>2
      <4>. QED  BY <1>5, <2>1, <4>1, <4>2
    <3>. QED  BY <1>8, <3>1
  <2>. QED  BY <2>1 DEF NoneNewer
<1>11. QuietSegment'
  <2>1. CASE barriers = 1
    BY <1>2, <1>3, <2>1 DEF QuietSegment
  <2>2. CASE barriers = 0
    <3>1. Len(total_cmd') = n
      BY <1>2, <2>2
    <3>. QED  BY <1>3, <1>4, <2>2, <3>1 DEF QuietSegment
  <2>. QED  BY <2>1, <2>2
<1>. QED  BY <1>9, <1>10, <1>11 DEF Orderly

(* Which operations and heads the lists have.                              *)
LEMMA ItemsOf ==
  ASSUME TraceOK, NEW h
  PROVE  /\ \A t : \A c \in TileRows(h, t) : c.op = "SMAC" /\ c.head = h
         /\ \A op : \A c \in MovedAt(op, h) : c.op = op
         /\ \A c \in PartAt(h) : c.op = "CMAC" /\ c.head = h
         /\ \A c \in SoftmaxAt(h) : c.op = "SFM"
         /\ h \in Nat => \A c \in ToSet(ScorePiece(h)) : c.op = "WRGB" /\ c.head = h
         /\ h \in Nat => \A c \in ToSet(ContextVector(h, Tiles)) : c.op = "MVGB" /\ c.head = h
         /\ h \in Nat => \A c \in ToSet(ContextVector(h, Parts)) : c.op = "MVGB" /\ c.head = h
<1>1. \A op, from, upto : \A c \in Those(op, h, from, upto) : c.op = op /\ c.head = h
  BY DEF Those, Item
<1>2. \A t : \A c \in TileRows(h, t) : c.op = "SMAC" /\ c.head = h
  BY <1>1 DEF TileRows
<1>4. /\ \A op : \A c \in MovedAt(op, h) : c.op = op
      /\ \A c \in PartAt(h) : c.op = "CMAC" /\ c.head = h
      /\ \A c \in SoftmaxAt(h) : c.op = "SFM"
  BY DEF MovedAt, PartAt, SoftmaxAt, Item
<1>5. h \in Nat => \A c \in ToSet(ScorePiece(h)) : c.op = "WRGB" /\ c.head = h
  BY TraceFacts, ScorePieceList DEF Lists
<1>6. h \in Nat => \A c \in ToSet(ContextVector(h, Tiles)) : c.op = "MVGB" /\ c.head = h
  BY TraceFacts, ContextVectorList DEF Lists
<1>7. h \in Nat => \A c \in ToSet(ContextVector(h, Parts)) : c.op = "MVGB" /\ c.head = h
  BY TraceFacts, ContextVectorList DEF Lists
<1>. QED  BY <1>2, <1>4, <1>5, <1>6, <1>7

(* Pieces of one vector.                                                   *)
LEMMA PiecesOf ==
  ASSUME NEW op, NEW h, NEW n, NEW pieces
  PROVE  \A c \in FirstPieces(op, h, n, pieces) : c.op = op /\ c.head = h
BY DEF FirstPieces, Those, Item

(* The last turn of a loop has nothing left to multiply.                   *)
LEMMA LastTurnMoves ==
  ASSUME TraceOK, NEW h \in Nat
  PROVE  /\ ~(j < Tiles) => TileRows(h, j) = {} /\ ToSet(ScorePiece(h)) = {}
                            /\ ToSet(ContextVector(h, Tiles)) = {}
         /\ ~(j < Parts) => PartAt(h) = {} /\ ToSet(ContextVector(h, Parts)) = {}
<1>1. /\ args \in Inputs /\ j \in Nat /\ Tiles \in Nat \ {0} /\ Rows \in Nat \ {0}
      /\ Parts \in Nat \ {0} /\ Tile \in Nat \ {0}
  BY TraceFacts, SizesPositive
<1>2. ASSUME ~(j < Tiles) PROVE TileRows(h, j) = {}
  <2>1. Rows <= Tiles * Tile
    BY <1>1, CeilCovers DEF Tiles
  <2>2. Tiles * Tile <= j * Tile /\ j * Tile \in Nat /\ Tiles * Tile \in Nat /\ (j + 1) * Tile \in Nat
    BY <1>1, <1>2
  <2>3. \A a, b \in Nat : a >= Rows => a..(Least(b, Rows) - 1) = {}
    BY <1>1 DEF Least
  <2>4. (j * Tile)..(Least((j + 1) * Tile, Rows) - 1) = {}
    BY <1>1, <2>1, <2>2, <2>3
  <2>. QED  BY <2>4 DEF TileRows, Those
<1>3. /\ ~(j < Tiles) => ToSet(ScorePiece(h)) = {} /\ ToSet(ContextVector(h, Tiles)) = {}
      /\ ~(j < Parts) => ToSet(ContextVector(h, Parts)) = {}
  BY <1>1, ScorePieceList, ContextVectorList
<1>. QED  BY <1>2, <1>3 DEF PartAt

(* The first head of a pair is even.                                       *)
LEMMA PairParity ==
  ASSUME TraceOK
  PROVE  i \in Nat /\ i % 2 = 0 /\ (i + 1) % 2 = 1
<1>1. i \in Nat /\ i % 2 = 0
  BY TraceFacts DEF TraceOK, Pairs
<1>. QED  BY <1>1, NextPairIsEven

(* The turns of the vectors do not decrease along the loops.               *)
LEMMA RanksInLoop ==
  ASSUME TraceOK, NEW loop, NEW length, NEW nextStage, NEW nextHead \in Nat,
         Turns(loop, length, nextStage, nextHead) \/ (Leaves(loop, nextStage) /\ nextHead = i),
         \/ loop = "write" /\ nextStage = "score0" /\ nextHead = i
         \/ loop = "score0" /\ nextStage = "score1" /\ nextHead = i
         \/ loop = "score1" /\ nextStage = "context0" /\ nextHead = i
         \/ loop = "context0" /\ nextStage = "context1" /\ nextHead = i
         \/ loop = "last_write" /\ nextStage = "last_score" /\ nextHead = i
         \/ loop = "last_score" /\ nextStage = "last_softmax" /\ nextHead = i
         \/ loop = "last_softmax" /\ nextStage = "last_context" /\ nextHead = i
         \/ loop = "last_context" /\ nextStage = "done" /\ nextHead = i
  PROVE  /\ EvenRank \in Nat /\ OddRank \in Nat /\ EvenRank' \in Nat /\ OddRank' \in Nat
         /\ EvenRank <= EvenRank' /\ OddRank <= OddRank'
<1>1. i \in Nat
  BY TraceFacts
<1>2. stage = loop /\ ((i' = i /\ stage' = stage) \/ (i' = nextHead /\ stage' = nextStage))
  BY DEF Turns, Leaves
<1>. QED  BY <1>1, <1>2 DEF EvenRank, OddRank

(* WriteVector begins the even vector.                                     *)
LEMMA OrderlyWriteVector ==
  ASSUME TraceOK, Orderly, WriteVector
  PROVE  Orderly'
<1> DEFINE S == FirstPieces("WRGB", i, 1, 1) \cup DummyAt
<1>1. Leaves("write", "score0") /\ Adds({"WRGB", "DUMMY"}, S, 1)
  BY WriteVectorStep
<1>2. \A c \in S : (c.op = "WRGB" /\ c.head = i) \/ c.op = "DUMMY"
  BY PiecesOf DEF DummyAt, Item
<1> HIDE DEF S
<1>3. \A c \in S : OfVector(c) => Rank(c) = NewestRank(c)
  BY <1>1, <1>2, PairParity DEF Leaves, OfVector, Rank, NewestRank, EvenRank
<1>4. /\ EvenRank \in Nat /\ OddRank \in Nat /\ EvenRank' \in Nat /\ OddRank' \in Nat
      /\ EvenRank <= EvenRank' /\ OddRank <= OddRank'
  BY <1>1, TraceFacts, RanksInLoop
<1>. QED  BY <1>1, <1>3, <1>4, TraceFacts, OrderlyStep

(* Score0 reads it and writes the odd one.                                 *)
LEMMA OrderlyScore0 ==
  ASSUME TraceOK, Orderly, Score0
  PROVE  Orderly'
<1> DEFINE S == Score0Adds
<1>1. Turns("score0", Tiles, "score1", i) /\ Adds({"SMAC", "SMVSB", "WRGB"}, S, Barriers(Tiles))
  BY Score0Step
<1>2. i \in Nat /\ i + 1 \in Nat
  BY TraceFacts
<1>3. /\ \A c \in S : \/ (c.op = "SMAC" /\ c.head = i) \/ (c.op = "WRGB" /\ c.head = i + 1)
                      \/ c.op = "SMVSB"
      /\ ~(j < Tiles) => \A c \in S : c.op = "SMVSB"
  BY <1>2, ItemsOf, LastTurnMoves DEF Score0Adds
<1> HIDE DEF S
<1>4. \A c \in S : OfVector(c) => Rank(c) = NewestRank(c)
  BY <1>1, <1>3, PairParity DEF Turns, OfVector, Rank, NewestRank, EvenRank, OddRank
<1>5. Barriers(Tiles) \in {0, 1} /\ (Barriers(Tiles) = 0 => \A c \in S : ~OfVector(c))
  BY <1>3 DEF Barriers, OfVector
<1>6. /\ EvenRank \in Nat /\ OddRank \in Nat /\ EvenRank' \in Nat /\ OddRank' \in Nat
      /\ EvenRank <= EvenRank' /\ OddRank <= OddRank'
  BY <1>1, <1>2, RanksInLoop
<1>. QED  BY <1>1, <1>4, <1>5, <1>6, TraceFacts, OrderlyStep

(* Score1 reads the odd one and begins the next even one.                  *)
LEMMA OrderlyScore1 ==
  ASSUME TraceOK, Orderly, Score1
  PROVE  Orderly'
<1> DEFINE S == Score1Adds
<1>1. Turns("score1", Tiles, "context0", i) /\ Adds({"SMAC", "SMVSB", "SFM", "MVGB"}, S, Barriers(Tiles))
  BY Score1Step
<1>2. i \in Nat /\ i + 1 \in Nat
  BY TraceFacts
<1>3. /\ \A c \in S : \/ (c.op = "SMAC" /\ c.head = i + 1) \/ (c.op = "MVGB" /\ c.head = i)
                      \/ c.op \in {"SMVSB", "SFM"}
      /\ ~(j < Tiles) => \A c \in S : c.op \in {"SMVSB", "SFM"}
  BY <1>2, ItemsOf, LastTurnMoves DEF Score1Adds
<1> HIDE DEF S
<1>4. \A c \in S : OfVector(c) => Rank(c) = NewestRank(c)
  BY <1>1, <1>3, PairParity DEF Turns, OfVector, Rank, NewestRank, EvenRank, OddRank
<1>5. Barriers(Tiles) \in {0, 1} /\ (Barriers(Tiles) = 0 => \A c \in S : ~OfVector(c))
  BY <1>3 DEF Barriers, OfVector
<1>6. /\ EvenRank \in Nat /\ OddRank \in Nat /\ EvenRank' \in Nat /\ OddRank' \in Nat
      /\ EvenRank <= EvenRank' /\ OddRank <= OddRank'
  BY <1>1, <1>2, RanksInLoop
<1>. QED  BY <1>1, <1>4, <1>5, <1>6, TraceFacts, OrderlyStep

(* Context0 reads that one and begins the next odd one.                    *)
LEMMA OrderlyContext0 ==
  ASSUME TraceOK, Orderly, Context0
  PROVE  Orderly'
<1> DEFINE S == Context0Adds
<1>1. Turns("context0", Parts, "context1", i) /\ Adds({"CMAC", "CMVSB", "SFM", "MVGB"}, S, Barriers(Parts))
  BY Context0Step
<1>2. i \in Nat /\ i + 1 \in Nat
  BY TraceFacts
<1>3. /\ \A c \in S : \/ (c.op = "CMAC" /\ c.head = i) \/ (c.op = "MVGB" /\ c.head = i + 1)
                      \/ c.op \in {"CMVSB", "SFM"}
      /\ ~(j < Parts) => \A c \in S : c.op \in {"CMVSB", "SFM"}
  <2>1. /\ \A c \in PartAt(i) : c.op = "CMAC" /\ c.head = i
        /\ \A c \in MovedAt("CMVSB", i) : c.op = "CMVSB"
        /\ \A c \in SoftmaxAt(i + 1) : c.op = "SFM"
        /\ \A c \in ToSet(ContextVector(i + 1, Parts)) : c.op = "MVGB" /\ c.head = i + 1
        /\ ~(j < Parts) => PartAt(i) = {} /\ ToSet(ContextVector(i + 1, Parts)) = {}
    BY <1>2, ItemsOf, LastTurnMoves
  <2>. QED  BY <2>1 DEF Context0Adds
<1> HIDE DEF S
<1>4. \A c \in S : OfVector(c) => Rank(c) = NewestRank(c)
  BY <1>1, <1>3, PairParity DEF Turns, OfVector, Rank, NewestRank, EvenRank, OddRank
<1>5. Barriers(Parts) \in {0, 1} /\ (Barriers(Parts) = 0 => \A c \in S : ~OfVector(c))
  BY <1>3 DEF Barriers, OfVector
<1>6. /\ EvenRank \in Nat /\ OddRank \in Nat /\ EvenRank' \in Nat /\ OddRank' \in Nat
      /\ EvenRank <= EvenRank' /\ OddRank <= OddRank'
  BY <1>1, <1>2, RanksInLoop
<1>. QED  BY <1>1, <1>4, <1>5, <1>6, TraceFacts, OrderlyStep

(* The loops that only multiply and move the parts of a context.           *)
LEMMA OrderlyContext ==
  ASSUME TraceOK, Orderly, Context1 \/ LastContext
  PROVE  Orderly'
<1> DEFINE S == PartAt(i) \cup MovedAt("CMVSB", i)
<1>1. /\ \/ Turns("context1", Parts, StageOf(NextPair), NextPair)
         \/ Turns("last_context", Parts, "done", i)
      /\ Adds({"CMAC", "CMVSB"}, S, Barriers(Parts))
  BY Context1Step, LastContextStep
<1>2. i \in Nat /\ NextPair \in Nat /\ NextPair = i + 2
  BY TraceFacts DEF NextPair
<1>3. /\ \A c \in S : (c.op = "CMAC" /\ c.head = i) \/ c.op = "CMVSB"
      /\ ~(j < Parts) => \A c \in S : c.op = "CMVSB"
  BY <1>2, ItemsOf, LastTurnMoves
<1> HIDE DEF S
<1>4. \A c \in S : OfVector(c) => Rank(c) = NewestRank(c)
  BY <1>1, <1>3, PairParity DEF Turns, OfVector, Rank, NewestRank, EvenRank, OddRank
<1>5. Barriers(Parts) \in {0, 1} /\ (Barriers(Parts) = 0 => \A c \in S : ~OfVector(c))
  BY <1>3 DEF Barriers, OfVector
<1>6. /\ EvenRank \in Nat /\ OddRank \in Nat /\ EvenRank' \in Nat /\ OddRank' \in Nat
      /\ EvenRank <= EvenRank' /\ OddRank <= OddRank'
  <2>1. CASE Turns("context1", Parts, StageOf(NextPair), NextPair)
    <3>1. stage = "context1" /\ ((i' = i /\ stage' = stage) \/ i' = i + 2)
      BY <1>2, <2>1 DEF Turns
    <3>. QED  BY <1>2, <3>1 DEF EvenRank, OddRank
  <2>2. CASE Turns("last_context", Parts, "done", i)
    BY <1>2, <2>2, RanksInLoop
  <2>. QED  BY <1>1, <2>1, <2>2
<1>. QED  BY <1>1, <1>4, <1>5, <1>6, TraceFacts, OrderlyStep

(* The last head alone: its first vector, ...                              *)
LEMMA OrderlyLastWriteVector ==
  ASSUME TraceOK, Orderly, LastWriteVector
  PROVE  Orderly'
<1> DEFINE S == FirstPieces("WRGB", i, 1, 1)
<1>1. Leaves("last_write", "last_score") /\ Adds({"WRGB"}, S, 1)
  BY LastWriteVectorStep
<1>2. \A c \in S : c.op = "WRGB" /\ c.head = i
  BY PiecesOf
<1> HIDE DEF S
<1>3. \A c \in S : OfVector(c) => Rank(c) = NewestRank(c)
  BY <1>1, <1>2, PairParity DEF Leaves, OfVector, Rank, NewestRank, EvenRank
<1>4. /\ EvenRank \in Nat /\ OddRank \in Nat /\ EvenRank' \in Nat /\ OddRank' \in Nat
      /\ EvenRank <= EvenRank' /\ OddRank <= OddRank'
  BY <1>1, TraceFacts, RanksInLoop
<1>. QED  BY <1>1, <1>3, <1>4, TraceFacts, OrderlyStep

(* read by its scores, ...                                                 *)
LEMMA OrderlyLastScore ==
  ASSUME TraceOK, Orderly, LastScore
  PROVE  Orderly'
<1> DEFINE S == TileRows(i, j) \cup MovedAt("SMVSB", i)
<1>1. Turns("last_score", Tiles, "last_softmax", i) /\ Adds({"SMAC", "SMVSB"}, S, Barriers(Tiles))
  BY LastScoreStep
<1>2. i \in Nat
  BY TraceFacts
<1>3. /\ \A c \in S : (c.op = "SMAC" /\ c.head = i) \/ c.op = "SMVSB"
      /\ ~(j < Tiles) => \A c \in S : c.op = "SMVSB"
  BY <1>2, ItemsOf, LastTurnMoves
<1> HIDE DEF S
<1>4. \A c \in S : OfVector(c) => Rank(c) = NewestRank(c)
  BY <1>1, <1>3, PairParity DEF Turns, OfVector, Rank, NewestRank, EvenRank
<1>5. Barriers(Tiles) \in {0, 1} /\ (Barriers(Tiles) = 0 => \A c \in S : ~OfVector(c))
  BY <1>3 DEF Barriers, OfVector
<1>6. /\ EvenRank \in Nat /\ OddRank \in Nat /\ EvenRank' \in Nat /\ OddRank' \in Nat
      /\ EvenRank <= EvenRank' /\ OddRank <= OddRank'
  BY <1>1, <1>2, RanksInLoop
<1>. QED  BY <1>1, <1>4, <1>5, <1>6, TraceFacts, OrderlyStep

(* and its second.                                                         *)
LEMMA OrderlyLastSoftmax ==
  ASSUME TraceOK, Orderly, LastSoftmax
  PROVE  Orderly'
<1> DEFINE S == {Item("SFM", i, 0)} \cup FirstPieces("MVGB", i, 1, 1)
<1>1. Leaves("last_softmax", "last_context") /\ Adds({"SFM", "MVGB"}, S, 1)
  BY LastSoftmaxStep
<1>2. \A c \in S : (c.op = "MVGB" /\ c.head = i) \/ c.op = "SFM"
  BY PiecesOf DEF Item
<1> HIDE DEF S
<1>3. \A c \in S : OfVector(c) => Rank(c) = NewestRank(c)
  BY <1>1, <1>2, PairParity DEF Leaves, OfVector, Rank, NewestRank, EvenRank
<1>4. /\ EvenRank \in Nat /\ OddRank \in Nat /\ EvenRank' \in Nat /\ OddRank' \in Nat
      /\ EvenRank <= EvenRank' /\ OddRank <= OddRank'
  BY <1>1, TraceFacts, RanksInLoop
<1>. QED  BY <1>1, <1>3, <1>4, TraceFacts, OrderlyStep

Live(s) == {v \in {"WRGB", "MVGB"} \X Heads :
              /\ \E r \in Uses(v[1], v[2]) : r <= s
              /\ \E r \in Uses(v[1], v[2]) : r >= s}

(* Vectors of heads of one parity are not live at once.                    *)
LEMMA OneLivePerParity ==
  ASSUME TraceOK, Orderly, NEW s \in DOMAIN total_cmd, NEW v \in Live(s), NEW w \in Live(s),
         v[2] % 2 = w[2] % 2
  PROVE  v = w
<1> DEFINE RankOf(x) == x[2] + (IF x[1] = "MVGB" THEN 1 ELSE 0)
<1>1. DOMAIN total_cmd \subseteq Nat /\ Heads \subseteq Nat
  <2>1. DOMAIN total_cmd = 1..Len(total_cmd)
    BY DEF TraceOK, Trace
  <2>. QED  BY <2>1 DEF Heads
<1>2. /\ v = <<v[1], v[2]>> /\ v[1] \in {"WRGB", "MVGB"} /\ v[2] \in Nat
      /\ w = <<w[1], w[2]>> /\ w[1] \in {"WRGB", "MVGB"} /\ w[2] \in Nat
  <2>1. v \in {"WRGB", "MVGB"} \X Heads /\ w \in {"WRGB", "MVGB"} \X Heads
    BY DEF Live
  <2>2. \A x \in {"WRGB", "MVGB"} \X Heads :
          x = <<x[1], x[2]>> /\ x[1] \in {"WRGB", "MVGB"} /\ x[2] \in Heads
    OBVIOUS
  <2>. QED  BY <1>1, <2>1, <2>2
<1>3. ASSUME NEW x \in Live(s), NEW r \in Uses(x[1], x[2]), x[1] \in {"WRGB", "MVGB"}
      PROVE  /\ r \in DOMAIN total_cmd
             /\ \E c \in InSegment(r) : OfVector(c) /\ c.head = x[2] /\ Rank(c) = RankOf(x)
  BY <1>3 DEF Uses, OfVector, Rank
<1>4. ASSUME NEW x \in Live(s), NEW y \in Live(s), x[1] \in {"WRGB", "MVGB"}, y[1] \in {"WRGB", "MVGB"},
             x[2] % 2 = y[2] % 2, RankOf(x) < RankOf(y)
      PROVE  FALSE
  <2>1. PICK r \in Uses(x[1], x[2]) : r >= s
    BY DEF Live
  <2>2. PICK q \in Uses(y[1], y[2]) : q <= s
    BY DEF Live
  <2>3. PICK c \in InSegment(r) : OfVector(c) /\ c.head = x[2] /\ Rank(c) = RankOf(x)
    BY <1>3, <1>4
  <2>4. PICK d \in InSegment(q) : OfVector(d) /\ d.head = y[2] /\ Rank(d) = RankOf(y)
    BY <1>3, <1>4
  <2>5. r \in DOMAIN total_cmd /\ q \in DOMAIN total_cmd
    BY <1>3, <1>4
  <2>6. r < q
    BY <1>4, <2>3, <2>4, <2>5 DEF Orderly, InOrder
  <2>. QED  BY <1>1, <2>1, <2>2, <2>5, <2>6
<1>5. ~(RankOf(v) < RankOf(w)) /\ ~(RankOf(w) < RankOf(v))
  BY <1>2, <1>4
<1>6. RankOf(v) = RankOf(w)
  BY <1>2, <1>5
<1>. QED  BY <1>2, <1>6

(* So there are two of them at most.                                       *)
LEMMA TwoLive ==
  ASSUME TraceOK, Orderly
  PROVE  TwoVectorsLive
<1>1. ASSUME NEW s \in DOMAIN total_cmd PROVE Cardinality(Live(s)) <= 2
  <2> DEFINE parity == [v \in Live(s) |-> v[2] % 2]
  <2>1. \A v \in Live(s) : v[2] % 2 \in 0..1
    BY DEF Live, Heads
  <2>2. parity \in Injection(Live(s), 0..1)
    BY <2>1, OneLivePerParity DEF Injection, IsInjective
  <2>3. IsFiniteSet(0..1) /\ Cardinality(0..1) = 2
    <3>1. 0 \in Int /\ 1 \in Int /\ ~(0 > 1) /\ 1 - 0 + 1 = 2
      OBVIOUS
    <3>2. IsFiniteSet(0..1) /\ Cardinality(0..1) = IF 0 > 1 THEN 0 ELSE 1 - 0 + 1
      BY <3>1, FS_Interval, Zenon
    <3>. QED  BY <3>1, <3>2
  <2>. QED  BY <2>2, <2>3, FS_Injection
<1>. QED  BY <1>1 DEF TwoVectorsLive, Live

(* There are none at first.                                                *)
LEMMA OrderlyInit ==
  ASSUME Init
  PROVE  Orderly
<1>1. total_cmd = <<<<>>>>
  BY DEF Init
<1>2. \A s \in DOMAIN total_cmd : InSegment(s) = {}
  BY <1>1 DEF InSegment, ToSet
<1>3. Len(total_cmd) \in DOMAIN total_cmd
  BY <1>1
<1>. QED  BY <1>2, <1>3 DEF Orderly, InOrder, NoneNewer, QuietSegment

(* Nothing changes when nothing is done.                                   *)
LEMMA OrderlyStutters ==
  ASSUME Orderly, UNCHANGED vars
  PROVE  Orderly'
BY DEF vars, Orderly, InOrder, NoneNewer, QuietSegment, NewestRank, EvenRank, OddRank, InSegment

(* Two GEMV buffers are enough: at no place of a finished trace are more   *)
(* than two vectors begun and still to be written or read, however the     *)
(* loops of two heads, and those of one pair and the next, interleave.     *)
THEOREM TwoBuffersSuffice == Spec => []TwoVectorsLive
<1> DEFINE Inv == TraceOK /\ Orderly
<1>1. Init => Inv
  BY TraceOKInit, OrderlyInit
<1>2. Inv /\ [Next]_vars => Inv'
  <2>1. SUFFICES ASSUME TraceOK, Orderly, [Next]_vars
                 PROVE  Orderly'
    BY TraceOKStep
  <2>. QED  BY <2>1, OrderlyWriteVector, OrderlyScore0, OrderlyScore1, OrderlyContext0, OrderlyContext,
               OrderlyLastWriteVector, OrderlyLastScore, OrderlyLastSoftmax, OrderlyStutters DEF Next
<1>3. Inv => TwoVectorsLive
  BY TwoLive
<1>. QED  BY <1>1, <1>2, <1>3, PTL DEF Spec

-----------------------------------------------------------------------------
(***************************************************************************)
(* Matrices apart.                                                         *)
(***************************************************************************)
LEMMA ProductIsOrdered ==
  ASSUME NEW a \in Nat, NEW x \in Nat, NEW y \in Nat, x <= y
  PROVE  a * x <= a * y /\ a * x \in Nat /\ a * y \in Nat
OBVIOUS

(* And the other way round.                                                *)
LEMMA FactorCancels ==
  ASSUME NEW a \in Nat \ {0}, NEW x \in Nat, NEW y \in Nat
  PROVE  /\ a * x <= a * y => x <= y
         /\ a * x = a * y => x = y
<1>1. \A u, v \in Nat : u < v => a * u < a * v
  <2>1. ASSUME NEW u \in Nat, NEW v \in Nat, u < v PROVE a * u < a * v
    <3>1. u + 1 <= v /\ u + 1 \in Nat
      BY <2>1
    <3>2. a * (u + 1) <= a * v
      BY <3>1, ProductIsOrdered
    <3>. QED  BY <3>2
  <2>. QED  BY <2>1
<1>2. a * x \in Nat /\ a * y \in Nat
  OBVIOUS
<1>. QED  BY <1>1, <1>2

(* What divides evenly is not rounded.                                     *)
LEMMA ExactCeil ==
  ASSUME NEW a \in Nat, NEW b \in Nat \ {0}, a % b = 0
  PROVE  a = b * Ceil(a, b) /\ Ceil(a, b) \in Nat
<1> DEFINE q == a \div b
<1>1. q \in Nat /\ a = b * q
  BY Remainder
<1>2. b - 1 \in 0..(b - 1) /\ a + b - 1 = (b - 1) + b * q
  BY <1>1
<1> HIDE DEF q
<1>3. Ceil(a, b) = q
  BY <1>1, <1>2, DivideUnique DEF Ceil
<1>. QED  BY <1>1, <1>3

(* A number below a product, divided by a factor.                          *)
LEMMA QuotientBelow ==
  ASSUME NEW n \in Nat, NEW a \in Nat, NEW b \in Nat \ {0}, n < a * b
  PROVE  n \div b \in Nat /\ n \div b < a /\ n % b \in 0..(b - 1)
<1>1. n \div b \in Nat /\ n % b \in 0..(b - 1) /\ n = b * (n \div b) + (n % b)
  BY Remainder
<1>2. ~(a <= n \div b)
  <2> DEFINE q == n \div b
             r == n % b
  <2>1. q \in Nat /\ r \in Nat /\ n = b * q + r
    BY <1>1
  <2> HIDE DEF q, r
  <2>2. ASSUME a <= q PROVE FALSE
    <3>1. b * a <= b * q /\ b * a = a * b /\ b * q \in Nat /\ b * a \in Nat
      BY <2>1, <2>2, ProductIsOrdered
    <3>. QED  BY <2>1, <3>1
  <2>. QED  BY <2>2 DEF q
<1>. QED  BY <1>1, <1>2

(* Bytes as far apart as a column are in different columns.                *)
LEMMA QuotientsApart ==
  ASSUME NEW x \in Nat, NEW y \in Nat, NEW b \in Nat \ {0}, x + b <= y
  PROVE  x \div b < y \div b
<1> DEFINE q == x \div b
           p == y \div b
<1>1. /\ q \in Nat /\ p \in Nat /\ x % b \in 0..(b - 1) /\ y % b \in 0..(b - 1)
      /\ x = b * q + (x % b) /\ y = b * p + (y % b)
  BY Remainder
<1> HIDE DEF q, p
<1>2. ASSUME p <= q PROVE FALSE
  <2>1. b * p <= b * q /\ b * p \in Nat /\ b * q \in Nat
    BY <1>1, <1>2, ProductIsOrdered
  <2>. QED  BY <1>1, <2>1
<1>. QED  BY <1>1, <1>2 DEF q, p

Banks == NumPch * NumRank * NumBg * NumBank

(* How many columns of each bank a matrix that fills them has.             *)
LEMMA ColumnsOfMatrix ==
  ASSUME args \in Inputs, FillsRows, args.L * args.dbyte <= args.maxL
  PROVE  /\ partition_size \in Nat /\ Rows \in Nat /\ Parts \in Nat /\ Banks \in Nat \ {0}
         /\ Shape.lanes * Shape.slices * (TxBytes * (Rows * Parts)) <= Banks * partition_size
         /\ \E m \in Nat : Shape.lanes * Shape.slices * (TxBytes * (Rows * Parts))
                             = (Banks * NumCol * TxBytes) * m
<1>1. /\ args.L \in Nat \ {0} /\ args.maxL \in Nat \ {0} /\ args.dhead \in Nat \ {0}
      /\ args.dbyte \in Nat \ {0} /\ TxBytes \in Nat \ {0} /\ NumCol \in Nat \ {0}
  BY ArgsType, SizesPositive
<1>2. Shape.lanes \in Nat \ {0} /\ Shape.slices \in Nat \ {0}
  BY ShapePositive
<1>3. Banks \in Nat \ {0}
  <2>1. NumPch * NumRank \in Nat \ {0}
    BY SizesPositive, ProductPositive
  <2>2. NumPch * NumRank * NumBg \in Nat \ {0}
    BY <2>1, SizesPositive, ProductPositive
  <2>. QED  BY <2>2, SizesPositive, ProductPositive DEF Banks
<1>4. Rows \in Nat /\ args.L = Shape.lanes * Rows
  <2>1. args.L % Shape.lanes = 0
    BY DEF FillsRows
  <2>. QED  BY <1>1, <1>2, <2>1, ExactCeil DEF Rows
<1>5. NumMac \in Nat \ {0} /\ Shape.slices * NumMac \in Nat \ {0}
  BY <1>2, SizesType, ProductPositive
<1>6. Parts \in Nat /\ args.dhead = Shape.slices * NumMac * Parts
  <2>1. args.dhead % (Shape.slices * NumMac) = 0
    BY DEF FillsRows
  <2>. QED  BY <1>1, <1>5, <2>1, ExactCeil DEF Parts
<1>7. TxBytes = args.dbyte * NumMac
  <2>1. TxBytes % args.dbyte = 0
    BY DEF FillsRows
  <2>2. /\ TxBytes \div args.dbyte \in Nat
        /\ TxBytes = args.dbyte * (TxBytes \div args.dbyte) + (TxBytes % args.dbyte)
    BY <1>1, Remainder
  <2>3. args.dbyte * (TxBytes \div args.dbyte) \in Nat
    BY <1>1, <2>2
  <2>. QED  BY <2>1, <2>2, <2>3 DEF NumMac
<1> DEFINE bytes == args.L * args.dhead * args.dbyte
<1>8. bytes = Shape.lanes * Shape.slices * (TxBytes * (Rows * Parts)) /\ bytes \in Nat
  <2>1. \A a, b, c, d, e, f \in Nat : (a * b) * (c * d * e) * f = a * c * ((f * d) * (b * e))
    OBVIOUS
  <2>2. bytes = (Shape.lanes * Rows) * (Shape.slices * NumMac * Parts) * args.dbyte
    BY <1>4, <1>6
  <2>3. bytes = Shape.lanes * Shape.slices * ((args.dbyte * NumMac) * (Rows * Parts))
    BY <1>1, <1>2, <1>4, <1>5, <1>6, <2>1, <2>2
  <2>4. bytes \in Nat
    BY <1>1
  <2>. QED  BY <1>7, <2>3, <2>4
<1>9. partition_size \in Nat /\ bytes <= Banks * partition_size
  <2>1. args.maxL * args.dhead \in Nat \ {0}
    BY <1>1, ProductPositive
  <2>2. /\ partition_size \in Nat
        /\ args.maxL * args.dhead <= partition_size * Banks
    BY <1>3, <2>1, CeilCovers, CeilPositive DEF partition_size, Banks
  <2>3. args.dhead * (args.L * args.dbyte) <= args.dhead * args.maxL
    <3>1. args.L * args.dbyte \in Nat
      BY <1>1
    <3>. QED  BY <1>1, <3>1, ProductIsOrdered
  <2>4. bytes = args.dhead * (args.L * args.dbyte) /\ args.maxL * args.dhead = args.dhead * args.maxL
    BY <1>1
  <2>5. partition_size * Banks = Banks * partition_size /\ Banks * partition_size \in Nat
        /\ args.maxL * args.dhead \in Nat
    BY <1>1, <1>3, <2>2
  <2> HIDE DEF bytes
  <2>. QED  BY <1>8, <2>2, <2>3, <2>4, <2>5
<1>10. \E m \in Nat : bytes = (Banks * NumCol * TxBytes) * m
  <2>1. Banks * NumCol * TxBytes \in Nat \ {0}
    <3>1. Banks * NumCol \in Nat \ {0}
      BY <1>1, <1>3, ProductPositive
    <3>. QED  BY <1>1, <3>1, ProductPositive
  <2>2. bytes % (Banks * NumCol * TxBytes) = 0
    BY DEF FillsRows, Banks
  <2> HIDE DEF bytes
  <2> DEFINE row == Banks * NumCol * TxBytes
  <2>3. row \in Nat \ {0} /\ bytes % row = 0
    BY <2>1, <2>2
  <2> HIDE DEF row
  <2>4. bytes \div row \in Nat /\ bytes = row * (bytes \div row) + (bytes % row)
    <3>1. bytes \in Nat
      BY <1>8
    <3>. QED  BY <3>1, <2>3, Remainder
  <2>5. row * (bytes \div row) \in Nat
    BY <2>3, <2>4
  <2>6. bytes = row * (bytes \div row)
    BY <2>3, <2>4, <2>5
  <2>. QED  BY <2>4, <2>6 DEF row
<1> HIDE DEF bytes
<1>. QED  BY <1>3, <1>4, <1>6, <1>8, <1>9, <1>10

(* A column of a matrix begins at a column of the partition of its head    *)
(* and ends in that partition.                                             *)
InPartition(byte) == \E k \in Nat : byte = TxBytes * k /\ TxBytes * k + TxBytes <= partition_size

(* It does, when its number is below a number of columns that fits.        *)
LEMMA ColumnFits ==
  ASSUME NEW k \in Nat, NEW n \in Nat, k < n, partition_size \in Nat, TxBytes * n <= partition_size
  PROVE  InPartition(TxBytes * k)
<1>1. TxBytes \in Nat /\ k + 1 <= n /\ k + 1 \in Nat
  BY SizesPositive
<1>2. TxBytes * (k + 1) <= TxBytes * n /\ TxBytes * (k + 1) = TxBytes * k + TxBytes
      /\ TxBytes * n \in Nat /\ TxBytes * k \in Nat
  BY <1>1, ProductIsOrdered
<1>. QED  BY <1>1, <1>2 DEF InPartition

(* Lanes and slices of which banks make so many, and columns of the lanes  *)
(* and slices, that fill the rows of the banks m times.                    *)
LEMMA ColumnsOfBanks ==
  ASSUME NEW w \in Nat \ {0}, NEW b \in Nat \ {0}, NEW t \in Nat \ {0}, NEW c \in Nat \ {0},
         NEW n \in Nat, NEW m \in Nat, NEW ps \in Nat,
         w * (t * n) <= (w * b) * ps, w * (t * n) = ((w * b) * c * t) * m
  PROVE  n = b * (c * m) /\ t * (c * m) <= ps
<1>1. c * m \in Nat /\ b * (c * m) \in Nat /\ t * n \in Nat /\ t * (b * (c * m)) \in Nat
      /\ t * (c * m) \in Nat /\ b * (t * (c * m)) \in Nat /\ b * ps \in Nat
  BY ProductIsOrdered
<1>2. w * (t * n) = w * (t * (b * (c * m)))
  BY <1>1
<1>3. t * n = t * (b * (c * m))
  BY <1>1, <1>2, FactorCancels
<1>4. n = b * (c * m)
  BY <1>1, <1>3, FactorCancels
<1>5. t * n = b * (t * (c * m)) /\ (w * b) * ps = w * (b * ps)
  BY <1>1, <1>3
<1>6. w * (t * n) <= w * (b * ps)
  BY <1>5
<1>7. t * n <= b * ps
  BY <1>1, <1>6, FactorCancels
<1>8. b * (t * (c * m)) <= b * ps
  BY <1>5, <1>7
<1>9. t * (c * m) <= ps
  BY <1>1, <1>8, FactorCancels
<1>. QED  BY <1>4, <1>9

(* The bank script puts the columns of a matrix behind each other.         *)
LEMMA PlaceOfBank ==
  ASSUME args \in Inputs, FillsRows, args.L * args.dbyte <= args.maxL, args.unit = "bank",
         NEW idx \in 0..(Rows * Parts - 1)
  PROVE  InPartition(ColumnPlace(idx).byte)
<1> DEFINE n == Rows * Parts
<1>1. /\ partition_size \in Nat /\ Rows \in Nat /\ Parts \in Nat /\ Banks \in Nat \ {0}
      /\ Shape.lanes * Shape.slices * (TxBytes * n) <= Banks * partition_size
  BY ColumnsOfMatrix
<1>2. Shape.lanes * Shape.slices = Banks
  BY DEF Shape, BankShape, Banks
<1>3. n \in Nat /\ TxBytes * n \in Nat /\ TxBytes \in Nat
  BY <1>1, SizesPositive, ProductIsOrdered
<1>4. ColumnPlace(idx).byte = TxBytes * idx
  BY DEF ColumnPlace
<1>5. idx \in 0..(n - 1)
  OBVIOUS
<1> HIDE DEF n
<1>6. idx \in Nat /\ idx < n
  BY <1>3, <1>5
<1>7. TxBytes * n <= partition_size
  BY <1>1, <1>2, <1>3, FactorCancels
<1>. QED  BY <1>1, <1>3, <1>4, <1>6, <1>7, ColumnFits

(* The bank group script spreads rows of columns over the banks.           *)
LEMMA PlaceOfBg ==
  ASSUME args \in Inputs, FillsRows, args.L * args.dbyte <= args.maxL, args.unit = "bg",
         NEW idx \in 0..(Rows * Parts - 1)
  PROVE  InPartition(ColumnPlace(idx).byte)
<1> DEFINE n == Rows * Parts
           w == NumPch * NumRank * NumBg
<1>1. /\ partition_size \in Nat /\ Rows \in Nat /\ Parts \in Nat
      /\ Shape.lanes * Shape.slices * (TxBytes * n) <= Banks * partition_size
      /\ \E m \in Nat : Shape.lanes * Shape.slices * (TxBytes * n) = (Banks * NumCol * TxBytes) * m
  BY ColumnsOfMatrix
<1>2. /\ NumPch \in Nat \ {0} /\ NumRank \in Nat \ {0} /\ NumBg \in Nat \ {0} /\ NumBank \in Nat \ {0}
      /\ NumCol \in Nat \ {0} /\ TxBytes \in Nat \ {0}
  BY SizesPositive
<1>3. w \in Nat \ {0} /\ Banks = w * NumBank
  <2>1. NumPch * NumRank \in Nat \ {0}
    BY <1>2, ProductPositive
  <2>. QED  BY <1>2, <2>1, ProductPositive DEF Banks
<1>4. Shape.lanes = w /\ Shape.slices = 1
  BY DEF Shape, BgShape, BankShape
<1>5. idx \in 0..(n - 1) /\ n \in Nat
  BY <1>1
<1> DEFINE row == idx \div NumCol
           col == idx % NumCol
           above == row \div NumBank
<1>6. ColumnPlace(idx).byte = TxBytes * (above * NumCol + col)
  BY DEF ColumnPlace
<1> HIDE DEF n, w
<1>7. PICK m \in Nat : w * (TxBytes * n) = ((w * NumBank) * NumCol * TxBytes) * m
  BY <1>1, <1>3, <1>4
<1>8. w * (TxBytes * n) <= (w * NumBank) * partition_size
  BY <1>1, <1>3, <1>4
<1>9. n = NumBank * (NumCol * m) /\ TxBytes * (NumCol * m) <= partition_size
  BY <1>1, <1>2, <1>3, <1>5, <1>7, <1>8, ColumnsOfBanks
<1>10. idx \in Nat /\ idx < (m * NumBank) * NumCol /\ m * NumBank \in Nat
  <2>1. idx \in Nat /\ idx < n
    BY <1>5
  <2>2. n = (m * NumBank) * NumCol /\ m * NumBank \in Nat
    BY <1>2, <1>9
  <2>. QED  BY <2>1, <2>2
<1>11. row \in Nat /\ row < m * NumBank /\ col \in 0..(NumCol - 1)
  BY <1>2, <1>10, QuotientBelow
<1> HIDE DEF row, col
<1>12. above \in Nat /\ above < m
  BY <1>2, <1>11, QuotientBelow
<1> HIDE DEF above
<1>13. above * NumCol + col \in Nat /\ above * NumCol + col < NumCol * m /\ NumCol * m \in Nat
  <2>1. above + 1 <= m /\ above + 1 \in Nat
    BY <1>12
  <2>2. NumCol * (above + 1) <= NumCol * m /\ NumCol * m \in Nat
    BY <1>2, <2>1, ProductIsOrdered
  <2>3. NumCol * (above + 1) = above * NumCol + NumCol /\ above * NumCol \in Nat
    BY <1>2, <1>12
  <2>. QED  BY <1>2, <1>11, <2>2, <2>3
<1>. QED  BY <1>1, <1>6, <1>9, <1>13, ColumnFits

(* The buffer script spreads columns over groups, ranks and banks.         *)
LEMMA PlaceOfBuffer ==
  ASSUME args \in Inputs, FillsRows, args.L * args.dbyte <= args.maxL, args.unit = "buffer",
         NEW idx \in 0..(Rows * Parts - 1)
  PROVE  InPartition(ColumnPlace(idx).byte)
<1> DEFINE n == Rows * Parts
           b == NumRank * NumBg * NumBank
<1>1. /\ partition_size \in Nat /\ Rows \in Nat /\ Parts \in Nat
      /\ Shape.lanes * Shape.slices * (TxBytes * n) <= Banks * partition_size
      /\ \E m \in Nat : Shape.lanes * Shape.slices * (TxBytes * n) = (Banks * NumCol * TxBytes) * m
  BY ColumnsOfMatrix
<1>2. /\ NumPch \in Nat \ {0} /\ NumRank \in Nat \ {0} /\ NumBg \in Nat \ {0} /\ NumBank \in Nat \ {0}
      /\ NumCol \in Nat \ {0} /\ TxBytes \in Nat \ {0}
  BY SizesPositive
<1>3. NumBg * NumRank \in Nat \ {0} /\ b \in Nat \ {0} /\ Banks = NumPch * b
  <2>1. NumBg * NumRank \in Nat \ {0} /\ NumRank * NumBg \in Nat \ {0}
    BY <1>2, ProductPositive
  <2>2. b \in Nat \ {0}
    BY <1>2, <2>1, ProductPositive
  <2>3. NumPch * NumRank * NumBg * NumBank = NumPch * (NumRank * NumBg * NumBank)
    BY <1>2
  <2>. QED  BY <2>1, <2>2, <2>3 DEF Banks
<1>4. Shape.lanes = NumPch /\ Shape.slices = 1
  BY DEF Shape, BufferShape
<1>5. idx \in 0..(n - 1) /\ n \in Nat
  BY <1>1
<1> DEFINE turn == idx \div (NumBg * NumRank)
           above == turn \div NumBank
<1>6. ColumnPlace(idx).byte = TxBytes * above
  BY DEF ColumnPlace
<1>7. \A x \in Nat : b * x = (x * NumBank) * (NumBg * NumRank)
  BY <1>2
<1> HIDE DEF n, b
<1>8. PICK m \in Nat : NumPch * (TxBytes * n) = ((NumPch * b) * NumCol * TxBytes) * m
  BY <1>1, <1>2, <1>3, <1>4
<1>9. NumPch * (TxBytes * n) <= (NumPch * b) * partition_size
  BY <1>1, <1>2, <1>3, <1>4
<1>10. n = b * (NumCol * m) /\ TxBytes * (NumCol * m) <= partition_size /\ NumCol * m \in Nat
  BY <1>1, <1>2, <1>3, <1>5, <1>8, <1>9, ColumnsOfBanks, ProductIsOrdered
<1>11. idx \in Nat /\ idx < ((NumCol * m) * NumBank) * (NumBg * NumRank)
       /\ (NumCol * m) * NumBank \in Nat
  <2>1. idx \in Nat /\ idx < n
    BY <1>5
  <2>2. n = ((NumCol * m) * NumBank) * (NumBg * NumRank) /\ (NumCol * m) * NumBank \in Nat
    BY <1>2, <1>7, <1>10
  <2>. QED  BY <2>1, <2>2
<1>12. turn \in Nat /\ turn < (NumCol * m) * NumBank
  BY <1>3, <1>11, QuotientBelow
<1> HIDE DEF turn
<1>13. above \in Nat /\ above < NumCol * m
  BY <1>2, <1>10, <1>12, QuotientBelow
<1> HIDE DEF above
<1>. QED  BY <1>1, <1>6, <1>10, <1>13, ColumnFits

(* Whichever script.                                                       *)
LEMMA EveryColumnFits ==
  ASSUME args \in Inputs, FillsRows, args.L * args.dbyte <= args.maxL,
         NEW idx \in 0..(Rows * Parts - 1)
  PROVE  InPartition(ColumnPlace(idx).byte)
<1>1. args.unit \in {"bank", "bg", "buffer"}
  BY InputsType
<1>. QED  BY <1>1, PlaceOfBank, PlaceOfBg, PlaceOfBuffer

(* Partitions of different heads, and those of keys and of values, do not  *)
(* overlap.                                                                *)
LEMMA PartitionsApart ==
  ASSUME args \in Inputs, partition_size \in Nat, NumItr * partition_size <= ValueOffset,
         NEW a \in {"SMAC", "CMAC"} \X Heads, NEW b \in {"SMAC", "CMAC"} \X Heads, a # b
  PROVE  /\ MatrixAddr(a[1], a[2]) \in Nat /\ MatrixAddr(b[1], b[2]) \in Nat
         /\ \/ MatrixAddr(a[1], a[2]) + partition_size <= MatrixAddr(b[1], b[2])
            \/ MatrixAddr(b[1], b[2]) + partition_size <= MatrixAddr(a[1], a[2])
<1> DEFINE h == a[2]
           g == b[2]
           ps == partition_size
<1>1. /\ a = <<a[1], h>> /\ a[1] \in {"SMAC", "CMAC"} /\ h \in Heads
      /\ b = <<b[1], g>> /\ b[1] \in {"SMAC", "CMAC"} /\ g \in Heads
  OBVIOUS
<1>2. NumItr \in Nat /\ ValueOffset \in Nat
  BY SizesType, SizesPositive
<1>3. h \in Nat /\ g \in Nat /\ h + 1 <= NumItr /\ g + 1 <= NumItr
  BY <1>1, <1>2 DEF Heads
<1> HIDE DEF h, g
<1>4. \A x, y \in Nat : x < y => x * ps + ps <= y * ps /\ x * ps \in Nat /\ y * ps \in Nat
  <2>1. ASSUME NEW x \in Nat, NEW y \in Nat, x < y
        PROVE  x * ps + ps <= y * ps /\ x * ps \in Nat /\ y * ps \in Nat
    <3>1. x + 1 <= y /\ x + 1 \in Nat
      BY <2>1
    <3>2. ps * (x + 1) <= ps * y /\ ps * (x + 1) \in Nat /\ ps * y \in Nat
      BY <3>1, ProductIsOrdered
    <3>3. ps * (x + 1) = x * ps + ps /\ ps * y = y * ps /\ x * ps \in Nat
      OBVIOUS
    <3>. QED  BY <3>2, <3>3
  <2>. QED  BY <2>1
<1>5. /\ h * ps + ps <= ValueOffset /\ h * ps \in Nat
      /\ g * ps + ps <= ValueOffset /\ g * ps \in Nat
  <2>1. h < NumItr /\ g < NumItr /\ NumItr * ps \in Nat
    BY <1>2, <1>3
  <2>2. h * ps + ps <= NumItr * ps /\ g * ps + ps <= NumItr * ps /\ h * ps \in Nat /\ g * ps \in Nat
    BY <1>2, <1>3, <1>4, <2>1
  <2>. QED  BY <1>2, <2>1, <2>2
<1>6. MatrixAddr(a[1], h) = h * ps + (IF a[1] = "CMAC" THEN ValueOffset ELSE 0)
      /\ MatrixAddr(b[1], g) = g * ps + (IF b[1] = "CMAC" THEN ValueOffset ELSE 0)
  BY DEF MatrixAddr
<1>7. h # g => h * ps + ps <= g * ps \/ g * ps + ps <= h * ps
  <2>1. h # g => h < g \/ g < h
    BY <1>3
  <2>. QED  BY <1>3, <1>4, <2>1
<1>8. \/ MatrixAddr(a[1], h) + ps <= MatrixAddr(b[1], g)
      \/ MatrixAddr(b[1], g) + ps <= MatrixAddr(a[1], h)
  <2>1. CASE a[1] = b[1]
    <3>1. h # g
      BY <1>1, <2>1
    <3>. QED  BY <1>2, <1>5, <1>6, <1>7, <2>1, <3>1
  <2>2. CASE a[1] = "CMAC" /\ b[1] = "SMAC"
    BY <1>2, <1>5, <1>6, <2>2
  <2>3. CASE a[1] = "SMAC" /\ b[1] = "CMAC"
    BY <1>2, <1>5, <1>6, <2>3
  <2>. QED  BY <1>1, <2>1, <2>2, <2>3
<1>9. MatrixAddr(a[1], h) \in Nat /\ MatrixAddr(b[1], g) \in Nat
  BY <1>2, <1>5, <1>6
<1>. QED  BY <1>8, <1>9 DEF h, g

(* So the columns of two matrices differ.                                  *)
LEMMA ApartInPartitions ==
  ASSUME args \in Inputs, FillsRows, args.L * args.dbyte <= args.maxL, partition_size \in Nat,
         NEW op, NEW h, NEW op2, NEW h2, MatrixAddr(op, h) \in Nat, MatrixAddr(op2, h2) \in Nat,
         MatrixAddr(op, h) + partition_size <= MatrixAddr(op2, h2)
  PROVE  Matrix(op, h) \cap Matrix(op2, h2) = {}
<1> DEFINE x == MatrixAddr(op, h)
           y == MatrixAddr(op2, h2)
<1>1. ASSUME NEW idx \in 0..(Rows * Parts - 1), NEW idx2 \in 0..(Rows * Parts - 1)
      PROVE  (x + ColumnPlace(idx).byte) \div TxBytes < (y + ColumnPlace(idx2).byte) \div TxBytes
  <2>1. PICK k \in Nat : /\ ColumnPlace(idx).byte = TxBytes * k
                         /\ TxBytes * k + TxBytes <= partition_size
    BY EveryColumnFits DEF InPartition
  <2>2. PICK l \in Nat : ColumnPlace(idx2).byte = TxBytes * l
    BY EveryColumnFits DEF InPartition
  <2>3. TxBytes \in Nat \ {0} /\ TxBytes * k \in Nat /\ TxBytes * l \in Nat
    BY SizesPositive
  <2>4. /\ x + TxBytes * k \in Nat /\ y + TxBytes * l \in Nat
        /\ (x + TxBytes * k) + TxBytes <= y + TxBytes * l
    BY <2>1, <2>3
  <2>. QED  BY <2>1, <2>2, <2>3, <2>4, QuotientsApart
<1>2. ASSUME NEW idx \in 0..(Rows * Parts - 1)
      PROVE  (x + ColumnPlace(idx).byte) \div TxBytes \in Int
  <2>1. PICK k \in Nat : ColumnPlace(idx).byte = TxBytes * k
    BY EveryColumnFits DEF InPartition
  <2>2. TxBytes \in Nat \ {0} /\ TxBytes * k \in Nat
    BY SizesPositive
  <2>3. x + TxBytes * k \in Nat
    BY <2>2
  <2>. QED  BY <2>1, <2>2, <2>3, Remainder
<1>3. ASSUME NEW c, c \in Matrix(op, h), c \in Matrix(op2, h2) PROVE FALSE
  <2>1. PICK idx \in 0..(Rows * Parts - 1) : c[2] = (x + ColumnPlace(idx).byte) \div TxBytes
    BY <1>3 DEF Matrix
  <2>2. PICK idx2 \in 0..(Rows * Parts - 1) : c[2] = (y + ColumnPlace(idx2).byte) \div TxBytes
    BY <1>3 DEF Matrix
  <2>. QED  BY <1>1, <1>2, <2>1, <2>2
<1>. QED  BY <1>3

(* The property, for given arguments.                                      *)
LEMMA MatricesAreApart ==
  ASSUME args \in Inputs
  PROVE  MatricesApart
<1>1. ASSUME FillsRows, args.L * args.dbyte <= args.maxL, NumItr * partition_size <= ValueOffset,
             NEW a \in {"SMAC", "CMAC"} \X Heads, NEW b \in {"SMAC", "CMAC"} \X Heads, a # b
      PROVE  Matrix(a[1], a[2]) \cap Matrix(b[1], b[2]) = {}
  <2>1. partition_size \in Nat
    BY <1>1, ColumnsOfMatrix
  <2>2. /\ MatrixAddr(a[1], a[2]) \in Nat /\ MatrixAddr(b[1], b[2]) \in Nat
        /\ \/ MatrixAddr(a[1], a[2]) + partition_size <= MatrixAddr(b[1], b[2])
           \/ MatrixAddr(b[1], b[2]) + partition_size <= MatrixAddr(a[1], a[2])
    BY <1>1, <2>1, PartitionsApart
  <2>3. CASE MatrixAddr(a[1], a[2]) + partition_size <= MatrixAddr(b[1], b[2])
    BY <1>1, <2>1, <2>2, <2>3, ApartInPartitions
  <2>4. CASE MatrixAddr(b[1], b[2]) + partition_size <= MatrixAddr(a[1], a[2])
    <3>1. Matrix(b[1], b[2]) \cap Matrix(a[1], a[2]) = {}
      BY <1>1, <2>1, <2>2, <2>4, ApartInPartitions
    <3>. QED  BY <3>1
  <2>. QED  BY <2>2, <2>3, <2>4
<1>. QED  BY <1>1 DEF MatricesApart

(* The matrices of keys and values do not share a column of a bank,        *)
(* whichever of the three scripts spreads them and over however many       *)
(* banks, under the conditions that the property states.                   *)
THEOREM MatricesAlwaysApart == Spec => []MatricesApart
<1>1. Init => TraceOK
  BY TraceOKInit
<1>2. TraceOK /\ [Next]_vars => TraceOK'
  BY TraceOKStep
<1>3. TraceOK => MatricesApart
  BY MatricesAreApart DEF TraceOK
<1>. QED  BY <1>1, <1>2, <1>3, PTL DEF Spec
=============================================================================
