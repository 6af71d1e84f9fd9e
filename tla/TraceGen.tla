------------------------------ MODULE TraceGen ------------------------------
(***************************************************************************)
(* The generators of the attention traces, gen_trace_attacc_bank.py,       *)
(* gen_trace_attacc_bg.py and gen_trace_attacc_buffer.py.  run_attention   *)
(* makes the lists of commands of every head and interleaves the lists of  *)
(* two heads, so that one computes while the operands of the other move.   *)
(* What a command may rely on is what stands before a barrier before it.   *)
(*                                                                         *)
(* A "head" is an iteration of the script: one head on every channel.  The *)
(* trace is kept as the sequence of its segments, a barrier standing       *)
(* between two of them.  A multiplication or a move to the softmax buffer  *)
(* is one item for the commands that go to all channels, banks and columns *)
(* together; the writes of a vector are cut up by the script and stay      *)
(* single commands.                                                        *)
(***************************************************************************)
EXTENDS Integers, Sequences, FiniteSets, SequencesExt

CONSTANTS
    NumPch, NumRank, NumBg, NumBank,  \* the organization of a channel
    NumCol,      \* n_col: columns of a row
    TxBytes,     \* prefetch_size: bytes of a column
    ValueOffset, \* v_offset: bytes of a bank that are for keys, the rest is for values
    NumChannel,  \* n_channel
    Tile,        \* rows whose results move together, 16 in the scripts
    Inputs       \* the arguments a script may be called with

ASSUME SizesPositive ==
    {NumPch, NumRank, NumBg, NumBank, NumCol, TxBytes, ValueOffset, NumChannel, Tile}
        \subseteq Nat \ {0}

(* The script called, the sequence length and the longest one, dhead, the  *)
(* bytes of an element and the number of heads.                            *)
ASSUME InputsType ==
    Inputs \subseteq [unit : {"bank", "bg", "buffer"}, L : Nat \ {0}, maxL : Nat \ {0},
                      dhead : Nat \ {0}, dbyte : 1..TxBytes, n_head : Nat \ {0}]

VARIABLES
    args,      \* the arguments of this call
    total_cmd, \* the trace so far: its segments
    i,         \* the (first) head being placed
    stage,     \* the loop of run_attention being executed
    j          \* its counter

vars == <<args, total_cmd, i, stage, j>>

Ceil(a, b) == (a + b - 1) \div b

-----------------------------------------------------------------------------
(***************************************************************************)
(* The sizes of the lists made by Attention.                               *)
(***************************************************************************)
(* The three scripts differ in how the key matrix is cut: over which       *)
(* parts of a channel its rows go (lanes), how many of these hold a vector *)
(* of their own (groups), and into how many slices its columns are cut.    *)
BankShape == [lanes  |-> NumPch * NumRank * NumBg,
              groups |-> NumRank * NumBg,
              slices |-> NumBank]

BgShape == [BankShape EXCEPT !.slices = 1]

BufferShape == [lanes |-> NumPch, groups |-> 1, slices |-> 1]

Shape == CASE args.unit = "bank"   -> BankShape
           [] args.unit = "bg"     -> BgShape
           [] args.unit = "buffer" -> BufferShape

NumItr == Ceil(args.n_head, NumChannel)

(* The last iteration uses the channels left over.                         *)
ValidChannels(h) ==
    LET remainder == IF args.n_head < (h + 1) * NumChannel
                     THEN args.n_head % NumChannel ELSE 0
    IN  IF remainder = 0 THEN NumChannel ELSE remainder

(* n_mac: elements in one column.                                          *)
NumMac == TxBytes \div args.dbyte

Rows  == Ceil(args.L, Shape.lanes)
Tiles == Ceil(Rows, Tile)
Parts == Ceil(args.dhead, Shape.slices * NumMac)

(* len(cmd_score_wrgb[h]) and len(cmd_context_mvgb[h]).                    *)
VectorSize(op, h) ==
    ValidChannels(h) *
    (IF op = "WRGB" THEN Shape.slices * Parts
                    ELSE Shape.groups * Ceil(args.L, Shape.lanes * NumMac))

-----------------------------------------------------------------------------
(***************************************************************************)
(* The addresses of the matrices of a head, in the channel it is on.       *)
(***************************************************************************)
\* Faulty: columns are counted, where an address counts bytes.
PartitionOfColumns ==
    Ceil(args.maxL * args.dhead, NumPch * NumRank * NumBg * NumBank * NumMac)

partition_size == Ceil(args.maxL * args.dhead, NumPch * NumRank * NumBg * NumBank)

(* Where a MAC reads the idx-th column of a matrix: a bank, that stands    *)
(* for all that the command is broadcast to, and a byte of it.             *)
ColumnPlace(idx) ==
    LET row   == idx \div NumCol
        group == idx % (NumBg * NumRank)
        turn  == idx \div (NumBg * NumRank)
    IN  CASE args.unit = "bank"   -> [bank |-> <<0, 0>>, byte |-> TxBytes * idx]
          [] args.unit = "bg"     ->
               [bank |-> <<0, row % NumBank>>,
                byte |-> TxBytes * ((row \div NumBank) * NumCol + (idx % NumCol))]
          [] args.unit = "buffer" ->
               [bank |-> <<group, turn % NumBank>>, byte |-> TxBytes * (turn \div NumBank)]

(* key_addr and val_addr.                                                  *)
MatrixAddr(op, h) ==
    h * partition_size + (IF op = "CMAC" THEN ValueOffset ELSE 0)

(* The columns that the MACs of a head reach.                              *)
Matrix(op, h) ==
    {LET p == ColumnPlace(idx) IN <<p.bank, (MatrixAddr(op, h) + p.byte) \div TxBytes>> :
        idx \in 0..(Rows * Parts - 1)}

-----------------------------------------------------------------------------
(***************************************************************************)
(* Pieces of the lists, as the loops pick them.                            *)
(***************************************************************************)
Item(op, h, at) == [op |-> op, head |-> h, at |-> at]

(* Items number from, ..., upto - 1 of a list; none if there are no such.  *)
Items(op, h, from, upto) ==
    [k \in 1..(upto - from) |-> Item(op, h, from + k - 1)]

Least(a, b) == IF a < b THEN a ELSE b

(* All commands that write a vector.                                       *)
Vector(op, h) == Items(op, h, 0, VectorSize(op, h))

(* The n-th of the given number of pieces of that list.  Their length is   *)
(* int(count / pieces), so what is left over is in no piece.               *)
\* Faulty: every piece starts at the head of the list.
PieceFromStart(op, h, n, pieces) ==
    Items(op, h, 0, VectorSize(op, h) \div pieces)

Piece(op, h, n, pieces) ==
    LET stride == VectorSize(op, h) \div pieces
    IN  Items(op, h, n * stride, Least((n + 1) * stride, VectorSize(op, h)))

(* The rows of the j-th tile, for j up to the number of tiles.             *)
\* Faulty: the last row of a tile is left out.
ScoreMacShort(h) ==
    Items("SMAC", h, j * Tile, Least((j + 1) * Tile - 1, Rows))

ScoreMac(h) == Items("SMAC", h, j * Tile, Least((j + 1) * Tile, Rows))

ContextMac(h) == IF j < Parts THEN <<Item("CMAC", h, j)>> ELSE <<>>

(* The results of the tile, or part, before.                               *)
Moved(op, h) == IF j > 0 THEN <<Item(op, h, j - 1)>> ELSE <<>>

Softmax(h) == IF j = 0 THEN <<Item("SFM", h, 0)>> ELSE <<>>

(* In the second half of a loop the softmax results of head h are copied.  *)
ContextVector(h, length) ==
    IF j < length /\ j >= length \div 2
    THEN Piece("MVGB", h, j - length \div 2, Ceil(length, 2))
    ELSE <<>>

(* The trace with cmds added, with and without a barrier after them.       *)
Added(cmds) ==
    [total_cmd EXCEPT ![Len(total_cmd)] = @ \o cmds]

AddedThenBarrier(cmds) == Append(Added(cmds), <<>>)

-----------------------------------------------------------------------------
(***************************************************************************)
(* run_attention.                                                          *)
(***************************************************************************)
(* for i in range(0, num_itr - 1, 2), then the last head if it is alone.   *)
StageOf(h) == CASE h < NumItr - 1 -> "write"
                [] h = NumItr - 1 -> "last_write"
                [] h > NumItr - 1 -> "done"

\* Faulty: the head after a pair is its second.
NextPairSliding == i + 1

NextPair == i + 2

Init == /\ args \in Inputs
        /\ total_cmd = <<<<>>>>
        /\ i = 0
        /\ stage = StageOf(0)
        /\ j = 0

\* Faulty: a loop turns once more.
TurnOnceMore(loop, length, cmds, nextStage, nextHead) ==
    /\ stage = loop
    /\ j' = IF j <= length THEN j + 1 ELSE 0
    /\ total_cmd' = IF j <= length THEN AddedThenBarrier(cmds) ELSE Added(cmds)
    /\ i' = IF j <= length THEN i ELSE nextHead
    /\ stage' = IF j <= length THEN stage ELSE nextStage
    /\ UNCHANGED args

(* One turn of "for j in range(0, length + 1)": every turn but the last    *)
(* ends with a barrier.                                                    *)
Turn(loop, length, cmds, nextStage, nextHead) ==
    /\ stage = loop
    /\ IF j < length
       THEN /\ total_cmd' = AddedThenBarrier(cmds)
            /\ j' = j + 1
            /\ UNCHANGED <<i, stage>>
       ELSE /\ total_cmd' = Added(cmds)
            /\ j' = 0
            /\ i' = nextHead
            /\ stage' = nextStage
    /\ UNCHANGED args

(* A block without a loop, closed by a barrier.                            *)
Block(block, cmds, nextStage) ==
    /\ stage = block
    /\ total_cmd' = AddedThenBarrier(cmds)
    /\ stage' = nextStage
    /\ UNCHANGED <<args, i, j>>

(* The vector of the first head, and once a MAC that only opens its rows.  *)
WriteVector ==
    Block("write",
          Vector("WRGB", i) \o (IF i = 0 THEN <<Item("DUMMY", i, 0)>> ELSE <<>>),
          "score0")

(* Head0: Score.  The vector of head 1 is written meanwhile.               *)
Score0 ==
    Turn("score0", Tiles,
         ScoreMac(i) \o Moved("SMVSB", i) \o
         (IF j < Tiles THEN Piece("WRGB", i + 1, j, Tiles) ELSE <<>>),
         "score1", i)

(* Head0: SoftMax, Head1: Score.                                           *)
Score1 ==
    Turn("score1", Tiles,
         ScoreMac(i + 1) \o Moved("SMVSB", i + 1) \o Softmax(i)
                         \o ContextVector(i, Tiles),
         "context0", i)

(* Head0: Context, Head1: Softmax.                                         *)
Context0 ==
    Turn("context0", Parts,
         ContextMac(i) \o Moved("CMVSB", i) \o Softmax(i + 1)
                       \o ContextVector(i + 1, Parts),
         "context1", i)

(* Head1: Context, says the script; the lists are those of head 0 again.   *)
Context1 ==
    Turn("context1", Parts, ContextMac(i) \o Moved("CMVSB", i),
         StageOf(NextPair), NextPair)

(* The last head of an odd number has nothing to overlap with.             *)
LastWriteVector == Block("last_write", Vector("WRGB", i), "last_score")

LastScore ==
    Turn("last_score", Tiles, ScoreMac(i) \o Moved("SMVSB", i), "last_softmax", i)

LastSoftmax ==
    Block("last_softmax", <<Item("SFM", i, 0)>> \o Vector("MVGB", i), "last_context")

LastContext ==
    Turn("last_context", Parts, ContextMac(i) \o Moved("CMVSB", i), "done", i)

Next ==
    \/ WriteVector \/ Score0 \/ Score1 \/ Context0 \/ Context1
    \/ LastWriteVector \/ LastScore \/ LastSoftmax \/ LastContext

(* Nothing interrupts the script.                                          *)
Fairness == WF_vars(Next)

Spec == Init /\ [][Next]_vars /\ Fairness

-----------------------------------------------------------------------------
(***************************************************************************)
(* Properties.                                                             *)
(***************************************************************************)
Ops == {"WRGB", "DUMMY", "SMAC", "SMVSB", "SFM", "MVGB", "CMAC", "CMVSB"}

Stages == {"write", "score0", "score1", "context0", "context1", "last_write",
           "last_score", "last_softmax", "last_context", "done"}

(* The state of run_attention: the heads in reach of i exist, and the      *)
(* counter is in the range of its loop.                                    *)
TypeOK ==
    /\ args \in Inputs
    /\ total_cmd \in Seq(Seq([op : Ops, head : Nat, at : Nat]))
    /\ i \in Nat
    /\ stage \in Stages
    /\ stage \in {"score0", "score1", "last_score"} => j \in 0..Tiles
    /\ stage \in {"context0", "context1", "last_context"} => j \in 0..Parts
    /\ stage # "done" => i < NumItr
    /\ stage \in {"write", "score0", "score1", "context0", "context1"} => i + 1 < NumItr

Done == stage = "done"
Heads == 0..(NumItr - 1)

InSegment(s) == ToSet(total_cmd[s])
Placed == UNION {InSegment(s) : s \in DOMAIN total_cmd}
PlacedBefore(s) == UNION {InSegment(r) : r \in 1..(s - 1)}

(* The second head of a pair, and a last head without one.                 *)
Second(h) == h % 2 = 1
Alone(h)  == ~Second(h) /\ h = NumItr - 1

(* Into how many pieces the loops cut the vector of head h: the first head *)
(* of a pair, and a last one alone, have theirs before or after the loops. *)
Pieces(op, h) ==
    CASE Alone(h)                  -> 1
      [] ~Alone(h) /\ op = "WRGB"  -> IF Second(h) THEN Tiles ELSE 1
      [] ~Alone(h) /\ op = "MVGB"  -> Ceil(IF Second(h) THEN Parts ELSE Tiles, 2)

(* The part of a vector that is in the pieces.                             *)
InPieces(op, h) ==
    ToSet(Items(op, h, 0, Pieces(op, h) * (VectorSize(op, h) \div Pieces(op, h))))

(* What a command reads or moves: a multiplication its vector, a move the  *)
(* results of its rows, the softmax of a head all its moved scores, and    *)
(* the copies to the vector of the context the result of the softmax.      *)
Operands(c) ==
    CASE c.op = "SMAC"  -> InPieces("WRGB", c.head)
      [] c.op = "CMAC"  -> InPieces("MVGB", c.head)
      [] c.op = "SMVSB" -> {Item("SMAC", c.head, n) :
                              n \in (c.at * Tile)..(Least((c.at + 1) * Tile, Rows) - 1)}
      [] c.op = "CMVSB" -> {Item("CMAC", c.head, c.at)}
      [] c.op = "SFM"   -> {Item("SMVSB", c.head, t) : t \in 0..(Tiles - 1)}
      [] c.op = "MVGB"  -> {Item("SFM", c.head, 0)}
      [] OTHER          -> {}

(* The operands that no barrier keeps apart from the command: the last     *)
(* scores are moved in the last turn of a loop, which has no barrier, and  *)
(* the softmax opens the next loop or block; and it is copied in the same  *)
(* turn if that loop has a single one with a barrier, or in the same block *)
(* for a head without a second.                                            *)
Unguarded(c) ==
    CASE c.op = "SFM"  -> {Item("SMVSB", c.head, Tiles - 1)}
      [] c.op = "MVGB" /\ (Alone(c.head) \/ (IF Second(c.head) THEN Parts ELSE Tiles) = 1)
                       -> {Item("SFM", c.head, 0)}
      [] OTHER         -> {}

(* What stands in front of the p-th command of a segment, in the same one. *)
SegmentBefore(s, p) == {total_cmd[s][q] : q \in 1..(p - 1)}

(* A barrier stands between a command and everything it reads, but for the *)
(* operands named in Unguarded, and those stand in front of it in its own  *)
(* segment: a row is multiplied only behind all pieces of its vector,      *)
(* results are moved only behind their multiplications, and a softmax is   *)
(* taken behind the moves of all scores of its head, the last of which is  *)
(* in the segment of the softmax.  (Where the pieces do not add up to the  *)
(* vector, VectorWritten says what is missing.)                            *)
OperandsReady ==
    \A s \in DOMAIN total_cmd : \A p \in DOMAIN total_cmd[s] :
        LET c == total_cmd[s][p]
        IN  Operands(c) \subseteq PlacedBefore(s) \cup (Unguarded(c) \cap SegmentBefore(s, p))

(* The segments of the trace, and the places in them, where a command is.  *)
PlacesOf(c) ==
    UNION {{s} \X {p \in DOMAIN total_cmd[s] : total_cmd[s][p] = c} : s \in DOMAIN total_cmd}

(* In a finished trace every head multiplies each row of its keys once,    *)
(* moves every tile of scores once and takes one softmax.                  *)
ScoredOnce ==
    Done => LET Once(c) == Cardinality(PlacesOf(c)) = 1
            IN  \A h \in Heads :
                    /\ \A n \in 0..(Rows - 1) : Once(Item("SMAC", h, n))
                    /\ \A t \in 0..(Tiles - 1) : Once(Item("SMVSB", h, t))
                    /\ Once(Item("SFM", h, 0))

(* The segments in which the vector of a head is written or read.          *)
Uses(op, h) ==
    LET reader == IF op = "WRGB" THEN "SMAC" ELSE "CMAC"
    IN  {s \in DOMAIN total_cmd : \E c \in InSegment(s) : c.head = h /\ c.op \in {op, reader}}

(* Two GEMV buffers are enough: wherever one stands in a trace, at most    *)
(* two vectors have been begun and are still read or written, however the  *)
(* loops of two heads, and of one pair and the next, interleave.           *)
TwoVectorsLive ==
    Done => \A s \in DOMAIN total_cmd :
        Cardinality({v \in {"WRGB", "MVGB"} \X Heads :
            /\ \E r \in Uses(v[1], v[2]) : r <= s
            /\ \E r \in Uses(v[1], v[2]) : r >= s}) <= 2

(* Keys and values that fill the columns and the rows of the banks evenly. *)
FillsRows ==
    /\ TxBytes % args.dbyte = 0
    /\ args.L % Shape.lanes = 0
    /\ args.dhead % (Shape.slices * NumMac) = 0
    /\ (args.L * args.dhead * args.dbyte)
         % (NumPch * NumRank * NumBg * NumBank * NumCol * TxBytes) = 0

(* The keys and the values of all heads have banks and columns of their    *)
(* own, as long as a sequence has no more bytes than the longest has       *)
(* elements (partition_size counts those) and the values begin behind the  *)
(* keys: whichever way a script spreads a matrix over the banks.           *)
MatricesApart ==
    Done /\ FillsRows /\ args.L * args.dbyte <= args.maxL
         /\ NumItr * partition_size <= ValueOffset =>
        \A a, b \in {"SMAC", "CMAC"} \X Heads :
            a # b => Matrix(a[1], a[2]) \cap Matrix(b[1], b[2]) = {}

(* "## write input vector to gemv buffer": a finished trace writes all of  *)
(* every vector (score_cpvec and context_cpvec).                           *)
VectorWritten ==
    Done => \A h \in Heads, op \in {"WRGB", "MVGB"} : ToSet(Vector(op, h)) \subseteq Placed

(* "# Head0: Context", "# Head1: Context": a finished trace computes the   *)
(* context of both heads of a pair.                                        *)
ContextOfEveryHead ==
    Done => \A h \in Heads : \A n \in 0..(Parts - 1) :
                {Item("CMAC", h, n), Item("CMVSB", h, n)} \subseteq Placed
=============================================================================
