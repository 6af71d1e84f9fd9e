----------------------------- MODULE AddrMapper -----------------------------
(***************************************************************************)
(* The mappers of hbm3_pim_linear_mappers.cpp and hbm3_linear_mappers.cpp,  *)
(* which cut an address into the levels of the organization, and the         *)
(* arithmetic by which the trace generators put the levels together.       *)
(***************************************************************************)
EXTENDS Integers

CONSTANTS
  Count,   \* m_organization.count: powers of two, the same as in the scripts
  TxBytes  \* bytes of one access: prefetch_size in the scripts

Levels == {"channel", "pch", "rank", "bg", "bank", "row", "col"}

ASSUME CountAssumption == Count \in [Levels -> Nat \ {0}] /\ TxBytes \in Nat \ {0}

(* The parts of the organization.                                          *)
Places == {p \in [Levels -> Nat] : \A level \in Levels : p[level] < Count[level]}

(* When apply() slices each level off the address, which is from low bits to *)
(* high ones.                                                              *)
Linear == [col |-> 1, row |-> 2, bank |-> 3, bg |-> 4, rank |-> 5, pch |-> 6, channel |-> 7]

SliceTurn ==
  [m \in {"HBM3-PIM", "HBM3-PIM-Custom", "HBM3-Base", "HBM3-Custom"} |->
     CASE m \in {"HBM3-PIM", "HBM3-Base"} -> Linear
       [] m = "HBM3-PIM-Custom" -> [Linear EXCEPT !["channel"] = 0]
       [] m = "HBM3-Custom" ->
            [channel |-> 1, pch |-> 2, bg |-> 3, col |-> 4, rank |-> 5, bank |-> 6, row |-> 7]]

(* The bytes in one unit of a level: what the slices before it span.         *)
Unit ==
  [m \in DOMAIN SliceTurn |-> [level \in Levels |->
     LET Size(l) == IF SliceTurn[m][l] < SliceTurn[m][level] THEN Count[l] ELSE 1
     IN  TxBytes * Size("col") * Size("row") * Size("bank") * Size("bg")
                 * Size("rank") * Size("pch") * Size("channel")]]

(* Faulty: the offset within an access is not shifted away.                 *)
ApplyUnshifted(mapper, addr) ==
  [level \in Levels |-> (addr \div (Unit[mapper][level] \div TxBytes)) % Count[level]]

(* apply(): addr_vec, by the shift of m_tx_offset and one slice for a level. *)
Apply(mapper, addr) ==
  [level \in Levels |-> (addr \div Unit[mapper][level]) % Count[level]]

(* HBM_GS, the bytes in one unit of a level for the generators.             *)
HBM_GS ==
  LET col  == TxBytes
      row  == Count["col"] * col
      bank == Count["row"] * row
      bg   == Count["bank"] * bank
      rank == Count["bg"] * bg
      pch  == Count["rank"] * rank
  IN  [col |-> col, row |-> row, bank |-> bank, bg |-> bg, rank |-> rank, pch |-> pch,
       channel |-> Count["pch"] * pch]

(* addr_offset + lch * HBM_GS['ch'] + ...: a place, and for the writes of the *)
(* GEMV buffer, which add a column without HBM_GS['col'], an entry in it.   *)
AddressOf(place, entry) ==
  entry + place["col"] * HBM_GS.col + place["row"] * HBM_GS.row
        + place["bank"] * HBM_GS.bank + place["bg"] * HBM_GS.bg
        + place["rank"] * HBM_GS.rank + place["pch"] * HBM_GS.pch
        + place["channel"] * HBM_GS.channel

=============================================================================
