----------------------------- MODULE MCPIMSystem -----------------------------
(* An instance of PIMSystem for TLC: two channels of one bank each, with two *)
(* rows, and every short trace of lines that barriers and channels relate.   *)
(* The entry of the buffer is in the second column of two bytes.             *)
EXTENDS PIMSystem

MCCount ==
  [l \in Levels |-> IF l \in {"rank", "bg"} THEN 1 ELSE 2]

At(c, p, b, r, k) ==
  [channel |-> c, pch |-> p, rank |-> 0, bg |-> 0, bank |-> b, row |-> r, col |-> k]

MCLines ==
  {[type |-> "MAC_AB", place |-> At(c, 0, 0, 1, 1), entry |-> 0] : c \in {0, 1}}
  \cup {[type |-> "BARRIER", place |-> At(c, 0, 0, 0, 0), entry |-> 0] : c \in {0, 1}}
  \cup {[type |-> "WR_GB", place |-> At(0, 0, 1, 0, 0), entry |-> 3]}

(* Bound: traces of at most three lines, and one of both channels' barriers. *)
MCTraces ==
  UNION {[1..n -> MCLines] : n \in 0..3}
  \cup {<<[type |-> "MAC_AB", place |-> At(0, 0, 0, 0, 1), entry |-> 0],
          [type |-> "BARRIER", place |-> At(0, 0, 0, 0, 0), entry |-> 0],
          [type |-> "BARRIER", place |-> At(1, 0, 0, 0, 0), entry |-> 0],
          [type |-> "MV_SB", place |-> At(0, 1, 0, 0, 0), entry |-> 0],
          [type |-> "Read", place |-> At(1, 1, 1, 0, 1), entry |-> 0]>>}

=============================================================================
