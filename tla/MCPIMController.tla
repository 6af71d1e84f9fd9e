-------------------------- MODULE MCPIMController --------------------------
(* Instances of PIMController for TLC: small organizations, the traffic of   *)
(* each kind of trace, and latencies in the order of the 5.2Gbps preset.    *)
EXTENDS PIMController

MCTiming ==
  [nBL |-> 1, nCL |-> 2, nRCDRD |-> 2, nRCDWR |-> 2, nRP |-> 2, nRAS |-> 3, nRC |-> 5,
   nWR |-> 2, nRTPS |-> 1, nRTPL |-> 3, nCWL |-> 1, nCCDS |-> 1, nCCDL |-> 2,
   nCCDAB |-> 2, nCCDSB |-> 2, nRRDS |-> 1, nRRDL |-> 2, nWTRS |-> 3, nWTRL |-> 4,
   nFAW |-> 6, nRFC |-> 6, nREFI |-> 18, nRREFD |-> 2]

MCRow == {0, 1}
MCColumn == {0}

At(p, k, g, b, r) == [bank |-> <<p, k, g, b>>, row |-> r, column |-> 0]

BankModeTypes == {"MAC_AB", "WR_GB", "MV_SB", "SFM", "BARRIER"}
BankModeTraffic ==
  {[type |-> "MAC_AB", address |-> At(0, 0, 0, 0, r)] : r \in {0, 1}}
  \cup {[type |-> t, address |-> At(0, 0, 0, 0, 0)] : t \in {"MV_SB", "BARRIER"}}

LoadStoreTiming == [MCTiming EXCEPT !["nRFC"] = 3, !["nREFI"] = 10]
LoadStoreTypes == {"Read", "Write"}
LoadStoreTraffic ==
  {[type |-> "Read", address |-> a] :
     a \in {At(0, 0, 0, 0, 0), At(0, 0, 0, 0, 1), At(0, 0, 2, 0, 0)}}
  \cup {[type |-> "Write", address |-> a] : a \in {At(0, 0, 0, 0, 0), At(0, 0, 1, 0, 1)}}

BufferModeTypes == {"MAC_PB", "WR_GB"}
BufferModeTraffic ==
  {[type |-> "MAC_PB", address |-> At(0, 0, g, 0, r)] : g \in {0, 1}, r \in {0, 1}}
  \cup {[type |-> "WR_GB", address |-> At(1, 0, 0, 0, 0)]}

BgModeTypes == {"MAC_SB"}
BgModeTraffic == {[type |-> "MAC_SB", address |-> At(0, 0, 0, 0, r)] : r \in {0, 1}}

=============================================================================
