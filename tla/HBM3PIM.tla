------------------------------ MODULE HBM3PIM ------------------------------
(***************************************************************************)
(* The DRAM device of one channel (HBM3-PIM.cpp and the action and          *)
(* prerequisite lambdas patched into Ramulator2): which rows each bank      *)
(* holds open, which commands were issued and when, the command a request   *)
(* needs next, and whether the timing constraints let it be issued.         *)
(*                                                                          *)
(* A bank is <<pseudochannel, rank, bankgroup, bank>>; the channel id is     *)
(* left out because a controller only addresses its own channel.            *)
(***************************************************************************)
EXTENDS Integers, FiniteSets, Sequences

CONSTANTS
  NumPch, NumRank, NumBg, NumBank,  \* m_organization.count below the channel
  Row, Column,          \* row and column addresses
  RequestTypes,         \* the request types the loaded trace holds
  Timing                \* m_timing_vals: the value of each timing parameter

TimingNames ==
  {"nBL", "nCL", "nRCDRD", "nRCDWR", "nRP", "nRAS", "nRC", "nWR", "nRTPS",
   "nRTPL", "nCWL", "nCCDS", "nCCDL", "nCCDAB", "nCCDSB", "nRRDS", "nRRDL",
   "nWTRS", "nWTRL", "nFAW", "nRFC", "nREFI", "nRREFD"}

ASSUME OrganizationAssumption ==
  /\ NumPch \in Nat /\ NumRank \in Nat /\ NumBg \in Nat /\ NumBank \in Nat
  /\ Row \subseteq Nat /\ Column \subseteq Nat

ASSUME TimingAssumption == Timing \in [TimingNames -> Nat]

VARIABLES
  rows,     \* rows[b]: the rows bank b holds open; {} is the state "Closed"
  history,  \* the commands issued that can still delay another, with their age
  issued    \* the command on the bus in this cycle, as the plugins see it

deviceVars == <<rows, history, issued>>

---------------------------------------------------------------------------
(* Addresses. NoId is the -1 that a refresh puts below the pseudochannel.  *)

NoId == -1
Pchs == 0..(NumPch - 1)
Banks == Pchs \X (0..(NumRank - 1)) \X (0..(NumBg - 1)) \X (0..(NumBank - 1))
Address == [bank : Banks, row : Row, column : Column]
RefreshAddress(p) == [bank |-> <<p, NoId, NoId, NoId>>, row |-> NoId, column |-> NoId]
RefreshAddresses == {RefreshAddress(p) : p \in Pchs}

(* The order in which a prerequisite visits the child nodes.               *)
Before(b, c) ==
  \E l \in 1..4 : b[l] < c[l] /\ \A k \in 1..(l - 1) : b[k] = c[k]

SameBank(b) == {c \in Banks : c[4] = b[4]}
PerBank(b) == {c \in Banks : \A l \in 2..4 : c[l] = b[l]}

---------------------------------------------------------------------------
(* Requests and commands.                                                  *)

FinalCommand ==
  [Read |-> "RD", Write |-> "WR", AllBankRefresh |-> "REFab",
   MAC_AB |-> "MACAB", MAC_SB |-> "MACSB", MAC_PB |-> "MACPB",
   WR_GB |-> "WRGB", MV_SB |-> "MVSB", MV_GB |-> "MVGB", SFM |-> "SFM",
   SET_MODEL |-> "SETM", SET_HEAD |-> "SETH", BARRIER |-> "BARRIER"]

Opening == {"ACT", "ACTAB", "ACTSB", "ACTPB"}
Closing == {"PRE", "PREA", "PRESB", "PREPB"}
Accessing == {"RD", "WR", "MACAB", "MACSB", "MACPB"}
Moving == {"WRGB", "MVSB", "MVGB", "SFM", "RD", "WR"}
Commands == Opening \cup Closing \cup Accessing \cup Moving
              \cup {"REFab", "REFsb", "SETM", "SETH", "BARRIER"}

ASSUME RequestTypesAssumption == RequestTypes \subseteq DOMAIN FinalCommand \ {"AllBankRefresh"}

(* The level at which check_ready stops: 0 is the channel, 4 the bank,     *)
(* below which there are no nodes.                                         *)
Scope(c) == IF c \in {"PREA", "REFab", "SFM", "SETH"} THEN 0 ELSE 4

(* Faulty: a per-bank precharge closes, or a per-bank activation opens, only *)
(* the addressed bank.                                                     *)
ReachNarrowClose(c, b) ==
  CASE c \in {"ACTAB", "MACAB", "PREA"} -> Banks
    [] c \in {"ACTSB", "MACSB"} -> SameBank(b)
    [] c \in {"ACTPB", "MACPB"} -> PerBank(b)
    [] OTHER -> {b}
ReachNarrowOpen(c, b) ==
  CASE c \in {"ACTAB", "MACAB", "PREA"} -> Banks
    [] c \in {"ACTSB", "MACSB"} -> SameBank(b)
    [] c \in {"MACPB", "PREPB", "PRESB"} -> PerBank(b)
    [] OTHER -> {b}

(* The banks whose state a command reads or changes. PRESB, installed as a  *)
(* same-bank action, walks the banks exactly as PREPB does.                *)
Reach(c, b) ==
  CASE c \in {"ACTAB", "MACAB", "PREA"} -> Banks
    [] c \in {"ACTSB", "MACSB"} -> SameBank(b)
    [] c \in {"ACTPB", "MACPB", "PREPB", "PRESB"} -> PerBank(b)
    [] OTHER -> {b}

(* The state of the banks after command c at address a.                    *)
AfterCommand(c, a) ==
  [b \in Banks |->
     IF b \notin Reach(c, a.bank) THEN rows[b]
     ELSE IF c \in Opening THEN rows[b] \cup {a.row}
     ELSE IF c \in Closing THEN {}
     ELSE rows[b]]

(* Faulty: an all-bank MAC asks for the activation of its own bank.         *)
OpenerOfOneBank == [RD |-> "ACT", WR |-> "ACT", MACAB |-> "ACT", MACSB |-> "ACT", MACPB |-> "ACT"]

(* The commands that open, and close, the row that an access needs.         *)
Opener == [RD |-> "ACT", WR |-> "ACT", MACAB |-> "ACTAB", MACSB |-> "ACTSB", MACPB |-> "ACTPB"]

Closer == [RD |-> "PRE", WR |-> "PRE", MACAB |-> "PREA", MACSB |-> "PRESB", MACPB |-> "PREPB"]

(* Faulty: a bank with another row open is activated, not closed first.      *)
RequireSomeRowOpen(c, a) ==
  IF \A b \in Reach(c, a.bank) : a.row \in rows[b] THEN c ELSE Opener[c]

(* The first bank the prerequisite visits that does not hold the row open  *)
(* decides which command comes first; without one the command itself may.  *)
RequireRowOpen(c, a) ==
  LET lacking == {b \in Reach(c, a.bank) : a.row \notin rows[b]}
      firstIsClosed == \E b \in lacking :
                          /\ rows[b] = {}
                          /\ \A d \in lacking : d = b \/ Before(b, d)
  IN  IF lacking = {} THEN c ELSE IF firstIsClosed THEN Opener[c] ELSE Closer[c]

(* Faulty: the refresh asks for the precharge of one bank.                  *)
RequireBankClosed(c) == IF \A b \in Banks : rows[b] = {} THEN c ELSE "PRE"

RequireAllBanksClosed(c) == IF \A b \in Banks : rows[b] = {} THEN c ELSE "PREA"

PreqCommand(c, a) ==
  IF c \in Accessing THEN RequireRowOpen(c, a)
  ELSE IF c = "REFab" THEN RequireAllBanksClosed(c)
  ELSE c

RowBufferHit(c, a) == c \in Accessing /\ a.row \in rows[a.bank]

---------------------------------------------------------------------------
(* Timing. A constraint makes the commands of `following` wait `latency`    *)
(* cycles after one of `preceding` that went through the same node of       *)
(* `level`.                                                                 *)

Constraint(l, p, f, n) == [level |-> l, preceding |-> p, following |-> f, latency |-> n]

PIMTiming ==
  LET T == Timing IN
  { Constraint(0, {"ACTAB"}, {"ACTAB", "ACT", "PRE", "PREA", "REFab", "REFsb"}, 2),
    Constraint(0, {"MACAB"}, {"MACAB"}, T.nCCDAB),
    Constraint(0, {"ACTAB"}, {"ACTAB"}, T.nRC),
    Constraint(0, {"ACTAB"}, {"MACAB"}, T.nRCDRD),
    Constraint(0, {"ACTAB"}, {"PREA"}, T.nRAS),
    Constraint(0, {"MACAB"}, {"PREA"}, T.nRTPL),
    Constraint(0, {"PREA"}, {"ACTAB"}, T.nRP),
    Constraint(0, {"ACTSB"}, {"ACTSB", "ACT", "PRE", "PREA", "PRESB", "REFab", "REFsb"}, 2),
    Constraint(0, {"MACSB"}, {"MACSB"}, T.nCCDSB),
    Constraint(4, {"ACTSB"}, {"ACTSB"}, T.nRC),
    Constraint(4, {"ACTSB"}, {"MACSB"}, T.nRCDRD),
    Constraint(4, {"ACTSB"}, {"PRESB"}, T.nRAS),
    Constraint(4, {"MACSB"}, {"PRESB"}, T.nRTPL),
    Constraint(4, {"PRESB"}, {"ACTSB"}, T.nRP),
    Constraint(0, {"ACTPB"}, {"ACTPB", "ACT", "PRE", "PREA", "PREPB", "REFab", "REFsb"}, 2),
    Constraint(0, {"MACPB"}, {"MACPB"}, T.nBL),
    Constraint(2, {"MACPB"}, {"MACPB"}, T.nCCDS),
    Constraint(3, {"MACPB"}, {"MACPB"}, T.nCCDL),
    Constraint(4, {"ACTPB"}, {"ACTPB"}, T.nRC),
    Constraint(4, {"ACTPB"}, {"MACPB"}, T.nRCDRD),
    Constraint(4, {"ACTPB"}, {"PREPB"}, T.nRAS),
    Constraint(4, {"MACPB"}, {"PREPB"}, T.nRTPL),
    Constraint(4, {"PREPB"}, {"ACTPB"}, T.nRP),
    Constraint(1, {"ACTAB", "ACTSB", "ACTPB"}, {"REFab"}, T.nRC),
    Constraint(1, {"PREA", "PRESB", "PREPB"}, {"REFab"}, T.nRP),
    Constraint(1, {"REFab"}, {"ACTAB", "ACTSB", "ACTPB"}, T.nRFC),
    Constraint(1, Moving, Moving, T.nBL),
    Constraint(2, Moving, Moving, T.nCCDS),
    Constraint(3, Moving, Moving, T.nCCDL) }

DRAMTiming ==
  LET T == Timing
      writeRecovery == T.nCWL + T.nBL + T.nWR
  IN
  { Constraint(0, {"ACT"}, {"ACT", "PRE", "PREA", "PRESB", "REFab", "REFsb"}, 2),
    Constraint(1, {"RD"}, {"RD"}, T.nBL),
    Constraint(1, {"WR"}, {"WR"}, T.nBL),
    Constraint(1, {"RD"}, {"PREA"}, T.nRTPS),
    Constraint(1, {"WR"}, {"PREA"}, writeRecovery),
    Constraint(1, {"ACT"}, {"PREA"}, T.nRAS),
    Constraint(1, {"PREA"}, {"ACT"}, T.nRP),
    Constraint(1, {"ACT"}, {"REFab"}, T.nRC),
    Constraint(1, {"PRE", "PREA"}, {"REFab"}, T.nRP),
    Constraint(1, {"REFab"}, {"ACT", "REFsb"}, T.nRFC),
    Constraint(2, {"ACT"}, {"ACT"}, T.nRRDS),
    Constraint(2, {"ACT"}, {"REFsb"}, T.nRRDS + 1),
    Constraint(2, {"REFsb"}, {"REFsb"}, T.nRREFD),
    Constraint(2, {"REFsb"}, {"ACT"}, T.nRREFD - 1),
    Constraint(2, {"RD"}, {"RD"}, T.nCCDS),
    Constraint(2, {"WR"}, {"WR"}, T.nCCDS),
    Constraint(2, {"RD"}, {"WR"}, T.nCL + T.nBL + 2 - T.nCWL),
    Constraint(2, {"WR"}, {"RD"}, T.nCWL + T.nBL + T.nWTRS),
    Constraint(2, {"ACT"}, {"PREA"}, T.nRAS),
    Constraint(2, {"PREA"}, {"ACT"}, T.nRP),
    Constraint(3, {"RD"}, {"RD"}, T.nCCDL),
    Constraint(3, {"WR"}, {"WR"}, T.nCCDL),
    Constraint(3, {"WR"}, {"RD"}, T.nCWL + T.nBL + T.nWTRL),
    Constraint(3, {"ACT"}, {"ACT"}, T.nRRDL),
    Constraint(3, {"ACT"}, {"REFsb"}, T.nRRDL + 1),
    Constraint(3, {"REFsb"}, {"ACT"}, T.nRRDL - 1),
    Constraint(4, {"ACT"}, {"ACT"}, T.nRC),
    Constraint(4, {"ACT"}, {"RD"}, T.nRCDRD),
    Constraint(4, {"ACT"}, {"WR"}, T.nRCDWR),
    Constraint(4, {"ACT"}, {"PRE"}, T.nRAS),
    Constraint(4, {"PRE"}, {"ACT"}, T.nRP),
    Constraint(4, {"RD"}, {"PRE"}, T.nRTPL),
    Constraint(4, {"WR"}, {"PRE"}, writeRecovery) }

Largest(S) == CHOOSE n \in S : \A m \in S : m <= n

(* No issued command delays another for longer than this.                  *)
Horizon == Largest({t.latency : t \in PIMTiming \cup DRAMTiming} \cup {Timing.nFAW})

(* The issued command h updated the node of level l above bank b: that      *)
(* node is on its path (-1 stands for every child), or it is a bank that    *)
(* the actions of MACSB and MACPB update beside the path.                   *)
Touches(h, l, b) ==
  \/ \A k \in 1..l : h.bank[k] \in {b[k], NoId}
  \/ l = 4 /\ h.command = "MACSB" /\ h.bank[4] = b[4]
  \/ l = 4 /\ h.command = "MACPB" /\ \A k \in 2..4 : h.bank[k] = b[k]

(* At most four activations of a rank in a window of nFAW cycles.          *)
FourActivateWindow(b) ==
  Cardinality({h \in history : /\ h.command = "ACT" /\ h.age < Timing.nFAW
                               /\ h.bank[1] = b[1] /\ h.bank[2] = b[2]}) < 4

CheckReady(c, a) ==
  /\ \A t \in {u \in PIMTiming \cup DRAMTiming : c \in u.following /\ u.level <= Scope(c)} :
       \A h \in history :
         h.command \in t.preceding /\ Touches(h, t.level, a.bank) => h.age >= t.latency
  /\ c = "ACT" => FourActivateWindow(a.bank)

---------------------------------------------------------------------------
(* The device on its own: any request may reach it at any time, and the     *)
(* command issued for it is the prerequisite the device itself asks for.    *)

Idle == [command |-> "none", final |-> "none", address |-> RefreshAddress(NoId)]

IssueCommand(f, a) ==
  LET c == PreqCommand(f, a) IN
  /\ CheckReady(c, a)
  /\ rows' = AfterCommand(c, a)
  /\ history' = history \cup {[command |-> c, bank |-> a.bank, age |-> 0]}
  /\ issued' = [command |-> c, final |-> f, address |-> a]

(* m_clk++: what was issued is one cycle older, and what can no longer      *)
(* delay anything is forgotten.                                            *)
AdvanceClock ==
  /\ history' = {[h EXCEPT !.age = @ + 1] :
                   h \in {g \in history : g.age + 1 < Horizon}}
  /\ issued' = Idle
  /\ UNCHANGED rows

DeviceInit ==
  /\ rows = [b \in Banks |-> {}]
  /\ history = {}
  /\ issued = Idle

DeviceNext ==
  \/ AdvanceClock
  \/ \E t \in RequestTypes, a \in Address : IssueCommand(FinalCommand[t], a)
  \/ \E p \in Pchs : IssueCommand("REFab", RefreshAddress(p))

DeviceSpec == DeviceInit /\ [][DeviceNext]_deviceVars

---------------------------------------------------------------------------
(* Types of the device state.                                              *)
DeviceTypeOK ==
  /\ rows \in [Banks -> SUBSET Row]
  /\ history \subseteq [command : Commands, age : Nat,
                        bank : {a.bank : a \in Address \cup RefreshAddresses}]
  /\ issued = Idle \/ issued \in [command : Commands, final : Commands,
                                 address : Address \cup RefreshAddresses]

(* The row-accessing requests of the trace are all loads and stores, all    *)
(* all-bank MACs or all per-bank MACs, as in a trace without PIM and in     *)
(* the traces of AttAcc_bank and AttAcc_buffer.                            *)
OneMode ==
  LET accessing == {FinalCommand[t] : t \in RequestTypes} \cap Accessing IN
  accessing \subseteq {"RD", "WR"} \/ accessing \subseteq {"MACAB"} \/ accessing \subseteq {"MACPB"}

(* A bank has one row buffer: no command sequence the controller issues may  *)
(* leave two rows of a bank open (an activation must find its banks closed). *)
SingleRowOpen == \A b \in Banks : \A r, s \in rows[b] : r = s

(* A broadcast access keeps its banks in lock step: in one mode, the banks an  *)
(* access of that mode reaches hold the same rows, so the first of them that  *)
(* the prerequisite looks at speaks for all.                                 *)
LockStep ==
  \A t \in RequestTypes, b \in Banks :
    FinalCommand[t] \in Accessing =>
      \A d \in Reach(FinalCommand[t], b) : rows[d] = rows[b]

(* "Same-Bank Actions." (HBM3-PIM.cpp:516): once a same-bank precharge is    *)
(* on the bus, that bank is closed in every bank group, rank and            *)
(* pseudochannel, as a same-bank activation opens it everywhere.            *)
SameBankPrecharge ==
  issued.command = "PRESB" => \A b \in SameBank(issued.address.bank) : rows[b] = {}

=============================================================================
