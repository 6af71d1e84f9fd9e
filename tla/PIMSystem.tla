------------------------------ MODULE PIMSystem ------------------------------
(***************************************************************************)
(* The simulator around the controllers: pim_loadstore_trace.cpp sends the   *)
(* lines of a trace in order, PIM_DRAM_system.cpp maps each to the           *)
(* controller of its channel and ticks them all, and the main loop, as       *)
(* src_main.patch leaves it, runs both once in a cycle (both clock ratios    *)
(* are 1) until the trace is sent and no controller has anything pending.   *)
(*                                                                          *)
(* A controller is the service of RequestService, which PIMController        *)
(* implements: it serves what it accepted in any order barriers allow, and   *)
(* refuses a request only while others wait. All refresh managers count the  *)
(* same cycles, so every channel's refresh is due in the same one.          *)
(***************************************************************************)
EXTENDS AddrMapper, Sequences, FiniteSets

CONSTANTS
  NumChannel,  \* m_controllers.size()
  Mapper,      \* the AddrMapper of the configuration
  Traces,      \* the traces it may be given
  Period       \* nREFI

Channels == 0..(NumChannel - 1)

PIMTypes == {"MAC_AB", "MAC_SB", "MAC_PB", "WR_GB", "MV_SB", "MV_GB", "SFM",
             "SET_MODEL", "SET_HEAD", "BARRIER"}

LineTypes == {"Read", "Write"} \cup PIMTypes

(* A line of a trace: a request type and the address its generator built,    *)
(* from the part of the organization it is meant for. A write of the GEMV    *)
(* buffer adds the entry, in bytes: one beyond a column, as the scripts of    *)
(* the buffer have from L > TxBytes * n_pch * n_mac on, carries into the     *)
(* column bits. Bound: not out of the row (in these scripts L <= 32768).     *)
Line ==
  {line \in [type : LineTypes, place : Places, entry : Nat] :
     /\ line.entry > 0 => line.type \in {"WR_GB", "MV_GB"}
     /\ line.place["col"] + line.entry \div TxBytes < Count["col"]}

(* The access it names: with the columns that its entry carries.            *)
Meant(line) == [line.place EXCEPT !["col"] = @ + line.entry \div TxBytes]

ASSUME SystemAssumption ==
  /\ NumChannel \in Nat \ {0} /\ NumChannel = Count["channel"]
  /\ Mapper \in DOMAIN SliceTurn
  /\ Traces \subseteq Seq(Line)
  /\ Period \in Nat \ {0}

VARIABLES
  trace,            \* m_trace
  m_curr_trace_idx, \* the line sent next
  m_trace_count,    \* the lines sent
  accepted,         \* per controller, the requests it accepted, in order
  served,           \* the lines whose requests were served
  refreshing,       \* the controllers with a refresh waiting
  untilRefresh,     \* cycles until the next one is due
  counters,         \* s_num_..._requests
  phase             \* where the main loop is

frontend == <<trace, m_curr_trace_idx, m_trace_count>>
memory == <<accepted, served, refreshing, untilRefresh, counters>>
vars == <<frontend, memory, phase>>

Request == [line : Nat, type : LineTypes, addr_vec : Places]

Init ==
  /\ trace \in Traces
  /\ m_curr_trace_idx = 0
  /\ m_trace_count = 0
  /\ accepted = [c \in Channels |-> <<>>]
  /\ served = {}
  /\ refreshing = {}
  /\ untilRefresh = Period
  /\ counters = [t \in LineTypes |-> 0]
  /\ phase = "frontend"

---------------------------------------------------------------------------
(* The frontend: as many lines as are accepted, then the one refused waits   *)
(* for the next cycle.                                                     *)

is_finished == m_trace_count >= Len(trace)

Waiting(c) == {accepted[c][n].line : n \in DOMAIN accepted[c]} \ served

NextRequest ==
  LET line == trace[m_curr_trace_idx + 1] IN
  [line |-> m_curr_trace_idx + 1, type |-> line.type,
   addr_vec |-> Apply(Mapper, AddressOf(line.place, line.entry))]

Counted(t) == IF t = "BARRIER" THEN counters ELSE [counters EXCEPT ![t] = @ + 1]

(* tick() of the frontend, one line, and send() of the memory system.       *)
Send ==
  /\ phase = "frontend" /\ ~is_finished
  /\ LET r == NextRequest IN
       /\ accepted' = [accepted EXCEPT ![r.addr_vec["channel"]] = Append(@, r)]
       /\ counters' = Counted(r.type)
  /\ m_curr_trace_idx' = (m_curr_trace_idx + 1) % Len(trace)
  /\ m_trace_count' = m_trace_count + 1
  /\ UNCHANGED <<trace, served, refreshing, untilRefresh, phase>>

(* Faulty: the line that was refused is not sent again.                     *)
RefuseAndSkip ==
  /\ phase = "frontend" /\ ~is_finished
  /\ Waiting(NextRequest.addr_vec["channel"]) # {}
  /\ m_curr_trace_idx' = (m_curr_trace_idx + 1) % Len(trace)
  /\ m_trace_count' = m_trace_count + 1
  /\ phase' = "memory"
  /\ UNCHANGED <<trace, memory>>

Refuse ==
  /\ phase = "frontend" /\ ~is_finished
  /\ Waiting(NextRequest.addr_vec["channel"]) # {}
  /\ phase' = "memory"
  /\ UNCHANGED <<frontend, memory>>

AllSent ==
  /\ phase = "frontend" /\ is_finished
  /\ phase' = "memory"
  /\ UNCHANGED <<frontend, memory>>

---------------------------------------------------------------------------
(* tick() of the memory system: one cycle of every controller.              *)

(* Barriers order the requests of their own channel only.                   *)
MayServe(S) ==
  \A c \in Channels : \A a, b \in DOMAIN accepted[c] :
    /\ a < b /\ accepted[c][a].type \in PIMTypes /\ accepted[c][b].type \in PIMTypes
    /\ "BARRIER" \in {accepted[c][a].type, accepted[c][b].type}
    /\ accepted[c][b].line \in S
    => accepted[c][a].line \in S \cup served

(* Faulty: a refresh may still wait when the next one is due.               *)
RefreshTickLate ==
  /\ untilRefresh' = IF untilRefresh = 1 THEN Period ELSE untilRefresh - 1
  /\ refreshing' \in SUBSET (IF untilRefresh = 1 THEN Channels ELSE refreshing)

(* Each manager counts down; a refresh is over before the next one is due.   *)
RefreshTick ==
  /\ untilRefresh' = IF untilRefresh = 1 THEN Period ELSE untilRefresh - 1
  /\ refreshing' \in SUBSET (IF untilRefresh = 1 THEN Channels ELSE refreshing)
  /\ untilRefresh' = 1 => refreshing' = {}

MemoryTick ==
  /\ phase = "memory"
  /\ \E S \in SUBSET UNION {Waiting(c) : c \in Channels} :
       MayServe(S) /\ served' = served \cup S
  /\ RefreshTick
  /\ phase' = "test"
  /\ UNCHANGED <<frontend, accepted, counters>>

---------------------------------------------------------------------------
(* The main loop.                                                          *)

(* Faulty: the state of the last controller decides.                        *)
is_pending_last ==
  Waiting(NumChannel - 1) # {} \/ NumChannel - 1 \in refreshing

is_pending == \E c \in Channels : Waiting(c) # {} \/ c \in refreshing

LoopTest ==
  /\ phase = "test"
  /\ phase' = IF is_finished /\ ~is_pending THEN "ended" ELSE "frontend"
  /\ UNCHANGED <<frontend, memory>>

Next == Send \/ Refuse \/ AllSent \/ MemoryTick \/ LoopTest

Spec == Init /\ [][Next]_vars

(* The loop runs on, and a controller with requests waiting serves one at    *)
(* last (PIMController: Drains, ServiceSpec).                              *)
ServeFor(c) == MemoryTick /\ Waiting(c) \cap served' # {}
FairSpec == Spec /\ WF_vars(Next) /\ \A c \in Channels : SF_vars(ServeFor(c))

---------------------------------------------------------------------------
(* Properties.                                                             *)

TypeOK ==
  /\ trace \in Traces
  /\ m_curr_trace_idx \in Nat
  /\ m_trace_count \in 0..Len(trace)
  /\ accepted \in [Channels -> Seq(Request)]
  /\ served \subseteq 1..m_trace_count
  /\ refreshing \subseteq Channels
  /\ untilRefresh \in 1..Period
  /\ counters \in [LineTypes -> Nat]
  /\ phase \in {"frontend", "memory", "test", "ended"}

(* When the loop ends, and with it the count of cycles the results are made  *)
(* of, every line of the trace has been served, in every channel.           *)
Complete == phase = "ended" => served = 1..Len(trace)

(* Refreshes go on for ever in every channel and the loop only ends in a     *)
(* cycle in which none waits anywhere; it still ends, for every trace.      *)
Terminates == <>(phase = "ended")

(* A line goes to the controller and the place its generator meant, although *)
(* the generators (Python) and the mapper (C++) each have their own layout   *)
(* of an address; an entry of the buffer moves its column and nothing else.  *)
Located ==
  Mapper = "HBM3-PIM" =>
    \A c \in Channels : \A n \in DOMAIN accepted[c] :
      LET r == accepted[c][n] IN
      r.addr_vec = Meant(trace[r.line]) /\ c = trace[r.line].place["channel"]

(* Whichever mapper is configured, different accesses have different places. *)
PlacesApart ==
  \A m \in DOMAIN SliceTurn : \A k, l \in 1..m_trace_count :
    Apply(m, AddressOf(trace[k].place, trace[k].entry))
      = Apply(m, AddressOf(trace[l].place, trace[l].entry))
    => Meant(trace[k]) = Meant(trace[l])

(* A request is counted under its type, barriers apart.                     *)
CountedByType ==
  \A t \in LineTypes : counters[t] =
    Cardinality({k \in 1..m_trace_count : trace[k].type = t /\ t # "BARRIER"})

(* What the memory system has accepted is what the generator meant: there,   *)
(* nowhere else, and in the statistics.                                    *)
SentAsMeant == Located /\ PlacesApart /\ CountedByType

(* The lines of the trace sent so far that were meant for channel c.        *)
SentTo(c) ==
  LET upTo[n \in Nat] ==
        IF n = 0 THEN <<>>
        ELSE IF trace[n].place["channel"] # c THEN upTo[n - 1]
        ELSE Append(upTo[n - 1], [line |-> n, type |-> trace[n].type])
  IN upTo[m_trace_count]

Channel(c) == INSTANCE RequestService
  WITH accepted <- SentTo(c), done <- {n \in DOMAIN SentTo(c) : SentTo(c)[n].line \in served},
       refreshing <- c \in refreshing

(* Seen from a trace, each channel serves its own lines as a controller does *)
(* that is sent nothing else: no line overtakes another of its channel on    *)
(* the way, however the refusals of other channels hold the frontend up.    *)
ChannelService ==
  /\ \A c \in Channels : Channel(c)!Init
  /\ [][\A c \in Channels : [Channel(c)!Next]_(Channel(c)!vars)]_vars

=============================================================================
