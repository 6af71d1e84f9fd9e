--------------------------- MODULE PIMSystem_proofs ---------------------------
(***************************************************************************)
(* For every trace, every organization and every mapper: the main loop ends  *)
(* only when every line has been served, the lines are sent to where their   *)
(* generator meant them to go, and every channel is served its own lines as  *)
(* the specification of a controller, RequestService, allows.              *)
(***************************************************************************)
EXTENDS PIMSystem, AddrMapper_proofs, FiniteSetTheorems

(* The frontend's index is its count until it wraps around.                 *)
InTurn == m_trace_count < Len(trace) => m_curr_trace_idx = m_trace_count

(* Every line sent is with a controller, and nothing else is.               *)
NoneMissing ==
  /\ \A c \in Channels : \A n \in DOMAIN accepted[c] :
       accepted[c][n].line \in 1..m_trace_count
  /\ \A k \in 1..m_trace_count : \E c \in Channels : \E n \in DOMAIN accepted[c] :
       accepted[c][n].line = k

EndsQuiet == phase = "ended" => is_finished /\ ~is_pending

Inv == TypeOK /\ InTurn /\ NoneMissing /\ EndsQuiet

(* The traces are sequences of lines.                                       *)
LEMMA TraceType == ASSUME TypeOK PROVE trace \in Seq(Line)
BY SystemAssumption DEF TypeOK

(* An entry of the buffer is an entry of the column it carries to.          *)
LEMMA EntryCarries ==
  ASSUME NEW line \in Line
  PROVE  /\ Meant(line) \in Places /\ line.entry % TxBytes \in 0..(TxBytes - 1)
         /\ AddressOf(line.place, line.entry) = AddressOf(Meant(line), line.entry % TxBytes)
         /\ Meant(line)["channel"] = line.place["channel"]
<1> DEFINE p == line.place
           q == line.entry \div TxBytes
           r == line.entry % TxBytes
           m == Meant(line)
<1>1. /\ line \in [type : LineTypes, place : Places, entry : Nat]
      /\ line.place["col"] + line.entry \div TxBytes < Count["col"]
  BY DEF Line
<1>2. /\ p \in Places /\ line.entry \in Nat /\ TxBytes \in Nat \ {0}
      /\ p["col"] + q < Count["col"] /\ m = [p EXCEPT !["col"] = @ + q]
  BY <1>1, CountAssumption DEF Meant
<1>3. q \in Nat /\ r \in 0..(TxBytes - 1) /\ line.entry = r + q * TxBytes
  BY <1>2
<1> HIDE DEF p, q, r, m
<1>4. /\ "col" \in Levels /\ p["col"] \in Nat /\ p \in [Levels -> Nat]
      /\ \A l \in Levels : p[l] < Count[l]
  BY <1>2 DEF Places, Levels
<1>5. m["col"] = p["col"] + q /\ \A l \in Levels : l # "col" => m[l] = p[l]
  BY <1>2, <1>4
<1>6. m \in Places
  <2>1. m \in [Levels -> Nat]
    BY <1>2, <1>3, <1>4
  <2>2. \A l \in Levels : m[l] < Count[l]
    BY <1>2, <1>4, <1>5
  <2>. QED  BY <2>1, <2>2 DEF Places
<1>7. /\ m["row"] = p["row"] /\ m["bank"] = p["bank"] /\ m["bg"] = p["bg"]
      /\ m["rank"] = p["rank"] /\ m["pch"] = p["pch"] /\ m["channel"] = p["channel"]
  BY <1>5 DEF Levels
<1>8. line.entry + p["col"] * HBM_GS.col = r + m["col"] * HBM_GS.col
  <2>1. HBM_GS.col = TxBytes
    BY DEF HBM_GS
  <2>2. \A x, y, z \in Nat : (x + y) * z = x * z + y * z
    OBVIOUS
  <2>3. (p["col"] + q) * TxBytes = p["col"] * TxBytes + q * TxBytes
    BY <1>2, <1>3, <1>4, <2>2
  <2>4. p["col"] * TxBytes \in Nat /\ q * TxBytes \in Nat
    BY <1>2, <1>3, <1>4
  <2>. QED  BY <1>2, <1>3, <1>5, <2>1, <2>3, <2>4
<1>9. AddressOf(p, line.entry) = AddressOf(m, r)
  BY <1>7, <1>8 DEF AddressOf
<1>. QED  BY <1>3, <1>6, <1>7, <1>9 DEF p, m, r

(* The request for the line in turn.                                        *)
LEMMA NextRequestType ==
  ASSUME TypeOK, InTurn, ~is_finished
  PROVE  /\ NextRequest.line = m_trace_count + 1
         /\ NextRequest.line \in 1..Len(trace)
         /\ NextRequest.type = trace[m_trace_count + 1].type
         /\ NextRequest \in Request
         /\ NextRequest.addr_vec["channel"] \in Channels
         /\ Mapper = "HBM3-PIM" => NextRequest.addr_vec = Meant(trace[m_trace_count + 1])
<1> DEFINE line == trace[m_trace_count + 1]
<1>1. m_curr_trace_idx = m_trace_count /\ m_trace_count + 1 \in 1..Len(trace)
  BY TraceType DEF TypeOK, InTurn, is_finished
<1>2. line \in Line
  BY <1>1, TraceType
<1>3. /\ line.type \in LineTypes /\ Meant(line) \in Places /\ line.entry % TxBytes \in 0..(TxBytes - 1)
      /\ AddressOf(line.place, line.entry) = AddressOf(Meant(line), line.entry % TxBytes)
  BY <1>2, EntryCarries DEF Line
<1>4. AddressOf(line.place, line.entry) \in Nat
  BY <1>3, MapperInvertsGenerators
<1>5. Apply(Mapper, AddressOf(line.place, line.entry)) \in Places
  BY <1>4, ApplyGivesPlace, SystemAssumption
<1>6. Mapper = "HBM3-PIM" => Apply(Mapper, AddressOf(line.place, line.entry)) = Meant(line)
  BY <1>3, MapperInvertsGenerators
<1>7. NextRequest = [line |-> m_trace_count + 1, type |-> line.type,
                     addr_vec |-> Apply(Mapper, AddressOf(line.place, line.entry))]
  BY <1>1 DEF NextRequest
<1>8. \A p \in Places : p["channel"] \in Channels
  BY SystemAssumption DEF Places, Levels, Channels
<1>. QED  BY <1>1, <1>3, <1>5, <1>6, <1>7, <1>8 DEF Request

(* The invariant holds initially ...                                        *)
LEMMA InitInv == Init => Inv
BY SystemAssumption DEF Init, Inv, TypeOK, InTurn, NoneMissing, EndsQuiet, LineTypes

(* ... and after a line was sent ...                                        *)
LEMMA SendKeepsInv == Inv /\ Send => Inv'
<1> SUFFICES ASSUME Inv, Send PROVE Inv'
  OBVIOUS
<1> DEFINE r == NextRequest
           d == r.addr_vec["channel"]
<1>1. /\ r.line = m_trace_count + 1 /\ r.line \in 1..Len(trace) /\ r.type \in LineTypes
      /\ r \in Request /\ d \in Channels
  BY NextRequestType DEF Inv, Send, Request
<1>2. /\ accepted' = [accepted EXCEPT ![d] = Append(@, r)]
      /\ counters' = Counted(r.type)
      /\ m_curr_trace_idx' = (m_curr_trace_idx + 1) % Len(trace)
      /\ m_trace_count' = m_trace_count + 1 /\ phase = "frontend"
      /\ UNCHANGED <<trace, served, refreshing, untilRefresh, phase>>
  BY DEF Send
<1> HIDE DEF r
<1>3. /\ accepted \in [Channels -> Seq(Request)] /\ counters \in [LineTypes -> Nat]
      /\ m_curr_trace_idx \in Nat /\ m_trace_count \in 0..Len(trace) /\ Len(trace) \in Nat \ {0}
      /\ trace \in Seq(Line)
  BY <1>1, TraceType DEF Inv, TypeOK
<1>4. accepted' \in [Channels -> Seq(Request)]
  BY <1>1, <1>2, <1>3
<1>5. counters' \in [LineTypes -> Nat]
  <2>1. CASE r.type = "BARRIER"
    BY <1>2, <1>3, <2>1 DEF Counted
  <2>2. CASE r.type # "BARRIER"
    <3>1. counters' = [counters EXCEPT ![r.type] = counters[r.type] + 1]
      BY <1>2, <2>2 DEF Counted
    <3>2. counters[r.type] + 1 \in Nat
      BY <1>1, <1>3
    <3>. QED  BY <1>3, <3>1, <3>2
  <2>. QED  BY <2>1, <2>2
<1>6. m_curr_trace_idx' \in Nat /\ m_trace_count' \in 0..Len(trace)
  BY <1>1, <1>2, <1>3
<1>7. TypeOK'
  BY <1>1, <1>2, <1>3, <1>4, <1>5, <1>6 DEF Inv, TypeOK
<1>8. InTurn'
  <2>1. SUFFICES ASSUME m_trace_count + 1 < Len(trace)
                 PROVE  (m_curr_trace_idx + 1) % Len(trace) = m_trace_count + 1
    BY <1>2 DEF InTurn
  <2>2. m_curr_trace_idx = m_trace_count
    BY <2>1, <1>3 DEF Inv, InTurn
  <2>3. m_trace_count + 1 \in 0..(Len(trace) - 1)
    BY <2>1, <1>3
  <2>. QED  BY <2>2, <2>3, <1>3, SmallRemainder
<1>9. NoneMissing'
  <2>1. \A c \in Channels : \A n \in DOMAIN accepted[c] :
          n \in DOMAIN accepted'[c] /\ accepted'[c][n] = accepted[c][n]
    BY <1>1, <1>2, <1>3
  <2>2. Len(accepted[d]) + 1 \in DOMAIN accepted'[d] /\ accepted'[d][Len(accepted[d]) + 1] = r
    BY <1>1, <1>2, <1>3
  <2>3. ASSUME NEW c \in Channels, NEW n \in DOMAIN accepted'[c]
        PROVE  \/ accepted'[c][n] = r
               \/ n \in DOMAIN accepted[c] /\ accepted'[c][n] = accepted[c][n]
    <3>1. CASE c = d
      <4>1. accepted'[c] = Append(accepted[c], r) /\ accepted[c] \in Seq(Request)
        BY <3>1, <1>1, <1>2, <1>3
      <4>. QED  BY <4>1
    <3>2. CASE c # d
      BY <3>2, <1>1, <1>2, <1>3
    <3>. QED  BY <3>1, <3>2
  <2>4. ASSUME NEW c \in Channels, NEW n \in DOMAIN accepted'[c]
        PROVE  accepted'[c][n].line \in 1..(m_trace_count + 1)
    <3>1. CASE accepted'[c][n] = r
      BY <3>1, <1>1, <1>3
    <3>2. CASE n \in DOMAIN accepted[c] /\ accepted'[c][n] = accepted[c][n]
      <4>1. accepted[c][n].line \in 1..m_trace_count
        BY <3>2 DEF Inv, NoneMissing
      <4>. QED  BY <4>1, <3>2, <1>3
    <3>. QED  BY <3>1, <3>2, <2>3
  <2>5. ASSUME NEW k \in 1..(m_trace_count + 1)
        PROVE  \E c \in Channels : \E n \in DOMAIN accepted'[c] : accepted'[c][n].line = k
    <3>1. CASE k = m_trace_count + 1
      BY <3>1, <2>2, <1>1
    <3>2. CASE k \in 1..m_trace_count
      BY <3>2, <2>1 DEF Inv, NoneMissing
    <3>. QED  BY <3>1, <3>2, <1>3
  <2>. QED  BY <2>4, <2>5, <1>2 DEF NoneMissing
<1>10. EndsQuiet'
  BY <1>2 DEF EndsQuiet
<1>. QED  BY <1>7, <1>8, <1>9, <1>10 DEF Inv

(* ... and a cycle of the controllers ...                                   *)
LEMMA MemoryTickKeepsInv == Inv /\ MemoryTick => Inv'
<1> SUFFICES ASSUME Inv, MemoryTick PROVE Inv'
  OBVIOUS
<1>1. /\ UNCHANGED <<trace, m_curr_trace_idx, m_trace_count, accepted, counters>>
      /\ phase' = "test"
  BY DEF MemoryTick, frontend
<1>2. PICK S \in SUBSET UNION {Waiting(c) : c \in Channels} : served' = served \cup S
  BY DEF MemoryTick
<1>3. S \subseteq 1..m_trace_count
  BY DEF Inv, NoneMissing, Waiting
<1>4. untilRefresh' \in 1..Period
  BY SystemAssumption DEF MemoryTick, RefreshTick, Inv, TypeOK
<1>5. refreshing' \subseteq Channels
  BY DEF MemoryTick, RefreshTick, Inv, TypeOK
<1>. QED  BY <1>1, <1>2, <1>3, <1>4, <1>5 DEF Inv, TypeOK, InTurn, NoneMissing, EndsQuiet

(* ... so after every step.                                                 *)
LEMMA NextKeepsInv == Inv /\ [Next]_vars => Inv'
<1> SUFFICES ASSUME Inv, [Next]_vars PROVE Inv'
  OBVIOUS
<1>1. CASE Send
  BY <1>1, SendKeepsInv
<1>2. CASE Refuse
  BY <1>2 DEF Refuse, frontend, memory, Inv, TypeOK, InTurn, NoneMissing, EndsQuiet
<1>3. CASE AllSent
  BY <1>3 DEF AllSent, frontend, memory, Inv, TypeOK, InTurn, NoneMissing, EndsQuiet
<1>4. CASE MemoryTick
  BY <1>4, MemoryTickKeepsInv
<1>5. CASE LoopTest
  BY <1>5 DEF LoopTest, frontend, memory, Inv, TypeOK, InTurn, NoneMissing, EndsQuiet,
              is_finished, is_pending, Waiting
<1>6. CASE UNCHANGED vars
  BY <1>6 DEF vars, frontend, memory, Inv, TypeOK, InTurn, NoneMissing, EndsQuiet,
              is_finished, is_pending, Waiting
<1>. QED  BY <1>1, <1>2, <1>3, <1>4, <1>5, <1>6 DEF Next

(* With every controller quiet, what was sent was served.                   *)
LEMMA InvComplete == Inv => Complete
<1> SUFFICES ASSUME Inv, phase = "ended" PROVE served = 1..Len(trace)
  BY DEF Complete
<1>1. m_trace_count = Len(trace)
  BY TraceType DEF Inv, EndsQuiet, is_finished, TypeOK
<1>2. \A k \in 1..m_trace_count : k \in served
  BY DEF Inv, EndsQuiet, is_pending, Waiting, NoneMissing
<1>. QED  BY <1>1, <1>2 DEF Inv, TypeOK

(* The state of the frontend, the memory system and the loop keeps its type. *)
THEOREM SystemTypeCorrect == Spec => []TypeOK
<1>1. Inv => TypeOK
  BY DEF Inv
<1>. QED  BY <1>1, InitInv, NextKeepsInv, PTL DEF Spec

(* The cycles a simulation reports are those of the whole trace: the loop    *)
(* never ends with a line that is not sent or not served, for every trace    *)
(* and whatever the controllers refuse and delay.                          *)
THEOREM EveryLineServed == Spec => []Complete
BY InitInv, NextKeepsInv, InvComplete, PTL DEF Spec

---------------------------------------------------------------------------
(* What the memory system accepts.                                         *)

Sent(t, n) == {k \in 1..n : trace[k].type = t /\ t # "BARRIER"}

(* There are finitely many lines of a type.                                 *)
LEMMA SentFinite ==
  ASSUME NEW t, NEW n \in Nat PROVE IsFiniteSet(Sent(t, n))
<1>1. IsFiniteSet(1..n)
  BY FS_Interval
<1>. QED  BY <1>1, FS_Subset DEF Sent

(* The parts of a line.                                                     *)
LEMMA LineOfTrace ==
  ASSUME TypeOK, NEW k \in 1..Len(trace)
  PROVE  /\ trace[k].type \in LineTypes /\ Meant(trace[k]) \in Places
         /\ trace[k].entry % TxBytes \in 0..(TxBytes - 1)
         /\ AddressOf(trace[k].place, trace[k].entry)
              = AddressOf(Meant(trace[k]), trace[k].entry % TxBytes)
         /\ Meant(trace[k])["channel"] = trace[k].place["channel"]
<1>1. trace[k] \in Line
  BY TraceType
<1>2. trace[k].type \in LineTypes
  BY <1>1 DEF Line
<1>. QED  BY <1>1, <1>2, EntryCarries

(* Lines that are sent keep their places apart.                             *)
LEMMA InvPlacesApart == Inv => PlacesApart
<1> SUFFICES ASSUME Inv, NEW m \in DOMAIN SliceTurn, NEW k \in 1..m_trace_count,
                    NEW l \in 1..m_trace_count,
                    Apply(m, AddressOf(trace[k].place, trace[k].entry))
                      = Apply(m, AddressOf(trace[l].place, trace[l].entry))
             PROVE  Meant(trace[k]) = Meant(trace[l])
  BY DEF PlacesApart
<1>1. k \in 1..Len(trace) /\ l \in 1..Len(trace)
  BY TraceType DEF Inv, TypeOK
<1>. QED  BY <1>1, LineOfTrace, MappersKeepPlacesApart DEF Inv

(* Nothing is accepted or counted at first.                                 *)
LEMMA InitSent == Init => Located /\ CountedByType
<1> SUFFICES ASSUME Init PROVE Located /\ CountedByType
  OBVIOUS
<1>1. Located
  BY DEF Init, Located
<1>2. ASSUME NEW t \in LineTypes
      PROVE  counters[t] = Cardinality({k \in 1..m_trace_count : trace[k].type = t /\ t # "BARRIER"})
  <2>1. {k \in 1..m_trace_count : trace[k].type = t /\ t # "BARRIER"} = {}
    BY DEF Init
  <2>. QED  BY <2>1, FS_EmptySet DEF Init
<1>. QED  BY <1>1, <1>2 DEF CountedByType

(* A line goes where its generator meant it to go ...                       *)
LEMMA SendKeepsLocated == Inv /\ Located /\ Send => Located'
<1> SUFFICES ASSUME Inv, Located, Send PROVE Located'
  OBVIOUS
<1>0. trace' = trace
  BY DEF Send
<1> SUFFICES ASSUME Mapper = "HBM3-PIM",
                    NEW c \in Channels, NEW n \in DOMAIN accepted'[c]
             PROVE  /\ accepted'[c][n].addr_vec = Meant(trace[accepted'[c][n].line])
                    /\ c = trace[accepted'[c][n].line].place["channel"]
  BY <1>0 DEF Located
<1> DEFINE r == NextRequest
           d == r.addr_vec["channel"]
<1>1. /\ r.line = m_trace_count + 1 /\ r \in Request /\ d \in Channels
      /\ r.addr_vec = Meant(trace[m_trace_count + 1])
      /\ d = trace[m_trace_count + 1].place["channel"]
  <2>1. r.line = m_trace_count + 1 /\ r \in Request /\ d \in Channels
        /\ r.addr_vec = Meant(trace[m_trace_count + 1]) /\ m_trace_count + 1 \in 1..Len(trace)
    BY NextRequestType DEF Inv, Send
  <2>. QED  BY <2>1, LineOfTrace DEF Inv
<1>2. accepted' = [accepted EXCEPT ![d] = Append(@, r)]
  BY DEF Send
<1> HIDE DEF r
<1>3. accepted \in [Channels -> Seq(Request)]
  BY DEF Inv, TypeOK
<1>4. CASE accepted'[c][n] = r /\ c = d
  BY <1>1, <1>4
<1>5. CASE n \in DOMAIN accepted[c] /\ accepted'[c][n] = accepted[c][n]
  BY <1>5 DEF Located
<1>6. CASE c = d
  <2>1. accepted'[c] = Append(accepted[c], r) /\ accepted[c] \in Seq(Request)
    BY <1>1, <1>2, <1>3, <1>6
  <2>2. CASE n \in 1..Len(accepted[c])
    <3>1. n \in DOMAIN accepted[c] /\ accepted'[c][n] = accepted[c][n]
      BY <2>1, <2>2
    <3>. QED  BY <3>1, <1>5
  <2>3. CASE n = Len(accepted[c]) + 1
    <3>1. accepted'[c][n] = r
      BY <2>1, <2>3
    <3>. QED  BY <3>1, <1>4, <1>6
  <2>4. n \in 1..Len(accepted[c]) \/ n = Len(accepted[c]) + 1
    <3>1. n \in DOMAIN Append(accepted[c], r) /\ Len(accepted[c]) \in Nat
      BY <2>1
    <3>2. DOMAIN Append(accepted[c], r) = 1..(Len(accepted[c]) + 1)
      BY <2>1
    <3>. QED  BY <3>1, <3>2
  <2>. QED  BY <2>2, <2>3, <2>4
<1>7. CASE c # d
  <2>1. accepted'[c] = accepted[c]
    BY <1>1, <1>2, <1>3, <1>7
  <2>2. n \in DOMAIN accepted[c] /\ accepted'[c][n] = accepted[c][n]
    BY <2>1
  <2>. QED  BY <2>2, <1>5
<1> HIDE DEF d
<1>. QED  BY <1>6, <1>7

(* ... and is counted.                                                      *)
LEMMA SendKeepsCount == Inv /\ CountedByType /\ Send => CountedByType'
<1> SUFFICES ASSUME Inv, CountedByType, Send PROVE CountedByType'
  OBVIOUS
<1>0. trace' = trace /\ m_trace_count' = m_trace_count + 1
  BY DEF Send
<1> SUFFICES ASSUME NEW t \in LineTypes
             PROVE  counters'[t] = Cardinality(Sent(t, m_trace_count + 1))
  BY <1>0 DEF CountedByType, Sent
<1> DEFINE type == trace[m_trace_count + 1].type
<1>1. /\ NextRequest.type = type /\ type \in LineTypes
      /\ counters' = Counted(NextRequest.type) /\ counters \in [LineTypes -> Nat]
      /\ m_trace_count \in Nat
  <2>1. TypeOK /\ InTurn /\ ~is_finished
    BY DEF Inv, Send
  <2>2. NextRequest.type = type /\ m_trace_count + 1 \in 1..Len(trace)
    BY <2>1, NextRequestType
  <2>3. type \in LineTypes
    BY <2>1, <2>2, LineOfTrace
  <2>4. counters' = Counted(NextRequest.type)
    BY DEF Send
  <2>. QED  BY <2>1, <2>2, <2>3, <2>4, TraceType DEF TypeOK
<1>2. counters[t] = Cardinality(Sent(t, m_trace_count)) /\ IsFiniteSet(Sent(t, m_trace_count))
  BY <1>1, SentFinite DEF CountedByType, Sent
<1>3. CASE t = type /\ t # "BARRIER"
  <2>1. Sent(t, m_trace_count + 1) = Sent(t, m_trace_count) \cup {m_trace_count + 1}
    BY <1>1, <1>3 DEF Sent
  <2>2. m_trace_count + 1 \notin Sent(t, m_trace_count)
    BY <1>1 DEF Sent
  <2>3. Cardinality(Sent(t, m_trace_count + 1)) = Cardinality(Sent(t, m_trace_count)) + 1
    BY <2>1, <2>2, <1>2, FS_AddElement
  <2>4. counters'[t] = counters[t] + 1
    BY <1>1, <1>3 DEF Counted
  <2>. QED  BY <2>3, <2>4, <1>2
<1>4. CASE ~(t = type /\ t # "BARRIER")
  <2>1. Sent(t, m_trace_count + 1) = Sent(t, m_trace_count)
    BY <1>1, <1>4 DEF Sent
  <2>2. counters'[t] = counters[t]
    BY <1>1, <1>4 DEF Counted
  <2>. QED  BY <2>1, <2>2, <1>2
<1>. QED  BY <1>3, <1>4

(* Nothing else is accepted or counted.                                     *)
LEMMA NextKeepsSent ==
  Inv /\ Located /\ CountedByType /\ [Next]_vars => (Located /\ CountedByType)'
<1> SUFFICES ASSUME Inv, Located, CountedByType, [Next]_vars
             PROVE  Located' /\ CountedByType'
  OBVIOUS
<1>1. CASE Send
  BY <1>1, SendKeepsLocated, SendKeepsCount
<1>2. CASE UNCHANGED <<trace, m_trace_count, accepted, counters>>
  BY <1>2 DEF Located, CountedByType
<1>3. Refuse \/ AllSent \/ MemoryTick \/ LoopTest \/ UNCHANGED vars
        => UNCHANGED <<trace, m_trace_count, accepted, counters>>
  BY DEF Refuse, AllSent, MemoryTick, LoopTest, vars, frontend, memory
<1>. QED  BY <1>1, <1>2, <1>3 DEF Next

(* For every organization: each request is with the controller and at the    *)
(* place its generator meant, no two places fall together under any mapper,  *)
(* and the statistics count the lines of the trace.                        *)
THEOREM SentAsGeneratorsMean == Spec => []SentAsMeant
<1> DEFINE SInv == Inv /\ Located /\ CountedByType
<1>1. Init => SInv
  BY InitInv, InitSent
<1>2. SInv /\ [Next]_vars => SInv'
  BY NextKeepsInv, NextKeepsSent
<1>3. SInv => SentAsMeant
  BY InvPlacesApart DEF SentAsMeant
<1> HIDE DEF SInv
<1>. QED  BY <1>1, <1>2, <1>3, PTL DEF Spec

---------------------------------------------------------------------------
(* The lines of a channel.                                                   *)

LineOf(k) == [line |-> k, type |-> trace[k].type]
For(c, k) == trace[k].place["channel"] = c

(* The lines of channel c among the first n.                                *)
Steps(c, upTo) ==
  /\ upTo[0] = <<>>
  /\ \A n \in Nat : upTo[n + 1] = IF For(c, n + 1) THEN Append(upTo[n], LineOf(n + 1)) ELSE upTo[n]

(* SentTo is a CHOOSE of a recursive function: there is one (NaturalFacts), so *)
(* the one that is chosen takes these steps too.                             *)
UpTo(c) ==
  CHOOSE f : f = [n \in Nat |-> IF n = 0 THEN <<>>
                                ELSE IF trace[n].place["channel"] # c THEN f[n - 1]
                                ELSE Append(f[n - 1], [line |-> n, type |-> trace[n].type])]

(* So the lines of a channel are collected step by step.                    *)
LEMMA SentToSteps ==
  ASSUME NEW c
  PROVE  SentTo(c) = UpTo(c)[m_trace_count] /\ Steps(c, UpTo(c))
<1> DEFINE T == Seq([line : Nat, type : {trace[n].type : n \in Nat}])
           none == <<>>
           step == [n \in Nat |-> [s \in T |-> IF For(c, n) THEN Append(s, LineOf(n)) ELSE s]]
           Def(g) == [n \in Nat |-> IF n = 0 THEN <<>>
                                    ELSE IF trace[n].place["channel"] # c THEN g[n - 1]
                                    ELSE Append(g[n - 1], [line |-> n, type |-> trace[n].type])]
<1>1. step \in StepsOf(T) /\ none \in T
  <2>1. \A n \in Nat : LineOf(n) \in [line : Nat, type : {trace[m].type : m \in Nat}]
    BY DEF LineOf
  <2>2. \A n \in Nat, s \in T : Append(s, LineOf(n)) \in T
    BY <2>1
  <2>3. none \in T
    OBVIOUS
  <2> HIDE DEF T
  <2>. QED  BY <2>2, <2>3 DEF StepsOf
<1>2. PICK f \in [Nat -> T] : Recurs(f, none, step)
  <2> HIDE DEF step, none, T
  <2>. QED  BY <1>1, RecursiveFunctionExists
<1>3. /\ f[0] = <<>>
      /\ \A n \in Nat : f[n + 1] = IF For(c, n + 1) THEN Append(f[n], LineOf(n + 1)) ELSE f[n]
  <2>1. f[0] = <<>>
    BY <1>2 DEF Recurs
  <2>2. ASSUME NEW n \in Nat
        PROVE  f[n + 1] = IF For(c, n + 1) THEN Append(f[n], LineOf(n + 1)) ELSE f[n]
    <3>1. n + 1 \in Nat /\ f[n] \in T
      BY <1>2
    <3>2. f[n + 1] = step[n + 1][f[n]]
      <4> HIDE DEF step
      <4>. QED  BY <1>2 DEF Recurs
    <3> HIDE DEF T
    <3>. QED  BY <3>1, <3>2
  <2>. QED  BY <2>1, <2>2
<1>4. f = Def(f)
  <2>1. ASSUME NEW n \in Nat PROVE f[n] = Def(f)[n]
    <3>1. CASE n = 0
      BY <1>3, <3>1
    <3>2. CASE n # 0
      <4>1. n - 1 \in Nat /\ (n - 1) + 1 = n
        BY <3>2
      <4>2. f[n] = IF For(c, n) THEN Append(f[n - 1], LineOf(n)) ELSE f[n - 1]
        BY <1>3, <4>1
      <4>. QED  BY <3>2, <4>2 DEF For, LineOf
    <3>. QED  BY <3>1, <3>2
  <2> HIDE DEF T
  <2>2. f \in [Nat -> T] /\ Def(f) = [n \in Nat |-> Def(f)[n]]
    OBVIOUS
  <2> HIDE DEF Def
  <2>. QED  BY <2>1, <2>2
<1>5. UpTo(c) = Def(UpTo(c))
  BY <1>4 DEF UpTo
<1>6. UpTo(c)[0] = <<>>
  BY <1>5
<1>7. ASSUME NEW n \in Nat
      PROVE  UpTo(c)[n + 1] = IF For(c, n + 1) THEN Append(UpTo(c)[n], LineOf(n + 1)) ELSE UpTo(c)[n]
  <2>1. n + 1 \in Nat /\ n + 1 # 0 /\ (n + 1) - 1 = n
    OBVIOUS
  <2>. QED  BY <1>5, <2>1 DEF For, LineOf
<1>8. SentTo(c) = UpTo(c)[m_trace_count]
  BY DEF SentTo, UpTo
<1>. QED  BY <1>6, <1>7, <1>8 DEF Steps

(* The lines of a channel are in the order of the trace.                    *)
LinesInOrder(c, s, n) ==
  /\ s \in Seq([line : Nat, type : {trace[m].type : m \in Nat}])
  /\ \A a \in 1..Len(s) : s[a] = LineOf(s[a].line) /\ s[a].line \in 1..n /\ For(c, s[a].line)
  /\ \A a, b \in 1..Len(s) : a < b => s[a].line < s[b].line

(* One line more keeps the order.                                           *)
LEMMA LinesStayInOrder ==
  ASSUME NEW c, NEW s, NEW n \in Nat, LinesInOrder(c, s, n)
  PROVE  /\ LinesInOrder(c, s, n + 1)
         /\ For(c, n + 1) => LinesInOrder(c, Append(s, LineOf(n + 1)), n + 1)
<1> DEFINE T == [line : Nat, type : {trace[m].type : m \in Nat}]
           x == LineOf(n + 1)
           r == Append(s, x)
<1>1. s \in Seq(T) /\ Len(s) \in Nat
  BY DEF LinesInOrder
<1>2. x \in T /\ x.line = n + 1 /\ x = LineOf(x.line)
  BY DEF LineOf
<1> HIDE DEF T, x
<1>3. /\ r \in Seq(T) /\ Len(r) = Len(s) + 1 /\ r[Len(s) + 1] = x
      /\ \A a \in 1..Len(s) : r[a] = s[a]
  BY <1>1, <1>2
<1>4. \A a \in 1..Len(r) : a \in 1..Len(s) \/ a = Len(s) + 1
  BY <1>1, <1>3
<1> HIDE DEF r
<1>5. /\ \A a \in 1..Len(s) : s[a] = LineOf(s[a].line) /\ s[a].line \in 1..n /\ For(c, s[a].line)
      /\ \A a, b \in 1..Len(s) : a < b => s[a].line < s[b].line
  BY DEF LinesInOrder
<1>6. LinesInOrder(c, s, n + 1)
  BY <1>1, <1>5 DEF LinesInOrder, T
<1>7. ASSUME For(c, n + 1) PROVE LinesInOrder(c, r, n + 1)
  <2>1. \A a \in 1..Len(r) : r[a] = LineOf(r[a].line) /\ r[a].line \in 1..(n + 1) /\ For(c, r[a].line)
    BY <1>2, <1>3, <1>4, <1>5, <1>7
  <2>2. \A a, b \in 1..Len(r) : a < b => r[a].line < r[b].line
    <3> SUFFICES ASSUME NEW a \in 1..Len(r), NEW b \in 1..Len(r), a < b
                 PROVE  r[a].line < r[b].line
      OBVIOUS
    <3>1. a \in 1..Len(s)
      BY <1>1, <1>3
    <3>2. r[a].line = s[a].line /\ s[a].line \in 1..n
      BY <1>3, <1>5, <3>1
    <3>3. CASE b \in 1..Len(s)
      BY <1>3, <1>5, <3>1, <3>3
    <3>4. CASE b = Len(s) + 1
      BY <1>2, <1>3, <3>2, <3>4
    <3>. QED  BY <1>4, <3>3, <3>4
  <2>. QED  BY <1>3, <2>1, <2>2 DEF LinesInOrder, T
<1>. QED  BY <1>6, <1>7 DEF r, x

(* All that were sent are in order.                                         *)
LEMMA SentInOrder ==
  ASSUME NEW c, TypeOK
  PROVE  LinesInOrder(c, SentTo(c), m_trace_count)
<1> DEFINE f == UpTo(c)
           A == {n \in Nat : LinesInOrder(c, f[n], n)}
<1>1. Steps(c, f) /\ SentTo(c) = f[m_trace_count]
  BY SentToSteps
<1> HIDE DEF f
<1>2. 0 \in A
  <2>1. f[0] = <<>>
    BY <1>1 DEF Steps
  <2> DEFINE none == <<>>
  <2>2. none \in Seq([line : Nat, type : {trace[m].type : m \in Nat}]) /\ Len(none) = 0 /\ 1..0 = {}
    OBVIOUS
  <2> HIDE DEF none
  <2>3. LinesInOrder(c, none, 0)
    BY <2>2 DEF LinesInOrder
  <2>. QED  BY <2>1, <2>3 DEF none
<1>3. ASSUME NEW n \in Nat, n \in A PROVE n + 1 \in A
  <2>1. f[n + 1] = IF For(c, n + 1) THEN Append(f[n], LineOf(n + 1)) ELSE f[n]
    BY <1>1 DEF Steps
  <2>2. LinesInOrder(c, f[n], n)
    BY <1>3
  <2>. QED  BY <2>1, <2>2, LinesStayInOrder
<1>4. Nat \subseteq A
  <2> HIDE DEF A
  <2>. QED  BY <1>2, <1>3, NatInductionSet
<1>5. m_trace_count \in Nat
  BY TraceType DEF TypeOK
<1>. QED  BY <1>1, <1>4, <1>5

---------------------------------------------------------------------------
(* Each channel serves its own lines as the controller specification allows.  *)

(* The requests with a controller are lines of the trace, in their order.    *)
AcceptedInOrder == \A c \in Channels :
  /\ \A n \in 1..Len(accepted[c]) : accepted[c][n].type = trace[accepted[c][n].line].type
  /\ \A a, b \in 1..Len(accepted[c]) : a < b => accepted[c][a].line < accepted[c][b].line

(* The lines S are served in an order that barriers allow.                   *)
BarriersKept(S) == \A c \in Channels : \A a, b \in 1..Len(accepted[c]) :
  /\ a < b /\ accepted[c][a].type \in PIMTypes /\ accepted[c][b].type \in PIMTypes
  /\ "BARRIER" \in {accepted[c][a].type, accepted[c][b].type}
  /\ accepted[c][b].line \in S
  => accepted[c][a].line \in S

NoRefreshWaits == untilRefresh = 1 => refreshing = {}

ChannelInv == Inv /\ Located /\ AcceptedInOrder /\ BarriersKept(served) /\ NoRefreshWaits

(* At first nothing is accepted, served or due.                             *)
LEMMA InitChannels == Init => AcceptedInOrder /\ BarriersKept(served) /\ NoRefreshWaits
<1> SUFFICES ASSUME Init PROVE AcceptedInOrder /\ BarriersKept(served) /\ NoRefreshWaits
  OBVIOUS
<1>1. \A c \in Channels : Len(accepted[c]) = 0 /\ 1..0 = {}
  BY DEF Init
<1>2. AcceptedInOrder /\ BarriersKept(served)
  BY <1>1 DEF AcceptedInOrder, BarriersKept
<1>. QED  BY <1>2 DEF Init, NoRefreshWaits

(* What is sent is the last line yet, and is not served.                     *)
LEMMA SendKeepsChannels ==
  ASSUME ChannelInv, Send
  PROVE  AcceptedInOrder' /\ BarriersKept(served)'
<1> DEFINE r == NextRequest
           d == r.addr_vec["channel"]
<1>1. /\ r.line = m_trace_count + 1 /\ r.type = trace[m_trace_count + 1].type
      /\ r \in Request /\ d \in Channels
  BY NextRequestType DEF ChannelInv, Inv, Send
<1>2. accepted' = [accepted EXCEPT ![d] = Append(@, r)] /\ trace' = trace /\ served' = served
  BY DEF Send
<1> HIDE DEF r
<1>3. accepted \in [Channels -> Seq(Request)] /\ m_trace_count \in Nat
  BY TraceType DEF ChannelInv, Inv, TypeOK
<1>4. \A c \in Channels : \A n \in 1..Len(accepted[c]) :
        accepted[c][n].line \in 1..m_trace_count
  BY <1>3 DEF ChannelInv, Inv, NoneMissing
<1>5. m_trace_count + 1 \notin served
  BY <1>3 DEF ChannelInv, Inv, TypeOK
<1>6. ASSUME NEW c \in Channels
      PROVE  /\ \A n \in 1..Len(accepted'[c]) : accepted'[c][n].type = trace[accepted'[c][n].line].type
             /\ \A a, b \in 1..Len(accepted'[c]) : a < b => accepted'[c][a].line < accepted'[c][b].line
             /\ \A a, b \in 1..Len(accepted'[c]) :
                  /\ a < b /\ accepted'[c][a].type \in PIMTypes /\ accepted'[c][b].type \in PIMTypes
                  /\ "BARRIER" \in {accepted'[c][a].type, accepted'[c][b].type}
                  /\ accepted'[c][b].line \in served
                  => accepted'[c][a].line \in served
  <2> DEFINE s == accepted[c]
             t == accepted'[c]
  <2>1. /\ s \in Seq(Request) /\ Len(s) \in Nat
        /\ \A n \in 1..Len(s) : s[n].type = trace[s[n].line].type /\ s[n].line \in 1..m_trace_count
        /\ \A a, b \in 1..Len(s) : a < b => s[a].line < s[b].line
        /\ \A a, b \in 1..Len(s) :
             /\ a < b /\ s[a].type \in PIMTypes /\ s[b].type \in PIMTypes
             /\ "BARRIER" \in {s[a].type, s[b].type} /\ s[b].line \in served
             => s[a].line \in served
    <3>1. s \in Seq(Request) /\ Len(s) \in Nat
      BY <1>3
    <3>2. /\ \A n \in 1..Len(s) : s[n].type = trace[s[n].line].type /\ s[n].line \in 1..m_trace_count
          /\ \A a, b \in 1..Len(s) : a < b => s[a].line < s[b].line
      BY <1>4 DEF ChannelInv, AcceptedInOrder
    <3>3. \A a, b \in 1..Len(s) :
            /\ a < b /\ s[a].type \in PIMTypes /\ s[b].type \in PIMTypes
            /\ "BARRIER" \in {s[a].type, s[b].type} /\ s[b].line \in served
            => s[a].line \in served
      BY DEF ChannelInv, BarriersKept
    <3>. QED  BY <3>1, <3>2, <3>3
  <2>2. CASE c # d
    <3>1. t = s
      BY <1>1, <1>2, <1>3, <2>2
    <3> HIDE DEF s, t
    <3>. QED  BY <2>1, <3>1 DEF t
  <2>3. CASE c = d
    <3>1. t = Append(s, r)
      BY <1>1, <1>2, <1>3, <2>3
    <3>2. /\ Len(t) = Len(s) + 1 /\ t[Len(s) + 1] = r
          /\ \A a \in 1..Len(s) : t[a] = s[a]
      BY <2>1, <1>1, <3>1
    <3> HIDE DEF s, t
    <3>3. \A a \in 1..Len(t) : a \in 1..Len(s) \/ a = Len(s) + 1
      BY <2>1, <3>2
    <3>4. \A a, b \in 1..Len(t) : a < b => a \in 1..Len(s)
      BY <2>1, <3>2
    <3>5. \A n \in 1..Len(t) : t[n].type = trace[t[n].line].type
      BY <1>1, <2>1, <3>2, <3>3
    <3>6. ASSUME NEW a \in 1..Len(t), NEW b \in 1..Len(t), a < b
          PROVE  t[a].line < t[b].line
      <4>1. a \in 1..Len(s) /\ t[a].line \in 1..m_trace_count
        BY <2>1, <3>2, <3>4, <3>6
      <4>2. CASE b \in 1..Len(s)
        BY <2>1, <3>2, <3>6, <4>1, <4>2
      <4>3. CASE b = Len(s) + 1
        BY <1>1, <1>3, <3>2, <4>1, <4>3
      <4>. QED  BY <3>3, <4>2, <4>3
    <3>7. ASSUME NEW a \in 1..Len(t), NEW b \in 1..Len(t),
                 a < b, t[a].type \in PIMTypes, t[b].type \in PIMTypes,
                 "BARRIER" \in {t[a].type, t[b].type}, t[b].line \in served
          PROVE  t[a].line \in served
      <4>1. b \in 1..Len(s)
        BY <1>1, <1>5, <3>2, <3>3, <3>7
      <4>2. a \in 1..Len(s)
        BY <3>4, <3>7
      <4>. QED  BY <2>1, <3>2, <3>7, <4>1, <4>2
    <3>. QED  BY <3>5, <3>6, <3>7 DEF t
  <2>. QED  BY <2>2, <2>3
<1> DEFINE new == accepted'
<1>7. \A c \in Channels :
        /\ \A n \in 1..Len(new[c]) : new[c][n].type = trace[new[c][n].line].type
        /\ \A a, b \in 1..Len(new[c]) : a < b => new[c][a].line < new[c][b].line
  BY <1>6
<1>8. \A c \in Channels : \A a, b \in 1..Len(new[c]) :
        /\ a < b /\ new[c][a].type \in PIMTypes /\ new[c][b].type \in PIMTypes
        /\ "BARRIER" \in {new[c][a].type, new[c][b].type} /\ new[c][b].line \in served
        => new[c][a].line \in served
  BY <1>6
<1>9. trace' = trace /\ served' = served
  BY <1>2
<1>10. AcceptedInOrder'
  BY <1>7, <1>9, Zenon DEF AcceptedInOrder
<1>11. BarriersKept(served)'
  BY <1>8, <1>9, Zenon DEF BarriersKept
<1>. QED  BY <1>10, <1>11

(* What a cycle serves is served in order as well.                           *)
LEMMA TickKeepsChannels ==
  ASSUME ChannelInv, MemoryTick
  PROVE  AcceptedInOrder' /\ BarriersKept(served') /\ BarriersKept(served)' /\ NoRefreshWaits'
<1>1. accepted' = accepted /\ trace' = trace
  BY DEF MemoryTick, frontend
<1>2. PICK S : MayServe(S) /\ served' = served \cup S
  BY DEF MemoryTick
<1>3. accepted \in [Channels -> Seq(Request)]
  BY DEF ChannelInv, Inv, TypeOK
<1>4. \A c \in Channels : DOMAIN accepted[c] = 1..Len(accepted[c])
  BY <1>3
<1>5. BarriersKept(served')
  <2> SUFFICES ASSUME NEW c \in Channels, NEW a \in 1..Len(accepted[c]), NEW b \in 1..Len(accepted[c]),
                      a < b, accepted[c][a].type \in PIMTypes, accepted[c][b].type \in PIMTypes,
                      "BARRIER" \in {accepted[c][a].type, accepted[c][b].type},
                      accepted[c][b].line \in served'
               PROVE  accepted[c][a].line \in served'
    BY DEF BarriersKept
  <2>1. CASE accepted[c][b].line \in S
    BY <1>2, <1>4, <2>1 DEF MayServe
  <2>2. CASE accepted[c][b].line \in served
    BY <1>2, <2>2 DEF ChannelInv, BarriersKept
  <2>. QED  BY <1>2, <2>1, <2>2
<1>6. BarriersKept(served)'
  BY <1>1, <1>5 DEF BarriersKept
<1>7. AcceptedInOrder'
  BY <1>1 DEF ChannelInv, AcceptedInOrder
<1>8. NoRefreshWaits'
  BY DEF MemoryTick, RefreshTick, NoRefreshWaits
<1>. QED  BY <1>5, <1>6, <1>7, <1>8

(* Every step keeps this.                                                   *)
LEMMA NextKeepsChannels ==
  ChannelInv /\ [Next]_vars => AcceptedInOrder' /\ BarriersKept(served)' /\ NoRefreshWaits'
<1> SUFFICES ASSUME ChannelInv, [Next]_vars
             PROVE  AcceptedInOrder' /\ BarriersKept(served)' /\ NoRefreshWaits'
  OBVIOUS
<1>1. CASE Send
  BY <1>1, SendKeepsChannels DEF Send, ChannelInv, NoRefreshWaits
<1>2. CASE MemoryTick
  BY <1>2, TickKeepsChannels
<1>3. CASE UNCHANGED <<trace, memory>>
  BY <1>3 DEF memory, ChannelInv, AcceptedInOrder, BarriersKept, NoRefreshWaits
<1>4. Refuse \/ AllSent \/ LoopTest \/ UNCHANGED vars => UNCHANGED <<trace, memory>>
  BY DEF Refuse, AllSent, LoopTest, vars, frontend
<1>. QED  BY <1>1, <1>2, <1>3, <1>4 DEF Next

(* What is served of the lines that a channel was sent is served in order.    *)
LEMMA LinesServedInOrder ==
  ASSUME ChannelInv, Mapper = "HBM3-PIM", NEW c \in Channels, NEW S, BarriersKept(S)
  PROVE  LET s == SentTo(c)
         IN \A a, b \in 1..Len(s) :
              /\ a < b /\ s[a].type \in PIMTypes /\ s[b].type \in PIMTypes
              /\ "BARRIER" \in {s[a].type, s[b].type} /\ s[b].line \in S
              => s[a].line \in S
<1> DEFINE s == SentTo(c)
           q == accepted[c]
<1>1. LinesInOrder(c, s, m_trace_count)
  BY SentInOrder DEF ChannelInv, Inv
<1> HIDE DEF s
<1>2. q \in Seq(Request) /\ Len(q) \in Nat /\ m_trace_count \in Nat
  BY TraceType DEF ChannelInv, Inv, TypeOK
<1>3. ASSUME NEW k \in 1..m_trace_count, For(c, k)
      PROVE  \E n \in 1..Len(q) : q[n].line = k /\ q[n].type = trace[k].type
  <2>1. PICK d \in Channels : \E n \in DOMAIN accepted[d] : accepted[d][n].line = k
    BY DEF ChannelInv, Inv, NoneMissing
  <2>2. PICK n \in DOMAIN accepted[d] : accepted[d][n].line = k
    BY <2>1
  <2>3. d = c
    BY <1>3, <2>2 DEF ChannelInv, Located, For
  <2>4. n \in 1..Len(q)
    BY <1>2, <2>2, <2>3
  <2>. QED  BY <2>2, <2>3, <2>4 DEF ChannelInv, AcceptedInOrder
<1> SUFFICES ASSUME NEW a \in 1..Len(s), NEW b \in 1..Len(s),
                    a < b, s[a].type \in PIMTypes, s[b].type \in PIMTypes,
                    "BARRIER" \in {s[a].type, s[b].type}, s[b].line \in S
             PROVE  s[a].line \in S
  BY DEF s
<1> DEFINE k == s[a].line
           l == s[b].line
<1>4. /\ k \in 1..m_trace_count /\ l \in 1..m_trace_count /\ k < l /\ For(c, k) /\ For(c, l)
      /\ s[a].type = trace[k].type /\ s[b].type = trace[l].type
  <2>1. s[a] = LineOf(k) /\ s[b] = LineOf(l)
    BY <1>1 DEF LinesInOrder
  <2>2. LineOf(k).type = trace[k].type /\ LineOf(l).type = trace[l].type
    BY DEF LineOf
  <2> HIDE DEF k, l
  <2>. QED  BY <1>1, <2>1, <2>2 DEF LinesInOrder, k, l
<1> HIDE DEF k, l
<1>5. PICK i \in 1..Len(q) : q[i].line = k /\ q[i].type = trace[k].type
  BY <1>3, <1>4
<1>6. PICK j \in 1..Len(q) : q[j].line = l /\ q[j].type = trace[l].type
  BY <1>3, <1>4
<1>7. i < j
  <2>1. CASE j < i
    <3>1. q[j].line < q[i].line
      BY <2>1 DEF ChannelInv, AcceptedInOrder
    <3>. QED  BY <1>4, <1>5, <1>6, <3>1
  <2>2. CASE i = j
    BY <1>4, <1>5, <1>6, <2>2
  <2>. QED  BY <1>2, <2>1, <2>2
<1>8. q[i].type \in PIMTypes /\ q[j].type \in PIMTypes /\ "BARRIER" \in {q[i].type, q[j].type}
  BY <1>4, <1>5, <1>6
<1>9. q[j].line \in S
  BY <1>6 DEF l
<1>10. q[i].line \in S
  BY <1>7, <1>8, <1>9 DEF BarriersKept
<1>. QED  BY <1>5, <1>10 DEF k

(* What is served of what channel c was sent.                                *)
DoneOf(c) == {n \in DOMAIN SentTo(c) : SentTo(c)[n].line \in served}

(* A line that is sent is accepted by its channel; the others do nothing.     *)
LEMMA SendIsAccept ==
  ASSUME ChannelInv, Send, NEW c \in Channels
  PROVE  Channel(c)!Accept \/ UNCHANGED Channel(c)!vars
<1> DEFINE n == m_trace_count
           s == SentTo(c)
           t == SentTo(c)'
           f == UpTo(c)
<1>1. /\ trace' = trace /\ m_trace_count' = n + 1 /\ served' = served
      /\ refreshing' = refreshing /\ untilRefresh' = untilRefresh
  BY DEF Send
<1>2. n \in Nat /\ n + 1 \notin served
  BY TraceType DEF ChannelInv, Inv, TypeOK
<1>3. s = f[n] /\ Steps(c, f) /\ LinesInOrder(c, s, n)
  BY SentToSteps, SentInOrder DEF ChannelInv, Inv
<1>4. t = f[n + 1]
  <2>1. SentTo(c)' = UpTo(c)'[m_trace_count']
    BY DEF SentTo, UpTo
  <2>2. UpTo(c)' = UpTo(c)
    BY <1>1 DEF UpTo
  <2>. QED  BY <1>1, <2>1, <2>2
<1>5. t = IF For(c, n + 1) THEN Append(s, LineOf(n + 1)) ELSE s
  BY <1>2, <1>3, <1>4 DEF Steps
<1>6. DoneOf(c)' = {m \in DOMAIN t : t[m].line \in served}
  BY <1>1 DEF DoneOf
<1>7. s \in Seq([line : Nat, type : {trace[m].type : m \in Nat}])
  BY <1>3 DEF LinesInOrder
<1> HIDE DEF n, f
<1>8. CASE For(c, n + 1)
  <2> DEFINE x == LineOf(n + 1)
  <2>1. x \in [line : Nat, type : {trace[m].type : m \in Nat}] /\ x.line = n + 1
    BY <1>2 DEF LineOf
  <2>2. t = Append(s, x)
    BY <1>5, <1>8
  <2> HIDE DEF s, t, x
  <2>3. /\ Len(t) = Len(s) + 1 /\ SubSeq(t, 1, Len(s)) = s /\ t[Len(s) + 1] = x
        /\ DOMAIN t = 1..(Len(s) + 1) /\ DOMAIN s = 1..Len(s) /\ Len(s) \in Nat
        /\ \A m \in 1..Len(s) : t[m] = s[m]
    BY <1>7, <2>1, <2>2
  <2>4. {m \in DOMAIN t : t[m].line \in served} = {m \in DOMAIN s : s[m].line \in served}
    BY <1>2, <2>1, <2>3
  <2>5. DoneOf(c)' = DoneOf(c)
    BY <1>6, <2>4 DEF DoneOf, s
  <2>6. Len(SentTo(c)') = Len(SentTo(c)) + 1 /\ SubSeq(SentTo(c)', 1, Len(SentTo(c))) = SentTo(c)
    BY <2>3 DEF s, t
  <2>. QED  BY <1>1, <2>5, <2>6 DEF Channel!Accept, DoneOf
<1>9. CASE ~For(c, n + 1)
  <2>1. SentTo(c)' = SentTo(c)
    BY <1>5, <1>9
  <2>2. DoneOf(c)' = DoneOf(c)
    BY <1>1, <2>1 DEF DoneOf
  <2>. QED  BY <1>1, <2>1, <2>2 DEF Channel!vars, DoneOf
<1>. QED  BY <1>8, <1>9

(* A cycle serves, and lets the refresh go on or makes the next one due.      *)
LEMMA TickIsWork ==
  ASSUME ChannelInv, MemoryTick, Mapper = "HBM3-PIM", NEW c \in Channels
  PROVE  Channel(c)!Work \/ Channel(c)!BeginRefresh
<1>1. /\ trace' = trace /\ m_trace_count' = m_trace_count /\ served \subseteq served'
  BY DEF MemoryTick, frontend
<1>2. BarriersKept(served')
  BY TickKeepsChannels
<1>3. SentTo(c)' = SentTo(c)
  BY <1>1 DEF SentTo
<1>4. /\ DOMAIN SentTo(c) = 1..Len(SentTo(c))
  BY SentInOrder DEF ChannelInv, Inv, LinesInOrder
<1>5. DoneOf(c)' = {n \in DOMAIN SentTo(c) : SentTo(c)[n].line \in served'}
  BY <1>3 DEF DoneOf
<1>6. DoneOf(c) \subseteq DoneOf(c)' /\ DoneOf(c)' \subseteq DOMAIN SentTo(c)
  BY <1>1, <1>5 DEF DoneOf
<1>7. Channel(c)!OrderKept(SentTo(c), DoneOf(c)')
  BY <1>2, <1>4, <1>5, LinesServedInOrder DEF Channel!OrderKept
<1>8. Channel(c)!Serve
  BY <1>6, <1>7 DEF Channel!Serve, DoneOf
<1>9. untilRefresh \in 1..Period /\ Period \in Nat \ {0} /\ refreshing \subseteq Channels
  BY SystemAssumption DEF ChannelInv, Inv, TypeOK
<1>10. CASE untilRefresh = 1
  <2>1. (c \in refreshing) = FALSE
    BY <1>10 DEF ChannelInv, NoRefreshWaits
  <2>2. untilRefresh' = Period /\ (c \in refreshing)' \in BOOLEAN
    BY <1>10 DEF MemoryTick, RefreshTick
  <2>. QED  BY <1>3, <1>8, <1>10, <2>1, <2>2 DEF Channel!BeginRefresh
<1>11. CASE untilRefresh # 1
  <2>1. untilRefresh' = untilRefresh - 1 /\ untilRefresh' \in {untilRefresh, untilRefresh - 1} \ {0}
    BY <1>9, <1>11 DEF MemoryTick, RefreshTick
  <2>2. (c \in refreshing)' \in {(c \in refreshing), FALSE}
    <3>1. refreshing' \in SUBSET refreshing
      BY <1>11 DEF MemoryTick, RefreshTick
    <3>2. CASE c \in refreshing'
      <4>1. c \in refreshing
        BY <3>1, <3>2
      <4>. QED  BY <3>2, <4>1
    <3>3. CASE c \notin refreshing'
      <4>1. (c \in refreshing)' = FALSE
        BY <3>3
      <4>. QED  BY <4>1, Zenon
    <3>. QED  BY <3>2, <3>3
  <2>. QED  BY <1>3, <1>8, <2>1, <2>2 DEF Channel!Work
<1>. QED  BY <1>10, <1>11

(* Every step of the system is, for each channel, one of the controller      *)
(* specification or none.                                                   *)
LEMMA StepIsService ==
  ASSUME ChannelInv, [Next]_vars, Mapper = "HBM3-PIM"
  PROVE  \A c \in Channels : [Channel(c)!Next]_(Channel(c)!vars)
<1> SUFFICES ASSUME NEW c \in Channels PROVE [Channel(c)!Next]_(Channel(c)!vars)
  OBVIOUS
<1>1. CASE Send
  BY <1>1, SendIsAccept DEF Channel!Next
<1>2. CASE MemoryTick
  BY <1>2, TickIsWork DEF Channel!Next
<1>3. CASE UNCHANGED <<trace, m_trace_count, memory>>
  <2>1. SentTo(c)' = SentTo(c) /\ DoneOf(c)' = DoneOf(c)
    BY <1>3 DEF memory, SentTo, DoneOf
  <2>. QED  BY <1>3, <2>1 DEF memory, Channel!vars, DoneOf
<1>4. Refuse \/ AllSent \/ LoopTest \/ UNCHANGED vars => UNCHANGED <<trace, m_trace_count, memory>>
  BY DEF Refuse, AllSent, LoopTest, vars, frontend
<1>. QED  BY <1>1, <1>2, <1>3, <1>4 DEF Next

(* The system starts as every channel does.                                 *)
LEMMA InitIsService == Init => \A c \in Channels : Channel(c)!Init
<1> SUFFICES ASSUME Init, NEW c \in Channels PROVE Channel(c)!Init
  OBVIOUS
<1>1. SentTo(c) = <<>>
  BY SentToSteps DEF Steps, Init
<1>2. DoneOf(c) = {} /\ (c \in refreshing) = FALSE
  BY <1>1 DEF DoneOf, Init
<1>. QED  BY <1>1, <1>2 DEF Init, Channel!Init, DoneOf

(* For every number of channels and every trace: seen from a channel, the      *)
(* memory system, the frontend and the other channels do nothing but send it   *)
(* its own lines, in their order, and let its cycles pass; so what is shown of *)
(* a controller alone (ImplementsService) holds of it in the simulator.        *)
THEOREM ChannelsAreServices ==
  ASSUME Mapper = "HBM3-PIM"
  PROVE  Spec => ChannelService
<1>1. Init => ChannelInv /\ \A c \in Channels : Channel(c)!Init
  BY InitInv, InitSent, InitChannels, InitIsService DEF ChannelInv
<1>2. ChannelInv /\ [Next]_vars => ChannelInv'
  <2>1. ChannelInv /\ [Next]_vars => Inv'
    BY NextKeepsInv DEF ChannelInv
  <2>2. ChannelInv /\ [Next]_vars => Located'
    <3>1. Located /\ Send /\ Inv => Located'
      BY SendKeepsLocated
    <3>2. Located /\ UNCHANGED <<trace, accepted>> => Located'
      BY DEF Located
    <3>3. [Next]_vars => Send \/ UNCHANGED <<trace, accepted>>
      BY DEF Next, Refuse, AllSent, MemoryTick, LoopTest, vars, frontend, memory
    <3>. QED  BY <3>1, <3>2, <3>3 DEF ChannelInv
  <2>. QED  BY <2>1, <2>2, NextKeepsChannels DEF ChannelInv
<1>3. ChannelInv /\ [Next]_vars => \A c \in Channels : [Channel(c)!Next]_(Channel(c)!vars)
  BY StepIsService
<1>. QED  BY <1>1, <1>2, <1>3, PTL DEF Spec, ChannelService
=============================================================================
