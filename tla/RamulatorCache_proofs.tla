------------------------ MODULE RamulatorCache_proofs ------------------------
(***************************************************************************)
(* For any number of processes, setups and layers and whatever the bounds:    *)
(* what the tables and the log hold, and that the wrapper's processes         *)
(* implement ResultStore.                                                   *)
(***************************************************************************)
EXTENDS RamulatorCache, TLAPS

(* Where a call of run() is before, and until, its result is in the table.   *)
BeforeLog == {"yaml", "trace", "generate", "simulate", "rmtrace", "rmyaml", "log"}

---------------------------------------------------------------------------
(* Head counts, keys and tables.                                            *)

LEMMA CeilDivPositive ==
  ASSUME NEW a \in Nat \ {0}, NEW b \in Nat \ {0}
  PROVE  CeilDiv(a, b) \in Nat \ {0}
<1>1. a + b - 1 \in Nat /\ a + b - 1 >= b
  OBVIOUS
<1>2. \A n \in Nat : n >= b => n \div b \in Nat /\ n \div b >= 1
  OBVIOUS
<1>. QED  BY <1>1, <1>2 DEF CeilDiv

LEMMA QuestionTypes ==
  ASSUME NEW q \in Questions
  PROVE  /\ q.setup \in Setups /\ q.setup.pim \in PIMTypes
         /\ LookupKey(q) \in Keys /\ RunKey(q) \in Keys /\ FileName(q) \in Files
         /\ LookupKey(q).pim = q.setup.pim /\ RunKey(q).pim = q.setup.pim
<1>1. /\ q.setup \in Setups /\ q.shape \in Shapes /\ q.ops \in Nat \ {0}
      /\ q.setup.pim \in PIMTypes /\ q.setup.dhead \in Nat /\ q.setup.k \in Nat
  BY CacheAssumption DEF Questions
<1>2. Simulated(q) \in Nat \ {0}
  BY <1>1, CeilDivPositive, CacheAssumption DEF Simulated, PerHbm
<1>. QED  BY <1>1, <1>2 DEF LookupKey, RunKey, FileName, Files, Keys

LEMMA Nobody ==
  NoSetup \in Setups /\ NoQuestion \in Questions
<1>1. Setups # {} /\ Shapes # {} /\ Ops # {}
  BY CacheAssumption
<1>2. \E q : q \in Questions
  <2>1. PICK s \in Setups, h \in Shapes, o \in Ops : TRUE
    BY <1>1
  <2>2. [setup |-> s, shape |-> h, ops |-> o] \in Questions
    BY DEF Questions
  <2>. QED  BY <2>2
<1>. QED  BY <1>1, <1>2 DEF NoSetup, NoQuestion

LEMMA EmptyIsTable == IsTable(Empty) /\ DOMAIN Empty = {}
BY DEF IsTable, Empty

(* A row is added behind the others, and never replaces one.                *)
LEMMA ExtendedTable ==
  ASSUME NEW rows, IsTable(rows), NEW key \in Keys, NEW r \in Results
  PROVE  LET t == Extended(rows, key, r) IN
         /\ IsTable(t)
         /\ DOMAIN t = DOMAIN rows \cup {key}
         /\ \A k \in DOMAIN rows : t[k] = rows[k]
         /\ key \notin DOMAIN rows => t[key] = r
BY DEF IsTable, Extended

(* Each row that remains of a table is one of its rows, or was cut off.      *)
LEMMA RemainsTable ==
  ASSUME NEW rows, IsTable(rows), NEW t \in Remains(rows)
  PROVE  /\ IsTable(t)
         /\ \A k \in DOMAIN t : \/ k \in DOMAIN rows /\ t[k] = rows[k]
                                \/ t[k] \in {"short", "missing"}
<1>1. ASSUME NEW u \in Kept(rows)
      PROVE  /\ IsTable(u)
             /\ \A k \in DOMAIN u : k \in DOMAIN rows /\ u[k] = rows[k]
  <2>1. PICK S \in SUBSET DOMAIN rows : u = [k \in S |-> rows[k]]
    BY DEF Kept
  <2>. QED  BY <2>1 DEF IsTable
<1>2. CASE t \in Kept(rows)
  BY <1>1, <1>2
<1>3. CASE \E u \in Kept(rows) : t \in Damaged(u)
  <2>1. PICK u \in Kept(rows) : t \in Damaged(u)
    BY <1>3
  <2>2. PICK k \in DOMAIN u, r \in {"short", "missing"} : t = [u EXCEPT ![k] = r]
    BY <2>1 DEF Damaged
  <2>3. r \in Results
    BY DEF Results
  <2>. QED  BY <1>1, <2>2, <2>3 DEF IsTable
<1>4. CASE \E u \in Kept(rows) : t = Extended(u, LostKey, "missing")
  <2>1. PICK u \in Kept(rows) : t = Extended(u, LostKey, "missing")
    BY <1>4
  <2>2. LostKey \in Keys /\ "missing" \in Results
    BY DEF Keys, Results
  <2>3. /\ IsTable(t) /\ DOMAIN t = DOMAIN u \cup {LostKey}
        /\ \A k \in DOMAIN u : t[k] = u[k]
        /\ LostKey \notin DOMAIN u => t[LostKey] = "missing"
    BY <1>1, <2>1, <2>2, ExtendedTable
  <2>. QED  BY <1>1, <2>3
<1>5. \/ t \in Kept(rows)
      \/ t \in UNION {Damaged(u) : u \in Kept(rows)}
      \/ t \in {Extended(u, LostKey, "missing") : u \in Kept(rows) \ {rows}}
  BY DEF Remains
<1>. QED  BY <1>2, <1>3, <1>4, <1>5

LEMMA RowsOfLogTable ==
  ASSUME TypeOK, NEW t \in RowsOfLog
  PROVE  IsTable(t)
<1>1. IsTable(log.rows)
  BY DEF TypeOK
<1>. QED  BY <1>1, EmptyIsTable, RemainsTable DEF RowsOfLog

LEMMA LeftOverTable ==
  ASSUME NEW rows, IsTable(rows), NEW l \in LeftOver(rows)
  PROVE  /\ l = [state |-> l.state, rows |-> l.rows]
         /\ l.state \in {"empty", "whole"} /\ IsTable(l.rows)
<1>1. CASE l = [state |-> "empty", rows |-> Empty]
  BY <1>1, EmptyIsTable
<1>2. CASE \E t \in Remains(rows) : l = [state |-> "whole", rows |-> t]
  BY <1>2, RemainsTable
<1>. QED  BY <1>1, <1>2 DEF LeftOver

LEMMA RowsToExtendTable ==
  ASSUME TypeOK, NEW p \in Procs, NEW t \in RowsToExtend(p)
  PROVE  /\ IsTable(t)
         /\ \A k \in DOMAIN df[p] : k \in DOMAIN t /\ t[k] = df[p][k]
BY RowsOfLogTable DEF TypeOK, RowsToExtend

(* What AddRow makes of the table of a process.                             *)
LEMMA AddRowTable ==
  ASSUME TypeOK, NEW p \in Procs, AddRow(p)
  PROVE  \E old \in RowsToExtend(p) : \E new :
         /\ df' = [df EXCEPT ![p] = new] /\ log' = [state |-> "open", rows |-> new]
         /\ IsTable(new) /\ IsTable(old)
         /\ DOMAIN new = DOMAIN old \cup {RunKey(question[p])}
         /\ \A k \in DOMAIN old : new[k] = old[k]
         /\ RunKey(question[p]) \notin DOMAIN old => new[RunKey(question[p])] = result[p]
         /\ \A k \in DOMAIN df[p] : k \in DOMAIN old /\ old[k] = df[p][k]
<1> DEFINE key == RunKey(question[p])
<1>1. key \in Keys /\ result[p] \in Results
  BY QuestionTypes DEF TypeOK
<1>2. PICK old \in RowsToExtend(p) :
        /\ df' = [df EXCEPT ![p] = Extended(old, key, result[p])]
        /\ log' = [state |-> "open", rows |-> Extended(old, key, result[p])]
  BY DEF AddRow
<1> DEFINE new == Extended(old, key, result[p])
<1>3. /\ IsTable(old)
      /\ \A k \in DOMAIN df[p] : k \in DOMAIN old /\ old[k] = df[p][k]
  BY RowsToExtendTable
<1>4. /\ IsTable(new)
      /\ DOMAIN new = DOMAIN old \cup {key}
      /\ \A k \in DOMAIN old : new[k] = old[k]
      /\ key \notin DOMAIN old => new[key] = result[p]
  BY <1>1, <1>3, ExtendedTable
<1> HIDE DEF new, key
<1>. QED  BY <1>2, <1>3, <1>4 DEF new, key

LEMMA AddedRow ==
  ASSUME TypeOK, NEW p \in Procs, AddRow(p)
  PROVE  \E new : df' = [df EXCEPT ![p] = new] /\ log' = [state |-> "open", rows |-> new]
BY AddRowTable

---------------------------------------------------------------------------
(* Types.                                                                  *)

(* What one process has of its own, and the shared files.                   *)
ProcessOK(p) ==
  /\ pc[p] \in {"down", "ready", "write", "orphan"} \cup BeforeLog
  /\ setup[p] \in Setups
  /\ IsTable(df[p])
  /\ question[p] \in Questions
  /\ first[p] \in BOOLEAN
  /\ result[p] \in Results
  /\ \A a \in reply[p] : a.question \in Questions

Functions ==
  /\ pc = [p \in Procs |-> pc[p]]
  /\ setup = [p \in Procs |-> setup[p]]
  /\ df = [p \in Procs |-> df[p]]
  /\ question = [p \in Procs |-> question[p]]
  /\ first = [p \in Procs |-> first[p]]
  /\ result = [p \in Procs |-> result[p]]
  /\ reply = [p \in Procs |-> reply[p]]

FilesOK ==
  /\ log = [state |-> log.state, rows |-> log.rows]
  /\ log.state \in {"none", "whole", "open", "empty"} /\ IsTable(log.rows)
  /\ yamls \subseteq Files
  /\ traces \in [Files -> PIMTypes \cup {"part", "none"}]

HistoryOK ==
  /\ lives \in 0..MaxLives /\ asks \in 0..MaxAsks
  /\ overlapped \in BOOLEAN /\ failed \in BOOLEAN /\ cut \in BOOLEAN

ProcessesOK == Functions /\ \A p \in Procs : ProcessOK(p)

TypesOK == ProcessesOK /\ FilesOK /\ HistoryOK

LEMMA TypeOKSplits == TypeOK <=> TypesOK
BY DEF TypeOK, TypesOK, ProcessesOK, Functions, ProcessOK, FilesOK, HistoryOK, BeforeLog

LEMMA AnswerKeepsTypes ==
  ASSUME reply = [p \in Procs |-> reply[p]],
         \A o \in Procs : \A a \in reply[o] : a.question \in Questions,
         NEW p \in Procs, NEW q \in Questions, NEW figures, Answer(p, q, figures)
  PROVE  /\ reply' = [o \in Procs |-> reply'[o]]
         /\ \A o \in Procs : \A a \in reply'[o] : a.question \in Questions
<1> DEFINE answered == [question |-> q, figures |-> figures]
<1>1. answered.question \in Questions
  OBVIOUS
<1>2. reply' = [reply EXCEPT ![p] = {answered}]
  BY DEF Answer
<1> HIDE DEF answered
<1>. QED  BY <1>1, <1>2

LEMMA EndKeepsTypes ==
  ASSUME TypeOK, NEW p \in Procs, NEW q \in Questions, NEW to \in {"down", "orphan"}, EndAt(p, to, q)
  PROVE  ProcessesOK'
BY Nobody, EmptyIsTable, TypeOKSplits DEF TypesOK, ProcessesOK, EndAt, Functions, ProcessOK, Results

LEMMA DieKeepsTypes ==
  ASSUME TypeOK, NEW p \in Procs, Die(p)
  PROVE  ProcessesOK'
BY Nobody, EndKeepsTypes DEF Die

LEMMA StepKeepsTypes ==
  ASSUME TypeOK, NEW p \in Procs, Step(p)
  PROVE  TypesOK'
<1> USE TypeOKSplits
<1> DEFINE q == question[p]
<1> USE DEF TypesOK, ProcessesOK, BeforeLog
<1>0. q \in Questions /\ q.setup.pim \in PIMTypes /\ FileName(q) \in Files
  BY QuestionTypes DEF ProcessOK
<1>1. CASE MakeYaml(p)
  BY <1>0, <1>1 DEF MakeYaml, Goto, Functions, ProcessOK, FilesOK, HistoryOK, history
<1>2. CASE OpenTrace(p)
  BY <1>0, <1>2 DEF OpenTrace, Goto, Functions, ProcessOK, FilesOK, HistoryOK, history
<1>3. CASE FailToOpenTrace(p)
  BY <1>3 DEF FailToOpenTrace, Goto, Functions, ProcessOK, FilesOK, HistoryOK, fileVars
<1>4. CASE WriteTrace(p)
  <2>1. traces' \in [Files -> PIMTypes \cup {"part", "none"}]
    BY <1>0, <1>4 DEF WriteTrace, FilesOK
  <2>. QED  BY <2>1, <1>4 DEF WriteTrace, Goto, Functions, ProcessOK, FilesOK, HistoryOK, history
<1>5. CASE FailToWriteTrace(p)
  BY <1>5 DEF FailToWriteTrace, Goto, Functions, ProcessOK, FilesOK, HistoryOK, fileVars
<1>6. CASE Simulate(p)
  <2>1. Simulation(p) \in Results
    BY <1>0 DEF Simulation, Results, FilesOK
  <2>. QED
    BY <2>1, <1>6 DEF Simulate, Goto, Functions, ProcessOK, FilesOK, HistoryOK, fileVars, history
<1>7. CASE FailToSimulate(p)
  BY <1>7 DEF FailToSimulate, Goto, Functions, ProcessOK, FilesOK, HistoryOK, fileVars, Results
<1>8. CASE RemoveTrace(p)
  BY <1>0, <1>8 DEF RemoveTrace, Goto, Functions, ProcessOK, FilesOK, HistoryOK, history
<1>9. CASE RemoveYaml(p)
  BY <1>9 DEF RemoveYaml, Goto, Functions, ProcessOK, FilesOK, HistoryOK, history
<1>10. CASE AddRow(p)
  <2>1. PICK new : /\ df' = [df EXCEPT ![p] = new] /\ IsTable(new)
                   /\ log' = [state |-> "open", rows |-> new]
    BY <1>10, AddRowTable
  <2>. QED
    BY <2>1, <1>10 DEF AddRow, Goto, Functions, ProcessOK, FilesOK, HistoryOK, history
<1>11. CASE FailToReadLog(p)
  BY <1>11, DieKeepsTypes DEF FailToReadLog, FilesOK, HistoryOK, fileVars, history
<1>12. CASE WriteLog(p)
  <2>1. FilesOK' /\ HistoryOK'
    BY <1>12 DEF WriteLog, FilesOK, HistoryOK, ProcessOK, history
  <2>2. CASE RunAgain(p)
    BY <2>1, <2>2, <1>12 DEF WriteLog, RunAgain, Goto, Functions, ProcessOK
  <2>3. ASSUME NEW figures, Return(p, figures)
        PROVE  ProcessesOK'
    <3>1. /\ reply' = [o \in Procs |-> reply'[o]]
          /\ \A o \in Procs : \A a \in reply'[o] : a.question \in Questions
      BY <2>3, <1>0, AnswerKeepsTypes DEF Return, Functions, ProcessOK
    <3>. QED
      BY <3>1, <2>3, <1>12, Nobody DEF WriteLog, Return, Goto, Functions, ProcessOK, Results
  <2>. QED  BY <2>1, <2>2, <2>3, <1>12 DEF WriteLog
<1>13. CASE FailToReturn(p)
  BY <1>13, DieKeepsTypes DEF FailToReturn, ProcessOK, FilesOK, HistoryOK, history
<1>. QED
  BY <1>1, <1>2, <1>3, <1>4, <1>5, <1>6, <1>7, <1>8, <1>9, <1>10, <1>11, <1>12, <1>13 DEF Step

LEMMA NextKeepsTypes ==
  ASSUME TypeOK, [Next]_vars
  PROVE  TypesOK'
<1> USE TypeOKSplits
<1> USE DEF TypesOK, ProcessesOK
<1>1. ASSUME NEW p \in Procs, Start(p)
      PROVE TypesOK'
  <2>1. lives' \in 0..MaxLives /\ overlapped' \in BOOLEAN
    BY <1>1, CacheAssumption DEF Start, HistoryOK
  <2>2. PICK t \in RowsOfLog : df' = [df EXCEPT ![p] = t] /\ IsTable(t)
    BY <1>1, RowsOfLogTable DEF Start
  <2>. QED
    BY <2>1, <2>2, <1>1 DEF Start, Goto, Functions, ProcessOK, FilesOK, HistoryOK, fileVars
<1>2. ASSUME NEW p \in Procs, Stop(p)
      PROVE TypesOK'
  BY <1>2, DieKeepsTypes DEF Stop, FilesOK, HistoryOK, fileVars, history
<1>3. ASSUME NEW p \in Procs, Step(p)
      PROVE TypesOK'
  BY <1>3, StepKeepsTypes
<1>4. ASSUME NEW p \in Procs, NEW q \in Questions, Ask(p, q)
      PROVE HistoryOK' /\ UNCHANGED <<log, traces>>
  BY <1>4, CacheAssumption DEF Ask, HistoryOK
<1>5. ASSUME NEW p \in Procs, NEW q \in Questions, AskKnown(p, q)
      PROVE TypesOK'
  <2>1. HistoryOK' /\ UNCHANGED <<setup, df, result, log, traces, pc, question, first, yamls>>
    BY <1>4, <1>5 DEF AskKnown
  <2>2. /\ reply' = [o \in Procs |-> reply'[o]]
        /\ \A o \in Procs : \A a \in reply'[o] : a.question \in Questions
    BY <1>5, AnswerKeepsTypes DEF AskKnown, Functions, ProcessOK
  <2>. QED  BY <2>1, <2>2 DEF Functions, ProcessOK, FilesOK
<1>6. ASSUME NEW p \in Procs, NEW q \in Questions, AskUnknown(p, q)
      PROVE TypesOK'
  <2>1. FileName(q) \in Files
    BY QuestionTypes
  <2>2. HistoryOK' /\ UNCHANGED <<setup, df, result, log, traces>>
    BY <1>4, <1>6 DEF AskUnknown
  <2>3. (DOMAIN df[p] = {}) \in BOOLEAN
    OBVIOUS
  <2>. QED
    BY <2>1, <2>2, <2>3, <1>6 DEF AskUnknown, Functions, ProcessOK, FilesOK, BeforeLog
<1>7. ASSUME NEW p \in Procs, NEW q \in Questions, AskDamaged(p, q)
      PROVE TypesOK'
  BY <1>4, <1>7, DieKeepsTypes DEF AskDamaged, FilesOK
<1>8. ASSUME NEW p \in Procs, StopWriting(p)
      PROVE TypesOK'
  <2>1. log' \in LeftOver(df[p]) \/ UNCHANGED log
    BY <1>8 DEF StopWriting
  <2>2. /\ log' = [state |-> log.state, rows |-> log.rows]'
        /\ log'.state \in {"none", "whole", "open", "empty"} /\ IsTable(log'.rows)
    BY <2>1, LeftOverTable DEF FilesOK, ProcessOK
  <2>. QED
    BY <2>2, <1>8, DieKeepsTypes DEF StopWriting, FilesOK, HistoryOK
<1>9. ASSUME NEW p \in Procs, StopWaiting(p)
      PROVE TypesOK'
  BY <1>9, EndKeepsTypes DEF StopWaiting, ProcessOK, FilesOK, HistoryOK, fileVars, history
<1>10. ASSUME NEW p \in Procs, EndOrphan(p)
      PROVE TypesOK'
  <2>1. question[p] \in Questions /\ question[p].setup.pim \in PIMTypes
    BY QuestionTypes DEF ProcessOK
  <2>2. traces' \in [Files -> PIMTypes \cup {"part", "none"}]
    BY <2>1, <1>10 DEF EndOrphan, FilesOK
  <2>. QED
    BY <2>2, <1>10, Nobody
       DEF EndOrphan, Goto, Functions, ProcessOK, FilesOK, HistoryOK, history
<1>11. CASE UNCHANGED vars
  BY <1>11 DEF vars, procVars, fileVars, history, Functions, ProcessOK, FilesOK, HistoryOK
<1>. QED
  BY <1>1, <1>2, <1>3, <1>5, <1>6, <1>7, <1>8, <1>9, <1>10, <1>11 DEF Next

LEMMA InitHasTypes == Init => TypeOK
<1> SUFFICES ASSUME Init PROVE TypesOK
  BY TypeOKSplits
<1>1. lives \in 0..MaxLives /\ asks \in 0..MaxAsks
  BY CacheAssumption DEF Init
<1>. QED
  BY <1>1, Nobody, EmptyIsTable DEF TypesOK, ProcessesOK, Init, Functions, ProcessOK, FilesOK, HistoryOK, Results

(* The tables, the files and the state of each process keep their types.     *)
THEOREM CacheTypeCorrect == Spec => []TypeOK
<1>1. TypeOK' <=> TypesOK'
  BY TypeOKSplits, PTL
<1>. QED  BY <1>1, InitHasTypes, NextKeepsTypes, PTL DEF Spec

---------------------------------------------------------------------------
(* The log. Alone, a process has all rows of the log from its start on, for   *)
(* it reads them first and whatever it writes is its own table.             *)

Alive(p) == pc[p] # "down"

Alone == ~overlapped => \A p, o \in Procs : Alive(p) /\ Alive(o) => p = o

LogInv ==
  /\ Alone
  /\ log.state \in {"none", "empty"} => DOMAIN log.rows = {}
  /\ log.state = "open" => \E p \in Procs : pc[p] = "write"
  /\ LogIsHeld

(* The steps that leave the log and all tables alone.                        *)
Elsewhere(p) ==
  /\ UNCHANGED <<df, log, overlapped>>
  /\ \E to \in BeforeLog \cup {"ready"} : pc' = [pc EXCEPT ![p] = to]
  /\ pc[p] \in BeforeLog \cup {"ready"}

LEMMA StepsElsewhere ==
  ASSUME NEW p \in Procs, Step(p)
  PROVE  Elsewhere(p) \/ AddRow(p) \/ FailToReadLog(p) \/ WriteLog(p) \/ FailToReturn(p)
BY DEF Step, Elsewhere, BeforeLog, MakeYaml, OpenTrace, FailToOpenTrace, WriteTrace, FailToWriteTrace,
       Simulate, FailToSimulate, RemoveTrace, RemoveYaml, Goto, history, fileVars

LEMMA EndKeepsLogInv ==
  ASSUME TypeOK, LogInv, NEW p \in Procs, NEW q, NEW to \in {"down", "orphan"}, EndAt(p, to, q),
         pc[p] # "down", pc[p] # "write", UNCHANGED <<log, overlapped>>
  PROVE  LogInv'
BY DEF TypeOK, LogInv, Alone, Alive, LogIsHeld, Up, EndAt

(* The process has written the log, or what it has written is left.          *)
LEMMA WrittenKeepsLogInv ==
  ASSUME TypeOK, LogInv, NEW p \in Procs, Die(p), UNCHANGED overlapped, pc[p] = "write",
         \/ log'.state = "whole"
         \/ log'.state = "empty" /\ DOMAIN log'.rows = {}
         \/ log' = log /\ (log.state = "open" => \E o \in Procs \ {p} : pc[o] = "write")
  PROVE  LogInv'
<1>1. /\ pc' = [pc EXCEPT ![p] = "down"] /\ df' = [df EXCEPT ![p] = Empty]
  BY DEF Die, EndAt
<1>2. Alone' /\ (~overlapped => \A o \in Procs : pc'[o] = "down")
  BY <1>1 DEF TypeOK, LogInv, Alone, Alive
<1>3. LogIsHeld'
  BY <1>2 DEF LogIsHeld, Up
<1>4. log'.state = "open" => \E o \in Procs : pc'[o] = "write"
  BY <1>1 DEF TypeOK, LogInv
<1>. QED  BY <1>2, <1>3, <1>4 DEF LogInv

LEMMA NextKeepsLogInv ==
  ASSUME TypeOK, LogInv, [Next]_vars
  PROVE  LogInv'
<1> USE DEF LogInv, Alone, Alive, LogIsHeld, Up
<1>1. ASSUME NEW p \in Procs, Start(p)
      PROVE LogInv'
  <2>1. PICK t \in RowsOfLog : df' = [df EXCEPT ![p] = t]
    BY <1>1 DEF Start
  <2>2. /\ UNCHANGED log
        /\ pc[p] = "down" /\ pc' = [pc EXCEPT ![p] = "ready"]
        /\ overlapped' = (overlapped \/ \E o \in Procs \ {p} : pc[o] # "down")
    BY <1>1 DEF Start, Goto, fileVars
  <2>3. ~overlapped' => \A k \in DOMAIN log.rows : k \in DOMAIN t /\ t[k] = log.rows[k]
    <3>1. ~overlapped' => log.state # "open"
      BY <2>2 DEF TypeOK
    <3>2. log.state \in {"none", "whole", "empty", "open"}
      BY DEF TypeOK
    <3>. QED  BY <3>1, <3>2, EmptyIsTable DEF RowsOfLog
  <2>4. Alone' /\ LogIsHeld'
    BY <2>1, <2>2, <2>3 DEF TypeOK
  <2>5. log'.state = "open" => \E o \in Procs : pc'[o] = "write"
    BY <2>2 DEF TypeOK
  <2>. QED  BY <2>2, <2>4, <2>5
<1>2. ASSUME NEW p \in Procs, Stop(p)
      PROVE LogInv'
  BY <1>2, EndKeepsLogInv DEF Stop, Die, fileVars, history
<1>3. ASSUME NEW p \in Procs, Elsewhere(p)
      PROVE LogInv'
  <2>1. PICK to \in BeforeLog \cup {"ready"} : pc' = [pc EXCEPT ![p] = to]
    BY <1>3 DEF Elsewhere
  <2>2. to \notin {"down", "orphan"} /\ pc[p] \notin {"down", "orphan", "write"}
    BY <1>3 DEF Elsewhere, BeforeLog
  <2>3. UNCHANGED <<df, log, overlapped>>
    BY <1>3 DEF Elsewhere
  <2>4. Alone' /\ LogIsHeld'
    BY <2>1, <2>2, <2>3 DEF TypeOK
  <2>5. log'.state = "open" => \E o \in Procs : pc'[o] = "write"
    BY <2>1, <2>2, <2>3 DEF TypeOK
  <2>. QED  BY <2>3, <2>4, <2>5
<1>4. ASSUME NEW p \in Procs, AddRow(p)
      PROVE LogInv'
  <2>1. PICK new : df' = [df EXCEPT ![p] = new] /\ log' = [state |-> "open", rows |-> new]
    BY <1>4, AddedRow
  <2>2. pc' = [pc EXCEPT ![p] = "write"] /\ pc[p] = "log" /\ UNCHANGED overlapped
    BY <1>4 DEF AddRow, Goto, history
  <2>. QED  BY <2>1, <2>2 DEF TypeOK
<1>5. ASSUME NEW p \in Procs, FailToReadLog(p)
      PROVE LogInv'
  BY <1>5, EndKeepsLogInv DEF FailToReadLog, Die, fileVars, history
<1>6. ASSUME NEW p \in Procs, WriteLog(p)
      PROVE LogInv'
  <2>1. /\ log' = [state |-> "whole", rows |-> df[p]]
        /\ UNCHANGED <<df, overlapped>>
        /\ pc[p] = "write" /\ \E to : pc' = [pc EXCEPT ![p] = to]
    BY <1>6 DEF WriteLog, RunAgain, Return, Goto, history
  <2>. QED  BY <2>1 DEF TypeOK
<1>7. ASSUME NEW p \in Procs, NEW q \in Questions, AskKnown(p, q) \/ AskUnknown(p, q)
      PROVE LogInv'
  <2>1. Elsewhere(p)
    <3>1. UNCHANGED pc => pc' = [pc EXCEPT ![p] = pc[p]]
      BY DEF TypeOK
    <3>. QED  BY <1>7, <3>1 DEF AskKnown, AskUnknown, Ask, Elsewhere, BeforeLog
  <2>. QED  BY <1>3, <2>1
<1>8. ASSUME NEW p \in Procs, NEW q \in Questions, AskDamaged(p, q)
      PROVE LogInv'
  BY <1>8, EndKeepsLogInv DEF AskDamaged, Ask, Die
<1>9. ASSUME NEW p \in Procs, StopWaiting(p)
      PROVE LogInv'
  BY <1>9, EndKeepsLogInv DEF StopWaiting, fileVars, history
<1>10. ASSUME NEW p \in Procs, EndOrphan(p)
      PROVE LogInv'
  BY <1>10 DEF EndOrphan, Goto, history, TypeOK
<1>11. ASSUME NEW p \in Procs, StopWriting(p)
      PROVE LogInv'
  <2>1. IsTable(df[p])
    BY DEF TypeOK
  <2>2. log' \in LeftOver(df[p]) => log'.state \in {"empty", "whole"}
    BY <2>1, LeftOverTable
  <2>3. log' \in LeftOver(df[p]) /\ log'.state = "empty" => DOMAIN log'.rows = {}
    BY EmptyIsTable DEF LeftOver
  <2>. QED  BY <1>11, <2>2, <2>3, WrittenKeepsLogInv DEF StopWriting
<1>12. ASSUME NEW p \in Procs, FailToReturn(p)
      PROVE LogInv'
  BY <1>12, WrittenKeepsLogInv DEF FailToReturn, history
<1>13. CASE UNCHANGED vars
  BY <1>13 DEF vars, procVars, fileVars, history
<1>. QED
  BY <1>1, <1>2, <1>3, <1>4, <1>5, <1>6, <1>7, <1>8, <1>9, <1>10, <1>11, <1>12, <1>13, StepsElsewhere
  DEF Next

LEMMA LogInvariant == Spec => []LogInv
<1>1. Init => LogInv
  BY DEF Init, LogInv, Alone, Alive, LogIsHeld, Up, Empty
<1>. QED  BY <1>1, NextKeepsLogInv, CacheTypeCorrect, PTL DEF Spec

LEMMA LogHeld == LogInv => LogIsHeld
BY DEF LogInv

(* As long as no two processes were alive at once, none ever drops a row of   *)
(* the log, or changes one, unless it is killed while it writes the log.     *)
THEOREM LogNeverShrinks == Spec => []LogIsHeld
<1>. QED  BY LogInvariant, LogHeld, PTL

---------------------------------------------------------------------------
(* The files of a simulation. Alone, a run makes its YAML file and its trace  *)
(* anew before it reads them, so what an earlier one left never counts.       *)

OwnTrace(p) ==
  LET f == FileName(question[p])
      pim == question[p].setup.pim
  IN
  /\ pc[p] \in {"trace", "generate", "simulate"} => f \in yamls
  /\ pc[p] = "generate" => traces[f] # "none"
  /\ pc[p] = "simulate" => traces[f] = pim
  /\ pc[p] \in {"rmtrace", "rmyaml", "log"} => result[p] = pim

Undisturbed == ~failed /\ ~overlapped

OwnTraces == Undisturbed => \A p \in Procs : OwnTrace(p)

TraceInv == Alone /\ OwnTraces /\ ResultsOfOwnTrace

(* What is read from the log while nobody writes it.                        *)
LEMMA ReadRowsAreOwn ==
  ASSUME TypeOK, LogInv, ResultsOfOwnTrace, Undisturbed, ~\E p \in Procs : pc[p] = "write",
         NEW t \in RowsOfLog
  PROVE  \A k \in DOMAIN t : OwnResult(k, t[k])
<1>1. \A k \in DOMAIN log.rows : OwnResult(k, log.rows[k])
  BY DEF ResultsOfOwnTrace, Undisturbed
<1>2. log.state \in {"none", "whole", "empty"}
  BY DEF TypeOK, LogInv
<1>. QED  BY <1>1, <1>2, EmptyIsTable DEF RowsOfLog

LEMMA EndKeepsOwnTraces ==
  ASSUME TypeOK, Alone, OwnTraces, NEW p \in Procs, NEW q, NEW to \in {"down", "orphan"},
         EndAt(p, to, q), UNCHANGED <<yamls, traces, overlapped, failed>>, pc[p] # "down"
  PROVE  Alone' /\ OwnTraces'
<1> USE DEF TypeOK, Undisturbed
<1>1. Alone'
  BY DEF Alone, Alive, EndAt
<1>2. OwnTraces'
  <2> SUFFICES ASSUME Undisturbed, NEW o \in Procs PROVE OwnTrace(o)'
    BY DEF OwnTraces
  <2>1. o # p \/ pc'[o] \in {"down", "orphan"}
    BY DEF EndAt
  <2>. QED  BY <2>1 DEF OwnTraces, OwnTrace, EndAt
<1>. QED  BY <1>1, <1>2

LEMMA EndKeepsTraceInv ==
  ASSUME TypeOK, TraceInv, NEW p \in Procs, NEW q, NEW to \in {"down", "orphan"},
         EndAt(p, to, q), UNCHANGED <<fileVars, overlapped, failed, cut>>, pc[p] # "down"
  PROVE  TraceInv'
<1>1. ResultsOfOwnTrace'
  BY EmptyIsTable DEF TypeOK, TraceInv, ResultsOfOwnTrace, OwnResult, EndAt, fileVars
<1>. QED  BY <1>1, EndKeepsOwnTraces DEF TraceInv, fileVars

(* A step of a process that is alone, with the files as they were.           *)
LEMMA StepOfOneProcess ==
  ASSUME TypeOK, TraceInv, NEW p \in Procs, Alive(p), UNCHANGED <<overlapped, question>>,
         NEW to, pc' = [pc EXCEPT ![p] = to], failed => failed',
         Undisturbed' => OwnTrace(p)'
  PROVE  Alone' /\ OwnTraces'
<1>1. Alone'
  BY DEF TypeOK, TraceInv, Alone, Alive
<1>2. ASSUME Undisturbed', NEW o \in Procs
      PROVE OwnTrace(o)'
  <2>1. CASE o = p
    BY <2>1, <1>2
  <2>2. CASE o # p
    <3>1. pc'[o] = "down"
      BY <2>2, <1>2 DEF TypeOK, TraceInv, Alone, Alive, Undisturbed
    <3>. QED  BY <3>1 DEF OwnTrace
  <2>. QED  BY <2>1, <2>2
<1>. QED  BY <1>1, <1>2 DEF OwnTraces

LEMMA StepKeepsTraceInv ==
  ASSUME TypeOK, LogInv, TraceInv, NEW p \in Procs, Step(p)
  PROVE  TraceInv'
<1> DEFINE q == question[p]
           f == FileName(q)
<1> USE DEF TypeOK, Undisturbed
<1>0. q \in Questions /\ q.setup.pim \in PIMTypes /\ f \in Files
  BY QuestionTypes
<1>1. Undisturbed => OwnTrace(p)
  BY DEF TraceInv, OwnTraces
<1>2. ASSUME UNCHANGED <<df, log, overlapped, question, cut>>, failed => failed',
             NEW to, pc' = [pc EXCEPT ![p] = to], Alive(p), Undisturbed' => OwnTrace(p)'
      PROVE  TraceInv'
  BY <1>2, StepOfOneProcess DEF TraceInv, ResultsOfOwnTrace, OwnResult
<1>3. CASE MakeYaml(p)
  BY <1>0, <1>1, <1>2, <1>3 DEF MakeYaml, Goto, OwnTrace, Alive, history
<1>4. CASE OpenTrace(p)
  BY <1>0, <1>1, <1>2, <1>4 DEF OpenTrace, Goto, OwnTrace, Alive, history
<1>5. CASE FailToOpenTrace(p)
  BY <1>0, <1>1, <1>2, <1>5 DEF FailToOpenTrace, Goto, OwnTrace, Alive, fileVars
<1>6. CASE WriteTrace(p)
  <2>1. Undisturbed' => OwnTrace(p)'
    <3> SUFFICES ASSUME Undisturbed' PROVE OwnTrace(p)'
      OBVIOUS
    <3>1. Undisturbed /\ pc[p] = "generate" /\ pc' = [pc EXCEPT ![p] = "simulate"]
      BY <1>6 DEF WriteTrace, Goto, history
    <3>2. traces[f] # "none" /\ f \in yamls
      BY <1>1, <3>1 DEF OwnTrace
    <3>3. traces' = [traces EXCEPT ![f] = q.setup.pim] /\ UNCHANGED <<yamls, question>>
      BY <1>6, <3>1, <3>2 DEF WriteTrace
    <3>. QED  BY <1>0, <3>1, <3>2, <3>3 DEF OwnTrace
  <2>. QED  BY <2>1, <1>2, <1>6 DEF WriteTrace, Goto, Alive, history
<1>7. CASE FailToWriteTrace(p)
  BY <1>0, <1>1, <1>2, <1>7 DEF FailToWriteTrace, Goto, OwnTrace, Alive, fileVars
<1>8. CASE Simulate(p)
  <2>1. Undisturbed' => OwnTrace(p)'
    <3> SUFFICES ASSUME Undisturbed' PROVE OwnTrace(p)'
      OBVIOUS
    <3>1. Undisturbed /\ pc[p] = "simulate" /\ pc' = [pc EXCEPT ![p] = "rmtrace"]
      BY <1>8 DEF Simulate, Goto, history
    <3>2. Simulation(p) = q.setup.pim
      BY <1>0, <1>1, <3>1 DEF OwnTrace, Simulation, PIMTypes
    <3>3. result'[p] = q.setup.pim /\ UNCHANGED question
      BY <1>8, <3>2 DEF Simulate
    <3>. QED  BY <3>1, <3>3 DEF OwnTrace
  <2>. QED  BY <2>1, <1>2, <1>8 DEF Simulate, Goto, Alive, history, fileVars
<1>9. CASE FailToSimulate(p)
  BY <1>0, <1>1, <1>2, <1>9 DEF FailToSimulate, Goto, OwnTrace, Alive, fileVars
<1>10. CASE RemoveTrace(p)
  BY <1>0, <1>1, <1>2, <1>10 DEF RemoveTrace, Goto, OwnTrace, Alive, history
<1>11. CASE RemoveYaml(p)
  BY <1>0, <1>1, <1>2, <1>11 DEF RemoveYaml, Goto, OwnTrace, Alive, history
<1>12. CASE AddRow(p)
  <2> DEFINE key == RunKey(q)
  <2>1. PICK old \in RowsToExtend(p) : \E new :
          /\ df' = [df EXCEPT ![p] = new] /\ log' = [state |-> "open", rows |-> new]
          /\ DOMAIN new = DOMAIN old \cup {key}
          /\ \A k \in DOMAIN old : new[k] = old[k]
          /\ key \notin DOMAIN old => new[key] = result[p]
    BY <1>12, AddRowTable
  <2>2. PICK new :
          /\ df' = [df EXCEPT ![p] = new] /\ log' = [state |-> "open", rows |-> new]
          /\ DOMAIN new = DOMAIN old \cup {key}
          /\ \A k \in DOMAIN old : new[k] = old[k]
          /\ key \notin DOMAIN old => new[key] = result[p]
    BY <2>1
  <2>3. /\ pc[p] = "log" /\ pc' = [pc EXCEPT ![p] = "write"]
        /\ UNCHANGED <<overlapped, failed, question, cut>>
    BY <1>12 DEF AddRow, Goto, history
  <2>4. Undisturbed => result[p] = key.pim
    BY <1>0, <1>1, <2>3, QuestionTypes DEF OwnTrace
  <2>5. ASSUME Undisturbed
        PROVE  \A k \in DOMAIN old : OwnResult(k, old[k])
    <3>1. CASE DOMAIN df[p] = {}
      <4>1. ~\E o \in Procs : pc[o] = "write"
        BY <2>3, <2>5 DEF TraceInv, Alone, Alive
      <4>2. old \in RowsOfLog
        BY <3>1 DEF RowsToExtend
      <4>. QED  BY <2>5, <4>1, <4>2, ReadRowsAreOwn DEF TraceInv
    <3>2. CASE DOMAIN df[p] # {}
      <4>1. old = df[p]
        BY <3>2 DEF RowsToExtend
      <4>. QED  BY <4>1, <2>5 DEF TraceInv, ResultsOfOwnTrace
    <3>. QED  BY <3>1, <3>2
  <2> HIDE DEF key
  <2>6. Undisturbed => \A k \in DOMAIN new : OwnResult(k, new[k])
    BY <2>2, <2>4, <2>5 DEF OwnResult
  <2>7. ResultsOfOwnTrace'
    BY <2>2, <2>3, <2>6 DEF TraceInv, ResultsOfOwnTrace, OwnResult
  <2>8. OwnTrace(p)'
    BY <2>3 DEF OwnTrace
  <2>. QED  BY <2>3, <2>7, <2>8, StepOfOneProcess DEF TraceInv, Alive
<1>13. CASE FailToReadLog(p)
  BY <1>13, EndKeepsTraceInv DEF FailToReadLog, Die, history
<1>14. CASE WriteLog(p)
  <2>1. /\ log' = [state |-> "whole", rows |-> df[p]]
        /\ UNCHANGED <<df, overlapped, failed, cut>>
        /\ pc[p] = "write" /\ \E to \in {"yaml", "ready"} : pc' = [pc EXCEPT ![p] = to]
        /\ \A o \in Procs \ {p} : question'[o] = question[o]
    BY <1>14 DEF WriteLog, RunAgain, Return, Goto, history
  <2>2. Alone'
    BY <2>1 DEF TraceInv, Alone, Alive
  <2>3. ResultsOfOwnTrace'
    BY <2>1 DEF TraceInv, ResultsOfOwnTrace, OwnResult
  <2>4. ASSUME Undisturbed', NEW o \in Procs PROVE OwnTrace(o)'
    <3>1. pc'[o] \in {"down", "yaml", "ready"}
      BY <2>1, <2>4 DEF TraceInv, Alone, Alive
    <3>. QED  BY <3>1 DEF OwnTrace
  <2>. QED  BY <2>2, <2>3, <2>4 DEF TraceInv, OwnTraces
<1>15. CASE FailToReturn(p)
  <2>1. /\ Die(p) /\ pc[p] # "down" /\ log' = [state |-> "whole", rows |-> df[p]]
        /\ UNCHANGED <<yamls, traces, overlapped, failed, cut>>
    BY <1>15 DEF FailToReturn, history
  <2>2. ResultsOfOwnTrace'
    BY <2>1, EmptyIsTable DEF TraceInv, ResultsOfOwnTrace, OwnResult, Die, EndAt
  <2>. QED  BY <2>1, <2>2, EndKeepsOwnTraces DEF TraceInv, Die
<1>. QED
  BY <1>3, <1>4, <1>5, <1>6, <1>7, <1>8, <1>9, <1>10, <1>11, <1>12, <1>13, <1>14, <1>15 DEF Step

LEMMA NextKeepsTraceInv ==
  ASSUME TypeOK, LogInv, TraceInv, [Next]_vars
  PROVE  TraceInv'
<1> USE DEF TypeOK, Undisturbed
<1>1. ASSUME NEW p \in Procs, Start(p)
      PROVE TraceInv'
  <2>0. PICK t \in RowsOfLog : df' = [df EXCEPT ![p] = t]
    BY <1>1 DEF Start
  <2>1. /\ UNCHANGED <<fileVars, failed, question, result, cut>>
        /\ pc[p] = "down" /\ pc' = [pc EXCEPT ![p] = "ready"]
        /\ overlapped' = (overlapped \/ \E o \in Procs \ {p} : pc[o] # "down")
    BY <1>1 DEF Start, Goto
  <2>2. Undisturbed' => \A k \in DOMAIN t : OwnResult(k, t[k])
    <3>1. Undisturbed' => Undisturbed /\ ~\E o \in Procs : pc[o] = "write"
      BY <2>1
    <3>. QED  BY <3>1, ReadRowsAreOwn DEF TraceInv
  <2>3. Alone'
    BY <2>1 DEF TraceInv, Alone, Alive
  <2>4. ResultsOfOwnTrace'
    BY <2>0, <2>1, <2>2 DEF TraceInv, ResultsOfOwnTrace, OwnResult, fileVars
  <2>5. ASSUME Undisturbed', NEW o \in Procs PROVE OwnTrace(o)'
    <3>1. pc'[o] \in {"down", "ready"}
      BY <2>1, <2>5
    <3>. QED  BY <3>1 DEF OwnTrace
  <2>. QED  BY <2>3, <2>4, <2>5 DEF TraceInv, OwnTraces
<1>2. ASSUME NEW p \in Procs, Stop(p)
      PROVE TraceInv'
  BY <1>2, EndKeepsTraceInv DEF Stop, Die, Up, history
<1>3. ASSUME NEW p \in Procs, Step(p)
      PROVE TraceInv'
  BY <1>3, StepKeepsTraceInv
<1>4. ASSUME NEW p \in Procs, NEW q \in Questions, AskKnown(p, q)
      PROVE TraceInv'
  BY <1>4 DEF AskKnown, Ask, TraceInv, Alone, OwnTraces, OwnTrace, ResultsOfOwnTrace, OwnResult, Alive
<1>5. ASSUME NEW p \in Procs, NEW q \in Questions, AskUnknown(p, q)
      PROVE TraceInv'
  <2>1. /\ pc[p] = "ready" /\ pc' = [pc EXCEPT ![p] = "trace"]
        /\ question' = [question EXCEPT ![p] = q]
        /\ yamls' = yamls \cup {FileName(q)}
        /\ UNCHANGED <<df, log, overlapped, failed, cut>>
    BY <1>5 DEF AskUnknown, Ask
  <2>2. Alone'
    BY <2>1 DEF TraceInv, Alone, Alive
  <2>3. ASSUME Undisturbed', NEW o \in Procs PROVE OwnTrace(o)'
    <3>1. CASE o = p
      BY <2>1, <3>1 DEF OwnTrace
    <3>2. CASE o # p
      <4>1. pc'[o] = "down"
        BY <2>1, <2>3, <3>2 DEF TraceInv, Alone, Alive
      <4>. QED  BY <4>1 DEF OwnTrace
    <3>. QED  BY <3>1, <3>2
  <2>. QED  BY <2>1, <2>2, <2>3 DEF TraceInv, OwnTraces, ResultsOfOwnTrace, OwnResult
<1>6. ASSUME NEW p \in Procs, NEW q \in Questions, AskDamaged(p, q)
      PROVE TraceInv'
  BY <1>6, EndKeepsTraceInv DEF AskDamaged, Ask, Die, fileVars
<1>7. ASSUME NEW p \in Procs, StopWaiting(p)
      PROVE TraceInv'
  BY <1>7, EndKeepsTraceInv DEF StopWaiting, history
<1>8. ASSUME NEW p \in Procs, EndOrphan(p)
      PROVE TraceInv'
  <2>1. /\ pc[p] = "orphan" /\ pc' = [pc EXCEPT ![p] = "down"]
        /\ UNCHANGED <<df, log, overlapped, failed, cut>>
    BY <1>8 DEF EndOrphan, Goto, history
  <2>2. Alone'
    BY <2>1 DEF TraceInv, Alone, Alive
  <2>3. ASSUME Undisturbed', NEW o \in Procs PROVE OwnTrace(o)'
    <3>1. pc'[o] = "down"
      BY <2>1, <2>3 DEF TraceInv, Alone, Alive
    <3>. QED  BY <3>1 DEF OwnTrace
  <2>. QED  BY <2>1, <2>2, <2>3 DEF TraceInv, OwnTraces, ResultsOfOwnTrace, OwnResult
<1>9. ASSUME NEW p \in Procs, StopWriting(p)
      PROVE TraceInv'
  <2>1. /\ Die(p) /\ pc[p] # "down" /\ cut' /\ UNCHANGED <<yamls, traces, overlapped, failed>>
    BY <1>9 DEF StopWriting
  <2>2. Undisturbed => \A k \in DOMAIN log'.rows :
                         log'.rows[k] = k.pim \/ log'.rows[k] \in {"short", "missing"}
    <3>1. CASE UNCHANGED log
      BY <2>1, <3>1 DEF TraceInv, ResultsOfOwnTrace, OwnResult
    <3>2. CASE log' \in LeftOver(df[p])
      <4>1. IsTable(df[p]) /\ (Undisturbed => \A k \in DOMAIN df[p] : OwnResult(k, df[p][k]))
        BY DEF TraceInv, ResultsOfOwnTrace
      <4>2. log'.rows = Empty \/ log'.rows \in Remains(df[p])
        BY <3>2 DEF LeftOver
      <4>3. CASE log'.rows = Empty
        BY <4>3, EmptyIsTable
      <4>4. CASE log'.rows \in Remains(df[p])
        <5>1. \A k \in DOMAIN log'.rows :
                \/ k \in DOMAIN df[p] /\ log'.rows[k] = df[p][k]
                \/ log'.rows[k] \in {"short", "missing"}
          BY <4>1, <4>4, RemainsTable
        <5>. QED  BY <2>1, <4>1, <5>1 DEF OwnResult
      <4>. QED  BY <4>2, <4>3, <4>4
    <3>. QED  BY <1>9, <3>1, <3>2 DEF StopWriting
  <2>3. ResultsOfOwnTrace'
    <3>1. /\ df' = [df EXCEPT ![p] = Empty] /\ df = [o \in Procs |-> df[o]]
          /\ Undisturbed' => Undisturbed
      BY <2>1 DEF Die, EndAt
    <3>2. Undisturbed' => \A o \in Procs : \A k \in DOMAIN df'[o] :
                            df'[o][k] = k.pim \/ df'[o][k] \in {"short", "missing"}
      BY <2>1, <3>1, EmptyIsTable DEF TraceInv, ResultsOfOwnTrace, OwnResult
    <3>. QED  BY <2>1, <2>2, <3>1, <3>2 DEF ResultsOfOwnTrace, OwnResult
  <2>. QED  BY <2>1, <2>3, EndKeepsOwnTraces DEF TraceInv, Die
<1>10. CASE UNCHANGED vars
  BY <1>10 DEF vars, procVars, fileVars, history, TraceInv, Alone, OwnTraces, OwnTrace,
              ResultsOfOwnTrace, OwnResult, Alive
<1>. QED
  BY <1>1, <1>2, <1>3, <1>4, <1>5, <1>6, <1>7, <1>8, <1>9, <1>10 DEF Next

(* Without failed runs and overlapping processes, every result in a table or  *)
(* in the log was counted on a complete trace of its own PIM type, although   *)
(* file names leave the type out and killed processes leave files behind; it  *)
(* may have lost figures only once a process was killed while writing them.   *)
THEOREM OnlyOwnTraces == Spec => []ResultsOfOwnTrace
<1>1. Init => TraceInv
  BY DEF Init, TraceInv, Alone, OwnTraces, OwnTrace, ResultsOfOwnTrace, Alive, Empty
<1>2. TraceInv => ResultsOfOwnTrace
  BY DEF TraceInv
<1>. QED  BY <1>1, <1>2, NextKeepsTraceInv, LogInvariant, CacheTypeCorrect, PTL DEF Spec

---------------------------------------------------------------------------
(* The processes implement ResultStore.                                    *)

(* A question is only simulated while its row is missing, so the row that is  *)
(* added is the one the simulation gave, and it is found where it is looked   *)
(* up if both keys agree. Nothing is left of an answer when a life ends.     *)
AnswerInv(p) ==
  LET key == LookupKey(question[p]) IN
  /\ pc[p] = "write" \/ (pc[p] \in BeforeLog /\ ~first[p]) => DOMAIN df[p] # {}
  /\ pc[p] \in BeforeLog /\ question[p] \in Comparable => key \notin DOMAIN df[p]
  /\ pc[p] = "write" /\ ~first[p] /\ question[p] \in Comparable =>
       key \in DOMAIN df[p] /\ df[p][key] = result[p]
  /\ pc[p] \in {"down", "orphan"} => reply[p] = {}

AnswersReady == \A p \in Procs : AnswerInv(p)

LEMMA ComparableQuestion ==
  ASSUME NEW q \in Comparable, NEW r
  PROVE  /\ q \in Questions
         /\ LookupKey(q) = RunKey(q)
         /\ FreshFigures(q, r) = CachedFigures(q, r)
BY DEF Comparable, LookupKey, RunKey, FreshFigures, CachedFigures

LEMMA NextKeepsAnswersReady ==
  ASSUME TypeOK, AnswersReady, [Next]_vars
  PROVE  AnswersReady'
<1> USE DEF TypeOK, AnswersReady
<1>1. ASSUME NEW p \in Procs, UNCHANGED <<df, question, first, reply>>,
             NEW to \in BeforeLog, pc' = [pc EXCEPT ![p] = to],
             pc[p] \in BeforeLog, \A o \in Procs \ {p} : result'[o] = result[o]
      PROVE  AnswersReady'
  BY <1>1 DEF AnswerInv, BeforeLog
<1>2. ASSUME NEW p \in Procs, NEW q, NEW to \in {"down", "orphan"}, EndAt(p, to, q)
      PROVE  AnswersReady'
  BY <1>2 DEF EndAt, AnswerInv, BeforeLog
<1>3. ASSUME NEW p \in Procs, Start(p)
      PROVE AnswersReady'
  BY <1>3 DEF Start, Goto, AnswerInv, BeforeLog
<1>4. ASSUME NEW p \in Procs, AddRow(p)
      PROVE AnswersReady'
  <2> DEFINE q == question[p]
  <2>0. PICK old \in RowsToExtend(p) : \E new :
          /\ df' = [df EXCEPT ![p] = new]
          /\ DOMAIN new = DOMAIN old \cup {RunKey(q)}
          /\ RunKey(q) \notin DOMAIN old => new[RunKey(q)] = result[p]
    <3> HIDE DEF AnswersReady, TypeOK
    <3>. QED  BY <1>4, AddRowTable
  <2>1. PICK new :
          /\ df' = [df EXCEPT ![p] = new]
          /\ DOMAIN new = DOMAIN old \cup {RunKey(q)}
          /\ RunKey(q) \notin DOMAIN old => new[RunKey(q)] = result[p]
    BY <2>0
  <2>2. /\ pc[p] = "log" /\ pc' = [pc EXCEPT ![p] = "write"]
        /\ UNCHANGED <<question, first, result, reply>>
    BY <1>4 DEF AddRow, Goto
  <2>3. ASSUME ~first[p], q \in Comparable
        PROVE  LookupKey(q) \in DOMAIN new /\ new[LookupKey(q)] = result[p]
    <3>1. old = df[p] /\ LookupKey(q) \notin DOMAIN df[p]
      BY <2>2, <2>3 DEF AnswerInv, BeforeLog, RowsToExtend
    <3>2. LookupKey(q) = RunKey(q)
      BY <2>3, ComparableQuestion
    <3>. QED  BY <2>1, <3>1, <3>2
  <2>. QED  BY <2>1, <2>2, <2>3 DEF AnswerInv, BeforeLog
<1>5. ASSUME NEW p \in Procs, WriteLog(p)
      PROVE AnswersReady'
  <2>1. /\ pc[p] = "write" /\ UNCHANGED df
        /\ \/ /\ pc' = [pc EXCEPT ![p] = "yaml"] /\ UNCHANGED <<question, result>>
              /\ first' = [first EXCEPT ![p] = FALSE]
              /\ LookupKey(question[p]) \notin DOMAIN df[p]
              /\ UNCHANGED reply
           \/ /\ pc' = [pc EXCEPT ![p] = "ready"]
              /\ question' = [question EXCEPT ![p] = NoQuestion]
              /\ first' = [first EXCEPT ![p] = FALSE]
              /\ result' = [result EXCEPT ![p] = "nothing"]
              /\ \A o \in Procs \ {p} : reply'[o] = reply[o]
    BY <1>5 DEF WriteLog, RunAgain, Return, Goto, Answer
  <2>. QED  BY <2>1 DEF AnswerInv, BeforeLog
<1>6. ASSUME NEW p \in Procs, Step(p)
      PROVE AnswersReady'
  <2>1. CASE AddRow(p) \/ WriteLog(p)
    BY <2>1, <1>4, <1>5
  <2>2. CASE FailToReadLog(p) \/ FailToReturn(p)
    BY <2>2, <1>2 DEF FailToReadLog, FailToReturn, Die
  <2>3. CASE MakeYaml(p)
    BY <2>3, <1>1 DEF MakeYaml, Goto, BeforeLog
  <2>4. CASE OpenTrace(p) \/ FailToOpenTrace(p)
    BY <2>4, <1>1 DEF OpenTrace, FailToOpenTrace, Goto, BeforeLog
  <2>5. CASE WriteTrace(p) \/ FailToWriteTrace(p)
    BY <2>5, <1>1 DEF WriteTrace, FailToWriteTrace, Goto, BeforeLog
  <2>6. CASE Simulate(p) \/ FailToSimulate(p)
    BY <2>6, <1>1 DEF Simulate, FailToSimulate, Goto, BeforeLog
  <2>7. CASE RemoveTrace(p) \/ RemoveYaml(p)
    BY <2>7, <1>1 DEF RemoveTrace, RemoveYaml, Goto, BeforeLog
  <2>. QED  BY <1>6, <2>1, <2>2, <2>3, <2>4, <2>5, <2>6, <2>7 DEF Step
<1>7. ASSUME NEW p \in Procs, NEW q \in Questions, AskKnown(p, q)
      PROVE AnswersReady'
  BY <1>7 DEF AskKnown, Ask, AnswerInv, Answer, BeforeLog
<1>8. ASSUME NEW p \in Procs, NEW q \in Questions, AskUnknown(p, q)
      PROVE AnswersReady'
  BY <1>8 DEF AskUnknown, Ask, AnswerInv, BeforeLog
<1>9. ASSUME NEW p \in Procs,
             \/ Stop(p) \/ StopWriting(p) \/ StopWaiting(p)
             \/ \E q \in Questions : AskDamaged(p, q)
      PROVE AnswersReady'
  BY <1>2, <1>9 DEF Stop, StopWriting, StopWaiting, AskDamaged, Die
<1>10. ASSUME NEW p \in Procs, EndOrphan(p)
      PROVE AnswersReady'
  BY <1>10 DEF EndOrphan, Goto, AnswerInv, BeforeLog
<1>11. CASE UNCHANGED vars
  BY <1>11 DEF vars, procVars, AnswerInv
<1>. QED
  BY <1>3, <1>6, <1>7, <1>8, <1>9, <1>10, <1>11 DEF Next

(* An answer shows in Store if something is promised about its question.     *)
Shown == [p \in Procs |-> Promised(reply[p])]

LEMMA ShownAnswer ==
  ASSUME TypeOK, NEW p \in Procs, NEW answer, reply' = [reply EXCEPT ![p] = {answer}]
  PROVE  /\ answer.question \in Comparable => Shown' = [Shown EXCEPT ![p] = {answer}]
         /\ answer.question \notin Comparable => Shown' = [Shown EXCEPT ![p] = {}]
<1>1. /\ answer.question \in Comparable => Promised({answer}) = {answer}
      /\ answer.question \notin Comparable => Promised({answer}) = {}
  BY DEF Promised
<1>2. Shown' = [o \in Procs |-> IF o = p THEN Promised({answer}) ELSE Promised(reply[o])]
  BY DEF Shown, TypeOK
<1>. QED  BY <1>1, <1>2 DEF Shown

LEMMA AnswersImplementStore ==
  ASSUME TypeOK, NEW p \in Procs, Up(p), Up(p)',
         NEW to, pc' = [pc EXCEPT ![p] = to], UNCHANGED df,
         NEW q \in Questions, NEW figures, Answer(p, q, figures),
         q \in Comparable => /\ LookupKey(q) \in DOMAIN df[p]
                            /\ figures = CachedFigures(q, df[p][LookupKey(q)])
  PROVE  Store!Next
<1> DEFINE answer == [question |-> q, figures |-> figures]
<1>1. reply' = [reply EXCEPT ![p] = {answer}] /\ answer.question = q
  BY DEF Answer
<1>2. UNCHANGED [o \in Procs |-> Up(o)] /\ [o \in Procs |-> Up(o)][p]
  BY DEF TypeOK, Up
<1>3. CASE q \in Comparable
  <2>1. Shown' = [Shown EXCEPT ![p] = {answer}]
    BY <1>1, <1>3, ShownAnswer
  <2>2. Store!Answer(p, q)
    BY <1>2, <1>3, <2>1 DEF Store!Answer, Shown
  <2>. QED  BY <1>3, <2>2 DEF Store!Next
<1>4. CASE q \notin Comparable
  <2>1. Shown' = [Shown EXCEPT ![p] = {}]
    BY <1>1, <1>4, ShownAnswer
  <2>2. Store!AnswerOther(p)
    BY <1>2, <2>1 DEF Store!AnswerOther, Shown
  <2>. QED  BY <2>2 DEF Store!Next
<1>. QED  BY <1>3, <1>4

LEMMA LivesImplementStore ==
  ASSUME TypeOK, TypeOK', NEW p \in Procs, Up(p) # Up(p)',
         NEW to, pc' = [pc EXCEPT ![p] = to],
         reply' = [reply EXCEPT ![p] = {}], NEW t, df' = [df EXCEPT ![p] = t]
  PROVE  Store!Next
<1>1. [o \in Procs |-> Up(o)]' = [[o \in Procs |-> Up(o)] EXCEPT ![p] = ~@]
  BY DEF TypeOK, Up
<1>2. Shown' = [Shown EXCEPT ![p] = {}]
  <2>1. Promised({}) = {}
    BY DEF Promised
  <2>2. Shown' = [o \in Procs |-> IF o = p THEN {} ELSE Promised(reply[o])]
    BY <2>1 DEF Shown, TypeOK
  <2>. QED  BY <2>2 DEF Shown
<1>3. Store!IsTable(df'[p]) /\ df' = [df EXCEPT ![p] = df'[p]]
  BY DEF TypeOK, IsTable, Store!IsTable
<1>4. Store!BeginOrEnd(p)
  BY <1>1, <1>2, <1>3 DEF Store!BeginOrEnd, Shown
<1>. QED  BY <1>4 DEF Store!Next

LEMMA NextImplementsStore ==
  ASSUME TypeOK, TypeOK', AnswersReady, [Next]_vars
  PROVE  [Store!Next]_<<[p \in Procs |-> Up(p)], df, Shown>>
<1> DEFINE up == [p \in Procs |-> Up(p)]
<1>1. ASSUME NEW p \in Procs, pc[p] \notin {"down", "orphan"}, NEW to, to \notin {"down", "orphan"},
             pc' = [pc EXCEPT ![p] = to], UNCHANGED <<df, reply>>
      PROVE  UNCHANGED <<up, df, Shown>>
  BY <1>1 DEF Shown, TypeOK, Up
<1>2. ASSUME NEW p \in Procs, Start(p)
      PROVE  Store!Next
  <2>1. reply' = [reply EXCEPT ![p] = {}]
    BY <1>2 DEF Start, Goto, AnswersReady, AnswerInv, TypeOK
  <2>2. PICK t \in RowsOfLog : df' = [df EXCEPT ![p] = t]
    BY <1>2 DEF Start
  <2>3. pc[p] = "down" /\ pc' = [pc EXCEPT ![p] = "ready"] /\ Up(p) # Up(p)'
    BY <1>2 DEF Start, Goto, TypeOK, Up
  <2>. QED  BY <2>1, <2>2, <2>3, LivesImplementStore
<1>3. ASSUME NEW p \in Procs, Up(p), NEW q, NEW to \in {"down", "orphan"}, EndAt(p, to, q)
      PROVE  Store!Next
  <2>1. Up(p) # Up(p)'
    BY <1>3 DEF EndAt, TypeOK, Up
  <2>. QED  BY <1>3, <2>1, LivesImplementStore DEF EndAt
<1>4. ASSUME NEW p \in Procs, AddRow(p)
      PROVE  Store!Next
  <2>0. PICK old \in RowsToExtend(p) : \E t :
          /\ df' = [df EXCEPT ![p] = t] /\ IsTable(t)
          /\ DOMAIN t = DOMAIN old \cup {RunKey(question[p])}
          /\ \A k \in DOMAIN old : t[k] = old[k]
          /\ \A k \in DOMAIN df[p] : k \in DOMAIN old /\ old[k] = df[p][k]
    BY <1>4, AddRowTable
  <2>t. PICK t :
          /\ df' = [df EXCEPT ![p] = t] /\ IsTable(t)
          /\ DOMAIN t = DOMAIN old \cup {RunKey(question[p])}
          /\ \A k \in DOMAIN old : t[k] = old[k]
          /\ \A k \in DOMAIN df[p] : k \in DOMAIN old /\ old[k] = df[p][k]
    BY <2>0
  <2>1. /\ df' = [df EXCEPT ![p] = t] /\ IsTable(t)
        /\ \A k \in DOMAIN df[p] : k \in DOMAIN t /\ t[k] = df[p][k]
    BY <2>t
  <2>2. pc[p] = "log" /\ pc' = [pc EXCEPT ![p] = "write"] /\ UNCHANGED reply
    BY <1>4 DEF AddRow, Goto
  <2>3. up' = up /\ up[p] /\ Shown' = Shown
    BY <2>2 DEF Shown, TypeOK, Up
  <2>4. df'[p] = t /\ Store!IsTable(df'[p]) /\ df' = [df EXCEPT ![p] = df'[p]]
    BY <2>1 DEF TypeOK, IsTable, Store!IsTable
  <2>5. \A k \in DOMAIN df[p] : k \in DOMAIN df'[p] /\ df'[p][k] = df[p][k]
    BY <2>1, <2>4
  <2>6. Store!Learn(p)
    BY <2>3, <2>4, <2>5 DEF Store!Learn, Shown
  <2>. QED  BY <2>6 DEF Store!Next
<1>5. ASSUME NEW p \in Procs, WriteLog(p)
      PROVE  [Store!Next]_<<up, df, Shown>>
  <2> DEFINE q == question[p]
             key == LookupKey(q)
  <2>1. pc[p] = "write" /\ UNCHANGED df /\ q \in Questions /\ Up(p)
    BY <1>5 DEF WriteLog, RunAgain, Return, Goto, TypeOK, Up
  <2>2. CASE RunAgain(p)
    BY <1>1, <2>1, <2>2 DEF RunAgain, Goto
  <2>3. CASE first[p] /\ key \in DOMAIN df[p] /\ Return(p, CachedFigures(q, df[p][key]))
    BY <2>1, <2>3, AnswersImplementStore DEF Return, Goto, TypeOK, Up
  <2>4. CASE ~first[p] /\ Return(p, FreshFigures(q, result[p]))
    <3>1. q \in Comparable =>
            /\ key \in DOMAIN df[p]
            /\ FreshFigures(q, result[p]) = CachedFigures(q, df[p][key])
      BY <2>1, <2>4, ComparableQuestion DEF AnswersReady, AnswerInv
    <3>. QED  BY <2>1, <2>4, <3>1, AnswersImplementStore DEF Return, Goto, TypeOK, Up
  <2>. QED  BY <1>5, <2>2, <2>3, <2>4 DEF WriteLog
<1>6. ASSUME NEW p \in Procs, Step(p)
      PROVE  [Store!Next]_<<up, df, Shown>>
  <2>1. CASE AddRow(p) \/ WriteLog(p)
    BY <2>1, <1>4, <1>5
  <2>2. CASE FailToReadLog(p) \/ FailToReturn(p)
    BY <2>2, <1>3 DEF FailToReadLog, FailToReturn, Die, Up
  <2>3. CASE MakeYaml(p) \/ OpenTrace(p) \/ FailToOpenTrace(p)
    BY <2>3, <1>1 DEF MakeYaml, OpenTrace, FailToOpenTrace, Goto
  <2>4. CASE WriteTrace(p) \/ FailToWriteTrace(p)
    BY <2>4, <1>1 DEF WriteTrace, FailToWriteTrace, Goto
  <2>5. CASE Simulate(p) \/ FailToSimulate(p)
    BY <2>5, <1>1 DEF Simulate, FailToSimulate, Goto
  <2>6. CASE RemoveTrace(p) \/ RemoveYaml(p)
    BY <2>6, <1>1 DEF RemoveTrace, RemoveYaml, Goto
  <2>. QED  BY <1>6, <2>1, <2>2, <2>3, <2>4, <2>5, <2>6 DEF Step
<1>7. ASSUME NEW p \in Procs, NEW q \in Questions, AskKnown(p, q)
      PROVE  Store!Next
  <2>1. pc' = [pc EXCEPT ![p] = "ready"] /\ UNCHANGED df /\ Up(p) /\ Up(p)'
    BY <1>7 DEF AskKnown, Ask, TypeOK, Up
  <2>. QED  BY <1>7, <2>1, AnswersImplementStore DEF AskKnown
<1>8. ASSUME NEW p \in Procs, NEW q \in Questions, AskUnknown(p, q)
      PROVE  UNCHANGED <<up, df, Shown>>
  BY <1>8, <1>1 DEF AskUnknown, Ask
<1>9. ASSUME NEW p \in Procs,
             \/ Stop(p) \/ StopWriting(p) \/ StopWaiting(p)
             \/ \E q \in Questions : AskDamaged(p, q)
      PROVE  Store!Next
  BY <1>3, <1>9 DEF Stop, StopWriting, StopWaiting, AskDamaged, Ask, Die, Up
<1>10. ASSUME NEW p \in Procs, EndOrphan(p)
      PROVE  UNCHANGED <<up, df, Shown>>
  BY <1>10 DEF EndOrphan, Goto, Shown, TypeOK, Up
<1>11. CASE UNCHANGED vars
  BY <1>11 DEF vars, procVars, Shown, Up
<1>. QED  BY <1>2, <1>6, <1>7, <1>8, <1>9, <1>10, <1>11 DEF Next

(* However processes interleave, fail and die: within one life a process      *)
(* answers every comparable question from the one result it holds for it, and *)
(* never replaces that result.                                              *)
THEOREM ImplementsStore == Spec => AnswersFromStore
<1>1. Init => AnswersReady
  BY DEF Init, AnswersReady, AnswerInv, BeforeLog
<1>2. Init => Store!Init
  <2> SUFFICES ASSUME Init PROVE Store!Init
    OBVIOUS
  <2>1. [p \in Procs |-> Up(p)] = [p \in Procs |-> FALSE]
    BY DEF Init, Up
  <2>2. \A p \in Procs : Store!IsTable(df[p])
    BY EmptyIsTable DEF Init, IsTable, Store!IsTable
  <2>3. [p \in Procs |-> Promised(reply[p])] = [p \in Procs |-> {}]
    BY DEF Init, Promised
  <2>. QED  BY <2>1, <2>2, <2>3 DEF Store!Init
<1>3. TypeOK /\ TypeOK' /\ AnswersReady /\ [Next]_vars =>
        [Store!Next]_<<[p \in Procs |-> Up(p)], df, Shown>>
  BY NextImplementsStore
<1>. QED
  BY <1>1, <1>2, <1>3, NextKeepsAnswersReady, CacheTypeCorrect, PTL
  DEF Spec, AnswersFromStore, Store!Spec, Shown

=============================================================================
