--------------------------- MODULE RamulatorCache ---------------------------
(***************************************************************************)
(* ramulator_wrapper.py: the Python processes that ask for the figures of an *)
(* attention layer, answer from a table of results, and simulate what the    *)
(* table lacks in subprocesses. They share a directory: the CSV log of all   *)
(* results, and the YAML and trace files of the simulations in progress.     *)
(*                                                                          *)
(* A step is one access to a shared file, so that processes interleave       *)
(* between them; a subprocess may fail, and a process may be killed anywhere, *)
(* in the middle of writing the log and without the subprocess it waits for.  *)
(* What a simulation counts is abstracted to what it read: the PIM type of   *)
(* the trace, "part" if the trace was cut short, "nothing" if the run failed. *)
(* A result whose row was cut off in the log has lost digits of its last      *)
(* figure ("short") or whole figures ("missing").                           *)
(***************************************************************************)
EXTENDS Integers, FiniteSets

CONSTANTS
  Procs,         \* the processes
  Setups,        \* [dhead, k, pim, fast]: modelinfos, layer.k, pim_type, fast_mode
  Shapes,        \* (L, dbyte, power_constraint) of a layer, which keys and files share
  Ops,           \* values of layer.numOp
  NumHbm,        \* num_hbm
  MinimumHeads,  \* minimum_heads of the fast mode
  Granularity,   \* pCH * Rank * bank group * bank of each PIM type
  MaxLives,      \* bound: processes started in a behaviour
  MaxAsks        \* bound: questions asked in a behaviour

PIMTypes == {"BA", "BG", "BUFFER"}

ASSUME CacheAssumption ==
  /\ {} \notin {Procs, Setups, Shapes, Ops}
  /\ Setups \subseteq [dhead : Nat, k : Nat, pim : PIMTypes, fast : BOOLEAN]
  /\ Ops \subseteq Nat \ {0} /\ NumHbm \in Nat \ {0} /\ MinimumHeads \in Nat \ {0}
  /\ Granularity \in [PIMTypes -> Nat]
  /\ MaxLives \in Nat /\ MaxAsks \in Nat

VARIABLES
  pc,        \* where each process is
  setup,     \* its command line
  df,        \* self.df: the first row of each key
  question,  \* the layer output() was called with
  first,     \* output() found df empty, and will look up again after run()
  result,    \* what run_ramulator() parsed
  reply,     \* history: the last answer, if any: a set of one [question, figures]
  log,       \* the CSV file: [state, rows]; "open": these rows are being written
  yamls,     \* the YAML files that exist
  traces,    \* the trace files: the PIM type they are for, "part" or "none"
  lives,     \* history: processes started
  asks,      \* history: questions asked
  overlapped, \* history: two processes, or what they left running, were alive at once
  failed,    \* history: a subprocess failed
  cut        \* history: a process was killed while it wrote the log

procVars == <<pc, setup, df, question, first, result, reply>>
fileVars == <<log, yamls, traces>>
history == <<lives, asks, overlapped, failed, cut>>
vars == <<procVars, fileVars, history>>

Questions == [setup : Setups, shape : Shapes, ops : Ops]
Results == PIMTypes \cup {"part", "nothing", "short", "missing"}

(* The key of a row that was cut off before its results: no lookup finds it.  *)
LostKey == [shape |-> CHOOSE s \in Shapes : TRUE, nhead |-> 0, dhead |-> 0, pim |-> "BA"]

Keys == [shape : Shapes, nhead : Nat \ {0}, dhead : Nat, pim : PIMTypes] \cup {LostKey}
NoSetup == CHOOSE s \in Setups : TRUE        \* of a process that is down
NoQuestion == CHOOSE q \in Questions : TRUE  \* of a process that was not asked
Up(p) == pc[p] \notin {"down", "orphan"}     \* the Python process is alive
Empty == [k \in {} |-> "nothing"]

(* Faulty: rounded down, which leaves the last heads out.                   *)
FloorDiv(a, b) == a \div b

CeilDiv(a, b) == (a + b - 1) \div b

---------------------------------------------------------------------------
(* The head counts and the key that output() and run() derive from a layer. *)

PerHbm(q) == CeilDiv(q.ops, NumHbm)
Group(q) == IF q.setup.fast THEN CeilDiv(PerHbm(q), MinimumHeads) ELSE 1
Simulated(q) == IF q.setup.fast THEN MinimumHeads ELSE PerHbm(q)

(* The row that output() looks for, and the row that run() writes.           *)
LookupKey(q) ==
  [shape |-> q.shape, nhead |-> Simulated(q), dhead |-> q.setup.k, pim |-> q.setup.pim]

RunKey(q) ==
  [shape |-> q.shape, nhead |-> Simulated(q), dhead |-> q.setup.dhead, pim |-> q.setup.pim]

(* file_name, which leaves the PIM type out.                               *)
FileName(q) == [shape |-> q.shape, nhead |-> Simulated(q), dhead |-> q.setup.dhead]

Files == {FileName(q) : q \in Questions}

(* What is returned for a result: how often the simulated time and the       *)
(* simulated accesses count. The two ways to an answer differ.              *)
CachedFigures(q, r) ==
  [result |-> r, time |-> Group(q),
   accesses |-> NumHbm * Group(q) *
                (IF q.setup.pim = "BUFFER" THEN 2 ELSE Granularity[q.setup.pim])]

FreshFigures(q, r) ==
  [result |-> r, time |-> 1,
   accesses |-> NumHbm * Group(q) *
                (IF q.setup.pim = "BUFFER" THEN 1 ELSE Granularity[q.setup.pim])]

Init ==
  /\ pc = [p \in Procs |-> "down"]
  /\ setup = [p \in Procs |-> NoSetup]
  /\ df = [p \in Procs |-> Empty]
  /\ question = [p \in Procs |-> NoQuestion]
  /\ first = [p \in Procs |-> FALSE]
  /\ result = [p \in Procs |-> "nothing"]
  /\ reply = [p \in Procs |-> {}]
  /\ log = [state |-> "none", rows |-> Empty]
  /\ yamls = {}
  /\ traces = [f \in Files |-> "none"]
  /\ lives = 0
  /\ asks = 0
  /\ overlapped = FALSE
  /\ failed = FALSE
  /\ cut = FALSE

Goto(p, from, to) ==
  /\ pc[p] = from
  /\ pc' = [pc EXCEPT ![p] = to]

---------------------------------------------------------------------------
(* What the log gives when it is read. A CSV file that ends too early is       *)
(* parsed like any other, unless it is empty: read_csv raises for that.       *)

Extended(rows, key, r) ==
  [k \in DOMAIN rows \cup {key} |-> IF k \in DOMAIN rows THEN rows[k] ELSE r]

(* What may be in a file of which only a part was written, if there is         *)
(* anything: some of the rows (their order is left open), the last of them    *)
(* intact, without the end of its figures, or without a complete key. The     *)
(* header is written along with the first rows.                             *)
Kept(rows) == {[k \in S |-> rows[k]] : S \in SUBSET DOMAIN rows}

Damaged(rows) == {[rows EXCEPT ![k] = r] : k \in DOMAIN rows, r \in {"short", "missing"}}

Remains(rows) ==
  Kept(rows) \cup (UNION {Damaged(u) : u \in Kept(rows)})
  \cup {Extended(u, LostKey, "missing") : u \in Kept(rows) \ {rows}}

(* The log once its only writer was killed.                                 *)
LeftOver(rows) ==
  {[state |-> "empty", rows |-> Empty]} \cup {[state |-> "whole", rows |-> t] : t \in Remains(rows)}

(* Faulty: the log is read only when something is added to it.               *)
NoRows == {Empty}

RowsOfLog ==
  CASE log.state = "none" -> {Empty}
    [] log.state = "whole" -> {log.rows}
    [] log.state = "open" -> Remains(log.rows)
    [] OTHER -> {}

---------------------------------------------------------------------------
(* The life of a process.                                                  *)

(* __init__: the log is read if it exists. If it cannot be parsed, the         *)
(* process ends before it began.                                            *)
Start(p) ==
  /\ Goto(p, "down", "ready")
  /\ lives < MaxLives
  /\ setup' \in {[setup EXCEPT ![p] = s] : s \in Setups}
  /\ df' \in {[df EXCEPT ![p] = t] : t \in RowsOfLog}
  /\ lives' = lives + 1
  /\ overlapped' = (overlapped \/ \E o \in Procs \ {p} : pc[o] # "down")
  /\ UNCHANGED <<question, first, result, reply, fileVars, asks, failed, cut>>

(* The objects of the process are gone.                                    *)
EndAt(p, to, q) ==
  /\ pc' = [pc EXCEPT ![p] = to]
  /\ setup' = [setup EXCEPT ![p] = NoSetup]
  /\ df' = [df EXCEPT ![p] = Empty]
  /\ question' = [question EXCEPT ![p] = q]
  /\ first' = [first EXCEPT ![p] = FALSE]
  /\ result' = [result EXCEPT ![p] = "nothing"]
  /\ reply' = [reply EXCEPT ![p] = {}]

Die(p) == EndAt(p, "down", NoQuestion)

(* The process is killed, or ends: its files stay as they are.               *)
Stop(p) ==
  /\ Up(p) /\ pc[p] # "write"
  /\ Die(p)
  /\ UNCHANGED <<fileVars, history>>

(* It is killed while it writes the log, or just before or after. What others  *)
(* who have the log open leave in it counts as written last.                *)
StopWriting(p) ==
  /\ pc[p] = "write"
  /\ Die(p)
  /\ cut' = TRUE
  /\ IF \E o \in Procs \ {p} : pc[o] = "write"
     THEN UNCHANGED log
     ELSE log' \in LeftOver(df[p]) \cup (IF log.state = "open" THEN {} ELSE {log})
  /\ UNCHANGED <<yamls, traces, lives, asks, overlapped, failed>>

(* It is killed alone, while it waits for the generator of the trace.         *)
StopWaiting(p) ==
  /\ pc[p] \in {"trace", "generate"}
  /\ EndAt(p, "orphan", question[p])
  /\ UNCHANGED <<fileVars, history>>

(* The generator that was left ends: it wrote all, a part or nothing.        *)
EndOrphan(p) ==
  LET q == question[p] IN
  /\ Goto(p, "orphan", "down")
  /\ question' = [question EXCEPT ![p] = NoQuestion]
  /\ traces' \in {traces} \cup {[traces EXCEPT ![FileName(q)] = t] : t \in {"part", q.setup.pim}}
  /\ UNCHANGED <<setup, df, first, result, reply, log, yamls, history>>

---------------------------------------------------------------------------
(* output(): answer from the table, or simulate.                            *)

Answer(p, q, figures) == reply' = [reply EXCEPT ![p] = {[question |-> q, figures |-> figures]}]

Ask(p, q) ==
  /\ pc[p] = "ready"
  /\ q.setup = setup[p]
  /\ asks < MaxAsks
  /\ asks' = asks + 1
  /\ UNCHANGED <<log, traces, lives, overlapped, failed, cut>>

AskKnown(p, q) ==
  /\ Ask(p, q)
  /\ LookupKey(q) \in DOMAIN df[p] /\ df[p][LookupKey(q)] # "missing"
  /\ Answer(p, q, CachedFigures(q, df[p][LookupKey(q)]))
  /\ UNCHANGED <<pc, setup, df, question, first, result, yamls>>

(* A missing figure is not a number: int() raises, and the process ends.      *)
AskDamaged(p, q) ==
  /\ Ask(p, q)
  /\ LookupKey(q) \in DOMAIN df[p] /\ df[p][LookupKey(q)] = "missing"
  /\ Die(p)
  /\ UNCHANGED yamls

(* The question goes to run(), which begins with make_yaml_file().           *)
AskUnknown(p, q) ==
  /\ Ask(p, q)
  /\ LookupKey(q) \notin DOMAIN df[p]
  /\ pc' = [pc EXCEPT ![p] = "trace"]
  /\ question' = [question EXCEPT ![p] = q]
  /\ first' = [first EXCEPT ![p] = DOMAIN df[p] = {}]
  /\ yamls' = yamls \cup {FileName(q)}
  /\ UNCHANGED <<setup, df, result, reply>>

(* The second run() of a call.                                             *)
MakeYaml(p) ==
  /\ Goto(p, "yaml", "trace")
  /\ yamls' = yamls \cup {FileName(question[p])}
  /\ UNCHANGED <<setup, df, question, first, result, reply, log, traces, history>>

(* Faulty: a trace that is there already is not generated again.             *)
OpenMissingTrace(p) ==
  /\ pc[p] = "trace"
  /\ \/ /\ traces[FileName(question[p])] = "none"
        /\ pc' = [pc EXCEPT ![p] = "generate"]
        /\ traces' = [traces EXCEPT ![FileName(question[p])] = "part"]
     \/ /\ traces[FileName(question[p])] # "none"
        /\ pc' = [pc EXCEPT ![p] = "simulate"]
        /\ UNCHANGED traces
  /\ UNCHANGED <<setup, df, question, first, result, reply, log, yamls, history>>

(* run_ramulator(): the generator opens its output, or fails before that;    *)
(* nothing looks at its exit status.                                        *)
OpenTrace(p) ==
  /\ Goto(p, "trace", "generate")
  /\ traces' = [traces EXCEPT ![FileName(question[p])] = "part"]
  /\ UNCHANGED <<setup, df, question, first, result, reply, log, yamls, history>>

FailToOpenTrace(p) ==
  /\ Goto(p, "trace", "simulate")
  /\ failed' = TRUE
  /\ UNCHANGED <<setup, df, question, first, result, reply, fileVars, lives, asks, overlapped, cut>>

(* If another process removed or reopened the file meanwhile, what is        *)
(* written goes to a file that has lost its name.                           *)
WriteTrace(p) ==
  LET f == FileName(question[p])
      written == {[traces EXCEPT ![f] = question[p].setup.pim]}
  IN
  /\ Goto(p, "generate", "simulate")
  /\ traces' \in (IF traces[f] = "none" THEN {} ELSE written)
                 \cup (IF overlapped THEN {traces} ELSE {})
  /\ UNCHANGED <<setup, df, question, first, result, reply, log, yamls, history>>

FailToWriteTrace(p) ==
  /\ Goto(p, "generate", "simulate")
  /\ failed' = TRUE
  /\ UNCHANGED <<setup, df, question, first, result, reply, fileVars, lives, asks, overlapped, cut>>

(* run_ramulator(): the simulator reads its YAML and the trace that names;   *)
(* if it fails its output has no line to parse, and every count stays 0.     *)
Simulation(p) ==
  IF FileName(question[p]) \in yamls /\ traces[FileName(question[p])] # "none"
  THEN traces[FileName(question[p])]
  ELSE "nothing"

Simulate(p) ==
  /\ Goto(p, "simulate", "rmtrace")
  /\ result' = [result EXCEPT ![p] = Simulation(p)]
  /\ UNCHANGED <<setup, df, question, first, reply, fileVars, history>>

FailToSimulate(p) ==
  /\ Goto(p, "simulate", "rmtrace")
  /\ result' = [result EXCEPT ![p] = "nothing"]
  /\ failed' = TRUE
  /\ UNCHANGED <<setup, df, question, first, reply, fileVars, lives, asks, overlapped, cut>>

RemoveTrace(p) ==
  /\ Goto(p, "rmtrace", "rmyaml")
  /\ traces' = [traces EXCEPT ![FileName(question[p])] = "none"]
  /\ UNCHANGED <<setup, df, question, first, result, reply, log, yamls, history>>

RemoveYaml(p) ==
  /\ Goto(p, "rmyaml", "log")
  /\ yamls' = yamls \ {FileName(question[p])}
  /\ UNCHANGED <<setup, df, question, first, result, reply, log, traces, history>>

---------------------------------------------------------------------------
(* update_log_file(): the row goes behind the rows of df, or, if df is empty, *)
(* of the log; of the rows of one key only the first is ever looked at. Then *)
(* the whole log is written anew.                                           *)

(* Faulty: what others have written meanwhile is taken over.                *)
MergedRows(p) ==
  {[k \in DOMAIN t \cup DOMAIN df[p] |-> IF k \in DOMAIN t THEN t[k] ELSE df[p][k]] :
   t \in RowsOfLog}

RowsToExtend(p) ==
  IF DOMAIN df[p] = {} THEN RowsOfLog ELSE {df[p]}

AddRow(p) ==
  /\ Goto(p, "log", "write")
  /\ \E rows \in RowsToExtend(p) :
       LET new == Extended(rows, RunKey(question[p]), result[p]) IN
       /\ df' = [df EXCEPT ![p] = new]
       /\ log' = [state |-> "open", rows |-> new]
  /\ UNCHANGED <<setup, question, first, result, reply, yamls, traces, history>>

(* Nothing is in the log, or nothing yet: an exception.                     *)
FailToReadLog(p) ==
  /\ pc[p] = "log" /\ log.state \in {"empty", "open"} /\ DOMAIN df[p] = {}
  /\ Die(p)
  /\ UNCHANGED <<fileVars, history>>

RunAgain(p) ==
  /\ Goto(p, "write", "yaml")
  /\ first' = [first EXCEPT ![p] = FALSE]
  /\ UNCHANGED <<question, result, reply>>

(* The call ends, and with it its local variables.                          *)
Return(p, figures) ==
  /\ Goto(p, "write", "ready")
  /\ Answer(p, question[p], figures)
  /\ question' = [question EXCEPT ![p] = NoQuestion]
  /\ first' = [first EXCEPT ![p] = FALSE]
  /\ result' = [result EXCEPT ![p] = "nothing"]

(* The log is complete, also if another process has it open still: that one    *)
(* will write all of it. A call that began with an empty table looks up again, *)
(* any other one returns the result of its run.                             *)
WriteLog(p) ==
  LET q == question[p]
      key == LookupKey(q)
  IN
  /\ log' = [state |-> "whole", rows |-> df[p]]
  /\ \/ first[p] /\ key \notin DOMAIN df[p] /\ RunAgain(p)
     \/ /\ first[p] /\ key \in DOMAIN df[p] /\ df[p][key] # "missing"
        /\ Return(p, CachedFigures(q, df[p][key]))
     \/ ~first[p] /\ Return(p, FreshFigures(q, result[p]))
  /\ UNCHANGED <<setup, df, yamls, traces, history>>

(* The log had a row for the key already, without its figures.               *)
FailToReturn(p) ==
  LET key == LookupKey(question[p]) IN
  /\ pc[p] = "write" /\ first[p] /\ key \in DOMAIN df[p] /\ df[p][key] = "missing"
  /\ log' = [state |-> "whole", rows |-> df[p]]
  /\ Die(p)
  /\ UNCHANGED <<yamls, traces, history>>

Step(p) ==
  \/ MakeYaml(p) \/ OpenTrace(p) \/ FailToOpenTrace(p) \/ WriteTrace(p) \/ FailToWriteTrace(p)
  \/ Simulate(p) \/ FailToSimulate(p) \/ RemoveTrace(p) \/ RemoveYaml(p)
  \/ AddRow(p) \/ FailToReadLog(p) \/ WriteLog(p) \/ FailToReturn(p)

Next ==
  \E p \in Procs :
    \/ Start(p) \/ Stop(p) \/ StopWriting(p) \/ StopWaiting(p) \/ EndOrphan(p) \/ Step(p)
    \/ \E q \in Questions : AskKnown(p, q) \/ AskDamaged(p, q) \/ AskUnknown(p, q)

Spec == Init /\ [][Next]_vars

---------------------------------------------------------------------------
(* Properties.                                                             *)

IsTable(t) ==
  /\ t = [k \in DOMAIN t |-> t[k]]
  /\ DOMAIN t \subseteq Keys
  /\ \A k \in DOMAIN t : t[k] \in Results

TypeOK ==
  /\ pc \in [Procs -> {"down", "ready", "yaml", "trace", "generate", "simulate", "rmtrace",
                       "rmyaml", "log", "write", "orphan"}]
  /\ setup \in [Procs -> Setups]
  /\ df = [p \in Procs |-> df[p]] /\ \A p \in Procs : IsTable(df[p])
  /\ question \in [Procs -> Questions]
  /\ first \in [Procs -> BOOLEAN]
  /\ result \in [Procs -> Results]
  /\ reply = [p \in Procs |-> reply[p]]
  /\ \A p \in Procs : \A a \in reply[p] : a.question \in Questions
  /\ log = [state |-> log.state, rows |-> log.rows]
  /\ log.state \in {"none", "whole", "open", "empty"} /\ IsTable(log.rows)
  /\ yamls \subseteq Files
  /\ traces \in [Files -> PIMTypes \cup {"part", "none"}]
  /\ lives \in 0..MaxLives /\ asks \in 0..MaxAsks
  /\ overlapped \in BOOLEAN /\ failed \in BOOLEAN /\ cut \in BOOLEAN

(* The questions whose answer does not depend on the way to it: the lookup    *)
(* finds the row that run() writes (layer.k is modelinfos' dhead), and lines  *)
(* 193-200 and 214 of run() compute what lines 254-261 and 267-268 do.       *)
Comparable == {q \in Questions :
  /\ q.setup.k = q.setup.dhead
  /\ q.setup.pim # "BUFFER"
  /\ Group(q) = 1}

Promised(answers) == {a \in answers : a.question \in Comparable}

Store == INSTANCE ResultStore WITH
  Questions <- Comparable,
  KeyOf <- LookupKey,
  Figures <- CachedFigures,
  up <- [p \in Procs |-> Up(p)],
  known <- df,
  reply <- [p \in Procs |-> Promised(reply[p])]

(* However the processes interleave, fail and die: within one life a process *)
(* answers a comparable question from the one result it holds for its key,   *)
(* whether it has just simulated it or looked it up, and what others write    *)
(* into the log never changes a result it has.                              *)
AnswersFromStore == Store!Spec

(* As long as no run failed and no two processes were alive at once, all     *)
(* results in use were counted on a complete trace of their own PIM type,    *)
(* although the file names leave the type out and a killed process leaves    *)
(* its files behind. Once a process was killed while it wrote the log, there   *)
(* may be damaged ones beside them, but still none of another type.          *)
OwnResult(k, r) == r = k.pim \/ (cut /\ r \in {"short", "missing"})

ResultsOfOwnTrace ==
  ~failed /\ ~overlapped =>
    /\ \A p \in Procs : \A k \in DOMAIN df[p] : OwnResult(k, df[p][k])
    /\ \A k \in DOMAIN log.rows : OwnResult(k, log.rows[k])

(* A process rewrites the log from its own table: as long as it is not killed  *)
(* while it writes, nothing is lost if the table holds all rows of the log,   *)
(* at any time in the life of the process.                                  *)
LogIsHeld ==
  ~overlapped => \A p \in Procs : Up(p) =>
    \A k \in DOMAIN log.rows : k \in DOMAIN df[p] /\ df[p][k] = log.rows[k]
=============================================================================
