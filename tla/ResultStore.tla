---------------------------- MODULE ResultStore ----------------------------
(***************************************************************************)
(* What processes that ask for simulation results may rely on. Within one    *)
(* life of a process, a result that is known for a key stays the result of   *)
(* that key, and every answer is computed from the result known for the key  *)
(* that was asked. How results become known, and which ones are remembered   *)
(* from other lives, is left open.                                          *)
(***************************************************************************)
CONSTANTS
  Procs,           \* the processes
  Questions,       \* what may be asked
  Keys,            \* the keys results are stored under
  Results,         \* what may be stored
  KeyOf(_),        \* the key of a question
  Figures(_, _)    \* the answer to a question, computed from a result

VARIABLES
  up,       \* which processes are alive
  known,    \* the results each holds: a function from some of the keys
  reply     \* the last answer of each, if any: a set of one [question, figures]

IsTable(t) ==
  /\ t = [k \in DOMAIN t |-> t[k]]
  /\ DOMAIN t \subseteq Keys
  /\ \A k \in DOMAIN t : t[k] \in Results

Init ==
  /\ up = [p \in Procs |-> FALSE]
  /\ \A p \in Procs : IsTable(known[p])
  /\ reply = [p \in Procs |-> {}]

(* A life begins with any results, and nothing of it is left when it ends.   *)
BeginOrEnd(p) ==
  /\ up' = [up EXCEPT ![p] = ~@]
  /\ IsTable(known'[p])
  /\ known' = [known EXCEPT ![p] = known'[p]]
  /\ reply' = [reply EXCEPT ![p] = {}]

Learn(p) ==
  /\ up[p]
  /\ IsTable(known'[p])
  /\ \A k \in DOMAIN known[p] : k \in DOMAIN known'[p] /\ known'[p][k] = known[p][k]
  /\ known' = [known EXCEPT ![p] = known'[p]]
  /\ UNCHANGED <<up, reply>>

Answer(p, q) ==
  /\ up[p]
  /\ KeyOf(q) \in DOMAIN known[p]
  /\ reply' = [reply EXCEPT ![p] =
                 {[question |-> q, figures |-> Figures(q, known[p][KeyOf(q)])]}]
  /\ UNCHANGED <<up, known>>

(* A question that is none of Questions: nothing is promised about it.       *)
AnswerOther(p) ==
  /\ up[p]
  /\ reply' = [reply EXCEPT ![p] = {}]
  /\ UNCHANGED <<up, known>>

Next ==
  \E p \in Procs :
    \/ BeginOrEnd(p) \/ Learn(p) \/ AnswerOther(p)
    \/ \E q \in Questions : Answer(p, q)

Spec == Init /\ [][Next]_<<up, known, reply>>
=============================================================================
