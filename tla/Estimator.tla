----------------------------- MODULE Estimator ------------------------------
(***************************************************************************)
(* What a caller of simulate() may rely on: an answer is a function of the    *)
(* configuration and of the arguments of the call alone, whatever was         *)
(* configured and simulated before, and a call, whether it succeeds or not,   *)
(* leaves the configuration as it was.                                      *)
(***************************************************************************)
CONSTANTS
  Calls,           \* the arguments of simulate()
  Figures(_, _)    \* the answer for a configuration and a call

VARIABLES
  config,   \* the devices and the model
  calling,  \* the call in progress, if any: a set of at most one
  answer    \* of the last operation, if any: a set of one [call, figures]

Init ==
  /\ calling = {}
  /\ answer = {}

Configure ==
  /\ calling = {}
  /\ calling' = {}
  /\ answer' = {}

Begin ==
  /\ calling = {}
  /\ \E c \in Calls : calling' = {c}
  /\ answer' = {}
  /\ UNCHANGED config

Estimate ==
  /\ calling # {}
  /\ calling' = {}
  /\ \E c \in calling : answer' = {[call |-> c, figures |-> Figures(config, c)]}
  /\ UNCHANGED config

Fail ==
  /\ calling # {}
  /\ calling' = {}
  /\ UNCHANGED <<config, answer>>

Next == Configure \/ Begin \/ Fail \/ Estimate

Spec == Init /\ [][Next]_<<config, calling, answer>>
=============================================================================
