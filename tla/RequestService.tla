--------------------------- MODULE RequestService ---------------------------
(***************************************************************************)
(* What one channel's controller promises to the memory system above it,    *)
(* without queues, commands and latencies: requests are served once, in     *)
(* cycles, in any order barriers allow; every Period cycles a refresh        *)
(* becomes due, and it is over before the next one.                        *)
(***************************************************************************)
EXTENDS Integers, Sequences

CONSTANTS
  PIMTypes,  \* the request types that barriers order
  Period     \* cycles from one refresh to the next

VARIABLES
  accepted,     \* the requests accepted, in order; each has a type
  done,         \* the places in `accepted` of those served
  refreshing,   \* whether a refresh waits
  untilRefresh  \* cycles until the next one is due

vars == <<accepted, done, refreshing, untilRefresh>>

(* A barrier is served after the PIM requests before it and before those     *)
(* after it.                                                               *)
OrderKept(requests, served) ==
  \A a, b \in DOMAIN requests :
    /\ a < b /\ requests[a].type \in PIMTypes /\ requests[b].type \in PIMTypes
    /\ "BARRIER" \in {requests[a].type, requests[b].type}
    /\ b \in served
    => a \in served

AllServed == done = DOMAIN accepted

Init == accepted = <<>> /\ done = {} /\ refreshing = FALSE /\ untilRefresh = Period

Accept ==
  /\ Len(accepted') = Len(accepted) + 1
  /\ SubSeq(accepted', 1, Len(accepted)) = accepted
  /\ UNCHANGED <<done, refreshing, untilRefresh>>

Serve ==
  /\ done \subseteq done' /\ done' \subseteq DOMAIN accepted
  /\ OrderKept(accepted, done')

(* The cycle goes on, or the next one begins.                              *)
Work ==
  /\ untilRefresh' \in {untilRefresh, untilRefresh - 1} \ {0}
  /\ refreshing' \in {refreshing, FALSE}
  /\ Serve
  /\ UNCHANGED accepted

(* The cycle that begins makes a refresh due. It may start in this cycle.    *)
BeginRefresh ==
  /\ untilRefresh = 1 /\ ~refreshing
  /\ untilRefresh' = Period
  /\ refreshing' \in BOOLEAN
  /\ Serve
  /\ UNCHANGED accepted

Next == Accept \/ Work \/ BeginRefresh

Spec == Init /\ [][Next]_vars

(* Whatever arrives, the channel catches up again and again.                *)
FairSpec == Spec /\ []<>AllServed

=============================================================================
