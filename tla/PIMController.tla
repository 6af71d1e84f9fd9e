--------------------------- MODULE PIMController ---------------------------
(***************************************************************************)
(* hbm3_pim_controller.cpp with its scheduler, its refresh manager          *)
(* (all_bank_refresh_hbm3.cpp, or no_refresh.cpp) and the device of its     *)
(* channel. One memory cycle is three steps that nothing interleaves with:  *)
(* Tick (steps 1 and the refresh manager of tick()), then the first and the *)
(* second command slot (steps 2-4 and step 5). Between cycles the memory    *)
(* system may send requests.                                               *)
(*                                                                          *)
(* schedule_request and schedule_sec_request are the same procedure but for  *)
(* the row/column test of the second one, so Slot models both.             *)
(***************************************************************************)
EXTENDS PIMScheduler, SequencesExt

CONSTANTS
  Traffic,           \* the [type, address] pairs the memory system may send
  MaxRequests,       \* bound: how many requests are accepted in a behaviour
  MaxSize,           \* ReqBuffer::max_size: enqueue fails above this size
  PriorityMaxSize,   \* the same for the priority buffer (512*3 + 32)
  WrLow, WrHigh,     \* the write watermarks, in tenths of MaxSize
  RefreshOn          \* RefreshManager AllBankHBM3 (TRUE) or No (FALSE)

PIMTypes == {"MAC_AB", "MAC_SB", "MAC_PB", "WR_GB", "MV_SB", "MV_GB", "SFM",
             "SET_MODEL", "SET_HEAD", "BARRIER"}

ASSUME TrafficAssumption == Traffic \subseteq [type : RequestTypes, address : Address]

ASSUME ControllerAssumption ==
  /\ MaxRequests \in Nat /\ MaxSize \in Nat /\ PriorityMaxSize \in Nat
  /\ WrLow \in Nat /\ WrHigh \in Nat /\ RefreshOn \in BOOLEAN
  /\ Timing["nREFI"] > 0

VARIABLES
  queues,       \* the five request buffers
  pending,      \* reads waiting for their data: [request, left], left = depart - m_clk
  isPim,        \* is_pim
  isWriteMode,  \* m_is_write_mode
  untilRefresh, \* m_next_refresh_cycle - m_clk of the refresh manager
  phase,        \* where in the memory cycle the controller is
  seen,         \* the kind of req_it->command that the second slot compares with
  accepted,     \* history: the requests accepted, in order
  arrival,      \* Len(accepted) when this cycle began: orders `arrive` like m_clk
  done          \* history: the ids of the requests that were served

controllerVars == <<queues, pending, isPim, isWriteMode, untilRefresh, phase,
                    seen, accepted, arrival, done>>
vars == <<deviceVars, controllerVars>>

QueueNames == {"active", "priority", "read", "write", "pim"}
CommandKinds == {"row", "col", "none"}

TraceRequest == [id : Nat, type : RequestTypes, address : Address, arrive : Nat]

RefreshRequest(p) ==
  [id |-> 0, type |-> "AllBankRefresh", address |-> RefreshAddress(p), arrive |-> 0]

RefreshRequests == {RefreshRequest(p) : p \in Pchs}

ReadLatency == Timing.nCL + Timing.nBL
(* Faulty: a buffer is full one request early.                             *)
FitsStrictly(name, buffer) ==
  Len(buffer) < (IF name = "priority" THEN PriorityMaxSize ELSE MaxSize)

(* ReqBuffer::enqueue succeeds                                             *)
Fits(name, buffer) ==
  Len(buffer) <= (IF name = "priority" THEN PriorityMaxSize ELSE MaxSize)

Init ==
  /\ DeviceInit
  /\ queues = [name \in QueueNames |-> <<>>]
  /\ pending = <<>>
  /\ isPim = FALSE
  /\ isWriteMode = FALSE
  /\ untilRefresh = Timing.nREFI
  /\ phase = "idle"
  /\ seen = "none"
  /\ accepted = <<>>
  /\ arrival = 0
  /\ done = {}

---------------------------------------------------------------------------
(* send(): between two cycles. A read of an address in the write buffer is  *)
(* answered from there; anything else goes to its buffer if it fits, and    *)
(* is refused (nothing changes) otherwise.                                 *)

QueueOf(t) == CASE t = "Read" -> "read" [] t = "Write" -> "write" [] OTHER -> "pim"

Forwarded(m) ==
  m.type = "Read" /\ \E i \in DOMAIN queues.write : queues.write[i].address = m.address

Send(m) ==
  LET r == [id |-> Len(accepted) + 1, type |-> m.type, address |-> m.address, arrive |-> arrival]
      name == QueueOf(m.type)
  IN
  /\ phase = "idle"
  /\ Len(accepted) < MaxRequests
  /\ \/ /\ Forwarded(m)
        /\ pending' = Append(pending, [request |-> r, left |-> 1])
        /\ UNCHANGED queues
     \/ /\ ~Forwarded(m)
        /\ Fits(name, queues[name])
        /\ queues' = [queues EXCEPT ![name] = Append(@, r)]
        /\ UNCHANGED pending
  /\ accepted' = Append(accepted, r)
  /\ UNCHANGED <<deviceVars, isPim, isWriteMode, untilRefresh, phase, seen, arrival, done>>

---------------------------------------------------------------------------
(* The start of tick(): the clock, the completed read at the head of        *)
(* `pending`, and the refresh manager.                                     *)

(* Faulty: the remaining latency runs on below zero.                        *)
AgedBelowZero == [i \in DOMAIN pending |-> [pending[i] EXCEPT !.left = @ - 1]]

Aged == [i \in DOMAIN pending |-> [pending[i] EXCEPT !.left = IF @ > 0 THEN @ - 1 ELSE 0]]

ServeCompletedReads ==
  IF Aged # <<>> /\ Head(Aged).left = 0
  THEN /\ pending' = Tail(Aged)
       /\ done' = done \cup {Head(Aged).request.id}
  ELSE /\ pending' = Aged
       /\ UNCHANGED done

(* One refresh per pseudochannel, or the exception "Failed to send refresh!" *)
RefreshTick ==
  LET due == RefreshOn /\ untilRefresh = 1
      room == Len(queues.priority) + NumPch <= PriorityMaxSize + 1
      requests == [i \in 1..NumPch |-> RefreshRequest(i - 1)]
  IN
  /\ untilRefresh' = IF RefreshOn /\ untilRefresh > 1 THEN untilRefresh - 1 ELSE Timing.nREFI
  /\ queues' = IF due /\ room THEN [queues EXCEPT !["priority"] = @ \o requests] ELSE queues
  /\ phase' = IF due /\ ~room THEN "thrown" ELSE "first"

Tick ==
  /\ phase = "idle"
  /\ AdvanceClock
  /\ ServeCompletedReads
  /\ RefreshTick
  /\ arrival' = Len(accepted)
  /\ UNCHANGED <<isPim, isWriteMode, seen, accepted>>

---------------------------------------------------------------------------
(* The two command slots.                                                  *)

CommandKind(c) ==
  IF c \in Opening \cup {"PRE", "PREA", "REFab", "REFsb"} THEN "row"
  ELSE IF c \in Accessing \cup Moving \cup {"SETM", "SETH"} THEN "col"
  ELSE "none"

(* compare_command_type, which the first slot does not call.               *)
Matches(c) ==
  \/ phase = "first"
  \/ seen # "none" /\ CommandKind(c) # "none" /\ CommandKind(c) # seen

Chosen(buffer) ==
  LET i == Best(buffer) IN
  i \in DOMAIN buffer /\ Ready(buffer[i]) /\ Matches(Command(buffer[i]))

(* What step 5 reads through req_it after the first slot: the kind of the    *)
(* command if req_it still points at a request; if the request was removed  *)
(* or req_it is an end(), the read is undefined and may give any kind.      *)
EndSlot(kinds) ==
  /\ seen' \in (IF phase = "first" THEN kinds ELSE {"none"})
  /\ phase' = IF phase = "first" THEN "second" ELSE "idle"

PassSlot(kinds) ==
  /\ EndSlot(kinds)
  /\ UNCHANGED <<deviceVars, pending>>

(* Faulty: the head is removed, whichever request was served.               *)
RemoveHead(q, name, i) == [q EXCEPT ![name] = Tail(@)]

(* buffer->remove(req_it)                                                  *)
Removed(q, name, i) == [q EXCEPT ![name] = RemoveAt(@, i)]

(* Whether a row command would close the row of a request being served.    *)
Interrupts(r) ==
  /\ Command(r) \in Closing
  /\ \E i \in DOMAIN queues.active : queues.active[i].address.bank = r.address.bank

(* Issue the command of request i of buffer `name`, the buffers being q     *)
(* after scheduling and `served` the ids scheduling itself completed. The   *)
(* request leaves its buffer with its last command, or for the active       *)
(* buffer when it opens its row and is no PIM request; the result of that   *)
(* enqueue is not looked at.                                               *)
Issue(q, name, i, forPim, served) ==
  LET r == q[name][i]
      c == Command(r)
      last == c = Final(r)
      moves == ~last /\ ~forPim /\ c \in Opening
      without == Removed(q, name, i)
  IN
  IF Interrupts(r)
  THEN /\ PassSlot({CommandKind(c)})
       /\ queues' = q
       /\ done' = done \cup served
  ELSE /\ IssueCommand(Final(r), r.address)
       /\ queues' = IF last THEN without
                    ELSE IF ~moves THEN q
                    ELSE IF Fits("active", q.active)
                      THEN [without EXCEPT !["active"] = Append(@, r)]
                      ELSE without
       /\ pending' = IF last /\ r.type = "Read"
                     THEN Append(pending, [request |-> r, left |-> ReadLatency])
                     ELSE pending
       /\ done' = done \cup served
                    \cup (IF last /\ r.type # "Read" THEN {r.id} \ {0} ELSE {})
       /\ EndSlot(IF last \/ moves THEN CommandKinds ELSE {CommandKind(c)})

(* Faulty: a request whose row was closed under it is not reopened first.   *)
ActiveChosenIfOpen ==
  Chosen(queues.active) /\ Hits(queues.active[Best(queues.active)])

ActiveChosen == Chosen(queues.active)

PriorityMatches == queues.priority # <<>> /\ Matches(Command(queues.priority[1]))
PassedPim == [queues EXCEPT !["pim"] = PassBarrier(@)]
PassedIds == IF PassedPim.pim = queues.pim THEN {} ELSE {Head(queues.pim).id}
PimChosen == Chosen(PassedPim.pim)

(* 2.1 / 5.1: a request whose row is already opened for it.                *)
ServeActive ==
  /\ ActiveChosen
  /\ Issue(queues, "active", Best(queues.active), isPim, {})
  /\ UNCHANGED <<isPim, isWriteMode>>

(* 2.2.1 / 5.2.1: a maintenance request that is not ready ends the slot.   *)
WaitForPriority ==
  /\ ~ActiveChosen /\ PriorityMatches /\ ~Ready(queues.priority[1])
  /\ PassSlot({CommandKind(Command(queues.priority[1]))})
  /\ UNCHANGED <<queues, done, isPim, isWriteMode>>

ServePriority ==
  /\ ~ActiveChosen /\ PriorityMatches /\ Ready(queues.priority[1])
  /\ isPim' = FALSE
  /\ Issue(queues, "priority", 1, FALSE, {})
  /\ UNCHANGED isWriteMode

(* 2.2.2: the PIM buffer.                                                  *)
ServePim ==
  /\ ~ActiveChosen /\ ~PriorityMatches /\ PimChosen
  /\ isPim' = TRUE
  /\ Issue(PassedPim, "pim", Best(PassedPim.pim), TRUE, PassedIds)
  /\ UNCHANGED isWriteMode

(* Faulty: write mode only ends while writes are left.                      *)
WriteModeStays ==
  IF ~isWriteMode
  THEN 10 * Len(queues.write) > WrHigh * MaxSize \/ queues.read = <<>>
  ELSE ~(10 * Len(queues.write) > WrLow * MaxSize /\ queues.read # <<>>)

(* set_write_mode                                                          *)
WriteMode ==
  IF ~isWriteMode
  THEN 10 * Len(queues.write) > WrHigh * MaxSize \/ queues.read = <<>>
  ELSE ~(10 * Len(queues.write) < WrLow * MaxSize /\ queues.read # <<>>)

(* 2.2.3 / 5.2.2: the read or the write buffer.                            *)
ServeReadWrite ==
  LET name == IF WriteMode THEN "write" ELSE "read"
      buffer == queues[name]
      i == Best(buffer)
  IN
  /\ ~ActiveChosen /\ ~PriorityMatches /\ ~PimChosen
  /\ isPim' = FALSE
  /\ isWriteMode' = WriteMode
  /\ IF Chosen(buffer)
     THEN Issue(PassedPim, name, i, FALSE, PassedIds)
     ELSE /\ PassSlot(IF i \in DOMAIN buffer THEN {CommandKind(Command(buffer[i]))}
                      ELSE CommandKinds)
          /\ queues' = PassedPim
          /\ done' = done \cup PassedIds

Slot ==
  /\ phase \in {"first", "second"}
  /\ ServeActive \/ WaitForPriority \/ ServePriority \/ ServePim \/ ServeReadWrite
  /\ UNCHANGED <<untilRefresh, accepted, arrival>>

Next == Tick \/ Slot \/ \E m \in Traffic : Send(m)

Spec == Init /\ [][Next]_vars

(* The main loop calls tick() for ever; nothing obliges the trace to send.   *)
(* Tick and Slot are exactly the steps that advance the phase, and one of   *)
(* them is always possible, so fairness of the phase is fairness of them.   *)
AdvancePhase ==
  \/ phase = "idle" /\ phase' = "first"
  \/ phase = "first" /\ phase' = "second"
  \/ phase = "second" /\ phase' = "idle"

Fairness == WF_phase(AdvancePhase)
FairSpec == Spec /\ Fairness

---------------------------------------------------------------------------
(* Properties.                                                             *)

TypeOK ==
  /\ DeviceTypeOK
  /\ queues = [name \in QueueNames |-> queues[name]]
  /\ \A name \in QueueNames :
       queues[name] \in Seq(IF name = "priority" THEN RefreshRequests ELSE TraceRequest)
  /\ pending \in Seq([request : TraceRequest, left : Nat])
  /\ isPim \in BOOLEAN /\ isWriteMode \in BOOLEAN
  /\ untilRefresh \in 1..Timing["nREFI"]
  /\ phase \in {"idle", "first", "second", "thrown"}
  /\ seen \in CommandKinds
  /\ accepted \in Seq(TraceRequest)
  /\ arrival \in Nat
  /\ done \subseteq Nat

(* is_pending()                                                            *)
IsPending == (\E name \in QueueNames : queues[name] # <<>>) \/ pending # <<>>

(* Where request id is waiting: its places in the buffers and in `pending`. *)
PlacesIn(name, id) == {<<name, i>> : i \in {j \in DOMAIN queues[name] : queues[name][j].id = id}}
Places(id) ==
  (UNION {PlacesIn(name, id) : name \in QueueNames})
  \cup {<<"pending", i>> : i \in {j \in DOMAIN pending : pending[j].request.id = id}}

(* Every request send() accepted is in exactly one place until it is served, *)
(* and nowhere afterwards: moving a request between the buffers, which       *)
(* ignores whether the enqueue succeeded, neither drops nor repeats it.     *)
NoneLost ==
  \A id \in 1..Len(accepted) :
    Cardinality(Places(id)) = (IF id \in done THEN 0 ELSE 1)

(* No PIM request is served before a barrier sent ahead of it, nor a barrier *)
(* before the PIM requests sent ahead of it, although get_best_request      *)
(* lets requests behind a barrier open and close rows.                     *)
BarrierOrder ==
  \A i, j \in 1..Len(accepted) :
    /\ i < j /\ accepted[i].type \in PIMTypes /\ accepted[j].type \in PIMTypes
    /\ "BARRIER" \in {accepted[i].type, accepted[j].type}
    /\ j \in done
    => i \in done

(* A request only enters the active buffer by opening its row, so no two of  *)
(* them are for one bank, even after a refresh closed their rows: in one     *)
(* pseudochannel (two of them can break it, see the README).               *)
ActiveOnePerBank ==
  \A i, j \in DOMAIN queues.active :
    queues.active[i].address.bank = queues.active[j].address.bank => i = j

(* A request that opens its row finds room in the active buffer, although the *)
(* controller does not look: no enqueue of hbm3_pim_controller.cpp:140 fails. *)
(* A request that reopens its row after a refresh is enqueued behind itself,   *)
(* so it needs a place more than the active requests take.                   *)
RoomToOpen ==
  [][rows' # rows /\ issued'.command = "ACT" => Fits("active", queues["active"])]_vars

(* A refresh is over when the next one is due.                              *)
RefreshDone == untilRefresh = 1 /\ phase = "idle" => queues["priority"] = <<>>

(* priority_send() always finds room: the refreshes are served as fast as    *)
(* the refresh manager sends them, whatever the other buffers hold.         *)
RefreshKeepsUp == phase # "thrown"

(* The main loop can end: whatever the trace sends and however the refreshes *)
(* interrupt it, the buffers become empty again and again.                 *)
Drains == []<>~IsPending

(* The controller is the service that the system above it relies on. Beside  *)
(* the order of barriers this asks that what is served was accepted and      *)
(* stays served, and that a refresh is over before the next one is due.     *)
Service == INSTANCE RequestService
  WITH Period <- Timing.nREFI, refreshing <- queues["priority"] # <<>>

ServiceSpec == Service!FairSpec

(* "Forward existing write requests to incoming read requests"              *)
(* (hbm3_pim_controller.cpp:56): no read waits for the DRAM while a write    *)
(* of its address, sent before it, has not been served.                     *)
ReadsForwarded ==
  \A i, k \in 1..Len(accepted) :
    /\ i < k /\ accepted[i].type = "Write" /\ accepted[k].type = "Read"
    /\ accepted[i].address = accepted[k].address
    /\ i \notin done
    => \A j \in DOMAIN queues.read : queues.read[j].id # k

(* The PIM buffer has "lower priority than priority buffer"                 *)
(* (hbm3_pim_controller.cpp:15): in a cycle whose first slot issues nothing  *)
(* because a refresh waits, no PIM command is issued either.                *)
PimYieldsToRefresh ==
  [][ /\ phase = "second" /\ issued = Idle /\ queues["priority"] # <<>>
      => queues'["pim"] = queues["pim"] /\ issued'.final \notin {FinalCommand[t] : t \in PIMTypes}
    ]_vars

=============================================================================
