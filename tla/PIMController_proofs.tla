------------------------ MODULE PIMController_proofs ------------------------
(***************************************************************************)
(* The device for every organization, timing and trace: the types of its      *)
(* state, and that in a trace of one mode a bank never has two rows open,     *)
(* whatever order the requests reach the device in and whatever check_ready   *)
(* lets through. Then the controller: it keeps its types, drives the device   *)
(* only as the device specification allows, and so inherits what is proved of *)
(* the device; it keeps the order of barriers, repeats no request and loses   *)
(* none but by a full active buffer, and so is the service the memory system  *)
(* relies on.                                                               *)
(*                                                                          *)
(* The sections: the device; types of the controller; get_best_request; the   *)
(* books of who holds which request, and what each step does to them; the    *)
(* order of barriers; where a request is; the abstract service; one request a *)
(* bank.                                                                    *)
(***************************************************************************)
EXTENDS PIMController, NaturalFacts, SequenceTheorems, FiniteSetTheorems, TLAPS

---------------------------------------------------------------------------
(* The device.                                                              *)

(* The commands the device can ask for before one that the bus carries.     *)
LEMMA PreqCommandIsCommand ==
  ASSUME NEW f \in Commands, NEW a
  PROVE  PreqCommand(f, a) \in Commands
<1>1. CASE f \in Accessing
  <2>1. PreqCommand(f, a) \in {f, Opener[f], Closer[f]}
    BY <1>1 DEF PreqCommand, RequireRowOpen
  <2>2. Opener[f] \in Opening /\ Closer[f] \in Closing
    BY <1>1 DEF Accessing, Opener, Closer, Opening, Closing
  <2>. QED  BY <2>1, <2>2 DEF Commands
<1>2. CASE f \notin Accessing
  BY <1>2 DEF PreqCommand, RequireAllBanksClosed, Commands, Closing
<1>. QED  BY <1>1, <1>2

LEMMA FinalCommandIsCommand ==
  ASSUME NEW t \in DOMAIN FinalCommand
  PROVE  FinalCommand[t] \in Commands \ (Opening \cup Closing)
BY DEF FinalCommand, Commands, Accessing, Moving, Opening, Closing

(* A command only opens rows for a request that has a row.                 *)
LEMMA RefreshOpensNothing ==
  ASSUME NEW a
  PROVE  PreqCommand("REFab", a) \in {"REFab", "PREA"}
BY DEF PreqCommand, Accessing, RequireAllBanksClosed

LEMMA IssueKeepsTypes ==
  ASSUME DeviceTypeOK,
         NEW f \in Commands, NEW a \in Address \cup RefreshAddresses,
         a \in Address \/ f = "REFab",
         IssueCommand(f, a)
  PROVE  DeviceTypeOK'
<1> DEFINE c == PreqCommand(f, a)
<1>1. c \in Commands
  BY PreqCommandIsCommand
<1>2. c \in Opening => a.row \in Row
  <2>1. CASE a \in Address
    BY <2>1 DEF Address
  <2>2. CASE f = "REFab"
    BY <2>2, RefreshOpensNothing DEF Opening
  <2>. QED  BY <2>1, <2>2
<1>3. rows' \in [Banks -> SUBSET Row]
  BY <1>2 DEF IssueCommand, AfterCommand, DeviceTypeOK
<1>4. history' = history \cup {[command |-> c, bank |-> a.bank, age |-> 0]}
  BY DEF IssueCommand
<1>5. issued' = [command |-> c, final |-> f, address |-> a]
  BY DEF IssueCommand
<1>. QED
  <2>1. [command |-> c, bank |-> a.bank, age |-> 0] \in
          [command : Commands, age : Nat, bank : {d.bank : d \in Address \cup RefreshAddresses}]
    BY <1>1
  <2>2. issued' \in [command : Commands, final : Commands, address : Address \cup RefreshAddresses]
    BY <1>1, <1>5
  <2>. QED  BY <1>3, <1>4, <2>1, <2>2 DEF DeviceTypeOK

LEMMA ClockKeepsTypes ==
  ASSUME DeviceTypeOK, AdvanceClock
  PROVE  DeviceTypeOK'
<1>1. \A h \in history : [h EXCEPT !.age = @ + 1] \in
        [command : Commands, age : Nat, bank : {d.bank : d \in Address \cup RefreshAddresses}]
  BY DEF DeviceTypeOK
<1>. QED  BY <1>1 DEF AdvanceClock, DeviceTypeOK

LEMMA DeviceStepKeepsTypes ==
  ASSUME DeviceTypeOK, [DeviceNext]_deviceVars
  PROVE  DeviceTypeOK'
<1>1. CASE AdvanceClock
  BY <1>1, ClockKeepsTypes
<1>2. ASSUME NEW t \in RequestTypes, NEW a \in Address, IssueCommand(FinalCommand[t], a)
      PROVE  DeviceTypeOK'
  <2>1. FinalCommand[t] \in Commands
    BY FinalCommandIsCommand, RequestTypesAssumption
  <2>. QED  BY <1>2, <2>1, IssueKeepsTypes
<1>3. ASSUME NEW p \in Pchs, IssueCommand("REFab", RefreshAddress(p))
      PROVE  DeviceTypeOK'
  <2>1. "REFab" \in Commands /\ RefreshAddress(p) \in Address \cup RefreshAddresses
    BY DEF Commands, RefreshAddresses
  <2>. QED  BY <1>3, <2>1, IssueKeepsTypes
<1>4. CASE UNCHANGED deviceVars
  BY <1>4 DEF deviceVars, DeviceTypeOK
<1>. QED  BY <1>1, <1>2, <1>3, <1>4 DEF DeviceNext

(* The state of the device keeps its type in every behaviour.              *)
THEOREM DeviceTypeCorrect == DeviceSpec => []DeviceTypeOK
<1>1. DeviceInit => DeviceTypeOK
  BY DEF DeviceInit, DeviceTypeOK
<1>2. DeviceTypeOK /\ [DeviceNext]_deviceVars => DeviceTypeOK'
  BY DeviceStepKeepsTypes
<1>. QED  BY <1>1, <1>2, PTL DEF DeviceSpec

---------------------------------------------------------------------------
(* One mode: m stands for the accesses of the mode ("RD" for loads and       *)
(* stores). SingleRowOpen alone is not inductive: an activation is asked for *)
(* because one bank of the group is closed, and opens a row in all of them,  *)
(* so the invariant also says that the banks of a group agree.              *)

Modes == {"RD", "MACAB", "MACPB"}
OfMode(m, f) == f \in Accessing => (f = m \/ (m = "RD" /\ f = "WR"))

ModeInv(m) ==
  /\ rows \in [Banks -> SUBSET Row]
  /\ SingleRowOpen
  /\ \A b \in Banks : \A d \in Reach(m, b) : rows[d] = rows[b]

(* The banks one access reaches are a class of a partition of the banks.    *)
LEMMA ReachIsPartition ==
  ASSUME NEW m \in Modes, NEW b \in Banks
  PROVE  /\ b \in Reach(m, b) /\ Reach(m, b) \subseteq Banks
         /\ \A d \in Banks : d \in Reach(m, b) <=> b \in Reach(m, d)
         /\ \A d \in Reach(m, b) : Reach(m, d) = Reach(m, b)
BY DEF Modes, Reach, PerBank, Banks

(* A row command issued on behalf of an access reaches the banks it reaches. *)
LEMMA RowCommandReach ==
  ASSUME NEW m \in Modes, NEW f \in Accessing, OfMode(m, f), NEW b
  PROVE  /\ Reach(f, b) = Reach(m, b)
         /\ Reach(Opener[f], b) = Reach(m, b)
         /\ Reach(Closer[f], b) = Reach(m, b)
<1>1. f \in {"RD", "WR", "MACAB", "MACPB"} /\ (f = m \/ (m = "RD" /\ f = "WR"))
  BY DEF Modes, OfMode, Accessing
<1>2. /\ Opener[f] = CASE f = "MACAB" -> "ACTAB" [] f = "MACPB" -> "ACTPB" [] OTHER -> "ACT"
      /\ Closer[f] = CASE f = "MACAB" -> "PREA" [] f = "MACPB" -> "PREPB" [] OTHER -> "PRE"
  BY <1>1 DEF Opener, Closer
<1>. QED  BY <1>1, <1>2 DEF Reach

LEMMA IssueKeepsMode ==
  ASSUME NEW m \in Modes, ModeInv(m),
         NEW f \in Commands \ (Opening \cup Closing), OfMode(m, f),
         NEW a \in Address \cup RefreshAddresses, a \in Address \/ f = "REFab",
         IssueCommand(f, a)
  PROVE  ModeInv(m)'
<1> DEFINE c == PreqCommand(f, a)
<1>1. rows' = AfterCommand(c, a)
  BY DEF IssueCommand
<1>2. CASE c \notin Opening \cup Closing
  <2>1. rows' = rows
    BY <1>1, <1>2 DEF AfterCommand, ModeInv
  <2>. QED  BY <2>1 DEF ModeInv, SingleRowOpen
<1>3. CASE c = "PREA"
  <2>1. rows' = [b \in Banks |-> {}]
    BY <1>1, <1>3 DEF AfterCommand, Reach, Opening, Closing
  <2>2. \A b \in Banks : Reach(m, b) \subseteq Banks
    BY ReachIsPartition
  <2>. QED  BY <2>1, <2>2 DEF ModeInv, SingleRowOpen
<1>4. CASE c # "PREA" /\ c \in Opening \cup Closing
  <2>1. f \in Accessing
    <3>1. CASE f = "REFab"
      BY <1>4, <3>1, RefreshOpensNothing DEF Opening, Closing
    <3>2. CASE f \notin Accessing /\ f # "REFab"
      BY <1>4, <3>2 DEF PreqCommand
    <3>. QED  BY <3>1, <3>2
  <2>2. a \in Address /\ a.bank \in Banks /\ a.row \in Row
    BY <2>1 DEF Accessing, Address
  <2> DEFINE G == Reach(m, a.bank)
  <2>3. /\ Reach(f, a.bank) = G /\ Reach(Opener[f], a.bank) = G
        /\ Reach(Closer[f], a.bank) = G
    BY <2>1, RowCommandReach
  <2>4. /\ a.bank \in G /\ G \subseteq Banks
        /\ \A b \in Banks : b \in G => Reach(m, b) = G
        /\ \A b \in Banks : b \notin G => Reach(m, b) \cap G = {}
        /\ \A b \in Banks : Reach(m, b) \subseteq Banks
    <3>1. /\ a.bank \in G /\ G \subseteq Banks
          /\ \A b \in Banks : b \in G => Reach(m, b) = G
          /\ \A b \in Banks : Reach(m, b) \subseteq Banks
      BY <2>2, ReachIsPartition
    <3>2. ASSUME NEW b \in Banks, b \notin G, NEW d \in Reach(m, b), d \in G
          PROVE  FALSE
      BY <3>1, <3>2, ReachIsPartition
    <3>. QED  BY <3>1, <3>2
  <2>5. c \in {Opener[f], Closer[f]}
    BY <1>4, <2>1 DEF PreqCommand, RequireRowOpen, Accessing, Opening, Closing
  <2>6. Reach(c, a.bank) = G
    BY <2>3, <2>5
  <2>7. CASE c \in Closing
    <3>1. rows' = [b \in Banks |-> IF b \in G THEN {} ELSE rows[b]]
      BY <1>1, <2>6, <2>7 DEF AfterCommand, Opening, Closing
    <3>. QED  BY <3>1, <2>4 DEF ModeInv, SingleRowOpen
  <2>8. CASE c \in Opening
    <3>1. rows' = [b \in Banks |-> IF b \in G THEN rows[b] \cup {a.row} ELSE rows[b]]
      BY <1>1, <2>6, <2>8 DEF AfterCommand
    <3>2. c # f /\ c # Closer[f]
      BY <2>1, <2>8 DEF Accessing, Opening, Closer
    <3>3. PICK b \in G : rows[b] = {}
      BY <2>1, <2>3, <3>2 DEF PreqCommand, RequireRowOpen
    <3>4. \A d \in G : rows[d] = {}
      BY <2>4, <3>3 DEF ModeInv
    <3>5. rows' = [d \in Banks |-> IF d \in G THEN {a.row} ELSE rows[d]]
      BY <3>1, <3>4
    <3>. QED  BY <3>5, <2>2, <2>4 DEF ModeInv, SingleRowOpen
  <2>. QED  BY <1>4, <2>7, <2>8
<1>. QED  BY <1>2, <1>3, <1>4

LEMMA DeviceStepKeepsMode ==
  ASSUME NEW m \in Modes, \A t \in RequestTypes : OfMode(m, FinalCommand[t]),
         ModeInv(m), [DeviceNext]_deviceVars
  PROVE  ModeInv(m)'
<1>1. CASE AdvanceClock
  BY <1>1 DEF AdvanceClock, ModeInv, SingleRowOpen
<1>2. ASSUME NEW t \in RequestTypes, NEW a \in Address, IssueCommand(FinalCommand[t], a)
      PROVE  ModeInv(m)'
  <2>1. FinalCommand[t] \in Commands \ (Opening \cup Closing)
    BY FinalCommandIsCommand, RequestTypesAssumption
  <2>. QED  BY <1>2, <2>1, IssueKeepsMode
<1>3. ASSUME NEW p \in Pchs, IssueCommand("REFab", RefreshAddress(p))
      PROVE  ModeInv(m)'
  <2>1. "REFab" \in Commands \ (Opening \cup Closing)
        /\ RefreshAddress(p) \in Address \cup RefreshAddresses
    BY DEF Commands, Opening, Closing, RefreshAddresses
  <2>2. OfMode(m, "REFab")
    BY DEF OfMode, Accessing
  <2>. QED  BY <1>3, <2>1, <2>2, IssueKeepsMode
<1>4. CASE UNCHANGED deviceVars
  BY <1>4 DEF deviceVars, ModeInv, SingleRowOpen
<1>. QED  BY <1>1, <1>2, <1>3, <1>4 DEF DeviceNext

(* OneMode says that the trace has one of the three modes.                 *)
LEMMA OneModeHasMode ==
  ASSUME OneMode
  PROVE  \E m \in Modes : \A t \in RequestTypes : OfMode(m, FinalCommand[t])
BY DEF OneMode, Modes, OfMode

(* In a trace of one mode no bank ever has two rows open, and the banks of a  *)
(* broadcast stay in lock step: for every organization, every timing and     *)
(* every order of requests and refreshes.                                   *)
THEOREM DeviceSingleRowOpen ==
  ASSUME OneMode
  PROVE  DeviceSpec => [](SingleRowOpen /\ LockStep)
<1>1. PICK m \in Modes : \A t \in RequestTypes : OfMode(m, FinalCommand[t])
  BY OneModeHasMode
<1>2. DeviceInit => ModeInv(m)
  <2>1. \A b \in Banks : Reach(m, b) \subseteq Banks
    BY ReachIsPartition
  <2>. QED  BY <2>1 DEF DeviceInit, ModeInv, SingleRowOpen
<1>3. ModeInv(m) /\ [DeviceNext]_deviceVars => ModeInv(m)'
  BY <1>1, DeviceStepKeepsMode
<1>4. ModeInv(m) => SingleRowOpen /\ LockStep
  <2> SUFFICES ASSUME ModeInv(m), NEW t \in RequestTypes, NEW b \in Banks,
                      FinalCommand[t] \in Accessing
               PROVE  \A d \in Reach(FinalCommand[t], b) : rows[d] = rows[b]
    BY DEF LockStep, ModeInv
  <2>1. Reach(FinalCommand[t], b) = Reach(m, b)
    BY <1>1, RowCommandReach
  <2>. QED  BY <2>1 DEF ModeInv
<1>. QED  BY <1>2, <1>3, <1>4, PTL DEF DeviceSpec

---------------------------------------------------------------------------
(* The types of the controller, and the device under it.                     *)

Entries(name) == IF name = "priority" THEN RefreshRequests ELSE TraceRequest
QueuesOK(q) ==
  /\ q = [name \in QueueNames |-> q[name]]
  /\ \A name \in QueueNames : q[name] \in Seq(Entries(name))

LEMMA RemoveAtKeepsType ==
  ASSUME NEW S, NEW s \in Seq(S), NEW i \in DOMAIN s
  PROVE  RemoveAt(s, i) \in Seq(S)
<1>1. SubSeq(s, 1, i - 1) \in Seq(S) /\ SubSeq(s, i + 1, Len(s)) \in Seq(S)
  OBVIOUS
<1>. QED  BY <1>1 DEF RemoveAt

LEMMA PassBarrierKeepsType ==
  ASSUME NEW S, NEW s \in Seq(S)
  PROVE  PassBarrier(s) \in Seq(S)
BY DEF PassBarrier

LEMMA EnqueueKeepsQueues ==
  ASSUME NEW q, QueuesOK(q), NEW name \in QueueNames, NEW r \in Entries(name)
  PROVE  QueuesOK([q EXCEPT ![name] = Append(@, r)])
<1>1. Append(q[name], r) \in Seq(Entries(name))
  BY DEF QueuesOK
<1>. QED  BY <1>1 DEF QueuesOK

LEMMA DequeueKeepsQueues ==
  ASSUME NEW q, QueuesOK(q), NEW name \in QueueNames, NEW i \in DOMAIN q[name]
  PROVE  QueuesOK(Removed(q, name, i))
BY RemoveAtKeepsType DEF QueuesOK, Removed

LEMMA CommandKindType == ASSUME NEW c PROVE CommandKind(c) \in CommandKinds
BY DEF CommandKind, CommandKinds

LEMMA EndSlotKeepsTypes ==
  ASSUME NEW kinds \in SUBSET CommandKinds, EndSlot(kinds)
  PROVE  seen' \in CommandKinds /\ phase' \in {"second", "idle"}
BY DEF EndSlot, CommandKinds

(* A request in a buffer is a request the device specification knows of.    *)
LEMMA QueuedRequest ==
  ASSUME NEW name \in QueueNames, NEW r \in Entries(name)
  PROVE  /\ r.id \in Nat
         /\ name # "priority" => r \in TraceRequest /\ r.type \in RequestTypes /\ r.address \in Address
         /\ name = "priority" => /\ Final(r) = "REFab" /\ r.type = "AllBankRefresh"
                                 /\ \E p \in Pchs : r.address = RefreshAddress(p)
BY DEF Entries, TraceRequest, RefreshRequests, RefreshRequest, Final, FinalCommand

LEMMA IssueIsDeviceStep ==
  ASSUME NEW q, QueuesOK(q), NEW name \in QueueNames, NEW i \in DOMAIN q[name],
         NEW forPim, NEW served, Issue(q, name, i, forPim, served)
  PROVE  [DeviceNext]_deviceVars
<1> DEFINE r == q[name][i]
<1>1. r \in Entries(name)
  BY DEF QueuesOK
<1>2. CASE Interrupts(r)
  BY <1>2 DEF Issue, PassSlot
<1>3. CASE ~Interrupts(r)
  <2>1. IssueCommand(Final(r), r.address)
    BY <1>3 DEF Issue
  <2>. QED  BY <1>1, <2>1, QueuedRequest DEF DeviceNext, Final
<1>. QED  BY <1>2, <1>3

LEMMA IssueKeepsQueues ==
  ASSUME TypeOK, NEW q, QueuesOK(q), NEW name \in QueueNames, NEW i \in DOMAIN q[name],
         NEW forPim, NEW served \in SUBSET Nat, Issue(q, name, i, forPim, served)
  PROVE  /\ QueuesOK(queues)'
         /\ pending' \in Seq([request : TraceRequest, left : Nat])
         /\ seen' \in CommandKinds /\ phase' \in {"second", "idle"}
         /\ done' \subseteq Nat
<1> DEFINE r == q[name][i]
           c == Command(r)
           last == c = Final(r)
           moves == ~last /\ ~forPim /\ c \in Opening
           without == Removed(q, name, i)
<1>1. r \in Entries(name) /\ q[name] \in Seq(Entries(name))
  BY DEF QueuesOK
<1>2. CASE Interrupts(r)
  <2>1. queues' = q /\ done' = done \cup served /\ PassSlot({CommandKind(c)})
    BY <1>2 DEF Issue
  <2>2. {CommandKind(c)} \in SUBSET CommandKinds
    BY CommandKindType
  <2>. QED  BY <2>1, <2>2, EndSlotKeepsTypes DEF PassSlot, TypeOK, QueuesOK
<1>3. CASE ~Interrupts(r)
  <2>1. /\ queues' = IF last THEN without
                     ELSE IF ~moves THEN q
                     ELSE IF Fits("active", q.active)
                       THEN [without EXCEPT !["active"] = Append(@, r)]
                       ELSE without
        /\ pending' = IF last /\ r.type = "Read"
                      THEN Append(pending, [request |-> r, left |-> ReadLatency])
                      ELSE pending
        /\ done' = done \cup served \cup (IF last /\ r.type # "Read" THEN {r.id} \ {0} ELSE {})
        /\ EndSlot(IF last \/ moves THEN CommandKinds ELSE {CommandKind(c)})
    BY <1>3 DEF Issue
  <2>2. QueuesOK(without)
    BY DequeueKeepsQueues
  <2>3. moves => name # "priority"
    BY <1>1, QueuedRequest, RefreshOpensNothing DEF Command, Opening
  <2>4. ASSUME moves
        PROVE  QueuesOK([without EXCEPT !["active"] = Append(@, r)])
    <3>1. r \in Entries("active") /\ "active" \in QueueNames
      BY <1>1, <2>3, <2>4 DEF Entries, QueueNames
    <3> HIDE DEF without
    <3>. QED  BY <2>2, <3>1, EnqueueKeepsQueues
  <2>5. QueuesOK(queues)'
    <3>1. QueuesOK(queues')
      BY <2>1, <2>2, <2>4
    <3>. QED  BY <3>1 DEF QueuesOK
  <2>6. pending' \in Seq([request : TraceRequest, left : Nat])
    <3>1. r.type = "Read" => r \in TraceRequest
      BY <1>1, QueuedRequest
    <3>2. ReadLatency \in Nat
      BY TimingAssumption DEF ReadLatency, TimingNames
    <3>3. r.type = "Read" => [request |-> r, left |-> ReadLatency] \in
                               [request : TraceRequest, left : Nat]
      BY <3>1, <3>2
    <3>4. pending \in Seq([request : TraceRequest, left : Nat])
      BY DEF TypeOK
    <3>5. CASE last /\ r.type = "Read"
      <4>1. pending' = Append(pending, [request |-> r, left |-> ReadLatency])
        BY <2>1, <3>5
      <4> HIDE DEF r
      <4>. QED  BY <3>3, <3>4, <3>5, <4>1
    <3>. QED  BY <2>1, <3>4, <3>5
  <2>7. done' \subseteq Nat
    BY <1>1, <2>1, QueuedRequest DEF TypeOK
  <2>8. (IF last \/ moves THEN CommandKinds ELSE {CommandKind(c)}) \in SUBSET CommandKinds
    BY CommandKindType
  <2>. QED  BY <2>1, <2>5, <2>6, <2>7, <2>8, EndSlotKeepsTypes
<1>. QED  BY <1>2, <1>3

---------------------------------------------------------------------------
(* Each action, as a step of the device and on the controller's own state.  *)

ControllerTypeOK ==
  /\ QueuesOK(queues)
  /\ pending \in Seq([request : TraceRequest, left : Nat])
  /\ isPim \in BOOLEAN /\ isWriteMode \in BOOLEAN
  /\ untilRefresh \in 1..Timing["nREFI"]
  /\ phase \in {"idle", "first", "second", "thrown"}
  /\ seen \in CommandKinds
  /\ accepted \in Seq(TraceRequest)
  /\ arrival \in Nat
  /\ done \subseteq Nat

LEMMA TypeOKSplits == TypeOK <=> DeviceTypeOK /\ ControllerTypeOK
BY DEF TypeOK, ControllerTypeOK, QueuesOK, Entries

LEMMA SendStep ==
  ASSUME TypeOK, NEW m \in Traffic, Send(m)
  PROVE  ControllerTypeOK' /\ UNCHANGED deviceVars
<1> DEFINE r == [id |-> Len(accepted) + 1, type |-> m.type, address |-> m.address,
                 arrive |-> arrival]
<1> USE TypeOKSplits
<1>1. r \in TraceRequest
  BY TrafficAssumption DEF TraceRequest, ControllerTypeOK
<1>2. QueueOf(m.type) \in QueueNames /\ QueueOf(m.type) # "priority"
  BY DEF QueueOf, QueueNames
<1>3. QueuesOK([queues EXCEPT ![QueueOf(m.type)] = Append(@, r)])
  <2>1. r \in Entries(QueueOf(m.type))
    BY <1>1, <1>2 DEF Entries
  <2>. QED  BY <1>2, <2>1, EnqueueKeepsQueues DEF ControllerTypeOK
<1>4. QueuesOK(queues)' /\ pending' \in Seq([request : TraceRequest, left : Nat])
  <2>1. CASE Forwarded(m) /\ pending' = Append(pending, [request |-> r, left |-> 1])
                          /\ UNCHANGED queues
    <3>1. [request |-> r, left |-> 1] \in [request : TraceRequest, left : Nat]
      BY <1>1
    <3> HIDE DEF r
    <3>. QED  BY <2>1, <3>1 DEF ControllerTypeOK, QueuesOK
  <2>2. CASE queues' = [queues EXCEPT ![QueueOf(m.type)] = Append(@, r)] /\ UNCHANGED pending
    <3>1. QueuesOK(queues')
      BY <1>3, <2>2
    <3>. QED  BY <2>2, <3>1 DEF ControllerTypeOK, QueuesOK
  <2>. QED  BY <2>1, <2>2 DEF Send
<1>5. accepted' \in Seq(TraceRequest)
  <2>1. accepted' = Append(accepted, r)
    BY DEF Send
  <2> HIDE DEF r
  <2>. QED  BY <1>1, <2>1 DEF ControllerTypeOK
<1>. QED  BY <1>4, <1>5 DEF Send, ControllerTypeOK, deviceVars

LEMMA TickStep ==
  ASSUME TypeOK, Tick
  PROVE  ControllerTypeOK' /\ AdvanceClock
<1> USE TypeOKSplits
<1> DEFINE Pending == [request : TraceRequest, left : Nat]
<1>1. Aged \in Seq(Pending)
  <2>1. pending \in Seq(Pending)
    BY DEF ControllerTypeOK
  <2>2. \A e \in Pending : [e EXCEPT !.left = IF @ > 0 THEN @ - 1 ELSE 0] \in Pending
    OBVIOUS
  <2>3. \A i \in DOMAIN pending : Aged[i] \in Pending
    <3> HIDE DEF Pending
    <3>. QED  BY <2>1, <2>2 DEF Aged
  <2>4. DOMAIN Aged = 1..Len(pending) /\ Len(pending) \in Nat
    BY <2>1 DEF Aged
  <2>5. Aged = [i \in 1..Len(pending) |-> Aged[i]]
    BY <2>4 DEF Aged
  <2>6. \A i \in 1..Len(pending) : Aged[i] \in Pending
    <3> HIDE DEF Pending
    <3>1. DOMAIN pending = 1..Len(pending)
      BY <2>1
    <3>. QED  BY <2>3, <3>1
  <2> HIDE DEF Pending
  <2>7. \A n \in Nat : \A f : f = [i \in 1..n |-> f[i]] /\ (\A i \in 1..n : f[i] \in Pending)
                               => f \in Seq(Pending)
    OBVIOUS
  <2>. QED  BY <2>4, <2>5, <2>6, <2>7
<1>2. pending' \in Seq(Pending) /\ done' \subseteq Nat
  <2>1. CASE Aged # <<>> /\ Head(Aged).left = 0
    <3>1. pending' = Tail(Aged) /\ done' = done \cup {Head(Aged).request.id}
      BY <2>1 DEF Tick, ServeCompletedReads
    <3>2. Head(Aged) \in Pending /\ Tail(Aged) \in Seq(Pending)
      <4> HIDE DEF Pending
      <4>. QED  BY <1>1, <2>1, HeadTailProperties
    <3>3. Head(Aged).request.id \in Nat
      BY <3>2 DEF TraceRequest
    <3>. QED  BY <3>1, <3>2, <3>3 DEF ControllerTypeOK
  <2>2. CASE ~(Aged # <<>> /\ Head(Aged).left = 0)
    <3>1. pending' = Aged /\ done' = done
      BY <2>2 DEF Tick, ServeCompletedReads
    <3>. QED  BY <1>1, <3>1 DEF ControllerTypeOK
  <2>. QED  BY <2>1, <2>2
<1>3. QueuesOK(queues)'
  <2> DEFINE requests == [i \in 1..NumPch |-> RefreshRequest(i - 1)]
  <2>1. requests \in Seq(RefreshRequests)
    <3>1. \A i \in 1..NumPch : RefreshRequest(i - 1) \in RefreshRequests
      BY OrganizationAssumption DEF RefreshRequests, Pchs
    <3>2. NumPch \in Nat
      BY OrganizationAssumption
    <3>. QED  BY <3>1, <3>2
  <2>2. CASE queues' = queues
    BY <2>2 DEF ControllerTypeOK, QueuesOK
  <2>3. CASE queues' = [queues EXCEPT !["priority"] = @ \o requests]
    <3> HIDE DEF requests
    <3>1. queues["priority"] \o requests \in Seq(Entries("priority"))
      BY <2>1 DEF ControllerTypeOK, QueuesOK, QueueNames, Entries
    <3>2. QueuesOK([queues EXCEPT !["priority"] = @ \o requests])
      BY <3>1 DEF ControllerTypeOK, QueuesOK
    <3>3. QueuesOK(queues')
      BY <2>3, <3>2
    <3>. QED  BY <3>3 DEF QueuesOK
  <2>. QED  BY <2>2, <2>3 DEF Tick, RefreshTick
<1>4. untilRefresh' \in 1..Timing["nREFI"] /\ phase' \in {"first", "thrown"}
  <2>1. Timing["nREFI"] \in Nat
    BY TimingAssumption DEF TimingNames
  <2>. QED  BY <2>1, ControllerAssumption DEF Tick, RefreshTick, ControllerTypeOK
<1>. QED  BY <1>2, <1>3, <1>4 DEF Tick, ControllerTypeOK

LEMMA PassedPimKeepsQueues ==
  ASSUME QueuesOK(queues)
  PROVE  QueuesOK(PassedPim) /\ PassedIds \subseteq Nat
<1>1. "pim" \in QueueNames /\ queues["pim"] \in Seq(TraceRequest)
  BY DEF QueuesOK, QueueNames, Entries
<1>2. PassBarrier(queues["pim"]) \in Seq(Entries("pim"))
  BY <1>1, PassBarrierKeepsType DEF Entries
<1>3. QueuesOK(PassedPim)
  BY <1>2 DEF PassedPim, QueuesOK
<1>4. CASE PassBarrier(queues["pim"]) = queues["pim"]
  BY <1>1, <1>4 DEF PassedPim, PassedIds, QueuesOK
<1>5. CASE PassBarrier(queues["pim"]) # queues["pim"]
  <2>1. Head(queues["pim"]) \in TraceRequest
    BY <1>1, <1>5 DEF PassBarrier
  <2>2. Head(queues["pim"]).id \in Nat
    BY <2>1 DEF TraceRequest
  <2>3. PassedIds = {} \/ PassedIds = {Head(queues["pim"]).id}
    BY DEF PassedIds
  <2>. QED  BY <1>3, <2>2, <2>3
<1>. QED  BY <1>3, <1>4, <1>5

LEMMA SlotStep ==
  ASSUME TypeOK, Slot
  PROVE  ControllerTypeOK' /\ [DeviceNext]_deviceVars
<1> USE TypeOKSplits
<1> DEFINE Good ==
      /\ [DeviceNext]_deviceVars
      /\ QueuesOK(queues)'
      /\ pending' \in Seq([request : TraceRequest, left : Nat])
      /\ seen' \in CommandKinds /\ phase' \in {"second", "idle"}
      /\ done' \subseteq Nat
      /\ isPim' \in BOOLEAN /\ isWriteMode' \in BOOLEAN
<1>1. QueuesOK(queues) /\ QueuesOK(PassedPim) /\ PassedIds \subseteq Nat
  BY PassedPimKeepsQueues DEF ControllerTypeOK
<1>2. /\ "active" \in QueueNames /\ "priority" \in QueueNames /\ "pim" \in QueueNames
      /\ "read" \in QueueNames /\ "write" \in QueueNames
      /\ {} \in SUBSET Nat
  BY DEF QueueNames
<1>3. ASSUME ServeActive PROVE Good
  <2>1. Best(queues.active) \in DOMAIN queues["active"]
    BY <1>3 DEF ServeActive, ActiveChosen, Chosen
  <2>2. Issue(queues, "active", Best(queues.active), isPim, {})
    BY <1>3 DEF ServeActive
  <2>3. UNCHANGED <<isPim, isWriteMode>>
    BY <1>3 DEF ServeActive
  <2>4. [DeviceNext]_deviceVars
    BY <1>1, <1>2, <2>1, <2>2, IssueIsDeviceStep
  <2>5. /\ QueuesOK(queues)'
        /\ pending' \in Seq([request : TraceRequest, left : Nat])
        /\ seen' \in CommandKinds /\ phase' \in {"second", "idle"}
        /\ done' \subseteq Nat
    BY <1>1, <1>2, <2>1, <2>2, IssueKeepsQueues
  <2>. QED  BY <2>3, <2>4, <2>5 DEF ControllerTypeOK
<1>4. ASSUME WaitForPriority PROVE Good
  <2>1. CommandKind(Command(queues.priority[1])) \in CommandKinds
    BY CommandKindType
  <2>2. EndSlot({CommandKind(Command(queues.priority[1]))})
    BY <1>4 DEF WaitForPriority, PassSlot
  <2>3. UNCHANGED <<deviceVars, pending, queues, done, isPim, isWriteMode>>
    BY <1>4 DEF WaitForPriority, PassSlot
  <2>4. seen' \in CommandKinds /\ phase' \in {"second", "idle"}
    BY <2>1, <2>2, EndSlotKeepsTypes
  <2>. QED  BY <2>3, <2>4 DEF ControllerTypeOK, QueuesOK
<1>5. ASSUME ServePriority PROVE Good
  <2>1. 1 \in DOMAIN queues["priority"]
    BY <1>1, <1>2, <1>5 DEF ServePriority, PriorityMatches, QueuesOK
  <2>2. Issue(queues, "priority", 1, FALSE, {})
    BY <1>5 DEF ServePriority
  <2>3. isPim' = FALSE /\ UNCHANGED isWriteMode
    BY <1>5 DEF ServePriority
  <2>4. [DeviceNext]_deviceVars
    BY <1>1, <1>2, <2>1, <2>2, IssueIsDeviceStep
  <2>5. /\ QueuesOK(queues)'
        /\ pending' \in Seq([request : TraceRequest, left : Nat])
        /\ seen' \in CommandKinds /\ phase' \in {"second", "idle"}
        /\ done' \subseteq Nat
    BY <1>1, <1>2, <2>1, <2>2, IssueKeepsQueues
  <2>. QED  BY <2>3, <2>4, <2>5 DEF ControllerTypeOK
<1>6. ASSUME ServePim PROVE Good
  <2>1. Best(PassedPim.pim) \in DOMAIN PassedPim["pim"]
    BY <1>6 DEF ServePim, PimChosen, Chosen
  <2>2. Issue(PassedPim, "pim", Best(PassedPim.pim), TRUE, PassedIds)
    BY <1>6 DEF ServePim
  <2>3. isPim' = TRUE /\ UNCHANGED isWriteMode
    BY <1>6 DEF ServePim
  <2>4. [DeviceNext]_deviceVars
    BY <1>1, <1>2, <2>1, <2>2, IssueIsDeviceStep
  <2>5. /\ QueuesOK(queues)'
        /\ pending' \in Seq([request : TraceRequest, left : Nat])
        /\ seen' \in CommandKinds /\ phase' \in {"second", "idle"}
        /\ done' \subseteq Nat
    BY <1>1, <1>2, <2>1, <2>2, IssueKeepsQueues
  <2>. QED  BY <2>3, <2>4, <2>5 DEF ControllerTypeOK
<1>7. ASSUME ServeReadWrite PROVE Good
  <2> DEFINE name == IF WriteMode THEN "write" ELSE "read"
             i == Best(queues[name])
  <2>1. isPim' = FALSE /\ isWriteMode' \in BOOLEAN
    <3>1. WriteMode \in BOOLEAN
      BY DEF WriteMode
    <3>. QED  BY <1>7, <3>1 DEF ServeReadWrite
  <2>2. name \in QueueNames /\ PassedPim[name] = queues[name]
    BY <1>1, <1>2 DEF PassedPim, QueuesOK
  <2>3. CASE Chosen(queues[name])
    <3>1. i \in DOMAIN PassedPim[name]
      BY <2>2, <2>3 DEF Chosen
    <3>2. Issue(PassedPim, name, i, FALSE, PassedIds)
      BY <1>7, <2>3 DEF ServeReadWrite
    <3> HIDE DEF name, i
    <3>3. [DeviceNext]_deviceVars
      BY <1>1, <2>2, <3>1, <3>2, IssueIsDeviceStep
    <3>4. /\ QueuesOK(queues)'
          /\ pending' \in Seq([request : TraceRequest, left : Nat])
          /\ seen' \in CommandKinds /\ phase' \in {"second", "idle"}
          /\ done' \subseteq Nat
      BY <1>1, <2>2, <3>1, <3>2, IssueKeepsQueues
    <3>. QED  BY <2>1, <3>3, <3>4
  <2>4. CASE ~Chosen(queues[name])
    <3> DEFINE kinds == IF i \in DOMAIN queues[name]
                        THEN {CommandKind(Command(queues[name][i]))} ELSE CommandKinds
    <3>1. kinds \in SUBSET CommandKinds
      BY CommandKindType
    <3>2. PassSlot(kinds) /\ queues' = PassedPim /\ done' = done \cup PassedIds
      BY <1>7, <2>4 DEF ServeReadWrite
    <3>3. seen' \in CommandKinds /\ phase' \in {"second", "idle"}
      BY <3>1, <3>2, EndSlotKeepsTypes DEF PassSlot
    <3>4. QueuesOK(queues)'
      BY <1>1, <3>2 DEF QueuesOK
    <3>. QED  BY <1>1, <2>1, <3>2, <3>3, <3>4 DEF PassSlot, ControllerTypeOK
  <2>. QED  BY <2>3, <2>4
<1>8. Good
  BY <1>3, <1>4, <1>5, <1>6, <1>7 DEF Slot
<1>. QED  BY <1>8 DEF Slot, ControllerTypeOK

---------------------------------------------------------------------------
LEMMA StepKeepsTypes ==
  ASSUME TypeOK, [Next]_vars
  PROVE  TypeOK' /\ [DeviceNext]_deviceVars
<1>1. ControllerTypeOK' /\ [DeviceNext]_deviceVars
  <2>1. CASE Tick
    BY <2>1, TickStep DEF DeviceNext
  <2>2. CASE Slot
    BY <2>2, SlotStep
  <2>3. ASSUME NEW m \in Traffic, Send(m)
        PROVE  ControllerTypeOK' /\ [DeviceNext]_deviceVars
    BY <2>3, SendStep
  <2>4. CASE UNCHANGED vars
    BY <2>4, TypeOKSplits DEF vars, controllerVars, ControllerTypeOK, QueuesOK
  <2>. QED  BY <2>1, <2>2, <2>3, <2>4 DEF Next
<1>2. DeviceTypeOK'
  BY <1>1, DeviceStepKeepsTypes, TypeOKSplits
<1>3. TypeOK' <=> DeviceTypeOK' /\ ControllerTypeOK'
  BY TypeOKSplits, PTL
<1>. QED  BY <1>1, <1>2, <1>3

LEMMA InitHasTypes == Init => TypeOK
<1> SUFFICES ASSUME Init PROVE TypeOK
  OBVIOUS
<1>1. DeviceTypeOK
  BY DEF Init, DeviceInit, DeviceTypeOK
<1>2. QueuesOK(queues)
  <2>1. \A name \in QueueNames : queues[name] = <<>>
    BY DEF Init
  <2>2. queues = [name \in QueueNames |-> queues[name]]
    BY DEF Init
  <2>3. \A name \in QueueNames : <<>> \in Seq(Entries(name))
    OBVIOUS
  <2>. QED  BY <2>1, <2>2, <2>3 DEF QueuesOK
<1>3. pending \in Seq([request : TraceRequest, left : Nat]) /\ accepted \in Seq(TraceRequest)
  <2>1. <<>> \in Seq([request : TraceRequest, left : Nat]) /\ <<>> \in Seq(TraceRequest)
    OBVIOUS
  <2>. QED  BY <2>1 DEF Init
<1>4. untilRefresh \in 1..Timing["nREFI"]
  <2>1. Timing["nREFI"] \in Nat /\ Timing["nREFI"] > 0
    BY ControllerAssumption, TimingAssumption DEF TimingNames
  <2>2. untilRefresh = Timing["nREFI"]
    BY DEF Init
  <2>. QED  BY <2>1, <2>2
<1>5. /\ isPim \in BOOLEAN /\ isWriteMode \in BOOLEAN
      /\ phase \in {"idle", "first", "second", "thrown"} /\ seen \in CommandKinds
      /\ arrival \in Nat /\ done \subseteq Nat
  BY DEF Init, CommandKinds
<1>6. ControllerTypeOK
  BY <1>2, <1>3, <1>4, <1>5 DEF ControllerTypeOK
<1>. QED  BY <1>1, <1>6, TypeOKSplits

(* The controller's state keeps its type: in particular the buffers of the   *)
(* trace never hold a refresh, and the active buffer never gets one.        *)
THEOREM TypeCorrect == Spec => []TypeOK
BY InitHasTypes, StepKeepsTypes, PTL DEF Spec

(* The controller implements the device specification: every command it      *)
(* puts on the bus is one the device asks for on behalf of a request of the  *)
(* trace or of a refresh, and is ready.                                     *)
THEOREM ImplementsDevice == Spec => DeviceSpec
<1>1. Init => DeviceInit
  BY DEF Init
<1>2. TypeOK /\ [Next]_vars => [DeviceNext]_deviceVars
  BY StepKeepsTypes
<1>. QED  BY <1>1, <1>2, TypeCorrect, PTL DEF Spec, DeviceSpec

(* So whatever the scheduler picks, in a trace of one mode no bank ever has   *)
(* two rows open and a broadcast finds its banks in lock step.              *)
THEOREM ControllerSingleRowOpen ==
  ASSUME OneMode
  PROVE  Spec => [](SingleRowOpen /\ LockStep)
BY ImplementsDevice, DeviceSingleRowOpen, PTL

---------------------------------------------------------------------------
(* get_best_request. One turn of its loop over the buffer.                  *)
BestStep(buffer, n, candidate) ==
  IF n <= 1 THEN n
  ELSE IF /\ Considered(buffer, n)
          /\ Overtakes(buffer[n], buffer[candidate], RowHitBanks(buffer))
       THEN n ELSE candidate

(* Best is a CHOOSE of a recursive function: there is one (NaturalFacts), so *)
(* the one that is chosen takes these turns too.                            *)
LEMMA BestIsFold ==
  ASSUME NEW buffer
  PROVE  \E best :
           /\ best[0] = 0
           /\ \A n \in Nat : best[n + 1] = BestStep(buffer, n + 1, best[n])
           /\ Best(buffer) = best[Len(buffer)]
<1> DEFINE step == [n \in Nat |-> [candidate \in Nat |-> BestStep(buffer, n, candidate)]]
<1>1. \A n, candidate \in Nat : BestStep(buffer, n, candidate) \in Nat
  BY DEF BestStep
<1>2. step \in StepsOf(Nat)
  BY <1>1 DEF StepsOf
<1>3. PICK f \in [Nat -> Nat] : f[0] = 0 /\ \A n \in Nat : f[n + 1] = step[n + 1][f[n]]
  <2>1. \E f \in [Nat -> Nat] : Recurs(f, 0, step)
    <3> HIDE DEF step
    <3>. QED  BY <1>2, RecursiveFunctionExists
  <2>. QED  BY <2>1 DEF Recurs
<1> DEFINE Def(g) == [i \in Nat |-> IF i <= 1 THEN i
                        ELSE LET candidate == g[i - 1] IN
                             IF /\ Considered(buffer, i)
                                /\ Overtakes(buffer[i], buffer[candidate], RowHitBanks(buffer))
                             THEN i ELSE candidate]
<1>4. f = Def(f)
  <2>1. ASSUME NEW i \in Nat PROVE f[i] = Def(f)[i]
    <3>1. CASE i = 0
      BY <1>3, <3>1
    <3>2. CASE i # 0
      <4>1. i - 1 \in Nat /\ (i - 1) + 1 = i
        BY <3>2
      <4>2. f[i] = BestStep(buffer, i, f[i - 1])
        BY <1>3, <4>1
      <4>. QED  BY <4>2 DEF BestStep
    <3>. QED  BY <3>1, <3>2
  <2>. QED  BY <2>1
<1> DEFINE best == CHOOSE g : g = Def(g)
<1>5. best = Def(best)
  <2> HIDE DEF Def
  <2>. QED  BY <1>4
<1>6. Best(buffer) = best[Len(buffer)]
  BY DEF Best
<1>7. \A i \in Nat : best[i] = Def(best)[i]
  BY <1>5
<1> HIDE DEF best
<1>8. \A i \in Nat : best[i] = IF i <= 1 THEN i ELSE BestStep(buffer, i, best[i - 1])
  <2>1. ASSUME NEW i \in Nat
        PROVE  best[i] = IF i <= 1 THEN i ELSE BestStep(buffer, i, best[i - 1])
    <3>1. best[i] = Def(best)[i]
      BY <1>7
    <3>2. Def(best)[i] = IF i <= 1 THEN i ELSE BestStep(buffer, i, best[i - 1])
      BY Zenon DEF BestStep
    <3> HIDE DEF Def
    <3>. QED  BY <3>1, <3>2
  <2>. QED  BY <2>1
<1>9. best[0] = 0
  BY <1>8
<1>10. ASSUME NEW n \in Nat PROVE best[n + 1] = BestStep(buffer, n + 1, best[n])
  <2>1. n + 1 \in Nat /\ (n + 1) - 1 = n /\ (n + 1 <= 1 <=> n = 0)
    OBVIOUS
  <2>2. best[n + 1] = IF n + 1 <= 1 THEN n + 1 ELSE BestStep(buffer, n + 1, best[n])
    BY <1>8, <2>1
  <2>. QED  BY <2>1, <2>2 DEF BestStep
<1>. QED  BY <1>6, <1>9, <1>10

(* get_best_request returns the head of the buffer or a request that the     *)
(* barrier loop lets through.                                              *)
LEMMA BestIsConsidered ==
  ASSUME NEW buffer, Len(buffer) \in Nat
  PROVE  /\ Best(buffer) \in 0..Len(buffer)
         /\ Best(buffer) > 1 => Considered(buffer, Best(buffer))
<1>1. PICK best : /\ best[0] = 0
                  /\ \A n \in Nat : best[n + 1] = BestStep(buffer, n + 1, best[n])
                  /\ Best(buffer) = best[Len(buffer)]
  BY BestIsFold
<1> DEFINE A == {n \in Nat : /\ best[n] \in 0..n
                             /\ best[n] > 1 => Considered(buffer, best[n])}
<1>2. 0 \in A
  <2>1. best[0] = 0
    BY <1>1
  <2>. QED  BY <2>1
<1>3. ASSUME NEW n \in Nat, n \in A PROVE n + 1 \in A
  <2>1. best[n + 1] = BestStep(buffer, n + 1, best[n])
    BY <1>1
  <2>2. CASE best[n + 1] = n + 1 /\ (n + 1 <= 1 \/ Considered(buffer, n + 1))
    BY <2>2
  <2>3. CASE best[n + 1] = best[n]
    BY <1>3, <2>3
  <2>. QED  BY <2>1, <2>2, <2>3 DEF BestStep
<1>4. Nat \subseteq A
  <2> HIDE DEF A
  <2>. QED  BY <1>2, <1>3, NatInductionSet
<1>. QED  BY <1>1, <1>4

(* A head that is ready is the one that is returned, for it arrived first.   *)
LEMMA ReadyHeadIsBest ==
  ASSUME NEW buffer, Len(buffer) \in Nat \ {0}, Ready(buffer[1]) = TRUE,
         \A i \in 1..Len(buffer) : buffer[i].arrive \in Nat /\ buffer[1].arrive <= buffer[i].arrive
  PROVE  Best(buffer) = 1
<1>1. PICK best : /\ best[0] = 0
                  /\ \A n \in Nat : best[n + 1] = BestStep(buffer, n + 1, best[n])
                  /\ Best(buffer) = best[Len(buffer)]
  BY BestIsFold
<1> DEFINE A == {n \in Nat : n + 1 <= Len(buffer) => best[n + 1] = 1}
<1>2. 0 \in A
  BY <1>1 DEF BestStep
<1>3. ASSUME NEW n \in Nat, n \in A PROVE n + 1 \in A
  <2> SUFFICES ASSUME n + 2 <= Len(buffer) PROVE best[n + 2] = 1
    OBVIOUS
  <2>1. best[n + 2] = BestStep(buffer, n + 2, 1)
    <3>1. n + 1 \in Nat /\ (n + 1) + 1 = n + 2 /\ n + 1 <= Len(buffer)
      OBVIOUS
    <3>2. best[n + 1] = 1
      BY <1>3, <3>1
    <3>. QED  BY <1>1, <3>1, <3>2
  <2>2. ~Overtakes(buffer[n + 2], buffer[1], RowHitBanks(buffer))
    <3>1. /\ buffer[1].arrive \in Nat /\ buffer[n + 2].arrive \in Nat
          /\ buffer[1].arrive <= buffer[n + 2].arrive
      OBVIOUS
    <3>2. ~(buffer[n + 2].arrive < buffer[1].arrive)
      BY <3>1
    <3>3. Ready(buffer[n + 2]) \in BOOLEAN
      BY DEF Ready, CheckReady
    <3>. QED  BY <3>2, <3>3, Zenon DEF Overtakes
  <2>. QED  BY <2>1, <2>2 DEF BestStep
<1>4. Nat \subseteq A
  <2> HIDE DEF A
  <2>. QED  BY <1>2, <1>3, NatInductionSet
<1>5. PICK n \in Nat : n + 1 = Len(buffer)
  <2>1. Len(buffer) - 1 \in Nat /\ (Len(buffer) - 1) + 1 = Len(buffer)
    OBVIOUS
  <2>. QED  BY <2>1
<1>6. n \in A
  BY <1>4, <1>5
<1>7. n + 1 <= Len(buffer) => best[n + 1] = 1
  BY <1>6
<1>8. best[Len(buffer)] = 1
  BY <1>5, <1>7
<1>. QED  BY <1>1, <1>8, Zenon

(* A barrier is ready at any time.                                         *)
LEMMA BarrierIsReady ==
  ASSUME NEW r, r.type = "BARRIER"
  PROVE  Ready(r) = TRUE
<1>1. Command(r) = "BARRIER"
  BY DEF Command, Final, FinalCommand, PreqCommand, Accessing
<1>2. \A t \in PIMTiming \cup DRAMTiming : "BARRIER" \notin t.following
  BY DEF PIMTiming, DRAMTiming, Constraint, Moving
<1>3. CheckReady("BARRIER", r.address)
  BY <1>2 DEF CheckReady
<1>. QED  BY <1>1, <1>3 DEF Ready

---------------------------------------------------------------------------
(* The books: where the accepted requests are. held[name] is the sequence of *)
(* requests in a buffer, or in `pending`; refreshes do not count.           *)
Holders == {"active", "read", "write", "pim", "pending"}

Holds(q, p) ==
  [name \in Holders |->
     IF name = "pending" THEN [k \in DOMAIN p |-> p[k].request] ELSE q[name]]

KindsIn(name) == CASE name = "pim" -> PIMTypes
                   [] name \in {"read", "pending"} -> {"Read"}
                   [] name = "write" -> {"Write"}
                   [] OTHER -> {"Read", "Write"}

HeldType == [Holders -> Seq(TraceRequest)]

(* What is held was accepted and not served, is held once and where its type *)
(* belongs, and the PIM buffer is in the order of acceptance.               *)
Booked(held, acc, served) ==
  /\ served \subseteq DOMAIN acc
  /\ \A n \in Holders : \A i \in DOMAIN held[n] :
       LET r == held[n][i] IN
       r.id \in DOMAIN acc \ served /\ r = acc[r.id] /\ r.type \in KindsIn(n)
  /\ \A n, m \in Holders : \A i \in DOMAIN held[n], k \in DOMAIN held[m] :
       held[n][i].id = held[m][k].id => n = m /\ i = k
  /\ \A i, k \in DOMAIN held["pim"] : i < k => held["pim"][i].id < held["pim"][k].id

(* Of the types T, all that was accepted and not served is held.            *)
Whole(held, acc, served, T) ==
  \A id \in DOMAIN acc \ served :
    acc[id].type \in T => \E n \in Holders : \E i \in DOMAIN held[n] : held[n][i].id = id

Drop(held, name, i) == [held EXCEPT ![name] = RemoveAt(@, i)]
Put(held, name, r) == [held EXCEPT ![name] = Append(@, r)]

LEMMA RemoveAtElements ==
  ASSUME NEW S, NEW s \in Seq(S), NEW i \in DOMAIN s
  PROVE  /\ DOMAIN RemoveAt(s, i) = 1..(Len(s) - 1)
         /\ \A k \in 1..(Len(s) - 1) : RemoveAt(s, i)[k] = s[IF k < i THEN k ELSE k + 1]
<1> DEFINE a == SubSeq(s, 1, i - 1)
           b == SubSeq(s, i + 1, Len(s))
<1>1. a \in Seq(S) /\ b \in Seq(S) /\ Len(a) = i - 1 /\ Len(b) = Len(s) - i /\ i \in 1..Len(s)
  OBVIOUS
<1>2. /\ \A k \in 1..(i - 1) : a[k] = s[k]
      /\ \A k \in 1..(Len(s) - i) : b[k] = s[k + i]
  OBVIOUS
<1>3. RemoveAt(s, i) = a \o b
  BY DEF RemoveAt
<1> HIDE DEF a, b
<1> DEFINE c == a \o b
<1>4. /\ c \in Seq(S) /\ Len(c) = Len(a) + Len(b)
      /\ \A k \in 1..(Len(a) + Len(b)) : c[k] = IF k <= Len(a) THEN a[k] ELSE b[k - Len(a)]
  BY <1>1, ConcatProperties
<1>5. Len(s) \in Nat /\ i \in Nat /\ 1 <= i /\ i <= Len(s) /\ Len(a) + Len(b) = Len(s) - 1
  <2>1. Len(s) \in Nat /\ i \in 1..Len(s)
    OBVIOUS
  <2>2. Len(a) = i - 1 /\ Len(b) = Len(s) - i
    BY <1>1
  <2> HIDE DEF c
  <2>. QED  BY <2>1, <2>2
<1> HIDE DEF c
<1>6. ASSUME NEW k \in 1..(Len(s) - 1)
      PROVE  c[k] = s[IF k < i THEN k ELSE k + 1]
  <2>1. c[k] = IF k <= i - 1 THEN a[k] ELSE b[k - (i - 1)]
    BY <1>1, <1>4, <1>5
  <2>2. CASE k < i
    <3>1. k <= i - 1 /\ k \in 1..(i - 1)
      BY <1>5, <2>2
    <3>. QED  BY <1>2, <2>1, <2>2, <3>1
  <2>3. CASE ~(k < i)
    <3>1. ~(k <= i - 1) /\ k - (i - 1) \in 1..(Len(s) - i) /\ (k - (i - 1)) + i = k + 1
      BY <1>5, <2>3
    <3>. QED  BY <1>2, <2>1, <2>3, <3>1
  <2>. QED  BY <2>2, <2>3
<1>7. DOMAIN c = 1..(Len(s) - 1)
  BY <1>4, <1>5
<1>. QED  BY <1>3, <1>6, <1>7 DEF c

LEMMA DropElements ==
  ASSUME NEW held \in HeldType, NEW name \in Holders, NEW i \in DOMAIN held[name]
  PROVE  /\ Drop(held, name, i) \in HeldType
         /\ \A n \in Holders \ {name} : Drop(held, name, i)[n] = held[n]
         /\ DOMAIN Drop(held, name, i)[name] = 1..(Len(held[name]) - 1)
         /\ \A k \in 1..(Len(held[name]) - 1) :
              Drop(held, name, i)[name][k] = held[name][IF k < i THEN k ELSE k + 1]
<1>1. held[name] \in Seq(TraceRequest)
  BY DEF HeldType
<1>2. RemoveAt(held[name], i) \in Seq(TraceRequest)
  BY <1>1, RemoveAtKeepsType
<1>3. Drop(held, name, i)[name] = RemoveAt(held[name], i)
  BY DEF Drop, HeldType
<1>. QED  BY <1>1, <1>2, <1>3, RemoveAtElements DEF Drop, HeldType

(* Serving a request and taking it out of its buffer.                       *)
LEMMA DropBooks ==
  ASSUME NEW held \in HeldType, NEW acc, NEW served, NEW T,
         Booked(held, acc, served), Whole(held, acc, served, T),
         NEW name \in Holders, NEW i \in DOMAIN held[name]
  PROVE  /\ Booked(Drop(held, name, i), acc, served \cup {held[name][i].id})
         /\ Whole(Drop(held, name, i), acc, served \cup {held[name][i].id}, T)
<1> DEFINE g == Drop(held, name, i)
           Old(n, k) == IF n = name /\ k >= i THEN k + 1 ELSE k
<1>1. /\ \A n \in Holders \ {name} : g[n] = held[n]
      /\ DOMAIN g[name] = 1..(Len(held[name]) - 1)
      /\ \A k \in 1..(Len(held[name]) - 1) : g[name][k] = held[name][IF k < i THEN k ELSE k + 1]
      /\ \A n \in Holders : DOMAIN held[n] = 1..Len(held[n]) /\ Len(held[n]) \in Nat
  BY DropElements DEF HeldType
<1> HIDE DEF g
<1>2. \A n \in Holders : \A k \in DOMAIN g[n] :
        Old(n, k) \in DOMAIN held[n] /\ g[n][k] = held[n][Old(n, k)] /\ ~(n = name /\ Old(n, k) = i)
  <2> SUFFICES ASSUME NEW n \in Holders, NEW k \in DOMAIN g[n]
               PROVE  /\ Old(n, k) \in DOMAIN held[n] /\ g[n][k] = held[n][Old(n, k)]
                      /\ ~(n = name /\ Old(n, k) = i)
    OBVIOUS
  <2>1. CASE n # name
    BY <1>1, <2>1
  <2>2. CASE n = name
    <3>1. k \in 1..(Len(held[name]) - 1) /\ Old(n, k) = (IF k < i THEN k ELSE k + 1)
      BY <1>1, <2>2
    <3>2. g[n][k] = held[n][Old(n, k)]
      BY <1>1, <2>2, <3>1
    <3>. QED  BY <1>1, <2>2, <3>1, <3>2
  <2>. QED  BY <2>1, <2>2
<1>3. \A n \in Holders : \A k \in DOMAIN held[n] :
        ~(n = name /\ k = i) => \E l \in DOMAIN g[n] : Old(n, l) = k
  <2> TAKE n \in Holders
  <2> TAKE k \in DOMAIN held[n]
  <2> HAVE ~(n = name /\ k = i)
  <2>1. CASE n = name /\ k > i
    <3>1. k - 1 \in DOMAIN g[n] /\ Old(n, k - 1) = k
      BY <1>1, <2>1
    <3>. QED  BY <3>1
  <2>2. CASE ~(n = name /\ k > i)
    <3>1. k \in DOMAIN g[n] /\ Old(n, k) = k
      BY <1>1, <2>2
    <3>. QED  BY <3>1
  <2>. QED  BY <2>1, <2>2
<1>4. \A n \in Holders : \A k, l \in DOMAIN g[n] :
        /\ Old(n, k) = Old(n, l) => k = l
        /\ k < l => Old(n, k) < Old(n, l)
  BY <1>1
<1> HIDE DEF Old
<1>5. Booked(g, acc, served \cup {held[name][i].id})
  <2> DEFINE e == served \cup {held[name][i].id}
  <2>1. e \subseteq DOMAIN acc
    BY DEF Booked
  <2>2. ASSUME NEW n \in Holders, NEW k \in DOMAIN g[n]
        PROVE  /\ g[n][k].id \in DOMAIN acc \ e /\ g[n][k] = acc[g[n][k].id]
               /\ g[n][k].type \in KindsIn(n)
    BY <1>2 DEF Booked
  <2>3. ASSUME NEW n \in Holders, NEW m \in Holders, NEW k \in DOMAIN g[n], NEW l \in DOMAIN g[m],
               g[n][k].id = g[m][l].id
        PROVE  n = m /\ k = l
    BY <1>2, <1>4, <2>3 DEF Booked
  <2>4. ASSUME NEW k \in DOMAIN g["pim"], NEW l \in DOMAIN g["pim"], k < l
        PROVE  g["pim"][k].id < g["pim"][l].id
    <3>1. "pim" \in Holders
      BY DEF Holders
    <3>. QED  BY <1>2, <1>4, <2>4, <3>1 DEF Booked
  <2>. QED  BY <2>1, <2>2, <2>3, <2>4 DEF Booked
<1>6. Whole(g, acc, served \cup {held[name][i].id}, T)
  <2> SUFFICES ASSUME NEW id \in DOMAIN acc \ served, id # held[name][i].id, acc[id].type \in T
               PROVE  \E n \in Holders : \E l \in DOMAIN g[n] : g[n][l].id = id
    BY DEF Whole
  <2>1. PICK n \in Holders : \E k \in DOMAIN held[n] : held[n][k].id = id
    BY DEF Whole
  <2>2. PICK k \in DOMAIN held[n] : held[n][k].id = id
    BY <2>1
  <2>3. PICK l \in DOMAIN g[n] : Old(n, l) = k
    BY <1>3, <2>2
  <2>. QED  BY <1>2, <2>2, <2>3
<1>. QED  BY <1>5, <1>6 DEF g

LEMMA PutElements ==
  ASSUME NEW held \in HeldType, NEW name \in Holders, NEW r \in TraceRequest
  PROVE  /\ Put(held, name, r) \in HeldType
         /\ \A n \in Holders \ {name} : Put(held, name, r)[n] = held[n]
         /\ DOMAIN Put(held, name, r)[name] = 1..(Len(held[name]) + 1)
         /\ \A k \in 1..Len(held[name]) : Put(held, name, r)[name][k] = held[name][k]
         /\ Put(held, name, r)[name][Len(held[name]) + 1] = r
<1>1. held[name] \in Seq(TraceRequest)
  BY DEF HeldType
<1>2. Put(held, name, r)[name] = Append(held[name], r)
  BY DEF Put, HeldType
<1>. QED  BY <1>1, <1>2 DEF Put, HeldType

(* Putting a request that was taken out elsewhere, or was accepted just now. *)
LEMMA PutBooks ==
  ASSUME NEW held \in HeldType, NEW acc, NEW served, NEW T,
         NEW r \in TraceRequest, NEW name \in Holders,
         Booked(held, acc, served \cup {r.id}), Whole(held, acc, served \cup {r.id}, T),
         r.id \notin served, r = acc[r.id], r.type \in KindsIn(name),
         name = "pim" => \A i \in DOMAIN held["pim"] : held["pim"][i].id < r.id
  PROVE  /\ Booked(Put(held, name, r), acc, served)
         /\ Whole(Put(held, name, r), acc, served, T)
<1> DEFINE g == Put(held, name, r)
           new == Len(held[name]) + 1
<1>1. /\ \A n \in Holders \ {name} : g[n] = held[n]
      /\ DOMAIN g[name] = 1..new
      /\ \A k \in 1..Len(held[name]) : g[name][k] = held[name][k]
      /\ g[name][new] = r
      /\ \A n \in Holders : DOMAIN held[n] = 1..Len(held[n]) /\ Len(held[n]) \in Nat
  BY PutElements DEF HeldType
<1> HIDE DEF g
<1>2. ASSUME NEW n \in Holders, NEW k \in DOMAIN g[n]
      PROVE  \/ n = name /\ k = new /\ g[n][k] = r
             \/ k \in DOMAIN held[n] /\ g[n][k] = held[n][k]
  BY <1>1
<1>3. \A n \in Holders : \A k \in DOMAIN held[n] :
        k \in DOMAIN g[n] /\ g[n][k] = held[n][k] /\ (n = name => k < new)
  BY <1>1
<1>4. new \in DOMAIN g[name] /\ g[name][new] = r
  BY <1>1
<1> HIDE DEF new
<1>5. Booked(g, acc, served)
  <2>1. served \subseteq DOMAIN acc
    BY DEF Booked
  <2>2. ASSUME NEW n \in Holders, NEW k \in DOMAIN g[n]
        PROVE  /\ g[n][k].id \in DOMAIN acc \ served /\ g[n][k] = acc[g[n][k].id]
               /\ g[n][k].type \in KindsIn(n)
    BY <1>2 DEF Booked
  <2>3. ASSUME NEW n \in Holders, NEW m \in Holders, NEW k \in DOMAIN g[n], NEW l \in DOMAIN g[m],
               g[n][k].id = g[m][l].id
        PROVE  n = m /\ k = l
    <3>1. \A h \in Holders : \A i \in DOMAIN held[h] : held[h][i].id # r.id
      BY DEF Booked
    <3>. QED  BY <1>2, <2>3, <3>1 DEF Booked
  <2>4. ASSUME NEW k \in DOMAIN g["pim"], NEW l \in DOMAIN g["pim"], k < l
        PROVE  g["pim"][k].id < g["pim"][l].id
    <3>1. "pim" \in Holders
      BY DEF Holders
    <3>2. k \in DOMAIN held["pim"]
      BY <1>1, <2>4, <3>1 DEF new
    <3>3. g["pim"][k] = held["pim"][k]
      BY <1>3, <3>1, <3>2
    <3>4. CASE name = "pim" /\ l = new /\ g["pim"][l] = r
      BY <3>2, <3>3, <3>4
    <3>5. CASE l \in DOMAIN held["pim"] /\ g["pim"][l] = held["pim"][l]
      BY <2>4, <3>2, <3>3, <3>5 DEF Booked
    <3>. QED  BY <1>2, <3>1, <3>4, <3>5
  <2>. QED  BY <2>1, <2>2, <2>3, <2>4 DEF Booked
<1>6. Whole(g, acc, served, T)
  <2> SUFFICES ASSUME NEW id \in DOMAIN acc \ served, acc[id].type \in T
               PROVE  \E n \in Holders : \E l \in DOMAIN g[n] : g[n][l].id = id
    BY DEF Whole
  <2>1. CASE id = r.id
    BY <1>4, <2>1
  <2>2. CASE id # r.id
    BY <1>3, <2>2 DEF Whole
  <2>. QED  BY <2>1, <2>2
<1>. QED  BY <1>5, <1>6 DEF g

(* What the buffers and `pending` do is dropping and putting in the books.    *)
Waiting == [request : TraceRequest, left : Nat]

LEMMA TailIsRemoval ==
  ASSUME NEW S, NEW s \in Seq(S), s # <<>>
  PROVE  RemoveAt(s, 1) = Tail(s) /\ 1 \in DOMAIN s
<1>1. Len(s) \in Nat \ {0} /\ DOMAIN s = 1..Len(s)
  BY EmptySeq
<1>2. SubSeq(s, 1, 0) = <<>> /\ SubSeq(s, 2, Len(s)) = Tail(s) /\ Tail(s) \in Seq(S)
  BY <1>1
<1>3. RemoveAt(s, 1) = SubSeq(s, 1, 0) \o SubSeq(s, 2, Len(s))
  BY DEF RemoveAt
<1>. QED  BY <1>1, <1>2, <1>3

LEMMA AppendElements ==
  ASSUME NEW S, NEW s \in Seq(S), NEW e \in S
  PROVE  /\ DOMAIN Append(s, e) = 1..(Len(s) + 1)
         /\ \A k \in 1..Len(s) : Append(s, e)[k] = s[k]
         /\ Append(s, e)[Len(s) + 1] = e
         /\ Append(s, e) = [k \in 1..(Len(s) + 1) |-> Append(s, e)[k]]
<1>1. Append(s, e) \in Seq(S) /\ Len(Append(s, e)) = Len(s) + 1
  OBVIOUS
<1>2. Append(s, e) = [k \in 1..(Len(s) + 1) |-> Append(s, e)[k]]
  BY <1>1, LenProperties, Zenon
<1>. QED  BY <1>1, <1>2

LEMMA HoldsType ==
  ASSUME NEW q, QueuesOK(q), NEW p \in Seq(Waiting)
  PROVE  Holds(q, p) \in HeldType
<1>1. \A n \in Holders \ {"pending"} : q[n] \in Seq(TraceRequest)
  BY DEF Holders, QueuesOK, QueueNames, Entries
<1>2. [k \in DOMAIN p |-> p[k].request] \in Seq(TraceRequest)
  <2>1. \A k \in 1..Len(p) : p[k] \in Waiting
    OBVIOUS
  <2>2. \A k \in 1..Len(p) : p[k].request \in TraceRequest
    BY <2>1 DEF Waiting
  <2>. QED  BY <2>2
<1>. QED  BY <1>1, <1>2 DEF Holds, HeldType

LEMMA HoldsRemoved ==
  ASSUME NEW q, QueuesOK(q), NEW p, NEW name \in Holders \ {"pending"}, NEW i
  PROVE  Holds(Removed(q, name, i), p) = Drop(Holds(q, p), name, i)
<1>1. \A n \in Holders \ {"pending"} : Removed(q, name, i)[n] = IF n = name THEN RemoveAt(q[n], i) ELSE q[n]
  BY DEF Removed, QueuesOK, Holders, QueueNames
<1>. QED  BY <1>1 DEF Holds, Drop

LEMMA HoldsWithout ==
  ASSUME NEW q, QueuesOK(q), NEW p, NEW i
  PROVE  Holds(Removed(q, "priority", i), p) = Holds(q, p)
<1>1. \A n \in Holders \ {"pending"} : Removed(q, "priority", i)[n] = q[n]
  BY DEF Removed, QueuesOK, Holders, QueueNames
<1>. QED  BY <1>1 DEF Holds

LEMMA HoldsAppended ==
  ASSUME NEW q, QueuesOK(q), NEW p, NEW name \in Holders \ {"pending"}, NEW r
  PROVE  Holds([q EXCEPT ![name] = Append(@, r)], p) = Put(Holds(q, p), name, r)
<1>1. \A n \in Holders \ {"pending"} :
        [q EXCEPT ![name] = Append(@, r)][n] = IF n = name THEN Append(q[n], r) ELSE q[n]
  BY DEF QueuesOK, Holders, QueueNames
<1>. QED  BY <1>1 DEF Holds, Put

LEMMA HoldsWaiting ==
  ASSUME NEW q, NEW p \in Seq(Waiting), NEW r \in TraceRequest, NEW left \in Nat
  PROVE  Holds(q, Append(p, [request |-> r, left |-> left])) = Put(Holds(q, p), "pending", r)
<1> DEFINE w == [request |-> r, left |-> left]
           a == [k \in DOMAIN p |-> p[k].request]
           b == [k \in DOMAIN Append(p, w) |-> Append(p, w)[k].request]
<1>1. w \in Waiting /\ w.request = r
  BY DEF Waiting
<1>2. DOMAIN p = 1..Len(p) /\ Len(p) \in Nat
  OBVIOUS
<1> HIDE DEF w
<1>3. /\ DOMAIN Append(p, w) = 1..(Len(p) + 1)
      /\ \A k \in 1..Len(p) : Append(p, w)[k] = p[k]
      /\ Append(p, w)[Len(p) + 1] = w
  BY <1>1
<1>4. a \in Seq(TraceRequest) /\ Len(a) = Len(p)
  <2>0. \A k \in 1..Len(p) : p[k] \in Waiting
    OBVIOUS
  <2>1. \A k \in 1..Len(p) : p[k].request \in TraceRequest
    BY <2>0 DEF Waiting
  <2>. QED  BY <1>2, <2>1
<1>5. b = Append(a, r)
  <2>1. /\ DOMAIN Append(a, r) = 1..(Len(p) + 1)
        /\ \A k \in 1..Len(p) : Append(a, r)[k] = a[k]
        /\ Append(a, r)[Len(p) + 1] = r
        /\ Append(a, r) = [k \in 1..(Len(p) + 1) |-> Append(a, r)[k]]
    <3> HIDE DEF a
    <3>. QED  BY <1>4, AppendElements
  <2>2. \A k \in 1..(Len(p) + 1) : b[k] = Append(a, r)[k]
    BY <1>1, <1>2, <1>3, <2>1
  <2>. QED  BY <1>3, <2>1, <2>2
<1>6. Holds(q, p)["pending"] = a
  BY DEF Holds, Holders
<1> HIDE DEF a
<1>. QED  BY <1>5, <1>6 DEF Holds, Put, w

LEMMA HoldsTail ==
  ASSUME NEW q, NEW p \in Seq(Waiting), p # <<>>
  PROVE  /\ Holds(q, Tail(p)) = Drop(Holds(q, p), "pending", 1)
         /\ 1 \in DOMAIN Holds(q, p)["pending"]
         /\ Holds(q, p)["pending"][1] = Head(p).request
<1> DEFINE a == [k \in DOMAIN p |-> p[k].request]
           b == [k \in DOMAIN Tail(p) |-> Tail(p)[k].request]
<1>1. /\ DOMAIN p = 1..Len(p) /\ Len(p) \in Nat \ {0} /\ Head(p) = p[1]
      /\ DOMAIN Tail(p) = 1..(Len(p) - 1)
      /\ \A k \in 1..(Len(p) - 1) : Tail(p)[k] = p[k + 1]
  <2>1. Len(p) # 0
    BY EmptySeq
  <2>. QED  BY <2>1
<1>2. a \in Seq(TraceRequest) /\ Len(a) = Len(p)
  <2>0. \A k \in 1..Len(p) : p[k] \in Waiting
    OBVIOUS
  <2>1. \A k \in 1..Len(p) : p[k].request \in TraceRequest
    BY <2>0 DEF Waiting
  <2>. QED  BY <1>1, <2>1
<1>3. 1 \in DOMAIN a /\ a[1] = Head(p).request
  BY <1>1
<1>4. b = RemoveAt(a, 1)
  <2>1. /\ DOMAIN RemoveAt(a, 1) = 1..(Len(a) - 1)
        /\ \A k \in 1..(Len(a) - 1) : RemoveAt(a, 1)[k] = a[IF k < 1 THEN k ELSE k + 1]
        /\ RemoveAt(a, 1) \in Seq(TraceRequest)
    <3> HIDE DEF a
    <3>. QED  BY <1>2, <1>3, RemoveAtElements, RemoveAtKeepsType
  <2>2. \A k \in 1..(Len(p) - 1) : b[k] = RemoveAt(a, 1)[k]
    <3>1. ASSUME NEW k \in 1..(Len(p) - 1) PROVE b[k] = RemoveAt(a, 1)[k]
      <4>1. /\ Len(p) \in Nat /\ k \in 1..(Len(a) - 1) /\ ~(k < 1)
            /\ k + 1 \in 1..Len(p)
        BY <1>2
      <4>2. RemoveAt(a, 1)[k] = a[k + 1]
        BY <2>1, <4>1
      <4>. QED  BY <1>1, <4>1, <4>2
    <3>. QED  BY <3>1
  <2>3. RemoveAt(a, 1) = [k \in 1..(Len(a) - 1) |-> RemoveAt(a, 1)[k]]
    <3> DEFINE w == RemoveAt(a, 1)
    <3>1. w = [k \in DOMAIN w |-> w[k]] /\ DOMAIN w = 1..(Len(a) - 1)
      <4> HIDE DEF a
      <4>1. w \in Seq(TraceRequest) /\ DOMAIN w = 1..(Len(a) - 1)
        BY <2>1
      <4> HIDE DEF w
      <4>. QED  BY <4>1
    <3> HIDE DEF w
    <3>2. w = [k \in 1..(Len(a) - 1) |-> w[k]]
      BY <3>1
    <3>. QED  BY <3>2 DEF w
  <2>. QED  BY <1>1, <1>2, <2>2, <2>3
<1>5. Holds(q, p)["pending"] = a
  BY DEF Holds, Holders
<1> HIDE DEF a
<1>. QED  BY <1>3, <1>4, <1>5 DEF Holds, Drop

---------------------------------------------------------------------------
(* A request that leaves the books unserved is missed only among its type.  *)
LEMMA FewerServed ==
  ASSUME NEW held, NEW acc, NEW served, NEW id, NEW T,
         Booked(held, acc, served \cup {id}), Whole(held, acc, served \cup {id}, T),
         acc[id].type \notin T
  PROVE  Booked(held, acc, served) /\ Whole(held, acc, served, T)
BY DEF Booked, Whole

(* A row command for a load or a store opens the row in the addressed bank   *)
(* and was not there.                                                      *)
LEMMA OpeningChangesRows ==
  ASSUME TypeOK, NEW r \in TraceRequest, r.type \in {"Read", "Write"}, Command(r) \in Opening,
         IssueCommand(Final(r), r.address)
  PROVE  rows' # rows /\ issued'.command = "ACT"
<1> DEFINE f == Final(r)
           a == r.address
           c == PreqCommand(f, a)
<1>1. f \in {"RD", "WR"} /\ f \in Accessing /\ f \notin Opening
  BY DEF Final, FinalCommand, Accessing, Opening
<1>2. c = RequireRowOpen(f, a) /\ c \in Opening /\ Opener[f] = "ACT" /\ Closer[f] = "PRE"
  BY <1>1 DEF PreqCommand, Command, Opener, Closer
<1>3. "PRE" \notin Opening
  BY DEF Opening
<1>4. Reach(f, a.bank) = {a.bank} /\ Reach("ACT", a.bank) = {a.bank} /\ "ACT" \in Opening
  BY <1>1 DEF Reach, Opening
<1>5. c = "ACT" /\ a.row \notin rows[a.bank]
  BY <1>1, <1>2, <1>3, <1>4 DEF RequireRowOpen
<1>6. issued'.command = "ACT" /\ rows' = AfterCommand("ACT", a)
  BY <1>5 DEF IssueCommand
<1>7. a.bank \in Banks
  BY DEF TraceRequest, Address
<1>8. rows'[a.bank] = rows[a.bank] \cup {a.row}
  BY <1>4, <1>6, <1>7 DEF AfterCommand
<1>. QED  BY <1>5, <1>6, <1>8

(* Issue: a served request leaves the books, or goes on in `pending`; one that*)
(* moves goes on in the active buffer; only one that moves and finds no room*)
(* leaves them unserved.                                                    *)
LEMMA IssueBooks ==
  ASSUME TypeOK, NEW q, QueuesOK(q), NEW T,
         NEW name \in QueueNames, NEW i \in DOMAIN q[name], NEW forPim, NEW served,
         Booked(Holds(q, pending), accepted, done \cup served),
         Whole(Holds(q, pending), accepted, done \cup served, T),
         name = "pim" => forPim,
         Issue(q, name, i, forPim, served),
         T \subseteq PIMTypes \/ (rows' # rows /\ issued'.command = "ACT" => Fits("active", q["active"]))
  PROVE  /\ Booked(Holds(queues', pending'), accepted, done')
         /\ Whole(Holds(queues', pending'), accepted, done', T)
<1> DEFINE r == q[name][i]
           c == Command(r)
           last == c = Final(r)
           moves == ~last /\ ~forPim /\ c \in Opening
           without == Removed(q, name, i)
           h == Holds(q, pending)
           Goal == /\ Booked(Holds(queues', pending'), accepted, done')
                   /\ Whole(Holds(queues', pending'), accepted, done', T)
<1>1. r \in Entries(name) /\ q[name] \in Seq(Entries(name))
  BY DEF QueuesOK
<1>2. pending \in Seq(Waiting)
  BY DEF TypeOK, Waiting
<1>3. h \in HeldType
  BY <1>2, HoldsType
<1>4. CASE Interrupts(r)
  <2>1. queues' = q /\ done' = done \cup served /\ PassSlot({CommandKind(c)})
    BY <1>4 DEF Issue
  <2>. QED  BY <2>1 DEF PassSlot
<1>5. CASE ~Interrupts(r)
  <2>1. /\ queues' = IF last THEN without
                     ELSE IF ~moves THEN q
                     ELSE IF Fits("active", q.active)
                       THEN [without EXCEPT !["active"] = Append(@, r)]
                       ELSE without
        /\ pending' = IF last /\ r.type = "Read"
                      THEN Append(pending, [request |-> r, left |-> ReadLatency])
                      ELSE pending
        /\ done' = done \cup served \cup (IF last /\ r.type # "Read" THEN {r.id} \ {0} ELSE {})
        /\ IssueCommand(Final(r), r.address)
    BY <1>5 DEF Issue
  <2>2. CASE ~last /\ ~moves
    BY <2>1, <2>2
  <2>3. CASE last /\ name = "priority"
    <3>1. r.type # "Read" /\ r.id = 0
      BY <1>1, <2>3 DEF Entries, RefreshRequests, RefreshRequest
    <3>2. queues' = Removed(q, "priority", i) /\ pending' = pending /\ done' = done \cup served
      BY <2>1, <2>3, <3>1
    <3>3. Holds(queues', pending') = h
      BY <3>2, HoldsWithout
    <3>. QED  BY <3>2, <3>3
  <2>4. ASSUME name # "priority"
        PROVE  /\ name \in Holders /\ name # "pending" /\ name \in Holders \ {"pending"}
               /\ h[name] = q[name] /\ i \in DOMAIN h[name]
               /\ r \in TraceRequest
               /\ r.id \in DOMAIN accepted /\ r.id \notin done \cup served
               /\ r = accepted[r.id] /\ r.type \in KindsIn(name)
               /\ r.id # 0
    <3>1. name \in Holders /\ name # "pending"
      BY <2>4 DEF Holders, QueueNames
    <3>2. h[name] = q[name] /\ i \in DOMAIN h[name]
      BY <3>1 DEF Holds
    <3>3. r.id \in DOMAIN accepted \ (done \cup served) /\ r = accepted[r.id] /\ r.type \in KindsIn(name)
      BY <3>1, <3>2 DEF Booked
    <3>4. DOMAIN accepted = 1..Len(accepted)
      BY DEF TypeOK
    <3>. QED  BY <1>1, <2>4, <3>1, <3>2, <3>3, <3>4 DEF Entries
  <2>5. ASSUME name # "priority"
        PROVE  /\ Holds(without, pending) = Drop(h, name, i)
               /\ Drop(h, name, i) \in HeldType
               /\ Booked(Drop(h, name, i), accepted, (done \cup served) \cup {r.id})
               /\ Whole(Drop(h, name, i), accepted, (done \cup served) \cup {r.id}, T)
               /\ QueuesOK(without)
    <3>0. name \in Holders \ {"pending"} /\ name \in Holders /\ i \in DOMAIN h[name] /\ h[name] = q[name]
      BY <2>4, <2>5
    <3>1. Holds(without, pending) = Drop(h, name, i)
      BY <3>0, HoldsRemoved
    <3>2. Drop(h, name, i) \in HeldType
      <4> HIDE DEF h
      <4>. QED  BY <1>3, <3>0, DropElements
    <3>3. /\ Booked(Drop(h, name, i), accepted, (done \cup served) \cup {h[name][i].id})
          /\ Whole(Drop(h, name, i), accepted, (done \cup served) \cup {h[name][i].id}, T)
      <4>1. /\ Booked(h, accepted, done \cup served)
            /\ Whole(h, accepted, done \cup served, T)
        OBVIOUS
      <4> HIDE DEF h
      <4>. QED  BY <1>3, <3>0, <4>1, DropBooks
    <3>. QED  BY <3>0, <3>1, <3>2, <3>3, DequeueKeepsQueues
  <2>6. CASE last /\ name # "priority" /\ r.type # "Read"
    <3>1. queues' = without /\ pending' = pending /\ done' = (done \cup served) \cup {r.id}
      BY <2>1, <2>4, <2>6
    <3> HIDE DEF h, without, r
    <3>. QED  BY <2>5, <2>6, <3>1
  <2>7. CASE last /\ name # "priority" /\ r.type = "Read"
    <3>1. /\ queues' = without /\ done' = done \cup served
          /\ pending' = Append(pending, [request |-> r, left |-> ReadLatency])
      BY <2>1, <2>7
    <3>2. ReadLatency \in Nat
      BY TimingAssumption DEF ReadLatency, TimingNames
    <3> DEFINE d == Drop(h, name, i)
               e == done \cup served
    <3>3. Holds(queues', pending') = Put(Holds(without, pending), "pending", r)
      <4>1. r \in TraceRequest
        BY <2>4, <2>7
      <4> HIDE DEF r, without
      <4>. QED  BY <1>2, <3>1, <3>2, <4>1, HoldsWaiting
    <3>4. /\ d \in HeldType /\ r \in TraceRequest /\ "pending" \in Holders /\ "pending" # "pim"
          /\ Booked(d, accepted, e \cup {r.id}) /\ Whole(d, accepted, e \cup {r.id}, T)
          /\ r.id \notin e /\ r = accepted[r.id] /\ r.type \in KindsIn("pending")
      BY <2>4, <2>5, <2>7 DEF Holders, KindsIn
    <3>5. Holds(without, pending) = d
      BY <2>5, <2>7
    <3>6. Booked(Put(d, "pending", r), accepted, e) /\ Whole(Put(d, "pending", r), accepted, e, T)
      <4> HIDE DEF d, e, r
      <4>. QED  BY <3>4, PutBooks
    <3>. QED  BY <3>1, <3>3, <3>5, <3>6
  <2>8. CASE moves
    <3>1. name # "priority"
      BY <1>1, <2>8, QueuedRequest, RefreshOpensNothing DEF Command, Opening
    <3>2. name # "pim"
      BY <2>8
    <3>3. r.type \in {"Read", "Write"}
      BY <2>4, <3>1, <3>2 DEF KindsIn, QueueNames
    <3> DEFINE d == Drop(h, name, i)
               e == done \cup served
    <3>4. /\ d \in HeldType /\ r \in TraceRequest /\ "active" \in Holders /\ "active" # "pim"
          /\ Booked(d, accepted, e \cup {r.id}) /\ Whole(d, accepted, e \cup {r.id}, T)
          /\ r.id \notin e /\ r = accepted[r.id] /\ r.type \in KindsIn("active")
          /\ QueuesOK(without) /\ Holds(without, pending) = d
      BY <2>4, <2>5, <3>1, <3>3 DEF Holders, KindsIn
    <3>5. pending' = pending /\ done' = e
      BY <2>1, <2>8
    <3>6. CASE Fits("active", q.active)
      <4>1. queues' = [without EXCEPT !["active"] = Append(@, r)]
        BY <2>1, <2>8, <3>6
      <4>2. "active" \in Holders \ {"pending"}
        BY DEF Holders
      <4>3. Holds(queues', pending') = Put(d, "active", r)
        <5>1. Holds([without EXCEPT !["active"] = Append(@, r)], pending)
                = Put(Holds(without, pending), "active", r)
          <6>1. QueuesOK(without)
            BY <3>4
          <6> HIDE DEF without, r
          <6>. QED  BY <4>2, <6>1, HoldsAppended
        <5>. QED  BY <3>4, <3>5, <4>1, <5>1
      <4>4. Booked(Put(d, "active", r), accepted, e) /\ Whole(Put(d, "active", r), accepted, e, T)
        <5> HIDE DEF d, e, r
        <5>. QED  BY <3>4, PutBooks
      <4>. QED  BY <3>5, <4>3, <4>4
    <3>7. CASE ~Fits("active", q.active)
      <4>1. queues' = without
        BY <2>1, <2>8, <3>7
      <4>2. rows' # rows /\ issued'.command = "ACT"
        BY <2>1, <2>8, <3>3, <3>4, OpeningChangesRows
      <4>3. T \subseteq PIMTypes
        BY <3>7, <4>2
      <4>4. accepted[r.id].type \notin T
        BY <3>3, <3>4, <4>3 DEF PIMTypes
      <4>5. Booked(d, accepted, e) /\ Whole(d, accepted, e, T)
        <5> HIDE DEF d, e, r
        <5>. QED  BY <3>4, <4>4, FewerServed
      <4>. QED  BY <3>4, <3>5, <4>1, <4>5
    <3>. QED  BY <3>6, <3>7
  <2>. QED  BY <2>2, <2>3, <2>6, <2>7, <2>8
<1>. QED  BY <1>4, <1>5

Ledger(T) ==
  /\ Booked(Holds(queues, pending), accepted, done)
  /\ Whole(Holds(queues, pending), accepted, done, T)

(* Whether a step of loads and stores finds room when it opens a row.       *)
RoomFor(T) ==
  T \subseteq PIMTypes \/ (rows' # rows /\ issued'.command = "ACT" => Fits("active", queues["active"]))

LEMMA AcceptBooks ==
  ASSUME NEW held \in HeldType, NEW acc \in Seq(TraceRequest), NEW served, NEW T,
         Booked(held, acc, served), Whole(held, acc, served, T),
         NEW r \in TraceRequest, r.id = Len(acc) + 1,
         NEW name \in Holders, r.type \in KindsIn(name)
  PROVE  /\ Booked(Put(held, name, r), Append(acc, r), served)
         /\ Whole(Put(held, name, r), Append(acc, r), served, T)
<1> DEFINE a == Append(acc, r)
<1>1. /\ DOMAIN a = DOMAIN acc \cup {r.id} /\ r.id \notin DOMAIN acc
      /\ \A id \in DOMAIN acc : a[id] = acc[id] /\ id < r.id
      /\ a[r.id] = r
  <2>1. DOMAIN acc = 1..Len(acc) /\ Len(acc) \in Nat
    OBVIOUS
  <2>. QED  BY <2>1, AppendElements
<1> HIDE DEF a
<1>2. r.id \notin served
  BY <1>1 DEF Booked
<1>3. Booked(held, a, served \cup {r.id}) /\ Whole(held, a, served \cup {r.id}, T)
  BY <1>1 DEF Booked, Whole
<1>4. "pim" \in Holders /\ \A k \in DOMAIN held["pim"] : held["pim"][k].id < r.id
  BY <1>1 DEF Booked, Holders
<1>5. Booked(Put(held, name, r), a, served) /\ Whole(Put(held, name, r), a, served, T)
  BY <1>1, <1>2, <1>3, <1>4, PutBooks
<1>. QED  BY <1>5 DEF a

(* Each action keeps the books.                                             *)
LEMMA SendBooks ==
  ASSUME TypeOK, NEW T, Ledger(T), NEW m \in Traffic, Send(m)
  PROVE  Ledger(T)'
<1> DEFINE r == [id |-> Len(accepted) + 1, type |-> m.type, address |-> m.address, arrive |-> arrival]
           name == QueueOf(m.type)
           h == Holds(queues, pending)
<1>1. r \in TraceRequest /\ r.id = Len(accepted) + 1 /\ r.type = m.type /\ m.type \in RequestTypes
  BY TrafficAssumption DEF TraceRequest, TypeOK
<1>2. /\ pending \in Seq(Waiting) /\ QueuesOK(queues) /\ accepted \in Seq(TraceRequest)
  BY TypeOKSplits DEF ControllerTypeOK, Waiting
<1>3. h \in HeldType
  BY <1>2, HoldsType
<1>4. accepted' = Append(accepted, r) /\ done' = done
  BY DEF Send
<1> HIDE DEF r
<1>5. CASE Forwarded(m) /\ pending' = Append(pending, [request |-> r, left |-> 1]) /\ UNCHANGED queues
  <2>1. Holds(queues', pending') = Put(h, "pending", r)
    BY <1>1, <1>2, <1>5, HoldsWaiting
  <2>2. "pending" \in Holders /\ r.type \in KindsIn("pending")
    BY <1>1, <1>5 DEF Holders, KindsIn, Forwarded
  <2> HIDE DEF h
  <2>. QED  BY <1>1, <1>2, <1>3, <1>4, <2>1, <2>2, AcceptBooks DEF Ledger, h
<1>6. CASE queues' = [queues EXCEPT ![name] = Append(@, r)] /\ UNCHANGED pending
  <2>1. name \in Holders \ {"pending"} /\ name \in Holders /\ r.type \in KindsIn(name)
    BY <1>1, RequestTypesAssumption DEF Holders, KindsIn, QueueOf, FinalCommand, PIMTypes
  <2> HIDE DEF name
  <2>2. Holds(queues', pending') = Put(h, name, r)
    <3>1. Holds([queues EXCEPT ![name] = Append(@, r)], pending) = Put(h, name, r)
      BY <1>2, <2>1, HoldsAppended
    <3>. QED  BY <1>6, <3>1
  <2> HIDE DEF h
  <2>. QED  BY <1>1, <1>2, <1>3, <1>4, <2>1, <2>2, AcceptBooks DEF Ledger, h
<1>. QED  BY <1>5, <1>6 DEF Send, r

LEMMA AgedElements ==
  ASSUME pending \in Seq(Waiting)
  PROVE  /\ Aged \in Seq(Waiting)
         /\ DOMAIN Aged = DOMAIN pending
         /\ \A i \in DOMAIN pending : Aged[i].request = pending[i].request
<1>1. pending = [i \in 1..Len(pending) |-> pending[i]] /\ Len(pending) \in Nat
      /\ DOMAIN pending = 1..Len(pending) /\ \A i \in 1..Len(pending) : pending[i] \in Waiting
  OBVIOUS
<1>2. \A e \in Waiting : /\ [e EXCEPT !.left = IF @ > 0 THEN @ - 1 ELSE 0] \in Waiting
                         /\ [e EXCEPT !.left = IF @ > 0 THEN @ - 1 ELSE 0].request = e.request
  BY DEF Waiting
<1>3. \A i \in DOMAIN pending : Aged[i] \in Waiting /\ Aged[i].request = pending[i].request
  BY <1>1, <1>2 DEF Aged
<1>4. Aged = [i \in 1..Len(pending) |-> Aged[i]]
  BY <1>1 DEF Aged
<1>5. \A n \in Nat : \A f : f = [i \in 1..n |-> f[i]] /\ (\A i \in 1..n : f[i] \in Waiting)
                             => f \in Seq(Waiting)
  OBVIOUS
<1>6. Aged \in Seq(Waiting)
  BY <1>1, <1>3, <1>4, <1>5
<1>. QED  BY <1>1, <1>3, <1>6 DEF Aged

LEMMA TickBooks ==
  ASSUME TypeOK, NEW T, Ledger(T), Tick
  PROVE  Ledger(T)'
<1> DEFINE h == Holds(queues, pending)
<1>1. pending \in Seq(Waiting) /\ QueuesOK(queues)
  BY TypeOKSplits DEF ControllerTypeOK, Waiting
<1>2. Holds(queues, Aged) = h
  BY <1>1, AgedElements DEF Holds
<1>3. h \in HeldType /\ "pending" \in Holders
  BY <1>1, HoldsType DEF Holders
<1>4. \A p : Holds(queues', p) = Holds(queues, p)
  <2>1. \A name \in Holders \ {"pending"} : queues'[name] = queues[name]
    BY <1>1 DEF Tick, RefreshTick, Holders, QueuesOK, QueueNames
  <2>. QED  BY <2>1 DEF Holds
<1>5. accepted' = accepted
  BY DEF Tick
<1>6. CASE Aged # <<>> /\ Head(Aged).left = 0
  <2>1. pending' = Tail(Aged) /\ done' = done \cup {Head(Aged).request.id}
    BY <1>6 DEF Tick, ServeCompletedReads
  <2>2. /\ Holds(queues, Tail(Aged)) = Drop(h, "pending", 1)
        /\ 1 \in DOMAIN h["pending"] /\ h["pending"][1] = Head(Aged).request
    <3>1. Aged \in Seq(Waiting)
      BY <1>1, AgedElements
    <3>. QED  BY <1>2, <1>6, <3>1, HoldsTail
  <2>3. /\ Booked(Drop(h, "pending", 1), accepted, done \cup {h["pending"][1].id})
        /\ Whole(Drop(h, "pending", 1), accepted, done \cup {h["pending"][1].id}, T)
    <3>1. Booked(h, accepted, done) /\ Whole(h, accepted, done, T)
      BY DEF Ledger
    <3> HIDE DEF h
    <3>. QED  BY <1>3, <2>2, <3>1, DropBooks
  <2>4. Holds(queues', pending') = Drop(h, "pending", 1)
    BY <1>4, <2>1, <2>2
  <2> HIDE DEF h
  <2>. QED  BY <1>5, <2>1, <2>2, <2>3, <2>4 DEF Ledger
<1>7. CASE ~(Aged # <<>> /\ Head(Aged).left = 0)
  <2>1. pending' = Aged /\ done' = done
    BY <1>7 DEF Tick, ServeCompletedReads
  <2>2. Holds(queues', pending') = h
    BY <1>2, <1>4, <2>1
  <2>. QED  BY <1>5, <2>1, <2>2 DEF Ledger
<1>. QED  BY <1>6, <1>7

(* The barrier at the head of the PIM buffer.                              *)
LEMMA PassedBarrier ==
  ASSUME TypeOK
  PROVE  \/ PassedPim = queues /\ PassedIds = {}
         \/ /\ queues["pim"] # <<>> /\ queues["pim"][1].type = "BARRIER"
            /\ PassedPim = [queues EXCEPT !["pim"] = Tail(@)]
            /\ PassedIds = {queues["pim"][1].id}
<1>1. QueuesOK(queues) /\ "pim" \in QueueNames
  BY TypeOKSplits DEF ControllerTypeOK, QueueNames
<1>2. queues["pim"] \in Seq(TraceRequest)
  BY <1>1 DEF QueuesOK, Entries
<1>3. CASE queues["pim"] # <<>> /\ Head(queues["pim"]).type = "BARRIER"
  <2>1. PassedPim = [queues EXCEPT !["pim"] = Tail(@)] /\ PassedPim.pim = Tail(queues["pim"])
    BY <1>1, <1>3 DEF PassedPim, PassBarrier, QueuesOK
  <2>2. Tail(queues["pim"]) # queues["pim"] /\ Head(queues["pim"]) = queues["pim"][1]
    <3>1. \A s \in Seq(TraceRequest) : s # <<>> => Len(Tail(s)) = Len(s) - 1 /\ Len(s) \in Nat
      BY HeadTailProperties
    <3>2. \A s \in Seq(TraceRequest) : s # <<>> => Tail(s) # s
      BY <3>1
    <3>3. \A s \in Seq(TraceRequest) : s # <<>> => Head(s) = s[1]
      BY HeadTailProperties
    <3>. QED  BY <1>2, <1>3, <3>2, <3>3
  <2>. QED  BY <1>3, <2>1, <2>2 DEF PassedIds
<1>4. CASE ~(queues["pim"] # <<>> /\ Head(queues["pim"]).type = "BARRIER")
  <2>1. PassBarrier(queues["pim"]) = queues["pim"]
    BY <1>4 DEF PassBarrier
  <2>2. PassedPim = queues
    BY <1>1, <2>1 DEF PassedPim, QueuesOK
  <2>. QED  BY <2>2 DEF PassedIds
<1>. QED  BY <1>3, <1>4

LEMMA PassedBooks ==
  ASSUME TypeOK, NEW T, Ledger(T)
  PROVE  /\ QueuesOK(PassedPim)
         /\ \A name \in QueueNames \ {"pim"} : PassedPim[name] = queues[name]
         /\ Booked(Holds(PassedPim, pending), accepted, done \cup PassedIds)
         /\ Whole(Holds(PassedPim, pending), accepted, done \cup PassedIds, T)
<1> DEFINE h == Holds(queues, pending)
<1>1. pending \in Seq(Waiting) /\ QueuesOK(queues) /\ QueuesOK(PassedPim)
  BY TypeOKSplits, PassedPimKeepsQueues DEF ControllerTypeOK, Waiting
<1>2. \A name \in QueueNames \ {"pim"} : PassedPim[name] = queues[name]
  BY <1>1 DEF PassedPim, QueuesOK
<1>3. Booked(h, accepted, done) /\ Whole(h, accepted, done, T)
  BY DEF Ledger
<1>4. CASE PassedPim = queues /\ PassedIds = {}
  BY <1>1, <1>2, <1>3, <1>4
<1>5. CASE /\ queues["pim"] # <<>>
           /\ PassedPim = [queues EXCEPT !["pim"] = Tail(@)]
           /\ PassedIds = {queues["pim"][1].id}
  <2>1. queues["pim"] \in Seq(TraceRequest)
    BY <1>1 DEF QueuesOK, Entries, QueueNames
  <2>2. RemoveAt(queues["pim"], 1) = Tail(queues["pim"]) /\ 1 \in DOMAIN queues["pim"]
    BY <1>5, <2>1, TailIsRemoval
  <2>3. Holds(PassedPim, pending) = Drop(h, "pim", 1)
    <3>1. PassedPim = Removed(queues, "pim", 1)
      BY <1>1, <1>5, <2>2 DEF Removed, QueuesOK
    <3>2. "pim" \in Holders \ {"pending"}
      BY DEF Holders
    <3>. QED  BY <1>1, <3>1, <3>2, HoldsRemoved
  <2>4. h["pim"] = queues["pim"] /\ "pim" \in Holders
    BY DEF Holds, Holders
  <2>5. h \in HeldType
    BY <1>1, HoldsType
  <2>6. /\ Booked(Drop(h, "pim", 1), accepted, done \cup {h["pim"][1].id})
        /\ Whole(Drop(h, "pim", 1), accepted, done \cup {h["pim"][1].id}, T)
    <3> HIDE DEF h
    <3>. QED  BY <1>3, <2>2, <2>4, <2>5, DropBooks
  <2>. QED  BY <1>1, <1>2, <1>5, <2>3, <2>4, <2>6
<1>. QED  BY <1>4, <1>5, PassedBarrier

LEMMA SlotBooks ==
  ASSUME TypeOK, NEW T, Ledger(T), Slot, RoomFor(T)
  PROVE  Ledger(T)'
<1>1. /\ QueuesOK(queues) /\ QueuesOK(PassedPim)
      /\ "active" \in QueueNames /\ "priority" \in QueueNames /\ "pim" \in QueueNames
      /\ "read" \in QueueNames /\ "write" \in QueueNames
  BY TypeOKSplits, PassedPimKeepsQueues DEF ControllerTypeOK, QueueNames
<1>2. accepted' = accepted
  BY DEF Slot
<1>3. /\ Booked(Holds(queues, pending), accepted, done \cup {})
      /\ Whole(Holds(queues, pending), accepted, done \cup {}, T)
  BY DEF Ledger
<1>4. /\ Booked(Holds(PassedPim, pending), accepted, done \cup PassedIds)
      /\ Whole(Holds(PassedPim, pending), accepted, done \cup PassedIds, T)
      /\ PassedPim["active"] = queues["active"]
      /\ PassedPim["read"] = queues["read"] /\ PassedPim["write"] = queues["write"]
  BY <1>1, PassedBooks
<1> DEFINE Kept == /\ Booked(Holds(queues', pending'), accepted, done')
                   /\ Whole(Holds(queues', pending'), accepted, done', T)
<1>5. T \subseteq PIMTypes \/ (rows' # rows /\ issued'.command = "ACT" => Fits("active", queues["active"]))
  BY DEF RoomFor
<1>6. ASSUME ServeActive PROVE Kept
  <2>1. Best(queues.active) \in DOMAIN queues["active"]
    BY <1>6 DEF ServeActive, ActiveChosen, Chosen
  <2>2. Issue(queues, "active", Best(queues.active), isPim, {})
    BY <1>6 DEF ServeActive
  <2>. QED  BY <1>1, <1>3, <1>5, <2>1, <2>2, IssueBooks
<1>7. ASSUME WaitForPriority PROVE Kept
  <2>1. UNCHANGED <<pending, queues, done>>
    BY <1>7 DEF WaitForPriority, PassSlot
  <2>. QED  BY <1>3, <2>1
<1>8. ASSUME ServePriority PROVE Kept
  <2>1. 1 \in DOMAIN queues["priority"]
    BY <1>1, <1>8 DEF ServePriority, PriorityMatches, QueuesOK
  <2>2. Issue(queues, "priority", 1, FALSE, {})
    BY <1>8 DEF ServePriority
  <2>. QED  BY <1>1, <1>3, <1>5, <2>1, <2>2, IssueBooks
<1>9. ASSUME ServePim PROVE Kept
  <2>1. Best(PassedPim.pim) \in DOMAIN PassedPim["pim"]
    BY <1>9 DEF ServePim, PimChosen, Chosen
  <2>2. Issue(PassedPim, "pim", Best(PassedPim.pim), TRUE, PassedIds)
    BY <1>9 DEF ServePim
  <2>. QED  BY <1>1, <1>4, <1>5, <2>1, <2>2, IssueBooks
<1>10. ASSUME ServeReadWrite PROVE Kept
  <2> DEFINE name == IF WriteMode THEN "write" ELSE "read"
             i == Best(queues[name])
  <2>1. name \in QueueNames /\ name # "pim" /\ PassedPim[name] = queues[name]
    BY <1>1, <1>4
  <2>2. CASE Chosen(queues[name])
    <3>1. i \in DOMAIN PassedPim[name]
      BY <2>1, <2>2 DEF Chosen
    <3>2. Issue(PassedPim, name, i, FALSE, PassedIds)
      BY <1>10, <2>2 DEF ServeReadWrite
    <3> HIDE DEF name, i
    <3>. QED  BY <1>1, <1>4, <1>5, <2>1, <3>1, <3>2, IssueBooks
  <2>3. CASE ~Chosen(queues[name])
    <3>1. queues' = PassedPim /\ done' = done \cup PassedIds /\ pending' = pending
      BY <1>10, <2>3 DEF ServeReadWrite, PassSlot
    <3>. QED  BY <1>4, <3>1
  <2>. QED  BY <2>2, <2>3
<1>11. Kept
  BY <1>6, <1>7, <1>8, <1>9, <1>10 DEF Slot
<1>. QED  BY <1>2, <1>11 DEF Ledger

---------------------------------------------------------------------------
(* BarrierOrder, of any requests and served ids.                            *)
InOrder(acc, served) ==
  \A a, b \in DOMAIN acc :
    /\ a < b /\ acc[a].type \in PIMTypes /\ acc[b].type \in PIMTypes
    /\ "BARRIER" \in {acc[a].type, acc[b].type}
    /\ b \in served
    => a \in served

(* The requests arrived in the order of their ids.                          *)
InTime ==
  /\ arrival <= Len(accepted)
  /\ \A k \in DOMAIN accepted : accepted[k].arrive <= arrival
  /\ \A k, l \in DOMAIN accepted : k < l => accepted[k].arrive <= accepted[l].arrive

LEMMA PimHeldInPim ==
  ASSUME NEW n \in Holders, NEW t \in KindsIn(n), t \in PIMTypes
  PROVE  n = "pim"
BY DEF Holders, KindsIn, PIMTypes

(* What is served out of the PIM buffer does not overtake a barrier.        *)
LEMMA ServingKeepsOrder ==
  ASSUME NEW held \in HeldType, NEW acc \in Seq(TraceRequest), NEW served,
         Booked(held, acc, served), Whole(held, acc, served, PIMTypes), InOrder(acc, served),
         NEW p \in DOMAIN held["pim"],
         p = 1 \/ \A k \in 1..p : held["pim"][k].type # "BARRIER"
  PROVE  InOrder(acc, served \cup {held["pim"][p].id})
<1> DEFINE id == held["pim"][p].id
<1>1. "pim" \in Holders /\ held["pim"] \in Seq(TraceRequest)
  BY DEF Holders, HeldType
<1>2. /\ DOMAIN held["pim"] = 1..Len(held["pim"]) /\ p \in Nat /\ p >= 1
  BY <1>1
<1>3. /\ id \in DOMAIN acc /\ held["pim"][p] = acc[id]
  BY <1>1 DEF Booked
<1> SUFFICES ASSUME NEW a \in DOMAIN acc, a < id, a \notin served,
                    acc[a].type \in PIMTypes, "BARRIER" \in {acc[a].type, acc[id].type}
             PROVE  FALSE
  BY DEF InOrder
<1>4. PICK n \in Holders : \E i \in DOMAIN held[n] : held[n][i].id = a
  BY DEF Whole
<1>5. PICK i \in DOMAIN held[n] : held[n][i].id = a
  BY <1>4
<1>6. held[n][i] = acc[a] /\ held[n][i].type \in KindsIn(n)
  BY <1>5 DEF Booked
<1>7. n = "pim"
  BY <1>6, PimHeldInPim
<1>8. i < p
  <2>1. i \in Nat /\ i >= 1 /\ i \in DOMAIN held["pim"] /\ held["pim"][i].id = a
    BY <1>2, <1>5, <1>7
  <2>2. CASE i = p
    <3>1. a = id
      BY <2>1, <2>2
    <3>. QED  BY <3>1, <1>3
  <2>3. CASE p < i
    <3>1. id < a
      BY <2>1, <2>3 DEF Booked
    <3>. QED  BY <3>1, <1>3
  <2>. QED  BY <1>2, <2>1, <2>2, <2>3
<1>9. i \in 1..p /\ p \in 1..p /\ p # 1
  BY <1>2, <1>5, <1>7, <1>8
<1>. QED  BY <1>3, <1>6, <1>7, <1>9

LEMMA ServingOtherKeepsOrder ==
  ASSUME NEW acc, NEW served, NEW id, InOrder(acc, served), acc[id].type \notin PIMTypes
  PROVE  InOrder(acc, served \cup {id})
BY DEF InOrder

(* Issue serves nothing before its turn.                                    *)
LEMMA IssueKeepsOrder ==
  ASSUME TypeOK, NEW q, QueuesOK(q),
         NEW name \in QueueNames, NEW i \in DOMAIN q[name], NEW forPim, NEW served,
         Booked(Holds(q, pending), accepted, done \cup served),
         Whole(Holds(q, pending), accepted, done \cup served, PIMTypes),
         InOrder(accepted, done \cup served),
         name = "pim" /\ Command(q[name][i]) = Final(q[name][i]) =>
           i = 1 \/ \A k \in 1..i : q["pim"][k].type # "BARRIER",
         Issue(q, name, i, forPim, served)
  PROVE  InOrder(accepted, done') /\ done \cup served \subseteq done'
<1> DEFINE r == q[name][i]
           last == Command(r) = Final(r)
           h == Holds(q, pending)
<1>1. r \in Entries(name) /\ pending \in Seq(Waiting) /\ accepted \in Seq(TraceRequest)
  BY DEF QueuesOK, TypeOK, Waiting
<1>2. h \in HeldType
  BY <1>1, HoldsType
<1>3. CASE done' = done \cup served
  BY <1>3
<1>4. CASE done' = (done \cup served) \cup {r.id} /\ r.id # 0 /\ last
  <2>1. name # "priority"
    BY <1>1, <1>4 DEF Entries, RefreshRequests, RefreshRequest
  <2>2. name \in Holders /\ h[name] = q[name]
    BY <2>1 DEF Holders, QueueNames, Holds
  <2>3. accepted[r.id] = r /\ r.type \in KindsIn(name)
    BY <2>2 DEF Booked
  <2>4. CASE name = "pim"
    <3>1. /\ i \in DOMAIN h["pim"] /\ h["pim"][i].id = r.id
          /\ i = 1 \/ \A k \in 1..i : h["pim"][k].type # "BARRIER"
      BY <1>4, <2>2, <2>4
    <3>2. /\ Booked(h, accepted, done \cup served) /\ Whole(h, accepted, done \cup served, PIMTypes)
      OBVIOUS
    <3> HIDE DEF h, r
    <3>. QED  BY <1>1, <1>2, <1>4, <3>1, <3>2, ServingKeepsOrder
  <2>5. CASE name # "pim"
    <3>1. r.type \notin PIMTypes
      BY <2>2, <2>3, <2>5, PimHeldInPim
    <3>. QED  BY <1>4, <2>3, <3>1, ServingOtherKeepsOrder
  <2>. QED  BY <2>4, <2>5
<1>5. done' = done \cup served \/ (done' = (done \cup served) \cup {r.id} /\ r.id # 0 /\ last)
  <2>1. CASE Interrupts(r)
    BY <2>1 DEF Issue
  <2>2. CASE ~Interrupts(r)
    <3>1. done' = done \cup served \cup (IF last /\ r.type # "Read" THEN {r.id} \ {0} ELSE {})
      BY <2>2 DEF Issue
    <3>. QED  BY <3>1
  <2>. QED  BY <2>1, <2>2
<1>. QED  BY <1>3, <1>4, <1>5

(* What get_best_request returns for the PIM buffer, when it is to be served: *)
(* a barrier at the head, being ready and first, is preferred to everything. *)
LEMMA BestBehindNoBarrier ==
  ASSUME TypeOK, InTime, NEW b \in Seq(TraceRequest), Best(b) \in DOMAIN b,
         \A k \in DOMAIN b : b[k].id \in DOMAIN accepted /\ b[k] = accepted[b[k].id],
         \A k, l \in DOMAIN b : k < l => b[k].id < b[l].id,
         Command(b[Best(b)]) = Final(b[Best(b)])
  PROVE  Best(b) = 1 \/ \A k \in 1..Best(b) : b[k].type # "BARRIER"
<1> SUFFICES ASSUME Best(b) # 1 PROVE \A k \in 1..Best(b) : b[k].type # "BARRIER"
  OBVIOUS
<1>1. DOMAIN b = 1..Len(b) /\ Len(b) \in Nat
  OBVIOUS
<1>2. Best(b) > 1 /\ Best(b) \in Nat /\ Len(b) \in Nat \ {0}
  BY <1>1
<1>3. Considered(b, Best(b))
  BY <1>1, <1>2, BestIsConsidered
<1>4. Command(b[Best(b)]) \notin Opening \cup Closing
  <2>1. b[Best(b)] \in TraceRequest
    BY <1>1
  <2>2. b[Best(b)].type \in DOMAIN FinalCommand
    BY <2>1, RequestTypesAssumption DEF TraceRequest
  <2>. QED  BY <2>2 DEF Final, FinalCommand, Opening, Closing
<1>5. \A j \in 2..Best(b) : b[j].type # "BARRIER"
  BY <1>3, <1>4 DEF Considered
<1>6. b[1].type # "BARRIER"
  <2> SUFFICES ASSUME b[1].type = "BARRIER" PROVE FALSE
    OBVIOUS
  <2>1. Ready(b[1]) = TRUE
    BY BarrierIsReady
  <2>2. \A k \in 1..Len(b) : b[k] \in TraceRequest
    OBVIOUS
  <2>3. \A k \in 1..Len(b) : b[k].arrive \in Nat
    BY <2>2 DEF TraceRequest
  <2>4. ASSUME NEW k \in 1..Len(b) PROVE b[1].arrive <= b[k].arrive
    <3>1. CASE k = 1
      <4>1. b[1].arrive \in Nat
        BY <2>3, <3>1
      <4>. QED  BY <3>1, <4>1
    <3>2. CASE k # 1
      <4>1. 1 \in DOMAIN b /\ k \in DOMAIN b /\ 1 < k
        BY <1>1, <1>2, <3>2
      <4>2. b[1].id < b[k].id /\ b[1].id \in DOMAIN accepted /\ b[k].id \in DOMAIN accepted
        BY <4>1
      <4>3. accepted[b[1].id].arrive <= accepted[b[k].id].arrive
        BY <4>2 DEF InTime
      <4>. QED  BY <4>1, <4>3
    <3>. QED  BY <3>1, <3>2
  <2>. QED  BY <1>2, <2>1, <2>3, <2>4, ReadyHeadIsBest
<1>. QED  BY <1>2, <1>5, <1>6

---------------------------------------------------------------------------
(* The inductive invariant of the order of barriers.                        *)
OrderInv == TypeOK /\ Ledger(PIMTypes) /\ InTime /\ InOrder(accepted, done)

LEMMA InitBooks == ASSUME NEW T, Init PROVE Ledger(T) /\ InTime /\ InOrder(accepted, done)
<1>1. accepted = <<>> /\ DOMAIN accepted = {} /\ done = {} /\ arrival = 0 /\ Len(accepted) = 0
  BY DEF Init
<1>2. \A n \in Holders : DOMAIN Holds(queues, pending)[n] = {}
  BY DEF Init, Holds, Holders, QueueNames
<1>3. Booked(Holds(queues, pending), accepted, done)
  <2>1. "pim" \in Holders
    BY DEF Holders
  <2>. QED  BY <1>1, <1>2, <2>1 DEF Booked
<1>4. Whole(Holds(queues, pending), accepted, done, T)
  BY <1>1 DEF Whole
<1>. QED  BY <1>1, <1>3, <1>4 DEF Ledger, InTime, InOrder

(* The books are inductive for types that never move, or while there is room.*)
LEMMA StepKeepsBooks ==
  ASSUME NEW T, TypeOK, Ledger(T), [Next]_vars, RoomFor(T)
  PROVE  Ledger(T)'
<1>1. CASE Tick
  BY <1>1, TickBooks
<1>2. CASE Slot
  BY <1>2, SlotBooks
<1>3. ASSUME NEW m \in Traffic, Send(m) PROVE Ledger(T)'
  BY <1>3, SendBooks
<1>4. CASE UNCHANGED vars
  BY <1>4 DEF vars, controllerVars, Ledger
<1>. QED  BY <1>1, <1>2, <1>3, <1>4 DEF Next

(* The time of arrival grows with the ids.                                  *)
LEMMA StepKeepsTime ==
  ASSUME TypeOK, InTime, [Next]_vars
  PROVE  InTime'
<1>0. accepted \in Seq(TraceRequest) /\ arrival \in Nat /\ Len(accepted) \in Nat
      /\ DOMAIN accepted = 1..Len(accepted)
      /\ \A k \in DOMAIN accepted : accepted[k].arrive \in Nat
  <2>1. \A k \in DOMAIN accepted : accepted[k] \in TraceRequest
    BY DEF TypeOK
  <2>. QED  BY <2>1 DEF TypeOK, TraceRequest
<1>1. CASE Tick
  <2>1. arrival' = Len(accepted) /\ accepted' = accepted
    BY <1>1 DEF Tick
  <2>2. \A k \in DOMAIN accepted : accepted[k].arrive <= Len(accepted)
    <3>1. \A k \in DOMAIN accepted : accepted[k].arrive <= arrival /\ arrival <= Len(accepted)
      BY DEF InTime
    <3>. QED  BY <1>0, <3>1
  <2>. QED  BY <1>0, <2>1, <2>2 DEF InTime
<1>2. CASE Slot \/ UNCHANGED vars
  BY <1>2 DEF Slot, InTime, vars, controllerVars
<1>3. ASSUME NEW m \in Traffic, Send(m) PROVE InTime'
  <2> DEFINE r == [id |-> Len(accepted) + 1, type |-> m.type, address |-> m.address, arrive |-> arrival]
  <2>1. accepted' = Append(accepted, r) /\ arrival' = arrival /\ r.arrive = arrival /\ r \in TraceRequest
    BY <1>3, TrafficAssumption DEF Send, TraceRequest, TypeOK
  <2> HIDE DEF r
  <2>2. /\ DOMAIN accepted' = 1..(Len(accepted) + 1) /\ Len(accepted') = Len(accepted) + 1
        /\ \A k \in 1..Len(accepted) : accepted'[k] = accepted[k]
        /\ accepted'[Len(accepted) + 1] = r
    BY <1>0, <2>1, AppendElements
  <2>3. arrival' <= Len(accepted')
    BY <1>0, <2>1, <2>2 DEF InTime
  <2>4. \A k \in DOMAIN accepted' : accepted'[k].arrive <= arrival'
    <3> TAKE k \in DOMAIN accepted'
    <3>1. CASE k = Len(accepted) + 1
      BY <1>0, <2>1, <2>2, <3>1
    <3>2. CASE k \in 1..Len(accepted)
      BY <1>0, <2>1, <2>2, <3>2 DEF InTime
    <3>. QED  BY <1>0, <2>2, <3>1, <3>2
  <2>5. \A k, l \in DOMAIN accepted' : k < l => accepted'[k].arrive <= accepted'[l].arrive
    <3> TAKE k, l \in DOMAIN accepted'
    <3> HAVE k < l
    <3>1. k \in 1..Len(accepted) /\ accepted'[k] = accepted[k]
      BY <1>0, <2>2
    <3>2. CASE l = Len(accepted) + 1
      BY <1>0, <2>1, <2>2, <3>1, <3>2 DEF InTime
    <3>3. CASE l \in 1..Len(accepted)
      BY <1>0, <2>2, <3>1, <3>3 DEF InTime
    <3>. QED  BY <1>0, <2>2, <3>2, <3>3
  <2>. QED  BY <2>3, <2>4, <2>5 DEF InTime
<1>. QED  BY <1>1, <1>2, <1>3 DEF Next

(* What each action serves keeps the order of barriers.                     *)
LEMMA TickKeepsOrder ==
  ASSUME OrderInv, Tick
  PROVE  InOrder(accepted, done')
<1>1. CASE done' = done
  BY <1>1 DEF OrderInv
<1>2. CASE Aged # <<>> /\ done' = done \cup {Head(Aged).request.id}
  <2>1. pending \in Seq(Waiting)
    BY DEF OrderInv, TypeOK, Waiting
  <2>2. Aged \in Seq(Waiting) /\ DOMAIN Aged = DOMAIN pending
        /\ \A i \in DOMAIN pending : Aged[i].request = pending[i].request
    BY <2>1, AgedElements
  <2>3. 1 \in DOMAIN pending /\ Head(Aged).request = pending[1].request
    <3>1. Head(Aged) = Aged[1] /\ 1 \in DOMAIN Aged
      BY <1>2, <2>2, EmptySeq
    <3>. QED  BY <2>2, <3>1
  <2> DEFINE h == Holds(queues, pending)
  <2>4. "pending" \in Holders /\ 1 \in DOMAIN h["pending"] /\ h["pending"][1] = pending[1].request
    BY <2>3 DEF Holds, Holders
  <2>5. accepted[pending[1].request.id] = pending[1].request /\ pending[1].request.type = "Read"
    <3>1. Booked(h, accepted, done)
      BY DEF OrderInv, Ledger
    <3> HIDE DEF h
    <3>. QED  BY <2>4, <3>1 DEF Booked, KindsIn
  <2>6. "Read" \notin PIMTypes
    BY DEF PIMTypes
  <2>. QED  BY <1>2, <2>3, <2>5, <2>6, ServingOtherKeepsOrder DEF OrderInv
<1>. QED  BY <1>1, <1>2 DEF Tick, ServeCompletedReads

LEMMA PassedKeepsOrder ==
  ASSUME OrderInv
  PROVE  InOrder(accepted, done \cup PassedIds)
<1>1. CASE PassedIds = {}
  BY <1>1 DEF OrderInv
<1>2. CASE queues["pim"] # <<>> /\ PassedIds = {queues["pim"][1].id}
  <2> DEFINE h == Holds(queues, pending)
  <2>1. /\ pending \in Seq(Waiting) /\ QueuesOK(queues) /\ accepted \in Seq(TraceRequest)
    BY TypeOKSplits DEF OrderInv, ControllerTypeOK, Waiting
  <2>2. h \in HeldType /\ h["pim"] = queues["pim"]
    BY <2>1, HoldsType DEF Holds, Holders
  <2>3. 1 \in DOMAIN h["pim"]
    <3>1. queues["pim"] \in Seq(TraceRequest)
      BY <2>1 DEF QueuesOK, Entries, QueueNames
    <3>. QED  BY <1>2, <2>2, <3>1, TailIsRemoval
  <2>4. Booked(h, accepted, done) /\ Whole(h, accepted, done, PIMTypes) /\ InOrder(accepted, done)
    BY DEF OrderInv, Ledger
  <2>5. InOrder(accepted, done \cup {h["pim"][1].id})
    <3> HIDE DEF h
    <3>. QED  BY <2>1, <2>2, <2>3, <2>4, ServingKeepsOrder
  <2>. QED  BY <1>2, <2>2, <2>5
<1>. QED  BY <1>1, <1>2, PassedBarrier DEF OrderInv

LEMMA SlotKeepsOrder ==
  ASSUME OrderInv, Slot
  PROVE  InOrder(accepted, done') /\ done \subseteq done'
<1>1. /\ TypeOK /\ InTime /\ QueuesOK(queues) /\ QueuesOK(PassedPim)
      /\ "active" \in QueueNames /\ "priority" \in QueueNames /\ "pim" \in QueueNames
      /\ "read" \in QueueNames /\ "write" \in QueueNames
  BY TypeOKSplits, PassedPimKeepsQueues DEF OrderInv, ControllerTypeOK, QueueNames
<1>2. /\ Booked(Holds(queues, pending), accepted, done \cup {})
      /\ Whole(Holds(queues, pending), accepted, done \cup {}, PIMTypes)
      /\ InOrder(accepted, done \cup {})
  BY DEF OrderInv, Ledger
<1>3. /\ Booked(Holds(PassedPim, pending), accepted, done \cup PassedIds)
      /\ Whole(Holds(PassedPim, pending), accepted, done \cup PassedIds, PIMTypes)
      /\ InOrder(accepted, done \cup PassedIds)
      /\ PassedPim["read"] = queues["read"] /\ PassedPim["write"] = queues["write"]
  BY <1>1, PassedBooks, PassedKeepsOrder DEF OrderInv
<1> DEFINE Kept == InOrder(accepted, done') /\ done \subseteq done'
<1>4. ASSUME ServeActive PROVE Kept
  <2>1. Best(queues.active) \in DOMAIN queues["active"]
    BY <1>4 DEF ServeActive, ActiveChosen, Chosen
  <2>2. Issue(queues, "active", Best(queues.active), isPim, {})
    BY <1>4 DEF ServeActive
  <2>3. InOrder(accepted, done') /\ done \cup {} \subseteq done'
    BY <1>1, <1>2, <2>1, <2>2, IssueKeepsOrder
  <2>. QED  BY <2>3
<1>5. ASSUME WaitForPriority PROVE Kept
  BY <1>2, <1>5 DEF WaitForPriority
<1>6. ASSUME ServePriority PROVE Kept
  <2>1. 1 \in DOMAIN queues["priority"]
    BY <1>1, <1>6 DEF ServePriority, PriorityMatches, QueuesOK
  <2>2. Issue(queues, "priority", 1, FALSE, {})
    BY <1>6 DEF ServePriority
  <2>3. InOrder(accepted, done') /\ done \cup {} \subseteq done'
    BY <1>1, <1>2, <2>1, <2>2, IssueKeepsOrder
  <2>. QED  BY <2>3
<1>7. ASSUME ServePim PROVE Kept
  <2> DEFINE b == PassedPim["pim"]
  <2>1. Best(b) \in DOMAIN b
    BY <1>7 DEF ServePim, PimChosen, Chosen
  <2>2. Issue(PassedPim, "pim", Best(b), TRUE, PassedIds)
    BY <1>7 DEF ServePim
  <2>3. b \in Seq(TraceRequest)
    BY <1>1 DEF QueuesOK, Entries
  <2>4. /\ \A k \in DOMAIN b : b[k].id \in DOMAIN accepted /\ b[k] = accepted[b[k].id]
        /\ \A k, l \in DOMAIN b : k < l => b[k].id < b[l].id
    <3>1. b = Holds(PassedPim, pending)["pim"] /\ "pim" \in Holders
      BY DEF Holds, Holders
    <3> HIDE DEF b
    <3>. QED  BY <1>3, <3>1 DEF Booked
  <2>5. Command(b[Best(b)]) = Final(b[Best(b)]) =>
          Best(b) = 1 \/ \A k \in 1..Best(b) : b[k].type # "BARRIER"
    <3> HIDE DEF b
    <3>. QED  BY <1>1, <2>1, <2>3, <2>4, BestBehindNoBarrier
  <2>6. InOrder(accepted, done') /\ done \cup PassedIds \subseteq done'
    BY <1>1, <1>3, <2>1, <2>2, <2>5, IssueKeepsOrder
  <2>. QED  BY <2>6
<1>8. ASSUME ServeReadWrite PROVE Kept
  <2> DEFINE name == IF WriteMode THEN "write" ELSE "read"
             i == Best(queues[name])
  <2>1. name \in QueueNames /\ name # "pim" /\ PassedPim[name] = queues[name]
    BY <1>1, <1>3
  <2>2. CASE Chosen(queues[name])
    <3>1. i \in DOMAIN PassedPim[name]
      BY <2>1, <2>2 DEF Chosen
    <3>2. Issue(PassedPim, name, i, FALSE, PassedIds)
      BY <1>8, <2>2 DEF ServeReadWrite
    <3>3. InOrder(accepted, done') /\ done \cup PassedIds \subseteq done'
      <4> HIDE DEF name, i
      <4>. QED  BY <1>1, <1>3, <2>1, <3>1, <3>2, IssueKeepsOrder
    <3>. QED  BY <3>3
  <2>3. CASE ~Chosen(queues[name])
    <3>1. done' = done \cup PassedIds
      BY <1>8, <2>3 DEF ServeReadWrite
    <3>. QED  BY <1>3, <3>1
  <2>. QED  BY <2>2, <2>3
<1>. QED  BY <1>4, <1>5, <1>6, <1>7, <1>8 DEF Slot

LEMMA StepKeepsOrder ==
  ASSUME OrderInv, [Next]_vars
  PROVE  OrderInv'
<1>1. TypeOK' /\ InTime'
  BY StepKeepsTypes, StepKeepsTime DEF OrderInv
<1>2. Ledger(PIMTypes)'
  BY StepKeepsBooks DEF OrderInv, RoomFor
<1>3. InOrder(accepted, done)'
  <2>1. CASE Tick
    BY <2>1, TickKeepsOrder DEF Tick, InOrder
  <2>2. CASE Slot
    BY <2>2, SlotKeepsOrder DEF Slot, InOrder
  <2>3. ASSUME NEW m \in Traffic, Send(m) PROVE InOrder(accepted, done)'
    <3> DEFINE r == [id |-> Len(accepted) + 1, type |-> m.type, address |-> m.address, arrive |-> arrival]
    <3>1. accepted' = Append(accepted, r) /\ r \in TraceRequest /\ done' = done
      BY <2>3, TrafficAssumption DEF Send, TraceRequest, TypeOK, OrderInv
    <3> HIDE DEF r
    <3>2. accepted \in Seq(TraceRequest) /\ Len(accepted) \in Nat /\ DOMAIN accepted = 1..Len(accepted)
      BY DEF OrderInv, TypeOK
    <3>3. /\ DOMAIN accepted' = 1..(Len(accepted) + 1)
          /\ \A k \in 1..Len(accepted) : accepted'[k] = accepted[k]
      BY <3>1, <3>2, AppendElements
    <3>4. done \subseteq 1..Len(accepted)
      BY <3>2 DEF OrderInv, Ledger, Booked
    <3>5. ASSUME NEW a \in DOMAIN accepted', NEW b \in DOMAIN accepted', a < b, b \in done
          PROVE  a \in DOMAIN accepted /\ b \in DOMAIN accepted
                 /\ accepted'[a] = accepted[a] /\ accepted'[b] = accepted[b]
      BY <3>2, <3>3, <3>4, <3>5
    <3>. QED  BY <3>1, <3>5 DEF OrderInv, InOrder
  <2>4. CASE UNCHANGED vars
    BY <2>4 DEF vars, controllerVars, OrderInv, InOrder
  <2>. QED  BY <2>1, <2>2, <2>3, <2>4 DEF Next
<1>. QED  BY <1>1, <1>2, <1>3 DEF OrderInv

(* No PIM request is served across a barrier, in any trace and whatever the *)
(* banks, the refreshes and the other buffers do: get_best_request lets a   *)
(* request behind a barrier only open or close rows, and a barrier at the head,*)
(* being ready and first, is preferred to all of them.                      *)
THEOREM BarriersKeepOrder == Spec => []BarrierOrder
<1>1. Init => OrderInv
  BY InitHasTypes, InitBooks DEF OrderInv
<1>2. OrderInv /\ [Next]_vars => OrderInv'
  BY StepKeepsOrder
<1>3. OrderInv => BarrierOrder
  <2>1. TypeOK => DOMAIN accepted = 1..Len(accepted)
    BY DEF TypeOK
  <2>. QED  BY <2>1 DEF OrderInv, InOrder, BarrierOrder
<1>. QED  BY <1>1, <1>2, <1>3, PTL DEF Spec

(* Where the books say a request is.                                        *)
LEMMA PlacesBooked ==
  ASSUME TypeOK, NEW T, Ledger(T), NEW id \in 1..Len(accepted)
  PROVE  /\ id \in done => Places(id) = {}
         /\ Places(id) = {} \/ \E p : Places(id) = {p}
         /\ id \notin done /\ accepted[id].type \in T => Places(id) # {}
<1> DEFINE h == Holds(queues, pending)
<1>1. QueuesOK(queues) /\ DOMAIN accepted = 1..Len(accepted)
  BY TypeOKSplits DEF ControllerTypeOK
<1>2. Booked(h, accepted, done) /\ Whole(h, accepted, done, T)
  BY DEF Ledger
<1>3. /\ \A n \in Holders \ {"pending"} : h[n] = queues[n]
      /\ DOMAIN h["pending"] = DOMAIN pending
      /\ \A i \in DOMAIN pending : h["pending"][i] = pending[i].request
  BY DEF Holds, Holders
<1> HIDE DEF h
<1>4. \A p : p \in Places(id) <=>
              \E n \in Holders : \E i \in DOMAIN h[n] : h[n][i].id = id /\ p = <<n, i>>
  <2>1. QueueNames = (Holders \ {"pending"}) \cup {"priority"} /\ "pending" \in Holders
    BY DEF QueueNames, Holders
  <2>2. PlacesIn("priority", id) = {}
    <3>1. queues["priority"] \in Seq(RefreshRequests)
      BY <1>1 DEF QueuesOK, Entries, QueueNames
    <3>2. \A i \in DOMAIN queues["priority"] : queues["priority"][i].id = 0
      <4>1. \A i \in DOMAIN queues["priority"] : queues["priority"][i] \in RefreshRequests
        BY <3>1
      <4>. QED  BY <4>1 DEF RefreshRequests, RefreshRequest
    <3>. QED  BY <3>2 DEF PlacesIn
  <2> TAKE p
  <2>3. p \in Places(id) <=>
          \/ \E n \in Holders \ {"pending"} : \E i \in DOMAIN h[n] : h[n][i].id = id /\ p = <<n, i>>
          \/ \E i \in DOMAIN h["pending"] : h["pending"][i].id = id /\ p = <<"pending", i>>
    <3> DEFINE inPending == {<<"pending", i>> : i \in {k \in DOMAIN pending : pending[k].request.id = id}}
    <3>1. p \in Places(id) <=> (\E n \in QueueNames : p \in PlacesIn(n, id)) \/ p \in inPending
      <4>1. Places(id) = (UNION {PlacesIn(n, id) : n \in QueueNames}) \cup inPending
        BY DEF Places
      <4> HIDE DEF inPending
      <4>. QED  BY <4>1
    <3>2. \A n \in Holders \ {"pending"} :
            p \in PlacesIn(n, id) <=> \E i \in DOMAIN h[n] : h[n][i].id = id /\ p = <<n, i>>
      BY <1>3 DEF PlacesIn
    <3>3. p \in inPending <=> \E i \in DOMAIN h["pending"] : h["pending"][i].id = id /\ p = <<"pending", i>>
      BY <1>3
    <3> HIDE DEF inPending
    <3>. QED  BY <2>1, <2>2, <3>1, <3>2, <3>3
  <2>. QED  BY <2>1, <2>3
<1>5. \A n \in Holders : \A i \in DOMAIN h[n] : h[n][i].id = id => id \notin done /\ <<n, i>> \in Places(id)
  BY <1>2, <1>4 DEF Booked
<1>6. \A p, s \in Places(id) : p = s
  BY <1>2, <1>4 DEF Booked
<1>7. id \in done => Places(id) = {}
  BY <1>4, <1>5
<1>8. id \notin done /\ accepted[id].type \in T => Places(id) # {}
  BY <1>1, <1>2, <1>5 DEF Whole
<1>. QED  BY <1>6, <1>7, <1>8

---------------------------------------------------------------------------
(* No request is in two places, nor anywhere after it was served: neither the*)
(* move to the active buffer nor the hand-over of a read to `pending` repeats*)
(* one.                                                                     *)
NoneRepeated ==
  \A id \in 1..Len(accepted) : Cardinality(Places(id)) <= (IF id \in done THEN 0 ELSE 1)

(* A PIM request or a barrier is in one place until it is served.           *)
PimNeverLost ==
  \A id \in 1..Len(accepted) :
    accepted[id].type \in PIMTypes => Cardinality(Places(id)) = (IF id \in done THEN 0 ELSE 1)

(* A request that the books hold is in one place.                           *)
LEMMA BooksGivePlaces ==
  ASSUME TypeOK, NEW T, Ledger(T), NEW id \in 1..Len(accepted)
  PROVE  /\ Cardinality(Places(id)) <= (IF id \in done THEN 0 ELSE 1)
         /\ accepted[id].type \in T => Cardinality(Places(id)) = (IF id \in done THEN 0 ELSE 1)
<1>1. CASE Places(id) = {}
  <2>1. Cardinality(Places(id)) = 0
    BY <1>1, FS_EmptySet
  <2>. QED  BY <1>1, <2>1, PlacesBooked
<1>2. ASSUME NEW p, Places(id) = {p}
      PROVE  /\ Cardinality(Places(id)) <= (IF id \in done THEN 0 ELSE 1)
             /\ accepted[id].type \in T => Cardinality(Places(id)) = (IF id \in done THEN 0 ELSE 1)
  <2>1. Cardinality(Places(id)) = 1
    BY <1>2, FS_Singleton
  <2>2. id \notin done
    BY <1>2, PlacesBooked
  <2>. QED  BY <2>1, <2>2
<1>. QED  BY <1>1, <1>2, PlacesBooked

LEMMA BooksGiveAllPlaces ==
  ASSUME TypeOK, Ledger(RequestTypes)
  PROVE  NoneLost
<1>1. \A id \in 1..Len(accepted) : accepted[id].type \in RequestTypes
  <2>1. \A id \in 1..Len(accepted) : accepted[id] \in TraceRequest
    BY DEF TypeOK
  <2>. QED  BY <2>1 DEF TraceRequest
<1>. QED  BY <1>1, BooksGivePlaces DEF NoneLost

(* Whatever the sizes of the buffers, no request is served twice, and no PIM*)
(* request and no barrier is lost: they never move to the active buffer.    *)
THEOREM PimRequestsKept == Spec => [](NoneRepeated /\ PimNeverLost)
<1>1. Init => OrderInv
  BY InitHasTypes, InitBooks DEF OrderInv
<1>2. OrderInv /\ [Next]_vars => OrderInv'
  BY StepKeepsOrder
<1>3. OrderInv => NoneRepeated /\ PimNeverLost
  BY BooksGivePlaces DEF OrderInv, NoneRepeated, PimNeverLost
<1>. QED  BY <1>1, <1>2, <1>3, PTL DEF Spec

(* So a trace of PIM requests only loses none, on every organization.       *)
THEOREM NoneLostOfPim ==
  ASSUME RequestTypes \subseteq PIMTypes
  PROVE  Spec => []NoneLost
<1> DEFINE I == TypeOK /\ Ledger(RequestTypes)
<1>1. Init => I
  BY InitHasTypes, InitBooks
<1>2. I /\ [Next]_vars => I'
  BY StepKeepsTypes, StepKeepsBooks DEF RoomFor
<1>3. I => NoneLost
  BY BooksGiveAllPlaces
<1>. QED  BY <1>1, <1>2, <1>3, PTL DEF Spec

(* And loads and stores are only lost by the enqueue whose result the       *)
(* controller ignores: while a row is opened only with room in the active   *)
(* buffer, no request is lost.                                              *)
THEOREM NoneLostWithRoom == Spec /\ RoomToOpen => []NoneLost
<1> DEFINE I == TypeOK /\ Ledger(RequestTypes)
           Room == rows' # rows /\ issued'.command = "ACT" => Fits("active", queues["active"])
<1>1. Init => I
  BY InitHasTypes, InitBooks
<1>2. I /\ [Next]_vars /\ [Room]_vars => I'
  <2> SUFFICES ASSUME I, [Next]_vars, [Room]_vars PROVE I'
    OBVIOUS
  <2>1. CASE Room
    BY <2>1, StepKeepsTypes, StepKeepsBooks DEF RoomFor
  <2>2. CASE UNCHANGED vars
    <3>1. TypeOK'
      BY StepKeepsTypes
    <3>. QED  BY <2>2, <3>1 DEF vars, controllerVars, Ledger
  <2>. QED  BY <2>1, <2>2
<1>3. I => NoneLost
  BY BooksGiveAllPlaces
<1>. QED  BY <1>1, <1>2, <1>3, PTL DEF Spec, RoomToOpen

---------------------------------------------------------------------------
(* The abstract service. Without a refresh manager none is due.             *)
NoRefreshDue == ~RefreshOn => untilRefresh = Timing["nREFI"]

(* A slot adds no refresh.                                                  *)
LEMMA IssueAddsNoRefresh ==
  ASSUME NEW q, QueuesOK(q), NEW name \in QueueNames, NEW i \in DOMAIN q[name],
         NEW forPim, NEW served, Issue(q, name, i, forPim, served), q["priority"] = <<>>
  PROVE  queues'["priority"] = <<>>
<1> DEFINE r == q[name][i]
           without == Removed(q, name, i)
<1>1. name # "priority"
  BY DEF QueuesOK
<1>2. "priority" \in QueueNames /\ without["priority"] = q["priority"]
      /\ \A e : [without EXCEPT !["active"] = Append(@, e)]["priority"] = q["priority"]
  BY <1>1 DEF Removed, QueuesOK, QueueNames
<1>3. CASE Interrupts(r)
  BY <1>3 DEF Issue
<1>4. CASE ~Interrupts(r)
  <2>1. \/ queues' = without \/ queues' = q
        \/ queues' = [without EXCEPT !["active"] = Append(@, r)]
    BY <1>4 DEF Issue
  <2> HIDE DEF r, without
  <2>. QED  BY <1>2, <2>1
<1>. QED  BY <1>3, <1>4

LEMMA SlotAddsNoRefresh ==
  ASSUME TypeOK, Slot, queues["priority"] = <<>>
  PROVE  queues'["priority"] = <<>>
<1>1. /\ QueuesOK(queues) /\ QueuesOK(PassedPim) /\ PassedPim["priority"] = <<>>
      /\ PassedPim["read"] = queues["read"] /\ PassedPim["write"] = queues["write"]
      /\ "active" \in QueueNames /\ "pim" \in QueueNames
      /\ "read" \in QueueNames /\ "write" \in QueueNames
  BY TypeOKSplits, PassedPimKeepsQueues DEF ControllerTypeOK, QueueNames, PassedPim, QueuesOK
<1>2. CASE ServeActive
  <2>1. Best(queues.active) \in DOMAIN queues["active"]
        /\ Issue(queues, "active", Best(queues.active), isPim, {})
    BY <1>2 DEF ServeActive, ActiveChosen, Chosen
  <2>. QED  BY <1>1, <2>1, IssueAddsNoRefresh
<1>3. CASE WaitForPriority \/ ServePriority
  BY <1>3 DEF WaitForPriority, ServePriority, PriorityMatches
<1>4. CASE ServePim
  <2>1. Best(PassedPim.pim) \in DOMAIN PassedPim["pim"]
        /\ Issue(PassedPim, "pim", Best(PassedPim.pim), TRUE, PassedIds)
    BY <1>4 DEF ServePim, PimChosen, Chosen
  <2>. QED  BY <1>1, <2>1, IssueAddsNoRefresh
<1>5. CASE ServeReadWrite
  <2> DEFINE name == IF WriteMode THEN "write" ELSE "read"
             i == Best(queues[name])
  <2>1. name \in QueueNames /\ PassedPim[name] = queues[name]
    BY <1>1
  <2>2. CASE Chosen(queues[name])
    <3>1. i \in DOMAIN PassedPim[name]
      BY <2>1, <2>2 DEF Chosen
    <3>2. Issue(PassedPim, name, i, FALSE, PassedIds)
      BY <1>5, <2>2 DEF ServeReadWrite
    <3> HIDE DEF name, i
    <3>. QED  BY <1>1, <2>1, <3>1, <3>2, IssueAddsNoRefresh
  <2>3. CASE ~Chosen(queues[name])
    BY <1>1, <1>5, <2>3 DEF ServeReadWrite
  <2>. QED  BY <2>2, <2>3
<1>. QED  BY <1>2, <1>3, <1>4, <1>5 DEF Slot

ServiceInv == OrderInv /\ NoRefreshDue

LEMMA StepImplementsService ==
  ASSUME ServiceInv, RefreshDone, [Next]_vars
  PROVE  [Service!Next]_(Service!vars) /\ ServiceInv'
<1>0. OrderInv'
  BY StepKeepsOrder DEF ServiceInv
<1>1. OrderInv /\ TypeOK /\ accepted \in Seq(TraceRequest) /\ Timing["nREFI"] \in Nat
      /\ untilRefresh \in 1..Timing["nREFI"]
  BY TypeOKSplits, TimingAssumption DEF ServiceInv, OrderInv, ControllerTypeOK, TimingNames
<1>2. ASSUME accepted' = accepted, done \subseteq done' PROVE Service!Serve
  <2>1. InOrder(accepted, done') /\ done' \subseteq DOMAIN accepted
    BY <1>0, <1>2 DEF OrderInv, Ledger, Booked, InOrder
  <2>. QED  BY <1>2, <2>1 DEF Service!Serve, Service!OrderKept, InOrder
<1>3. CASE Tick
  <2>1. accepted' = accepted /\ done \subseteq done' /\ RefreshTick
    BY <1>3 DEF Tick, ServeCompletedReads
  <2>2. Service!Serve
    BY <1>2, <2>1
  <2>3. CASE RefreshOn /\ untilRefresh = 1
    <3>1. queues["priority"] = <<>>
      BY <1>3, <2>3 DEF RefreshDone, Tick
    <3>2. untilRefresh' = Timing["nREFI"]
      BY <2>1, <2>3 DEF RefreshTick
    <3>3. Service!BeginRefresh
      BY <2>1, <2>2, <2>3, <3>1, <3>2 DEF Service!BeginRefresh
    <3>. QED  BY <1>0, <2>3, <3>3 DEF Service!Next, ServiceInv, NoRefreshDue
  <2>4. CASE ~(RefreshOn /\ untilRefresh = 1)
    <3>1. queues' = queues
      BY <2>1, <2>4 DEF RefreshTick
    <3>2. untilRefresh' \in {untilRefresh, untilRefresh - 1} \ {0}
      BY <1>1, <2>1, <2>4 DEF RefreshTick, ServiceInv, NoRefreshDue
    <3>3. Service!Work
      BY <2>1, <2>2, <3>1, <3>2 DEF Service!Work
    <3>4. NoRefreshDue'
      BY <2>1 DEF RefreshTick, NoRefreshDue
    <3>. QED  BY <1>0, <3>3, <3>4 DEF Service!Next, ServiceInv
  <2>. QED  BY <2>3, <2>4
<1>4. CASE Slot
  <2>1. accepted' = accepted /\ untilRefresh' = untilRefresh
    BY <1>4 DEF Slot
  <2>2. done \subseteq done'
    BY <1>1, <1>4, SlotKeepsOrder
  <2>3. Service!Serve
    BY <1>2, <2>1, <2>2
  <2>4. queues["priority"] = <<>> => queues'["priority"] = <<>>
    BY <1>1, <1>4, SlotAddsNoRefresh
  <2>5. Service!Work
    <3>1. untilRefresh' \in {untilRefresh, untilRefresh - 1} \ {0}
      BY <1>1, <2>1
    <3>2. (queues'["priority"] # <<>>) \in {queues["priority"] # <<>>, FALSE}
      <4>1. CASE queues'["priority"] = <<>>
        BY <4>1
      <4>2. CASE queues'["priority"] # <<>> /\ queues["priority"] # <<>>
        BY <4>2
      <4>. QED  BY <2>4, <4>1, <4>2
    <3>. QED  BY <2>1, <2>3, <3>1, <3>2 DEF Service!Work
  <2>6. NoRefreshDue'
    BY <2>1 DEF ServiceInv, NoRefreshDue
  <2>. QED  BY <1>0, <2>5, <2>6 DEF Service!Next, ServiceInv
<1>5. ASSUME NEW m \in Traffic, Send(m) PROVE [Service!Next]_(Service!vars) /\ ServiceInv'
  <2> DEFINE r == [id |-> Len(accepted) + 1, type |-> m.type, address |-> m.address, arrive |-> arrival]
  <2>1. accepted' = Append(accepted, r) /\ r \in TraceRequest /\ done' = done /\ untilRefresh' = untilRefresh
    BY <1>1, <1>5, TrafficAssumption DEF Send, TraceRequest, TypeOK
  <2> HIDE DEF r
  <2>2. queues'["priority"] = queues["priority"]
    <3>1. QueuesOK(queues) /\ QueueOf(m.type) # "priority" /\ "priority" \in QueueNames
      BY <1>1, TypeOKSplits DEF ControllerTypeOK, QueueOf, QueueNames
    <3>2. queues' = queues \/ \E e : queues' = [queues EXCEPT ![QueueOf(m.type)] = Append(@, e)]
      BY <1>5 DEF Send
    <3>. QED  BY <3>1, <3>2 DEF QueuesOK
  <2>3. Len(accepted') = Len(accepted) + 1 /\ SubSeq(accepted', 1, Len(accepted)) = accepted
    <3>1. Len(accepted') = Len(accepted) + 1 /\ accepted' \in Seq(TraceRequest)
      BY <1>1, <2>1
    <3>2. \A k \in 1..Len(accepted) : accepted'[k] = accepted[k]
      BY <1>1, <2>1, AppendElements
    <3>. QED  BY <1>1, <2>1
  <2>4. Service!Accept
    BY <2>1, <2>2, <2>3 DEF Service!Accept
  <2>5. NoRefreshDue'
    BY <2>1 DEF ServiceInv, NoRefreshDue
  <2>. QED  BY <1>0, <2>4, <2>5 DEF Service!Next, ServiceInv
<1>6. CASE UNCHANGED vars
  <2>1. UNCHANGED Service!vars
    BY <1>6 DEF vars, controllerVars, Service!vars
  <2>2. NoRefreshDue'
    BY <1>6 DEF vars, controllerVars, ServiceInv, NoRefreshDue
  <2>. QED  BY <1>0, <2>1, <2>2 DEF ServiceInv
<1>. QED  BY <1>3, <1>4, <1>5, <1>6 DEF Next

(* If each refresh is over before the next one is due, the controller is the*)
(* service that the memory system relies on (its liveness is checked by TLC):*)
(* it serves what it accepted, in the order of the barriers, for good.      *)
THEOREM ImplementsService == Spec /\ []RefreshDone => Service!Spec
<1>1. Init => ServiceInv /\ Service!Init
  <2> SUFFICES ASSUME Init PROVE ServiceInv /\ Service!Init
    OBVIOUS
  <2>1. OrderInv
    BY InitHasTypes, InitBooks DEF OrderInv
  <2>. QED  BY <2>1 DEF Init, ServiceInv, NoRefreshDue, Service!Init, QueueNames
<1>2. ServiceInv /\ RefreshDone /\ [Next]_vars => [Service!Next]_(Service!vars) /\ ServiceInv'
  BY StepImplementsService
<1>. QED  BY <1>1, <1>2, PTL DEF Spec, Service!Spec

---------------------------------------------------------------------------
(* One request per bank. A trace of loads and stores only.                 *)
LoadsOnly == RequestTypes \subseteq {"Read", "Write"}

OnePerBank(buffer) ==
  \A i, j \in DOMAIN buffer : buffer[i].address.bank = buffer[j].address.bank => i = j

NoneOfBank(buffer, b) == \A i \in DOMAIN buffer : buffer[i].address.bank # b

LEMMA RemovalKeepsBanks ==
  ASSUME NEW s \in Seq(TraceRequest), OnePerBank(s), NEW i \in DOMAIN s
  PROVE  OnePerBank(RemoveAt(s, i)) /\ NoneOfBank(RemoveAt(s, i), s[i].address.bank)
<1> DEFINE d == RemoveAt(s, i)
           at(k) == IF k < i THEN k ELSE k + 1
<1>1. /\ DOMAIN d = 1..(Len(s) - 1) /\ DOMAIN s = 1..Len(s) /\ Len(s) \in Nat
      /\ \A k \in DOMAIN d : d[k] = s[at(k)]
  <2>1. DOMAIN s = 1..Len(s) /\ Len(s) \in Nat
    OBVIOUS
  <2>2. /\ DOMAIN d = 1..(Len(s) - 1)
        /\ \A k \in 1..(Len(s) - 1) : d[k] = s[at(k)]
    BY RemoveAtElements
  <2>. QED  BY <2>1, <2>2
<1>2. ASSUME NEW k \in DOMAIN d PROVE at(k) \in DOMAIN s /\ at(k) # i
  BY <1>1
<1>3. \A j, k \in DOMAIN d : at(j) = at(k) => j = k
  BY <1>1
<1> HIDE DEF d, at
<1>4. OnePerBank(d)
  BY <1>1, <1>2, <1>3 DEF OnePerBank
<1>5. NoneOfBank(d, s[i].address.bank)
  BY <1>1, <1>2 DEF OnePerBank, NoneOfBank
<1>. QED  BY <1>4, <1>5 DEF d

LEMMA AppendKeepsBanks ==
  ASSUME NEW s \in Seq(TraceRequest), OnePerBank(s),
         NEW r \in TraceRequest, NoneOfBank(s, r.address.bank)
  PROVE  OnePerBank(Append(s, r))
<1> DEFINE d == Append(s, r)
<1>1. /\ DOMAIN d = 1..(Len(s) + 1) /\ DOMAIN s = 1..Len(s) /\ Len(s) \in Nat
      /\ \A k \in 1..Len(s) : d[k] = s[k]
      /\ d[Len(s) + 1] = r
  BY AppendElements
<1> HIDE DEF d
<1>2. \A k \in DOMAIN d : k = Len(s) + 1 \/ k \in DOMAIN s
  BY <1>1
<1>3. OnePerBank(d)
  BY <1>1, <1>2 DEF OnePerBank, NoneOfBank
<1>. QED  BY <1>3 DEF d

(* The buffers that a command is issued from, and the active one after it.   *)
RestOfActive(q, name, i) == IF name = "active" THEN RemoveAt(q["active"], i) ELSE q["active"]

LEMMA ActiveAfterIssue ==
  ASSUME NEW q, QueuesOK(q), NEW name \in QueueNames, NEW i \in DOMAIN q[name],
         NEW forPim, NEW served, Issue(q, name, i, forPim, served)
  PROVE  \/ queues'["active"] = q["active"]
         \/ queues'["active"] = RestOfActive(q, name, i)
         \/ /\ ~Interrupts(q[name][i]) /\ Command(q[name][i]) \in Opening
            /\ queues'["active"] = Append(RestOfActive(q, name, i), q[name][i])
<1> DEFINE r == q[name][i]
           without == Removed(q, name, i)
<1>1. "active" \in QueueNames /\ without["active"] = RestOfActive(q, name, i)
  BY DEF QueueNames, Removed, QueuesOK, RestOfActive
<1>2. [without EXCEPT !["active"] = Append(@, r)]["active"] = Append(without["active"], r)
  BY <1>1 DEF Removed, QueuesOK
<1>3. CASE Interrupts(r)
  BY <1>3 DEF Issue
<1>4. CASE ~Interrupts(r)
  <2>1. \/ queues' = without \/ queues' = q
        \/ Command(r) \in Opening /\ queues' = [without EXCEPT !["active"] = Append(@, r)]
    BY <1>4 DEF Issue
  <2> HIDE DEF r, without
  <2>2. CASE queues' = without
    BY <1>1, <2>2
  <2>3. CASE queues' = q
    BY <2>3
  <2>4. CASE Command(r) \in Opening /\ queues' = [without EXCEPT !["active"] = Append(@, r)]
    <3>1. queues'["active"] = Append(RestOfActive(q, name, i), r)
      BY <1>1, <1>2, <2>4
    <3>. QED  BY <1>4, <2>4, <3>1 DEF r
  <2>. QED  BY <2>1, <2>2, <2>3, <2>4
<1>. QED  BY <1>3, <1>4

(* A request that opens its row on its way to the active buffer must find    *)
(* none of its bank there.                                                 *)
LEMMA IssueKeepsBanks ==
  ASSUME NEW q, QueuesOK(q), NEW name \in QueueNames, NEW i \in DOMAIN q[name],
         NEW forPim, NEW served, Issue(q, name, i, forPim, served), OnePerBank(q["active"]),
         /\ name # "active" /\ ~Interrupts(q[name][i]) /\ Command(q[name][i]) \in Opening
         => name # "priority" /\ NoneOfBank(q["active"], q[name][i].address.bank)
  PROVE  OnePerBank(queues'["active"])
<1> DEFINE r == q[name][i]
           rest == RestOfActive(q, name, i)
<1>1. q["active"] \in Seq(TraceRequest) /\ "active" \in QueueNames /\ r \in Entries(name)
  BY DEF QueuesOK, Entries, QueueNames
<1>2. OnePerBank(rest) /\ rest \in Seq(TraceRequest)
  BY <1>1, RemovalKeepsBanks, RemoveAtKeepsType DEF RestOfActive
<1>3. CASE ~Interrupts(r) /\ Command(r) \in Opening /\ queues'["active"] = Append(rest, r)
  <2>1. NoneOfBank(rest, r.address.bank)
    BY <1>1, <1>3, RemovalKeepsBanks DEF RestOfActive
  <2>2. r \in TraceRequest
    BY <1>1, <1>3 DEF Entries
  <2> HIDE DEF r, rest
  <2>. QED  BY <1>2, <1>3, <2>1, <2>2, AppendKeepsBanks
<1>. QED  BY <1>2, <1>3, ActiveAfterIssue

(* A slot serves a request that is ready and, unless it is an active one,    *)
(* finds no active one to serve; or it passes.                              *)
Serving(q, name, i) ==
  /\ QueuesOK(q) /\ name \in QueueNames /\ i \in DOMAIN q[name]
  /\ q["active"] = queues["active"] /\ q["priority"] = queues["priority"]
  /\ name # "active" => ~ActiveChosen
  /\ Ready(q[name][i]) /\ Matches(Command(q[name][i]))

LEMMA SlotServesOrPasses ==
  ASSUME TypeOK, Slot
  PROVE  \/ \E q, name, i, forPim, served :
              Serving(q, name, i) /\ Issue(q, name, i, forPim, served)
         \/ /\ ~ActiveChosen /\ \E kinds : PassSlot(kinds)
            /\ queues'["active"] = queues["active"] /\ queues'["priority"] = queues["priority"]
<1>1. /\ QueuesOK(queues) /\ QueuesOK(PassedPim)
      /\ "active" \in QueueNames /\ "priority" \in QueueNames /\ "pim" \in QueueNames
      /\ "read" \in QueueNames /\ "write" \in QueueNames
      /\ \A name \in QueueNames \ {"pim"} : PassedPim[name] = queues[name]
  BY TypeOKSplits, PassedPimKeepsQueues DEF ControllerTypeOK, QueueNames, PassedPim, QueuesOK
<1>2. CASE ServeActive
  <2>1. Serving(queues, "active", Best(queues.active))
    BY <1>1, <1>2 DEF ServeActive, ActiveChosen, Chosen, Serving
  <2>. QED  BY <1>2, <2>1 DEF ServeActive
<1>3. CASE WaitForPriority
  BY <1>3 DEF WaitForPriority
<1>4. CASE ServePriority
  <2>1. Serving(queues, "priority", 1)
    <3>1. 1 \in DOMAIN queues["priority"]
      BY <1>1, <1>4 DEF ServePriority, PriorityMatches, QueuesOK
    <3>. QED  BY <1>1, <1>4, <3>1 DEF ServePriority, PriorityMatches, Serving
  <2>. QED  BY <1>4, <2>1 DEF ServePriority
<1>5. CASE ServePim
  <2>1. Serving(PassedPim, "pim", Best(PassedPim.pim))
    BY <1>1, <1>5 DEF ServePim, PimChosen, Chosen, Serving
  <2>. QED  BY <1>5, <2>1 DEF ServePim
<1>6. CASE ServeReadWrite
  <2> DEFINE name == IF WriteMode THEN "write" ELSE "read"
             i == Best(queues[name])
  <2>1. name \in QueueNames \ {"pim", "active"} /\ PassedPim[name] = queues[name]
    BY <1>1
  <2>2. CASE Chosen(queues[name])
    <3>1. Serving(PassedPim, name, i)
      BY <1>1, <1>6, <2>1, <2>2 DEF ServeReadWrite, Chosen, Serving
    <3>2. Issue(PassedPim, name, i, FALSE, PassedIds)
      BY <1>6, <2>2 DEF ServeReadWrite
    <3> HIDE DEF name, i
    <3>. QED  BY <3>1, <3>2
  <2>3. CASE ~Chosen(queues[name])
    BY <1>1, <1>6, <2>3 DEF ServeReadWrite
  <2>. QED  BY <2>2, <2>3
<1>. QED  BY <1>2, <1>3, <1>4, <1>5, <1>6 DEF Slot

(* What a load or store needs next: itself, or the bank opened or closed.    *)
LEMMA LoadCommand ==
  ASSUME NEW r, r.type \in {"Read", "Write"}
  PROVE  /\ Final(r) \in {"RD", "WR"}
         /\ Command(r) \in {Final(r), "ACT", "PRE"}
         /\ Command(r) = Final(r) <=> r.address.row \in rows[r.address.bank]
         /\ Command(r) = "ACT" <=> rows[r.address.bank] = {}
         /\ Hits(r) <=> Command(r) = Final(r)
<1> DEFINE f == Final(r)
           b == r.address.bank
<1>1. f \in {"RD", "WR"} /\ f \in Accessing /\ {"ACT", "PRE"} \cap Accessing = {}
  BY DEF Final, FinalCommand, Accessing
<1>2. Opener[f] = "ACT" /\ Closer[f] = "PRE" /\ Reach(f, b) = {b}
  BY <1>1 DEF Opener, Closer, Reach
<1>3. Command(r) = IF r.address.row \in rows[b] THEN f ELSE IF rows[b] = {} THEN "ACT" ELSE "PRE"
  <2>1. Command(r) = RequireRowOpen(f, r.address)
    BY <1>1 DEF Command, PreqCommand
  <2> HIDE DEF f
  <2>2. CASE r.address.row \in rows[b]
    <3>1. {d \in Reach(f, b) : r.address.row \notin rows[d]} = {}
      BY <1>2, <2>2
    <3>. QED  BY <2>1, <2>2, <3>1 DEF RequireRowOpen
  <2>3. CASE r.address.row \notin rows[b]
    <3>1. {d \in Reach(f, b) : r.address.row \notin rows[d]} = {b}
      BY <1>2, <2>3
    <3>2. RequireRowOpen(f, r.address) = IF rows[b] = {} THEN Opener[f] ELSE Closer[f]
      BY <3>1 DEF RequireRowOpen
    <3>. QED  BY <1>2, <2>1, <2>3, <3>2
  <2>. QED  BY <2>2, <2>3
<1>4. Hits(r) <=> Command(r) \in Accessing /\ r.address.row \in rows[b]
  BY DEF Hits, RowBufferHit
<1>. QED  BY <1>1, <1>3, <1>4

(* With loads and stores only, an active request is one of them.            *)
LEMMA ActiveLoads ==
  ASSUME LoadsOnly, NEW q, QueuesOK(q)
  PROVE  /\ q["active"] \in Seq(TraceRequest) /\ Len(q["active"]) \in Nat
         /\ DOMAIN q["active"] = 1..Len(q["active"])
         /\ \A k \in DOMAIN q["active"] : /\ q["active"][k].type \in {"Read", "Write"}
                                          /\ q["active"][k].address \in Address
<1>1. q["active"] \in Seq(TraceRequest)
  BY DEF QueuesOK, Entries, QueueNames
<1>2. \A k \in DOMAIN q["active"] : q["active"][k] \in TraceRequest
  BY <1>1
<1>3. DOMAIN q["active"] = 1..Len(q["active"]) /\ Len(q["active"]) \in Nat
  BY <1>1
<1>. QED  BY <1>1, <1>2, <1>3 DEF LoadsOnly, TraceRequest

(* The request that opens its row on its way to the active buffer: a load or *)
(* store, that no active one of its bank could have been served before.     *)
LEMMA MoverIsLoad ==
  ASSUME LoadsOnly, NEW q, NEW name, NEW i, Serving(q, name, i), Command(q[name][i]) \in Opening
  PROVE  /\ name # "priority"
         /\ q[name][i] \in TraceRequest /\ q[name][i].type \in {"Read", "Write"}
         /\ Command(q[name][i]) = "ACT" /\ rows[q[name][i].address.bank] = {}
<1> DEFINE r == q[name][i]
<1>1. r \in Entries(name) /\ name \in QueueNames
  BY DEF Serving, QueuesOK
<1>2. name # "priority"
  BY <1>1, QueuedRequest, RefreshOpensNothing DEF Command, Opening
<1>3. r \in TraceRequest /\ r.type \in {"Read", "Write"}
  BY <1>1, <1>2, QueuedRequest DEF LoadsOnly
<1>4. Command(r) \in {Final(r), "ACT", "PRE"} /\ Final(r) \in {"RD", "WR"}
      /\ (Command(r) = "ACT" <=> rows[r.address.bank] = {})
  BY <1>3, LoadCommand
<1>5. Command(r) = "ACT"
  BY <1>4 DEF Opening
<1>. QED  BY <1>2, <1>3, <1>4, <1>5

(* The steps that leave the active buffer alone.                            *)
LEMMA OtherStepsKeepActive ==
  ASSUME TypeOK, Tick \/ (\E m \in Traffic : Send(m)) \/ UNCHANGED vars
  PROVE  /\ queues'["active"] = queues["active"] /\ rows' = rows
         /\ phase' = "second" => UNCHANGED vars
<1>1. QueuesOK(queues) /\ "active" \in QueueNames /\ QueuesOK(queues)
  BY TypeOKSplits DEF ControllerTypeOK, QueueNames
<1>2. CASE Tick
  BY <1>1, <1>2 DEF Tick, RefreshTick, AdvanceClock, QueuesOK
<1>3. ASSUME NEW m \in Traffic, Send(m)
      PROVE  queues'["active"] = queues["active"] /\ rows' = rows /\ phase' # "second"
  <2>1. QueueOf(m.type) # "active"
    BY DEF QueueOf
  <2>2. queues' = queues \/ \E e : queues' = [queues EXCEPT ![QueueOf(m.type)] = Append(@, e)]
    BY <1>3 DEF Send
  <2>3. queues'["active"] = queues["active"]
    BY <1>1, <2>1, <2>2 DEF QueuesOK
  <2>. QED  BY <1>3, <2>3 DEF Send, deviceVars
<1>4. CASE UNCHANGED vars
  BY <1>4 DEF vars, controllerVars, deviceVars
<1>. QED  BY <1>2, <1>3, <1>4

(* Without refreshes an active request keeps its row open.                   *)
RowsHeld(buffer, open) ==
  \A i \in DOMAIN buffer : buffer[i].address.row \in open[buffer[i].address.bank]

LEMMA RemovalKeepsRows ==
  ASSUME NEW s \in Seq(TraceRequest), NEW i \in DOMAIN s, NEW open, RowsHeld(s, open)
  PROVE  RowsHeld(RemoveAt(s, i), open)
<1>1. DOMAIN s = 1..Len(s) /\ Len(s) \in Nat
  OBVIOUS
<1>2. /\ DOMAIN RemoveAt(s, i) = 1..(Len(s) - 1)
      /\ \A k \in 1..(Len(s) - 1) : RemoveAt(s, i)[k] = s[IF k < i THEN k ELSE k + 1]
  BY RemoveAtElements
<1>3. \A k \in 1..(Len(s) - 1) : (IF k < i THEN k ELSE k + 1) \in DOMAIN s
  BY <1>1
<1>. QED  BY <1>2, <1>3 DEF RowsHeld

LEMMA AppendKeepsRows ==
  ASSUME NEW s \in Seq(TraceRequest), NEW r \in TraceRequest, NEW open,
         RowsHeld(s, open), r.address.row \in open[r.address.bank]
  PROVE  RowsHeld(Append(s, r), open)
<1>1. DOMAIN s = 1..Len(s) /\ Len(s) \in Nat
  OBVIOUS
<1>2. /\ DOMAIN Append(s, r) = 1..(Len(s) + 1) /\ Append(s, r)[Len(s) + 1] = r
      /\ \A k \in 1..Len(s) : Append(s, r)[k] = s[k]
  BY AppendElements
<1>3. \A k \in 1..(Len(s) + 1) : k \in 1..Len(s) \/ k = Len(s) + 1
  BY <1>1
<1>. QED  BY <1>1, <1>2, <1>3 DEF RowsHeld

LEMMA IssueKeepsRows ==
  ASSUME LoadsOnly, TypeOK, queues["priority"] = <<>>, RowsHeld(queues["active"], rows),
         NEW q, NEW name, NEW i, Serving(q, name, i),
         NEW forPim, NEW served, Issue(q, name, i, forPim, served)
  PROVE  RowsHeld(queues'["active"], rows')
<1> DEFINE r == q[name][i]
           c == Command(r)
           b == r.address.bank
           rest == RestOfActive(q, name, i)
<1>1. QueuesOK(q) /\ name \in QueueNames /\ i \in DOMAIN q[name]
      /\ q["active"] = queues["active"] /\ q["priority"] = queues["priority"]
  BY DEF Serving
<1>2. r \in TraceRequest /\ r.type \in {"Read", "Write"} /\ b \in Banks
  <2>1. name # "priority" /\ r \in Entries(name)
    BY <1>1 DEF QueuesOK
  <2>. QED  BY <1>1, <2>1, QueuedRequest DEF LoadsOnly, Address
<1>3. c \in {Final(r), "ACT", "PRE"} /\ Final(r) \in {"RD", "WR"}
  BY <1>2, LoadCommand
<1>4. q["active"] \in Seq(TraceRequest) /\ RowsHeld(q["active"], rows)
      /\ \A k \in DOMAIN q["active"] : q["active"][k].address.bank \in Banks
  BY <1>1, ActiveLoads DEF Address
<1>5. rest \in Seq(TraceRequest) /\ RowsHeld(rest, rows)
      /\ \A k \in DOMAIN rest : rest[k].address.bank \in Banks
  <2>1. rest \in Seq(TraceRequest) /\ RowsHeld(rest, rows)
    BY <1>1, <1>4, RemoveAtKeepsType, RemovalKeepsRows DEF RestOfActive
  <2>2. \A k \in DOMAIN rest : rest[k] \in TraceRequest
    BY <2>1
  <2>. QED  BY <2>1, <2>2 DEF TraceRequest, Address
<1>6. CASE Interrupts(r)
  <2>1. queues' = q /\ rows' = rows
    BY <1>6 DEF Issue, PassSlot, deviceVars
  <2>. QED  BY <1>4, <2>1
<1>7. CASE ~Interrupts(r)
  <2>1. rows' = AfterCommand(c, r.address) /\ Reach(c, b) = {b}
    <3>1. rows' = AfterCommand(c, r.address)
      BY <1>7 DEF Issue, IssueCommand, Command
    <3>. QED  BY <1>3, <3>1 DEF Reach
  <2>2. \A d \in Banks \ {b} : rows'[d] = rows[d]
    BY <2>1 DEF AfterCommand
  <2>3. c # "PRE" => rows[b] \subseteq rows'[b]
    BY <1>2, <1>3, <2>1 DEF AfterCommand, Closing, Opening
  <2>4. c \in Opening => r.address.row \in rows'[b]
    BY <1>2, <2>1 DEF AfterCommand
  <2>5. c = "PRE" => NoneOfBank(q["active"], b) /\ name # "active"
    BY <1>1, <1>7 DEF Interrupts, Closing, NoneOfBank
  <2> HIDE DEF r, c, b, rest
  <2>6. c = "PRE" => NoneOfBank(rest, b)
    BY <2>5 DEF rest, RestOfActive
  <2>7. RowsHeld(q["active"], rows') /\ RowsHeld(rest, rows')
    <3>1. CASE c # "PRE"
      BY <1>4, <1>5, <2>2, <2>3, <3>1 DEF RowsHeld
    <3>2. CASE c = "PRE"
      BY <1>4, <1>5, <2>2, <2>5, <2>6, <3>2 DEF RowsHeld, NoneOfBank
    <3>. QED  BY <3>1, <3>2
  <2>8. c \in Opening => RowsHeld(Append(rest, r), rows')
    BY <1>2, <1>5, <2>4, <2>7, AppendKeepsRows DEF b
  <2>. QED  BY <1>1, <2>7, <2>8, ActiveAfterIssue DEF r, c, rest
<1>. QED  BY <1>6, <1>7

(* Without a refresh manager (no_refresh.cpp) it holds in every organization:*)
(* only the bank of no active request is opened or closed for another one.  *)
THEOREM OneRequestPerBankUnrefreshed ==
  ASSUME LoadsOnly, RefreshOn = FALSE
  PROVE  Spec => []ActiveOnePerBank
<1> DEFINE I == /\ TypeOK /\ ActiveOnePerBank
                /\ queues["priority"] = <<>> /\ RowsHeld(queues["active"], rows)
<1>1. Init => I
  BY InitHasTypes DEF Init, QueueNames, ActiveOnePerBank, RowsHeld
<1>2. I /\ [Next]_vars => I'
  <2> SUFFICES ASSUME I, [Next]_vars
               PROVE  /\ ActiveOnePerBank' /\ queues'["priority"] = <<>>
                      /\ RowsHeld(queues'["active"], rows')
    BY StepKeepsTypes
  <2>1. OnePerBank(queues["active"])
    BY DEF ActiveOnePerBank, OnePerBank
  <2>2. CASE Slot
    <3>1. ASSUME NEW q, NEW name, NEW i, NEW forPim, NEW served,
                 Serving(q, name, i), Issue(q, name, i, forPim, served)
          PROVE  OnePerBank(queues'["active"]) /\ RowsHeld(queues'["active"], rows')
      <4>1. QueuesOK(q) /\ name \in QueueNames /\ i \in DOMAIN q[name]
            /\ q["active"] = queues["active"]
        BY <3>1 DEF Serving
      <4>2. ASSUME Command(q[name][i]) \in Opening
            PROVE  name # "priority" /\ NoneOfBank(q["active"], q[name][i].address.bank)
        <5>1. name # "priority" /\ rows[q[name][i].address.bank] = {}
          BY <3>1, <4>2, MoverIsLoad
        <5>2. RowsHeld(q["active"], rows)
          BY <4>1
        <5>. QED  BY <5>1, <5>2 DEF RowsHeld, NoneOfBank
      <4>3. OnePerBank(queues'["active"])
        BY <2>1, <3>1, <4>1, <4>2, IssueKeepsBanks
      <4>. QED  BY <3>1, <4>3, IssueKeepsRows
    <3>2. ASSUME ~ActiveChosen, queues'["active"] = queues["active"], NEW kinds, PassSlot(kinds)
          PROVE  OnePerBank(queues'["active"]) /\ RowsHeld(queues'["active"], rows')
      BY <2>1, <3>2 DEF PassSlot, deviceVars
    <3>3. queues'["priority"] = <<>>
      BY <2>2, SlotAddsNoRefresh
    <3>. QED  BY <2>2, <3>1, <3>2, <3>3, SlotServesOrPasses DEF ActiveOnePerBank, OnePerBank
  <2>3. CASE Tick \/ (\E m \in Traffic : Send(m)) \/ UNCHANGED vars
    <3>1. queues'["active"] = queues["active"] /\ rows' = rows
      BY <2>3, OtherStepsKeepActive
    <3>2. queues'["priority"] = <<>>
      <4>1. QueuesOK(queues) /\ "priority" \in QueueNames
        BY TypeOKSplits DEF ControllerTypeOK, QueueNames
      <4>2. CASE Tick
        BY <4>2 DEF Tick, RefreshTick
      <4>3. ASSUME NEW m \in Traffic, Send(m) PROVE queues'["priority"] = <<>>
        <5>1. QueueOf(m.type) # "priority"
          BY DEF QueueOf
        <5>2. queues' = queues \/ \E e : queues' = [queues EXCEPT ![QueueOf(m.type)] = Append(@, e)]
          BY <4>3 DEF Send
        <5>. QED  BY <4>1, <5>1, <5>2 DEF QueuesOK
      <4>4. CASE UNCHANGED vars
        BY <4>4 DEF vars, controllerVars
      <4>. QED  BY <2>3, <4>2, <4>3, <4>4
    <3>. QED  BY <2>1, <3>1, <3>2 DEF ActiveOnePerBank, OnePerBank
  <2>. QED  BY <2>2, <2>3 DEF Next
<1>3. I => ActiveOnePerBank
  OBVIOUS
<1> HIDE DEF I
<1>. QED  BY <1>1, <1>2, <1>3, PTL DEF Spec

=============================================================================
