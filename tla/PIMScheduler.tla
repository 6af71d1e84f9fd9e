---------------------------- MODULE PIMScheduler ----------------------------
(***************************************************************************)
(* pim_scheduler.cpp: which request of a buffer the controller tries next.  *)
(* A buffer is a sequence of requests in the order they were enqueued. A     *)
(* request is [id, type, address, arrive]; its `command` is not a field,     *)
(* since get_best_request recomputes it from the banks before each use.     *)
(***************************************************************************)
EXTENDS HBM3PIM

Final(r) == FinalCommand[r.type]
Command(r) == PreqCommand(Final(r), r.address)
Ready(r) == CheckReady(Command(r), r.address)
Hits(r) == RowBufferHit(Command(r), r.address)

(* A barrier at the head of the buffer is removed when it is met.          *)
PassBarrier(buffer) ==
  IF buffer # <<>> /\ Head(buffer).type = "BARRIER" THEN Tail(buffer) ELSE buffer

(* The banks for which some request of the buffer hits the open row.       *)
RowHitBanks(buffer) ==
  {buffer[i].address.bank : i \in {j \in DOMAIN buffer : Hits(buffer[j])}}

(* Whether compare(r, s) returns s: a ready request goes first, unless it    *)
(* would change the row of a bank that another request still hits; else    *)
(* the one that arrived first.                                             *)
Overtakes(s, r, hitBanks) ==
  IF Ready(r) # Ready(s)
  THEN Ready(s) /\ (Hits(s) \/ s.address.bank \notin hitBanks)
  ELSE s.arrive < r.arrive

(* Faulty: a barrier that is not at the head holds back nothing but itself.  *)
ConsideredPastBarrier(buffer, i) ==
  \/ buffer[i].type # "BARRIER"
  \/ Command(buffer[i]) \in Opening \cup Closing

(* A request behind a barrier is only considered for opening or closing     *)
(* its row. The barrier loop starts at the second request.                 *)
Considered(buffer, i) ==
  \/ \A j \in 2..i : buffer[j].type # "BARRIER"
  \/ Command(buffer[i]) \in Opening \cup Closing

(* The position get_best_request returns, for a buffer whose head barrier   *)
(* was passed; 0 stands for end().                                         *)
Best(buffer) ==
  LET hitBanks == RowHitBanks(buffer)
      best[i \in Nat] ==
        IF i <= 1 THEN i
        ELSE LET candidate == best[i - 1] IN
             IF /\ Considered(buffer, i)
                /\ Overtakes(buffer[i], buffer[candidate], hitBanks)
             THEN i ELSE candidate
  IN  best[Len(buffer)]

=============================================================================
